----------------------------- MODULE MCTaskApi -----------------------------
(***************************************************************************)
(* TaskApi for a few threads.                                              *)
(***************************************************************************)
EXTENDS TaskApi, TLC

\* Any two threads, and any two names, are alike.
Alike == Permutations(Threads) \cup Permutations(Names)
=============================================================================
