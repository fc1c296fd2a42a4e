---------------------------- MODULE MCLoginLimit ----------------------------
(***************************************************************************)
(* LoginLimit for a few threads.                                           *)
(***************************************************************************)
EXTENDS LoginLimit, TLC

\* Any two threads, and any two usernames, are alike.
Alike == Permutations(Threads) \cup Permutations(Names)
=============================================================================
