----------------------------- MODULE MCHdrParse -----------------------------
(***************************************************************************)
(* HdrParse on values at and around each limit.                            *)
(***************************************************************************)
EXTENDS HdrParse, TLC

MCAnonymous == [text |-> "anonymous", length |-> 9, count |-> NotANumber]
MCUntagged == [text |-> "none", length |-> 4, count |-> NotANumber]

MCValues ==
    {MCAnonymous, MCUntagged,
     [text |-> "2 in 15 digits", length |-> 15, count |-> 2],
     [text |-> "0 in 16 digits", length |-> 16, count |-> 0],
     [text |-> "3 in 32 digits", length |-> 32, count |-> 3]}

\* Which block malloc returns makes no difference.
BlockSymmetry == Permutations(Blocks)
=============================================================================
