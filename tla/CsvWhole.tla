------------------------------ MODULE CsvWhole ------------------------------
(***************************************************************************)
(* What the reader promises: the records are those of the whole input,     *)
(* read byte after byte with one byte of look-ahead.  There is no buffer;  *)
(* CsvReader is shown to implement this specification.                     *)
(***************************************************************************)
EXTENDS CsvRecord

CONSTANT Inputs                 \* the files that may be read

VARIABLES
    input,      \* the bytes of the file
    consumed    \* how many of them the parser has used

wholeVars == <<input, consumed, recordVars>>

ByteAt(i) == IF i \in 1..Len(input) THEN input[i] ELSE NoByte

Init == input \in Inputs /\ consumed = 0 /\ InitRecord

Start == Call /\ UNCHANGED <<input, consumed>>

Parse ==
    LET b == ByteAt(consumed + 1)
        la == ByteAt(consumed + 2)
    IN  /\ consumed < Len(input)
        /\ OnByte(b, la)
        /\ consumed' = consumed + (IF TakesPair(b, la) THEN 2 ELSE 1)
        /\ UNCHANGED input

Finish == consumed = Len(input) /\ OnEnd /\ UNCHANGED <<input, consumed>>

Fail == ReadFails /\ UNCHANGED <<input, consumed>>

Next == Start \/ Parse \/ Finish \/ Fail

Spec == Init /\ [][Next]_wholeVars
=============================================================================
