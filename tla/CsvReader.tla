----------------------------- MODULE CsvReader -----------------------------
(***************************************************************************)
(* csv-guard's streaming Reader: next_byte and peek_byte over a buffer     *)
(* that source.read refills with as many bytes as it pleases.  A record,   *)
(* a doubled quote or a CRLF may straddle two reads.                       *)
(***************************************************************************)
EXTENDS CsvRecord

CONSTANTS
    Inputs,         \* the files that may be read
    BufferBytes     \* READ_BUFFER_BYTES

ASSUME InputsAssumption == Inputs \subseteq Seq(Byte)
ASSUME BufferAssumption == BufferBytes \in Nat \ {0}

VARIABLES
    input,      \* the bytes of the file
    taken,      \* the file offset: bytes the reads have returned
    buffer,     \* the Vec; a short read leaves the old bytes behind it
    filled, position, exhausted,
    held        \* the byte next_byte returned, until the loop has acted on it

bufferVars == <<input, taken, buffer, filled, position, exhausted, held>>
vars == <<bufferVars, recordVars>>

Slots == 1..BufferBytes

TypeOK ==
    /\ input \in Inputs
    /\ taken \in 0..Len(input)
    /\ buffer \in [Slots -> Byte \cup {NoByte}]
    /\ filled \in 0..BufferBytes
    /\ position \in 0..filled
    /\ exhausted \in BOOLEAN
    /\ held \in Byte \cup {NoByte}
    /\ TypeOKRecord

Init ==
    /\ input \in Inputs
    /\ taken = 0 /\ filled = 0 /\ position = 0
    /\ buffer = [i \in Slots |-> NoByte]
    /\ exhausted = FALSE
    /\ held = NoByte
    /\ InitRecord

----------------------------------------------------------------------------
\* The loop needs a byte it has not read: the next one, or the one to peek at.
WantsByte == status = "reading" /\ (held = NoByte \/ Peeks(held))

\* A plausible slip: a refill does not rewind the position.
RefillKeepingPosition(n) ==
    /\ taken' = taken + n
    /\ buffer' = [i \in Slots |-> IF i <= n THEN input[taken + i] ELSE buffer[i]]
    /\ filled' = n
    /\ UNCHANGED position
\* source.read(&mut buffer) returned n bytes.
Refill(n) ==
    /\ taken' = taken + n
    /\ buffer' = [i \in Slots |-> IF i <= n THEN input[taken + i] ELSE buffer[i]]
    /\ filled' = n
    /\ position' = 0

\* A plausible slip: one read is made and the rest of the file is ignored.
ReadOnce ==
    /\ WantsByte /\ position = filled /\ ~exhausted /\ taken < Len(input)
    /\ \E n \in Slots : n <= Len(input) - taken /\ Refill(n)
    /\ exhausted' = TRUE
    /\ UNCHANGED <<input, held, recordVars>>
Read ==
    /\ WantsByte /\ position = filled /\ ~exhausted /\ taken < Len(input)
    /\ \E n \in Slots : n <= Len(input) - taken /\ Refill(n)
    /\ UNCHANGED <<input, exhausted, held, recordVars>>

\* A plausible slip: the end of the input is not remembered.
ReadNothingForgets ==
    /\ WantsByte /\ position = filled /\ taken = Len(input)
    /\ Refill(0)
    /\ UNCHANGED <<input, exhausted, held, recordVars>>
ReadNothing ==
    /\ WantsByte /\ position = filled /\ ~exhausted /\ taken = Len(input)
    /\ Refill(0)
    /\ exhausted' = TRUE
    /\ UNCHANGED <<input, held, recordVars>>

ReadError ==
    /\ WantsByte /\ position = filled /\ ~exhausted
    /\ ReadFails
    /\ UNCHANGED bufferVars

NextByte ==
    /\ status = "reading" /\ held = NoByte /\ position < filled
    /\ held' = buffer[position + 1]
    /\ position' = position + 1
    /\ UNCHANGED <<input, taken, buffer, filled, exhausted, recordVars>>

\* What peek_byte returns once it has no reason to read.
PeekByte == IF position < filled THEN buffer[position + 1] ELSE NoByte

\* A plausible slip: at the end of the buffer a peek sees the end of input.
ParseAtSeam ==
    /\ held # NoByte
    /\ LET la == IF Peeks(held) THEN PeekByte ELSE NoByte
       IN  /\ OnByte(held, la)
           /\ position' = position + (IF TakesPair(held, la) THEN 1 ELSE 0)
    /\ held' = NoByte
    /\ UNCHANGED <<input, taken, buffer, filled, exhausted>>
Parse ==
    /\ held # NoByte
    /\ Peeks(held) => position < filled \/ exhausted
    /\ LET la == IF Peeks(held) THEN PeekByte ELSE NoByte
       IN  /\ OnByte(held, la)
           /\ position' = position + (IF TakesPair(held, la) THEN 1 ELSE 0)
    /\ held' = NoByte
    /\ UNCHANGED <<input, taken, buffer, filled, exhausted>>

AtEnd ==
    /\ held = NoByte /\ position = filled /\ exhausted
    /\ OnEnd
    /\ UNCHANGED bufferVars

Start == Call /\ UNCHANGED bufferVars

Stopped == status \in {"end", "failed"} /\ UNCHANGED vars

\* The steps the program takes by itself; a read may also fail.
Progress == Start \/ Read \/ ReadNothing \/ NextByte \/ Parse \/ AtEnd

Next == Progress \/ ReadError \/ Stopped

Spec == Init /\ [][Next]_vars
FairSpec == Spec /\ WF_vars(Progress)

----------------------------------------------------------------------------
\* The bytes the parser has used: those read, less those still in the buffer
\* or held.
Consumed == (taken - filled) + position - (IF held = NoByte THEN 0 ELSE 1)

\* The window of the buffer that is still to be parsed is the window of the
\* file that ends at the offset of the last read: a record, a doubled quote or
\* a CRLF that straddles two reads is never misread (next_byte, peek_byte).
WindowInv ==
    /\ filled <= taken
    /\ \A i \in 1..filled : buffer[i] = input[taken - filled + i]
    /\ exhausted => taken = Len(input) /\ filled = 0
    /\ held # NoByte => Consumed + 1 \in DOMAIN input /\ held = input[Consumed + 1]

Whole == INSTANCE CsvWhole WITH consumed <- Consumed
WholeSpec == Whole!Spec

----------------------------------------------------------------------------
Grammar == INSTANCE CsvGrammar

Fields(records) == [k \in DOMAIN records |-> records[k].fields]

\* The lines that become records: a line that is one empty quoted field reads
\* like a blank one, unless it is the last and has no terminator.
Kept(s) ==
    {e \in Grammar!Lines(s) : e = Len(s) + 1 \/ Grammar!FieldsOf(s, e) # << << >> >>}

\* At the end of a well-formed file the records returned are the ones RFC 4180
\* defines, whatever the chunks were (next_record, take_utf8).
MatchesGrammar ==
    status = "end" /\ Grammar!WellFormed(input) =>
        Fields(output) = Grammar!RecordsOf(input, Kept(input))
============================================================================
