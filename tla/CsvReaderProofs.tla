-------------------------- MODULE CsvReaderProofs --------------------------
(***************************************************************************)
(* For every alphabet, every set of files and every buffer size: the       *)
(* reader's types, the buffer window, the refinement of CsvWhole, and the  *)
(* records it returns, of written files and of all that are well formed.   *)
(***************************************************************************)
EXTENDS CsvWriter, FiniteSetTheorems, SequenceTheorems, WellFoundedInduction, TLAPS

\* The lossy conversion of a field is a field again.
LEMMA TakeUtf8Type ==
    ASSUME NEW s \in Seq(Byte)
    PROVE  TakeUtf8(s) \in Seq(Byte)
<1>1. Replacement \in Byte
    BY BytesAssumption DEF Byte
<1>2. TakeUtf8(s) \in [1..Len(s) -> Byte]
    BY <1>1 DEF TakeUtf8
<1>3. Len(s) \in Nat
    OBVIOUS
<1> QED
    BY <1>2, <1>3, SeqDef

\* A returned record is a record.
LEMMA ReturnRecordType ==
    ASSUME TypeOKRecord, ReturnRecord
    PROVE  TypeOKRecord'
<1>1. TakeUtf8(field) \in Seq(Byte)
    BY TakeUtf8Type DEF TypeOKRecord
<1>2. Append(fields, TakeUtf8(field)) \in Seq(Seq(Byte))
    BY <1>1 DEF TypeOKRecord
<1>3. output' \in Seq([fields : Seq(Seq(Byte)), line : Nat])
    BY <1>2 DEF TypeOKRecord, ReturnRecord
<1>4. << >> \in Seq(Seq(Byte)) /\ << >> \in Seq(Byte)
    OBVIOUS
<1>5. fields' \in Seq(Seq(Byte)) /\ field' \in Seq(Byte)
    BY <1>4 DEF ReturnRecord, Leave
<1>6. status' \in {"idle", "reading", "end", "failed"}
    BY DEF TypeOKRecord, ReturnRecord, Leave
<1>7. in_quotes' \in BOOLEAN /\ saw_any' \in BOOLEAN
    BY DEF TypeOKRecord, ReturnRecord, Leave
<1>8. start_line' \in Nat /\ record_number' \in Nat /\ frames' \in Nat
    BY DEF TypeOKRecord, ReturnRecord, Leave
<1> QED
    BY <1>3, <1>5, <1>6, <1>7, <1>8 DEF TypeOKRecord

\* Every iteration of the loop keeps the types of the parse state.
LEMMA OnByteType ==
    ASSUME TypeOKRecord, NEW b \in Byte, NEW la, OnByte(b, la)
    PROVE  TypeOKRecord'
<1>0. Quote \in Byte
    BY DEF Byte, Special
<1>1. ASSUME NEW c \in Byte, Push(c) PROVE TypeOKRecord'
    BY <1>1 DEF TypeOKRecord, Push
<1>2. ASSUME NEW open \in BOOLEAN, SetQuotes(open) PROVE TypeOKRecord'
    BY <1>2 DEF TypeOKRecord, SetQuotes
<1>3. CASE QuotedData(b)
    BY <1>1, <1>3 DEF QuotedData
<1>4. CASE DoubledQuote(b, la)
    BY <1>0, <1>1, <1>4 DEF DoubledQuote
<1>5. CASE CloseQuote(b, la)
    BY <1>2, <1>5 DEF CloseQuote
<1>6. CASE OpenQuote(b)
    BY <1>2, <1>6 DEF OpenQuote
<1>7. CASE EndField(b)
    <2>1. TakeUtf8(field) \in Seq(Byte)
        BY TakeUtf8Type DEF TypeOKRecord
    <2> QED
        BY <1>7, <2>1 DEF TypeOKRecord, EndField
<1>8. CASE PlainData(b)
    BY <1>1, <1>8 DEF PlainData
<1>9. CASE BlankLine(b)
    <2>1. << >> \in Seq(Seq(Byte)) /\ << >> \in Seq(Byte)
        OBVIOUS
    <2>2. fields' \in Seq(Seq(Byte)) /\ field' \in Seq(Byte)
        BY <1>9, <2>1 DEF BlankLine, Enter
    <2>3. status' \in {"idle", "reading", "end", "failed"}
        BY <1>9 DEF TypeOKRecord, BlankLine, Enter
    <2>4. in_quotes' \in BOOLEAN /\ saw_any' \in BOOLEAN
        BY <1>9 DEF TypeOKRecord, BlankLine, Enter
    <2>5. start_line' \in Nat /\ record_number' \in Nat /\ frames' \in Nat
        BY <1>9 DEF TypeOKRecord, BlankLine, Enter
    <2>6. output' \in Seq([fields : Seq(Seq(Byte)), line : Nat])
        BY <1>9 DEF TypeOKRecord, BlankLine, Enter
    <2> QED
        BY <2>2, <2>3, <2>4, <2>5, <2>6 DEF TypeOKRecord
<1>10. CASE EndRecord(b)
    BY <1>10, ReturnRecordType DEF EndRecord
<1> QED
    BY <1>3, <1>4, <1>5, <1>6, <1>7, <1>8, <1>9, <1>10 DEF OnByte

\* A byte that is not followed by a peek is acted on in the same way whatever
\* comes after it.
LEMMA LookAheadOnlyAfterPeek ==
    ASSUME NEW b \in Byte, ~Peeks(b), NEW la, NEW lb, OnByte(b, la)
    PROVE  OnByte(b, lb) /\ ~TakesPair(b, la) /\ ~TakesPair(b, lb)
<1>1. ~TakesPair(b, la) /\ ~TakesPair(b, lb)
    BY DEF Peeks, TakesPair
<1>2. OnByte(b, lb)
    BY <1>1 DEF OnByte, DoubledQuote, CloseQuote
<1> QED
    BY <1>1, <1>2

\* CsvWhole's copy of the quoting state machine is this one: the refinement
\* mapping leaves its variables alone.
LEMMA SameMachine ==
    /\ \A b, la : OnByte(b, la) <=> Whole!OnByte(b, la)
    /\ \A b, la : TakesPair(b, la) <=> Whole!TakesPair(b, la)
    /\ Call <=> Whole!Call
    /\ OnEnd <=> Whole!OnEnd
    /\ ReadFails <=> Whole!ReadFails
    /\ InitRecord <=> Whole!InitRecord
<1>1. \A b, la : TakesPair(b, la) <=> Whole!TakesPair(b, la)
    BY DEF TakesPair, Whole!TakesPair
<1>2. ReturnRecord <=> Whole!ReturnRecord
    BY DEF ReturnRecord, Whole!ReturnRecord, Leave, Whole!Leave,
           TakeUtf8, Whole!TakeUtf8
<1>3. ASSUME NEW b, NEW la PROVE OnByte(b, la) <=> Whole!OnByte(b, la)
    <2>1. /\ QuotedData(b) <=> Whole!QuotedData(b)
          /\ DoubledQuote(b, la) <=> Whole!DoubledQuote(b, la)
          /\ PlainData(b) <=> Whole!PlainData(b)
        BY <1>1 DEF QuotedData, Whole!QuotedData, DoubledQuote, Whole!DoubledQuote,
                    PlainData, Whole!PlainData, Push, Whole!Push
    <2>2. /\ CloseQuote(b, la) <=> Whole!CloseQuote(b, la)
          /\ OpenQuote(b) <=> Whole!OpenQuote(b)
        BY <1>1 DEF CloseQuote, Whole!CloseQuote, OpenQuote, Whole!OpenQuote,
                    SetQuotes, Whole!SetQuotes
    <2>3. EndField(b) <=> Whole!EndField(b)
        BY DEF EndField, Whole!EndField, TakeUtf8, Whole!TakeUtf8
    <2>4. BlankLine(b) <=> Whole!BlankLine(b)
        BY DEF BlankLine, Whole!BlankLine, Enter, Whole!Enter
    <2>5. EndRecord(b) <=> Whole!EndRecord(b)
        BY <1>2 DEF EndRecord, Whole!EndRecord
    <2> QED
        BY <2>1, <2>2, <2>3, <2>4, <2>5 DEF OnByte, Whole!OnByte
<1>4. Call <=> Whole!Call
    BY DEF Call, Whole!Call, Enter, Whole!Enter
<1>5. OnEnd <=> Whole!OnEnd
    BY <1>2 DEF OnEnd, Whole!OnEnd, NoMoreRecords, Whole!NoMoreRecords,
                LastRecord, Whole!LastRecord, Leave, Whole!Leave
<1>6. ReadFails <=> Whole!ReadFails
    BY DEF ReadFails, Whole!ReadFails, Leave, Whole!Leave
<1>7. InitRecord <=> Whole!InitRecord
    BY DEF InitRecord, Whole!InitRecord
<1> QED
    BY <1>1, <1>3, <1>4, <1>5, <1>6, <1>7

----------------------------------------------------------------------------
IInv == TypeOK /\ WindowInv

LEMMA InitIInv == Init => IInv
<1> SUFFICES ASSUME Init PROVE IInv
    OBVIOUS
<1>1. input \in Seq(Byte) /\ Len(input) \in Nat
    BY InputsAssumption DEF Init
<1>2. << >> \in Seq(Seq(Byte)) /\ << >> \in Seq(Byte)
      /\ << >> \in Seq([fields : Seq(Seq(Byte)), line : Nat])
    OBVIOUS
<1>3. TypeOKRecord
    <2>1. fields \in Seq(Seq(Byte)) /\ field \in Seq(Byte)
        BY <1>2 DEF Init, InitRecord
    <2>2. output \in Seq([fields : Seq(Seq(Byte)), line : Nat])
        BY <1>2 DEF Init, InitRecord
    <2>3. status \in {"idle", "reading", "end", "failed"}
        BY DEF Init, InitRecord
    <2>4. in_quotes \in BOOLEAN /\ saw_any \in BOOLEAN
        BY DEF Init, InitRecord
    <2>5. start_line \in Nat /\ record_number \in Nat /\ frames \in Nat
        BY DEF Init, InitRecord
    <2> QED
        BY <2>1, <2>2, <2>3, <2>4, <2>5 DEF TypeOKRecord
<1>4. TypeOK
    <2>1. input \in Inputs /\ taken \in 0..Len(input)
        BY <1>1 DEF Init
    <2>2. filled \in 0..BufferBytes /\ position \in 0..filled
        BY BufferAssumption DEF Init
    <2>3. buffer \in [Slots -> Byte \cup {NoByte}]
        BY DEF Init
    <2>4. exhausted \in BOOLEAN /\ held \in Byte \cup {NoByte}
        BY DEF Init
    <2> QED
        BY <1>3, <2>1, <2>2, <2>3, <2>4 DEF TypeOK
<1>5. WindowInv
    BY DEF Init, WindowInv
<1> QED
    BY <1>4, <1>5 DEF IInv

\* The facts about the files that every step uses.
LEMMA InputType ==
    ASSUME TypeOK
    PROVE  /\ input \in Seq(Byte) /\ Len(input) \in Nat
           /\ \A i \in 1..Len(input) : input[i] \in Byte
           /\ taken \in Nat /\ filled \in Nat /\ position \in Nat
           /\ position <= filled /\ taken <= Len(input)
BY InputsAssumption, BufferAssumption DEF TypeOK

\* A read moves the window to the end of what has been read.
LEMMA RefillIInv ==
    ASSUME IInv, NEW n \in 0..BufferBytes, n <= Len(input) - taken,
           position = filled, Refill(n),
           exhausted' \in BOOLEAN,
           exhausted' => n = 0 /\ taken = Len(input),
           UNCHANGED <<input, held, recordVars>>
    PROVE  IInv' /\ Consumed' = Consumed
<1>1. input \in Seq(Byte) /\ Len(input) \in Nat
      /\ (\A i \in 1..Len(input) : input[i] \in Byte)
      /\ taken \in Nat /\ filled \in Nat /\ position \in Nat
      /\ position <= filled /\ taken <= Len(input)
    BY InputType DEF IInv
<1>2. n \in Nat /\ taken' = taken + n /\ filled' = n /\ position' = 0
    BY BufferAssumption DEF Refill
<1>3. buffer' \in [Slots -> Byte \cup {NoByte}]
    BY <1>1, <1>2, BufferAssumption DEF Refill, IInv, TypeOK, Slots
<1>4. \A i \in 1..n : buffer'[i] = input[taken + i]
    BY BufferAssumption DEF Refill, Slots
<1>5. Consumed' = Consumed
    BY <1>1, <1>2 DEF Consumed
<1>6. TypeOK'
    <2>1. input' \in Inputs /\ taken' \in 0..Len(input')
        BY <1>1, <1>2 DEF IInv, TypeOK
    <2>2. filled' \in 0..BufferBytes /\ position' \in 0..filled'
        BY <1>2
    <2>3. exhausted' \in BOOLEAN
        OBVIOUS
    <2>4. held' \in Byte \cup {NoByte}
        BY DEF IInv, TypeOK
    <2>5. TypeOKRecord'
        BY DEF IInv, TypeOK, TypeOKRecord, recordVars, locals
    <2> QED
        BY <1>3, <2>1, <2>2, <2>3, <2>4, <2>5 DEF TypeOK
<1>7. WindowInv'
    <2>1. filled' <= taken'
        BY <1>1, <1>2
    <2>2. \A i \in 1..filled' : buffer'[i] = input'[taken' - filled' + i]
        BY <1>1, <1>2, <1>4
    <2>3. exhausted' => taken' = Len(input') /\ filled' = 0
        BY <1>1, <1>2
    <2>4. held' # NoByte => Consumed' + 1 \in DOMAIN input' /\ held' = input'[Consumed' + 1]
        BY <1>5 DEF IInv, WindowInv
    <2> QED
        BY <2>1, <2>2, <2>3, <2>4 DEF WindowInv
<1> QED
    BY <1>5, <1>6, <1>7 DEF IInv

\* What the loop sees: the held byte is the next byte of the file, and when a
\* peek was due, its result is the byte after that one (or none at the end).
LEMMA HeldAndPeeked ==
    ASSUME IInv, held # NoByte, Peeks(held) => position < filled \/ exhausted
    PROVE  /\ Consumed \in Nat /\ Consumed < Len(input)
           /\ held \in Byte /\ held = input[Consumed + 1]
           /\ Peeks(held) =>
                PeekByte = (IF Consumed + 2 \in 1..Len(input)
                            THEN input[Consumed + 2] ELSE NoByte)
           /\ Peeks(held) /\ PeekByte # NoByte => position < filled
<1>1. input \in Seq(Byte) /\ Len(input) \in Nat
      /\ (\A i \in 1..Len(input) : input[i] \in Byte)
      /\ taken \in Nat /\ filled \in Nat /\ position \in Nat
      /\ position <= filled /\ taken <= Len(input)
    BY InputType DEF IInv
<1>2. Consumed + 1 \in DOMAIN input /\ held = input[Consumed + 1]
    BY DEF IInv, WindowInv
<1>3. Consumed \in Int /\ Consumed + 1 = (taken - filled) + position
    BY <1>1 DEF Consumed
<1>4. Consumed \in Nat /\ Consumed < Len(input) /\ held \in Byte
    BY <1>1, <1>2, <1>3
<1>5. ASSUME position < filled
      PROVE  buffer[position + 1] = input[Consumed + 2] /\ Consumed + 2 \in 1..Len(input)
    BY <1>1, <1>3, <1>4, <1>5 DEF IInv, WindowInv
<1>6. ASSUME exhausted, ~(position < filled)
      PROVE  Consumed + 2 \notin 1..Len(input)
    BY <1>1, <1>3, <1>4, <1>6 DEF IInv, WindowInv
<1> QED
    BY <1>2, <1>4, <1>5, <1>6 DEF PeekByte

\* next_byte takes a byte of the file out of the window.
LEMMA NextByteIInv ==
    ASSUME IInv, NextByte
    PROVE  IInv' /\ Consumed' = Consumed
<1>1. input \in Seq(Byte) /\ Len(input) \in Nat
      /\ (\A i \in 1..Len(input) : input[i] \in Byte)
      /\ taken \in Nat /\ filled \in Nat /\ position \in Nat
      /\ position <= filled /\ taken <= Len(input)
    BY InputType DEF IInv
<1>2. position < filled /\ position' = position + 1 /\ filled <= taken
    BY DEF NextByte, IInv, WindowInv
<1>3. held' = input[(taken - filled) + position + 1]
      /\ (taken - filled) + position + 1 \in 1..Len(input)
    BY <1>1, <1>2 DEF NextByte, IInv, WindowInv
<1>4. held' \in Byte /\ held' # NoByte
    BY <1>1, <1>3, BytesAssumption
<1>5. Consumed = (taken - filled) + position /\ Consumed' = Consumed
    BY <1>1, <1>2, <1>4 DEF NextByte, Consumed
<1>6. TypeOK'
    <2>1. TypeOKRecord'
        BY DEF NextByte, IInv, TypeOK, TypeOKRecord, recordVars, locals
    <2>2. position' \in 0..filled'
        BY <1>1, <1>2 DEF NextByte
    <2> QED
        BY <1>4, <2>1, <2>2 DEF NextByte, IInv, TypeOK
<1>7. WindowInv'
    BY <1>1, <1>3, <1>5 DEF NextByte, IInv, WindowInv
<1> QED
    BY <1>5, <1>6, <1>7 DEF IInv

\* The loop acts on the held byte, and consumes the peeked one with it or not.
LEMMA ParseIInv ==
    ASSUME IInv, Parse
    PROVE  /\ IInv'
           /\ Whole!Parse
<1>1. input \in Seq(Byte) /\ Len(input) \in Nat
      /\ taken \in Nat /\ filled \in Nat /\ position \in Nat
      /\ position <= filled /\ taken <= Len(input)
    BY InputType DEF IInv
<1>2. /\ Consumed \in Nat /\ Consumed < Len(input)
      /\ held \in Byte /\ held # NoByte /\ held = input[Consumed + 1]
      /\ Peeks(held) => PeekByte = (IF Consumed + 2 \in 1..Len(input)
                                    THEN input[Consumed + 2] ELSE NoByte)
      /\ Peeks(held) /\ PeekByte # NoByte => position < filled
    BY HeldAndPeeked DEF Parse
<1> DEFINE la == IF Peeks(held) THEN PeekByte ELSE NoByte
           wa == Whole!ByteAt(Consumed + 2)
<1>3. /\ OnByte(held, la)
      /\ position' = position + (IF TakesPair(held, la) THEN 1 ELSE 0)
      /\ held' = NoByte
      /\ UNCHANGED <<input, taken, buffer, filled, exhausted>>
    BY DEF Parse
<1>4. held = Whole!ByteAt(Consumed + 1)
    BY <1>1, <1>2 DEF Whole!ByteAt
<1>5. wa = (IF Consumed + 2 \in 1..Len(input) THEN input[Consumed + 2] ELSE NoByte)
    BY DEF Whole!ByteAt
<1>6. OnByte(held, wa) /\ (TakesPair(held, wa) <=> TakesPair(held, la))
    <2>1. CASE Peeks(held)
        BY <1>2, <1>3, <1>5, <2>1
    <2>2. CASE ~Peeks(held)
        BY <1>2, <1>3, <2>2, LookAheadOnlyAfterPeek
    <2> QED
        BY <2>1, <2>2
<1>7. TakesPair(held, la) => position < filled
    <2>1. TakesPair(held, la) => Peeks(held) /\ PeekByte # NoByte
        BY BytesAssumption DEF TakesPair, Peeks, Byte, Special
    <2> QED
        BY <1>2, <2>1
<1>8. Consumed' = Consumed + (IF TakesPair(held, wa) THEN 2 ELSE 1)
    BY <1>1, <1>2, <1>3, <1>6 DEF Consumed
<1>9. TypeOKRecord'
    BY <1>2, <1>3, OnByteType DEF IInv, TypeOK
<1>10. position' \in 0..filled'
    BY <1>1, <1>2, <1>3, <1>7 DEF IInv, WindowInv, Consumed
<1>11. TypeOK'
    BY <1>3, <1>9, <1>10 DEF IInv, TypeOK
<1>12. WindowInv'
    BY <1>3 DEF IInv, WindowInv
<1>13. Whole!Parse
    BY <1>2, <1>3, <1>4, <1>6, <1>8, SameMachine DEF Whole!Parse
<1> QED
    BY <1>11, <1>12, <1>13 DEF IInv

\* Asking for a record, the end of the input and a read error leave the buffer
\* alone.
LEMMA RecordOnlyIInv ==
    ASSUME IInv, UNCHANGED bufferVars, Call \/ OnEnd \/ ReadFails
    PROVE  IInv'
<1>1. << >> \in Seq(Seq(Byte)) /\ << >> \in Seq(Byte)
    OBVIOUS
<1>2. CASE Call
    <2>1. fields' \in Seq(Seq(Byte)) /\ field' \in Seq(Byte)
        BY <1>1, <1>2 DEF Call, Enter
    <2>2. status' \in {"idle", "reading", "end", "failed"}
        BY <1>2 DEF Call
    <2>3. in_quotes' \in BOOLEAN /\ saw_any' \in BOOLEAN
        BY <1>2 DEF Call, Enter
    <2>4. start_line' \in Nat /\ record_number' \in Nat /\ frames' \in Nat
        BY <1>2 DEF Call, Enter, IInv, TypeOK, TypeOKRecord
    <2>5. output' \in Seq([fields : Seq(Seq(Byte)), line : Nat])
        BY <1>2 DEF Call, IInv, TypeOK, TypeOKRecord
    <2>6. TypeOKRecord'
        BY <2>1, <2>2, <2>3, <2>4, <2>5 DEF TypeOKRecord
    <2> QED
        BY <2>6 DEF IInv, TypeOK, WindowInv, Consumed, bufferVars
<1>3. ASSUME NEW outcome \in {"end", "failed"}, Leave(outcome),
             UNCHANGED <<record_number, output>>
      PROVE  IInv'
    <2>1. fields' \in Seq(Seq(Byte)) /\ field' \in Seq(Byte)
        BY <1>1, <1>3 DEF Leave
    <2>2. status' \in {"idle", "reading", "end", "failed"}
        BY <1>3 DEF Leave
    <2>3. in_quotes' \in BOOLEAN /\ saw_any' \in BOOLEAN
        BY <1>3 DEF Leave
    <2>4. start_line' \in Nat /\ record_number' \in Nat /\ frames' \in Nat
        BY <1>3 DEF Leave, IInv, TypeOK, TypeOKRecord
    <2>5. output' \in Seq([fields : Seq(Seq(Byte)), line : Nat])
        BY <1>3 DEF IInv, TypeOK, TypeOKRecord
    <2>6. TypeOKRecord'
        BY <2>1, <2>2, <2>3, <2>4, <2>5 DEF TypeOKRecord
    <2> QED
        BY <2>6 DEF IInv, TypeOK, WindowInv, Consumed, bufferVars
<1>4. CASE ReturnRecord
    <2>1. TypeOKRecord'
        BY <1>4, ReturnRecordType DEF IInv, TypeOK
    <2> QED
        BY <2>1 DEF IInv, TypeOK, WindowInv, Consumed, bufferVars
<1> QED
    BY <1>2, <1>3, <1>4 DEF OnEnd, NoMoreRecords, LastRecord, ReadFails

\* Every step keeps the invariant, and is a step of CsvWhole or leaves its
\* variables unchanged.
LEMMA StepIInv ==
    ASSUME IInv, [Next]_vars
    PROVE  IInv' /\ [Whole!Next]_(Whole!wholeVars)
<1>1. input \in Seq(Byte) /\ Len(input) \in Nat
      /\ taken \in Nat /\ filled \in Nat /\ position \in Nat
      /\ position <= filled /\ taken <= Len(input)
    BY InputType DEF IInv
<1>2. ASSUME UNCHANGED <<input, recordVars>>, Consumed' = Consumed
      PROVE  UNCHANGED Whole!wholeVars
    BY <1>2 DEF Whole!wholeVars, Whole!recordVars, Whole!locals, recordVars, locals
<1>3. ASSUME UNCHANGED bufferVars
      PROVE  UNCHANGED <<input, Consumed>>
    BY <1>3 DEF bufferVars, Consumed
<1>4. CASE Start
    BY <1>3, <1>4, RecordOnlyIInv, SameMachine DEF Start, Whole!Start, Whole!Next
<1>5. CASE Read
    <2>1. PICK n \in Slots : n <= Len(input) - taken /\ Refill(n)
        BY <1>5 DEF Read
    <2>2. n \in 0..BufferBytes
        BY BufferAssumption DEF Slots
    <2>3. IInv' /\ Consumed' = Consumed
        BY <1>5, <2>1, <2>2, RefillIInv DEF Read, IInv, TypeOK
    <2> QED
        BY <1>2, <1>5, <2>3 DEF Read
<1>6. CASE ReadNothing
    <2>1. 0 \in 0..BufferBytes /\ 0 <= Len(input) - taken
        BY <1>1, BufferAssumption
    <2>2. IInv' /\ Consumed' = Consumed
        BY <1>6, <2>1, RefillIInv DEF ReadNothing
    <2> QED
        BY <1>2, <1>6, <2>2 DEF ReadNothing
<1>7. CASE ReadError
    BY <1>3, <1>7, RecordOnlyIInv, SameMachine DEF ReadError, Whole!Fail, Whole!Next
<1>8. CASE NextByte
    BY <1>2, <1>8, NextByteIInv DEF NextByte
<1>9. CASE Parse
    BY <1>9, ParseIInv DEF Whole!Next
<1>10. CASE AtEnd
    <2>1. Consumed = Len(input)
        BY <1>1, <1>10 DEF AtEnd, Consumed, IInv, WindowInv
    <2> QED
        BY <1>3, <1>10, <2>1, RecordOnlyIInv, SameMachine
           DEF AtEnd, Whole!Finish, Whole!Next
<1>11. CASE UNCHANGED vars
    <2>1. IInv'
        BY <1>11 DEF IInv, TypeOK, WindowInv, Consumed, TypeOKRecord,
                     vars, bufferVars, recordVars, locals
    <2> QED
        BY <1>2, <1>3, <1>11, <2>1 DEF vars, bufferVars
<1> QED
    BY <1>4, <1>5, <1>6, <1>7, <1>8, <1>9, <1>10, <1>11 DEF Next, Progress, Stopped

----------------------------------------------------------------------------
\* The inductive invariant holds in every reachable state.
THEOREM Invariance == Spec => []IInv
<1>1. Init => IInv
    BY InitIInv
<1>2. IInv /\ [Next]_vars => IInv'
    BY StepIInv
<1> QED
    BY <1>1, <1>2, PTL DEF Spec

\* Every variable keeps its type, for any files and any buffer size
\* (Reader::next_record, next_byte, peek_byte).
THEOREM TypeCorrect == Spec => []TypeOK
<1>1. IInv => TypeOK
    BY DEF IInv
<1> QED
    BY <1>1, Invariance, PTL

\* The buffer always shows the window of the file the offset says it shows, so
\* that no byte is lost, repeated or read stale at the seam of two reads.
THEOREM WindowFaithful == Spec => []WindowInv
<1>1. IInv => WindowInv
    BY DEF IInv
<1> QED
    BY <1>1, Invariance, PTL

\* The buffered reader implements the parser that sees the whole input: the
\* records do not depend on how the reads cut the file.
THEOREM ReaderImplementsWhole == Spec => WholeSpec
<1>1. Init => Whole!Init
    BY SameMachine DEF Init, Whole!Init, Consumed
<1>2. IInv /\ [Next]_vars => [Whole!Next]_(Whole!wholeVars)
    BY StepIInv
<1> QED
    BY <1>1, <1>2, Invariance, PTL DEF Spec, WholeSpec, Whole!Spec

----------------------------------------------------------------------------
(* Induction, and what flattening a sequence of sequences gives. *)

LEMMA Least ==
    ASSUME NEW S, S \subseteq Nat, NEW e \in S
    PROVE  \E i \in S : \A j \in S : i <= j
<1>1. IsWellFoundedOn(OpToRel(<, Nat), Nat)
    BY NatLessThanWellFounded
<1>2. PICK i \in S : \A j \in S : <<j, i>> \notin OpToRel(<, Nat)
    BY <1>1, WFMin
<1>3. \A j \in S : ~(j < i)
    BY <1>2 DEF OpToRel
<1> QED
    BY <1>3

\* Induction on the natural numbers, for a set of them.
LEMMA Upward ==
    ASSUME NEW T, 0 \in T, \A i \in Nat : i \in T => i + 1 \in T
    PROVE  \A i \in Nat : i \in T
<1> SUFFICES ASSUME NEW e \in Nat, e \notin T PROVE FALSE
    OBVIOUS
<1> DEFINE Bad == {i \in Nat : i \notin T}
<1>1. Bad \subseteq Nat /\ e \in Bad
    OBVIOUS
<1>2. PICK i \in Bad : \A j \in Bad : i <= j
    BY <1>1, Least
<1>3. i \in Nat /\ i \notin T /\ i # 0
    OBVIOUS
<1>4. i - 1 \in Nat /\ (i - 1) + 1 = i /\ ~(i <= i - 1)
    BY <1>3
<1>5. i - 1 \in T
    BY <1>2, <1>4
<1> QED
    BY <1>3, <1>4, <1>5

IsFlatten(seqs, g) ==
    g = [i \in 1..Len(seqs) |-> IF i = 1 THEN seqs[i] ELSE g[i-1] \o seqs[i]]

\* FlattenSeq is the last value of its recursion.
LEMMA FlattenIsLast ==
    ASSUME NEW seqs, Len(seqs) # 0, NEW g, IsFlatten(seqs, g)
    PROVE  \E h : IsFlatten(seqs, h) /\ FlattenSeq(seqs) = h[Len(seqs)]
<1> DEFINE h == CHOOSE f :
                    f = [i \in 1..Len(seqs) |-> IF i = 1 THEN seqs[i] ELSE f[i-1] \o seqs[i]]
<1>1. h = [i \in 1..Len(seqs) |-> IF i = 1 THEN seqs[i] ELSE h[i-1] \o seqs[i]]
    BY DEF IsFlatten
<1>2. FlattenSeq(seqs) = h[Len(seqs)]
    BY DEF FlattenSeq
<1> HIDE DEF h
<1> QED
    BY <1>1, <1>2 DEF IsFlatten

\* g is the recursion up to m.
FlattensTo(seqs, m, g) ==
    \A i \in 1..m : g[i] = IF i = 1 THEN seqs[i] ELSE g[i-1] \o seqs[i]

\* The recursion has a value at every index.
LEMMA FlattenExists ==
    ASSUME NEW S, NEW seqs \in Seq(Seq(S))
    PROVE  \E g : IsFlatten(seqs, g)
<1> DEFINE T == {m \in Nat : \E g : FlattensTo(seqs, m, g)}
<1>1. 0 \in T
    BY DEF FlattensTo
<1>2. ASSUME NEW m \in Nat, m \in T PROVE m + 1 \in T
    <2>1. PICK g : FlattensTo(seqs, m, g)
        BY <1>2
    <2> DEFINE last == IF m + 1 = 1 THEN seqs[m + 1] ELSE g[m] \o seqs[m + 1]
               h == [i \in 1..(m + 1) |-> IF i = m + 1 THEN last ELSE g[i]]
    <2>2. /\ h[m + 1] = last
          /\ \A i \in 1..m : h[i] = g[i]
        <3>1. m + 1 \in 1..(m + 1) /\ \A i \in 1..m : i \in 1..(m + 1) /\ i # m + 1
            OBVIOUS
        <3> HIDE DEF last
        <3> QED
            BY <3>1
    <2> HIDE DEF h
    <2>3. ASSUME NEW i \in 1..(m + 1)
          PROVE  h[i] = IF i = 1 THEN seqs[i] ELSE h[i-1] \o seqs[i]
        <3>1. i # 1 => i - 1 \in 1..m
            OBVIOUS
        <3>2. CASE i = m + 1
            <4>1. m + 1 # 1 => m \in 1..m /\ i - 1 = m
                BY <3>2
            <4> QED
                BY <2>2, <3>2, <4>1
        <3>3. CASE i # m + 1
            <4>1. i \in 1..m
                BY <3>3
            <4>2. g[i] = IF i = 1 THEN seqs[i] ELSE g[i-1] \o seqs[i]
                BY <2>1, <4>1 DEF FlattensTo
            <4>3. h[i] = g[i]
                BY <2>2, <4>1
            <4>4. CASE i = 1
                BY <4>2, <4>3, <4>4
            <4>5. CASE i # 1
                <5>1. h[i - 1] = g[i - 1]
                    BY <2>2, <3>1, <4>5
                <5> QED
                    BY <4>2, <4>3, <4>5, <5>1
            <4> QED
                BY <4>4, <4>5
        <3> QED
            BY <3>2, <3>3
    <2>4. FlattensTo(seqs, m + 1, h)
        BY <2>3 DEF FlattensTo
    <2> QED
        BY <2>4
<1>3. Len(seqs) \in Nat
    OBVIOUS
<1>4. Len(seqs) \in T
    <2> HIDE DEF T
    <2> QED
        BY <1>1, <1>2, <1>3, Upward
<1>5. PICK g : FlattensTo(seqs, Len(seqs), g)
    BY <1>4
<1> DEFINE f == [i \in 1..Len(seqs) |-> g[i]]
           F(v, i) == IF i = 1 THEN seqs[i] ELSE v[i-1] \o seqs[i]
<1>6. ASSUME NEW i \in 1..Len(seqs) PROVE f[i] = F(f, i)
    <2>1. f[i] = g[i] /\ (i # 1 => f[i - 1] = g[i - 1])
        BY <1>3
    <2>2. g[i] = F(g, i)
        BY <1>5 DEF FlattensTo
    <2> HIDE DEF f
    <2> QED
        BY <2>1, <2>2
<1>7. f = [i \in 1..Len(seqs) |-> f[i]]
    OBVIOUS
<1>8. f = [i \in 1..Len(seqs) |-> F(f, i)]
    <2> HIDE DEF f, F
    <2> QED
        BY <1>6, <1>7
<1> QED
    BY <1>8 DEF IsFlatten

\* Where each of the sequences starts in the flattened one.
IsStarts(seqs, start) ==
    /\ start \in [1..(Len(seqs) + 1) -> Nat]
    /\ start[1] = 0
    /\ start[Len(seqs) + 1] = Len(FlattenSeq(seqs))
    /\ \A i \in 1..Len(seqs) :
        /\ start[i + 1] = start[i] + Len(seqs[i])
        /\ start[i + 1] <= Len(FlattenSeq(seqs))
        /\ \A j \in 1..Len(seqs[i]) : FlattenSeq(seqs)[start[i] + j] = seqs[i][j]

Starts(seqs) == CHOOSE start : IsStarts(seqs, start)

\* The i-th value of the recursion holds the first i sequences, in order.
HoldsUpTo(seqs, h, at, i) ==
    \A j \in 1..i :
        /\ at[j + 1] = at[j] + Len(seqs[j])
        /\ at[j + 1] <= Len(h[i])
        /\ \A k \in 1..Len(seqs[j]) : h[i][at[j] + k] = seqs[j][k]

LEMMA NextHolds ==
    ASSUME NEW S, NEW s \in Seq(S), NEW t \in Seq(S), NEW i \in Nat \ {0}, NEW seqs, NEW h,
           seqs[i + 1] = t, h[i] = s, h[i + 1] = s \o t,
           \A j \in 1..i : seqs[j] \in Seq(S),
           NEW at, at[i + 1] = Len(s), at[i + 2] = Len(s \o t),
           \A j \in 1..i : at[j] \in Nat,
           HoldsUpTo(seqs, h, at, i)
    PROVE  HoldsUpTo(seqs, h, at, i + 1)
<1>1. /\ Len(s \o t) = Len(s) + Len(t) /\ Len(s) \in Nat /\ Len(t) \in Nat
      /\ \A p \in 1..Len(s) : (s \o t)[p] = s[p]
      /\ \A p \in 1..Len(t) : (s \o t)[Len(s) + p] = t[p]
    OBVIOUS
<1> SUFFICES ASSUME NEW j \in 1..(i + 1)
             PROVE  /\ at[j + 1] = at[j] + Len(seqs[j])
                    /\ at[j + 1] <= Len(h[i + 1])
                    /\ \A k \in 1..Len(seqs[j]) : h[i + 1][at[j] + k] = seqs[j][k]
    BY DEF HoldsUpTo
<1>2. CASE j = i + 1
    <2>1. at[j + 1] = Len(s \o t) /\ at[j] = Len(s) /\ seqs[j] = t
        <3>1. j + 1 = i + 2
            BY <1>2
        <3> QED
            BY <1>2, <3>1
    <2>2. \A k \in 1..Len(t) : (s \o t)[at[j] + k] = t[k]
        BY <1>1, <2>1
    <2> QED
        BY <1>1, <2>1, <2>2
<1>3. CASE j # i + 1
    <2>1. j \in 1..i
        BY <1>3
    <2>2. /\ at[j + 1] = at[j] + Len(seqs[j])
          /\ at[j + 1] <= Len(s)
          /\ \A k \in 1..Len(seqs[j]) : s[at[j] + k] = seqs[j][k]
        BY <2>1 DEF HoldsUpTo
    <2>3. at[j] \in Nat /\ Len(seqs[j]) \in Nat
        BY <2>1
    <2>4. \A k \in 1..Len(seqs[j]) : at[j] + k \in 1..Len(s)
        BY <2>2, <2>3, <1>1
    <2>5. \A k \in 1..Len(seqs[j]) : (s \o t)[at[j] + k] = seqs[j][k]
        BY <1>1, <2>2, <2>4
    <2>6. at[j + 1] <= Len(s \o t)
        BY <1>1, <2>2, <2>3
    <2> QED
        BY <2>2, <2>5, <2>6
<1> QED
    BY <1>2, <1>3

\* Flattening keeps every element of every sequence, in order.
LEMMA Flattened ==
    ASSUME NEW S, NEW seqs \in Seq(Seq(S))
    PROVE  FlattenSeq(seqs) \in Seq(S) /\ IsStarts(seqs, Starts(seqs))
<1>1. Len(seqs) \in Nat /\ \A i \in 1..Len(seqs) : seqs[i] \in Seq(S) /\ Len(seqs[i]) \in Nat
    OBVIOUS
<1> DEFINE n == Len(seqs)
<1>2. CASE n = 0
    <2>1. FlattenSeq(seqs) = seqs /\ seqs = << >>
        BY <1>2 DEF FlattenSeq
    <2>2. IsStarts(seqs, [i \in 1..1 |-> 0])
        BY <1>2, <2>1 DEF IsStarts
    <2>3. << >> \in Seq(S)
        OBVIOUS
    <2> QED
        BY <2>1, <2>2, <2>3 DEF Starts
<1>3. CASE n # 0
    <2>1. PICK h : IsFlatten(seqs, h) /\ FlattenSeq(seqs) = h[n]
        BY <1>3, FlattenExists, FlattenIsLast
    <2> DEFINE at == [i \in 1..(n + 1) |-> IF i = 1 THEN 0 ELSE Len(h[i - 1])]
    <2>2. /\ h[1] = seqs[1]
          /\ \A i \in Nat : i # 0 /\ i < n => h[i + 1] = h[i] \o seqs[i + 1]
        <3> DEFINE F(i) == IF i = 1 THEN seqs[i] ELSE h[i-1] \o seqs[i]
        <3>1. \A i \in 1..n : h[i] = F(i)
            <4> HIDE DEF F
            <4>1. h = [i \in 1..n |-> F(i)]
                BY <2>1 DEF IsFlatten, F
            <4> QED
                BY <4>1
        <3>2. ASSUME NEW i \in Nat, i # 0, i < n PROVE h[i + 1] = h[i] \o seqs[i + 1]
            <4>1. i + 1 \in 1..n /\ (i + 1) - 1 = i /\ i + 1 # 1
                BY <1>1, <3>2
            <4> QED
                BY <3>1, <4>1
        <3>3. 1 \in 1..n
            BY <1>1, <1>3
        <3> QED
            BY <3>1, <3>2, <3>3
    <2>3. at[1] = 0 /\ \A i \in 1..n : at[i + 1] = Len(h[i])
        BY <1>1
    <2>4. at = [i \in 1..(n + 1) |-> at[i]]
        OBVIOUS
    <2> HIDE DEF at
    <2> DEFINE T == {i \in Nat : i < n => /\ \A j \in 1..(i + 1) : h[j] \in Seq(S)
                                          /\ HoldsUpTo(seqs, h, at, i + 1)}
    <2>5. 0 \in T
        <3>1. 1 \in 1..n /\ h[1] \in Seq(S) /\ at[2] = Len(h[1])
            BY <1>1, <1>3, <2>2, <2>3
        <3>2. HoldsUpTo(seqs, h, at, 1)
            <4>1. \A j \in 1..1 : j = 1
                OBVIOUS
            <4>2. seqs[1] \in Seq(S) /\ Len(seqs[1]) \in Nat
                BY <1>1, <3>1
            <4>3. \A k \in 1..Len(seqs[1]) : 0 + k = k
                OBVIOUS
            <4> QED
                BY <2>2, <2>3, <3>1, <4>1, <4>2, <4>3 DEF HoldsUpTo
        <3>3. \A j \in 1..1 : h[j] \in Seq(S)
            BY <3>1
        <3> QED
            BY <3>2, <3>3
    <2>6. ASSUME NEW i \in Nat, i \in T PROVE i + 1 \in T
        <3> SUFFICES ASSUME i + 1 < n
                     PROVE  /\ \A j \in 1..(i + 2) : h[j] \in Seq(S)
                            /\ HoldsUpTo(seqs, h, at, i + 2)
            OBVIOUS
        <3>1. (\A j \in 1..(i + 1) : h[j] \in Seq(S)) /\ HoldsUpTo(seqs, h, at, i + 1)
            BY <2>6, <1>1
        <3>2. i + 1 \in Nat \ {0} /\ (i + 1) + 1 = i + 2 /\ (i + 1) + 2 = (i + 2) + 1
              /\ i + 2 \in 1..n /\ i + 1 \in 1..n
            BY <1>1
        <3>3. h[i + 2] = h[i + 1] \o seqs[i + 2]
            BY <2>2, <3>2
        <3>4. h[i + 1] \in Seq(S) /\ seqs[i + 2] \in Seq(S)
            BY <1>1, <3>1, <3>2
        <3>5. h[i + 2] \in Seq(S)
            BY <3>3, <3>4
        <3>6. \A j \in 1..(i + 2) : h[j] \in Seq(S)
            BY <3>1, <3>5
        <3>7. at[i + 2] = Len(h[i + 1]) /\ at[(i + 1) + 2] = Len(h[i + 2])
            BY <2>3, <3>2
        <3>8. \A j \in 1..(i + 1) : at[j] \in Nat
            <4> SUFFICES ASSUME NEW j \in 1..(i + 1) PROVE at[j] \in Nat
                OBVIOUS
            <4>1. CASE j = 1
                BY <2>3, <4>1
            <4>2. CASE j # 1
                <5>1. j - 1 \in 1..(i + 1) /\ j - 1 \in 1..n /\ (j - 1) + 1 = j
                    BY <4>2, <1>1
                <5>2. h[j - 1] \in Seq(S) /\ at[j] = Len(h[j - 1])
                    BY <2>3, <3>1, <5>1
                <5> QED
                    BY <5>2
            <4> QED
                BY <4>1, <4>2
        <3>9. \A j \in 1..(i + 1) : seqs[j] \in Seq(S)
            BY <1>1
        <3>10. HoldsUpTo(seqs, h, at, (i + 1) + 1)
            BY <3>1, <3>2, <3>3, <3>4, <3>7, <3>8, <3>9, NextHolds
        <3> QED
            BY <3>2, <3>6, <3>10
    <2>7. n - 1 \in T /\ n - 1 < n /\ (n - 1) + 1 = n
        <3>1. n - 1 \in Nat /\ n - 1 < n /\ (n - 1) + 1 = n
            BY <1>1, <1>3
        <3>2. \A i \in Nat : i \in T => i + 1 \in T
            BY <2>6
        <3> HIDE DEF T
        <3>3. \A i \in Nat : i \in T
            BY <2>5, <3>2, Upward
        <3> QED
            BY <3>1, <3>3
    <2>8. (\A j \in 1..n : h[j] \in Seq(S)) /\ HoldsUpTo(seqs, h, at, n)
        BY <2>7
    <2>9. at \in [1..(n + 1) -> Nat]
        <3>1. ASSUME NEW i \in 1..(n + 1) PROVE at[i] \in Nat
            <4>1. CASE i = 1
                BY <2>3, <4>1
            <4>2. CASE i # 1
                <5>1. i - 1 \in 1..n /\ (i - 1) + 1 = i
                    BY <4>2, <1>1
                <5>2. h[i - 1] \in Seq(S) /\ at[i] = Len(h[i - 1])
                    BY <2>3, <2>8, <5>1
                <5> QED
                    BY <5>2
            <4> QED
                BY <4>1, <4>2
        <3> QED
            BY <2>4, <3>1
    <2>10. n \in 1..n
        BY <1>1, <1>3
    <2>11. IsStarts(seqs, at)
        <3>1. at[n + 1] = Len(h[n])
            BY <2>3, <2>10
        <3> HIDE DEF T
        <3> QED
            BY <2>1, <2>3, <2>8, <2>9, <3>1 DEF IsStarts, HoldsUpTo
    <2> QED
        BY <2>1, <2>8, <2>10, <2>11 DEF Starts
<1> QED
    BY <1>2, <1>3

----------------------------------------------------------------------------
(* What write_record writes, byte by byte. *)

Text == Seq(Byte \ Invalid)

Parts(f) == [i \in DOMAIN f |-> EscapedByte(f[i])]
Cells(row) == [i \in DOMAIN row |-> WriteCell(row, i)]
Lines(rows) == [i \in DOMAIN rows |-> WriteRecord(rows[i])]

LEMMA BytesDiffer ==
    /\ Quote \in Byte /\ Delimiter \in Byte /\ LF \in Byte /\ CR \in Byte
    /\ Quote # Delimiter /\ Quote # CR /\ Quote # LF
    /\ Delimiter # CR /\ Delimiter # LF /\ CR # LF
    /\ \A b \in Byte : b \in Ordinary <=> b \notin {Quote, Delimiter, CR, LF}
BY BytesAssumption DEF Byte, Special

\* A text is a sequence of bytes that next_record may push, and it is valid
\* UTF-8: take_utf8 leaves it alone.
LEMMA TextBytes ==
    ASSUME NEW f \in Text
    PROVE  /\ f \in Seq(Byte) /\ Len(f) \in Nat /\ DOMAIN f = 1..Len(f)
           /\ \A i \in 1..Len(f) : f[i] \in Byte
           /\ TakeUtf8(f) = f
           /\ ~NeedsQuotes(f) => \A i \in 1..Len(f) : f[i] \in Ordinary
<1>1. f \in Seq(Byte \ Invalid)
    BY DEF Text
<1>2. f \in Seq(Byte)
    BY <1>1, SeqMonotonic
<1>3. Len(f) \in Nat /\ DOMAIN f = 1..Len(f) /\ f \in [1..Len(f) -> Byte \ Invalid]
    BY <1>1
<1>4. \A i \in 1..Len(f) : f[i] \in Byte /\ f[i] \notin Invalid
    BY <1>3
<1>5. TakeUtf8(f) = [i \in 1..Len(f) |-> f[i]]
    BY <1>3, <1>4 DEF TakeUtf8
<1>6. TakeUtf8(f) = f
    BY <1>3, <1>5
<1>7. ASSUME ~NeedsQuotes(f), NEW i \in 1..Len(f) PROVE f[i] \in Ordinary
    <2>1. f[i] \in ToSet(f)
        BY <1>3 DEF ToSet
    <2>2. f[i] \notin {Quote, Delimiter, LF, CR}
        BY <1>7, <2>1 DEF NeedsQuotes
    <2> QED
        BY <1>4, <2>2, BytesDiffer
<1> QED
    BY <1>2, <1>3, <1>4, <1>6, <1>7

\* An escaped field holds each of its bytes once, and a quote twice.
LEMMA EscapedBytes ==
    ASSUME NEW f \in Text
    PROVE  /\ Escaped(f) \in Seq(Byte)
           /\ Starts(Parts(f)) \in [1..(Len(f) + 1) -> Nat]
           /\ Starts(Parts(f))[1] = 0
           /\ Starts(Parts(f))[Len(f) + 1] = Len(Escaped(f))
           /\ \A k \in 1..Len(f) :
                LET at == Starts(Parts(f))[k]
                    next == Starts(Parts(f))[k + 1]
                IN  /\ next <= Len(Escaped(f))
                    /\ Escaped(f)[at + 1] = f[k]
                    /\ f[k] # Quote => next = at + 1
                    /\ f[k] = Quote => next = at + 2 /\ Escaped(f)[at + 2] = Quote
<1>1. Len(f) \in Nat /\ DOMAIN f = 1..Len(f) /\ \A i \in 1..Len(f) : f[i] \in Byte
    BY TextBytes
<1>2. ASSUME NEW b \in Byte PROVE EscapedByte(b) \in Seq(Byte)
    BY <1>2, BytesDiffer DEF EscapedByte
<1>3. Parts(f) \in [1..Len(f) -> Seq(Byte)]
    BY <1>1, <1>2 DEF Parts
<1>4. Parts(f) \in Seq(Seq(Byte)) /\ Len(Parts(f)) = Len(f)
    BY <1>1, <1>3
<1>5. Escaped(f) = FlattenSeq(Parts(f))
    BY DEF Escaped, Parts
<1>6. Escaped(f) \in Seq(Byte) /\ IsStarts(Parts(f), Starts(Parts(f)))
    BY <1>4, <1>5, Flattened
<1> DEFINE E == Starts(Parts(f))
<1> HIDE DEF E
<1>7. /\ E \in [1..(Len(f) + 1) -> Nat] /\ E[1] = 0 /\ E[Len(f) + 1] = Len(Escaped(f))
      /\ \A k \in 1..Len(f) :
            /\ E[k + 1] = E[k] + Len(Parts(f)[k])
            /\ E[k + 1] <= Len(Escaped(f))
            /\ \A j \in 1..Len(Parts(f)[k]) : Escaped(f)[E[k] + j] = Parts(f)[k][j]
    BY <1>4, <1>5, <1>6 DEF IsStarts, E
<1>8. ASSUME NEW k \in 1..Len(f)
      PROVE  /\ E[k + 1] <= Len(Escaped(f))
             /\ Escaped(f)[E[k] + 1] = f[k]
             /\ f[k] # Quote => E[k + 1] = E[k] + 1
             /\ f[k] = Quote => E[k + 1] = E[k] + 2 /\ Escaped(f)[E[k] + 2] = Quote
    <2>1. Parts(f)[k] = EscapedByte(f[k])
        BY <1>1 DEF Parts
    <2>2. CASE f[k] = Quote
        <3>1. Parts(f)[k] = <<Quote, Quote>>
            BY <2>1, <2>2 DEF EscapedByte
        <3>2. /\ Len(Parts(f)[k]) = 2
              /\ Parts(f)[k][1] = Quote /\ Parts(f)[k][2] = Quote
              /\ 1 \in 1..Len(Parts(f)[k]) /\ 2 \in 1..Len(Parts(f)[k])
            BY <3>1
        <3> QED
            BY <1>7, <2>2, <3>2
    <2>3. CASE f[k] # Quote
        <3>1. Parts(f)[k] = <<f[k]>>
            BY <2>1, <2>3 DEF EscapedByte
        <3>2. Len(Parts(f)[k]) = 1 /\ Parts(f)[k][1] = f[k] /\ 1 \in 1..Len(Parts(f)[k])
            BY <3>1
        <3> QED
            BY <1>7, <2>3, <3>2
    <2> QED
        BY <2>2, <2>3
<1> QED
    BY <1>6, <1>7, <1>8 DEF E

\* A written field is itself, or its escaped bytes between two quotes.
LEMMA FieldBytesWritten ==
    ASSUME NEW f \in Text
    PROVE  /\ WriteField(f) \in Seq(Byte)
           /\ Len(WriteField(f)) \in Nat
           /\ ~NeedsQuotes(f) => WriteField(f) = f
           /\ NeedsQuotes(f) =>
                /\ Len(WriteField(f)) = Len(Escaped(f)) + 2
                /\ WriteField(f)[1] = Quote
                /\ WriteField(f)[Len(Escaped(f)) + 2] = Quote
                /\ \A j \in 1..Len(Escaped(f)) : WriteField(f)[1 + j] = Escaped(f)[j]
<1>1. f \in Seq(Byte) /\ Escaped(f) \in Seq(Byte) /\ Quote \in Byte
    BY TextBytes, EscapedBytes, BytesDiffer
<1>2. ASSUME NEW s \in Seq(Byte), NEW q \in Byte
      PROVE  /\ <<q>> \o s \o <<q>> \in Seq(Byte)
             /\ Len(<<q>> \o s \o <<q>>) = Len(s) + 2
             /\ (<<q>> \o s \o <<q>>)[1] = q
             /\ (<<q>> \o s \o <<q>>)[Len(s) + 2] = q
             /\ \A j \in 1..Len(s) : (<<q>> \o s \o <<q>>)[1 + j] = s[j]
    OBVIOUS
<1>3. CASE NeedsQuotes(f)
    <2>1. WriteField(f) = <<Quote>> \o Escaped(f) \o <<Quote>>
        BY <1>3 DEF WriteField
    <2>2. Len(Escaped(f)) \in Nat
        BY <1>1
    <2> QED
        BY <1>1, <1>2, <1>3, <2>1, <2>2
<1>4. CASE ~NeedsQuotes(f)
    BY <1>1, <1>4 DEF WriteField
<1> QED
    BY <1>3, <1>4

Gap(c) == IF c > 1 THEN 1 ELSE 0

\* A record is its fields, each with the delimiter or the line feed after it.
LEMMA RecordBytes ==
    ASSUME NEW row \in Seq(Text), row # << >>
    PROVE  /\ WriteRecord(row) \in Seq(Byte)
           /\ Starts(Cells(row)) \in [1..(Len(row) + 1) -> Nat]
           /\ Starts(Cells(row))[1] = 0
           /\ \A c \in 1..Len(row) :
                LET at == Starts(Cells(row))[c] + Gap(c)
                    w == WriteField(row[c])
                IN  /\ at + Len(w) + 1 <= Len(WriteRecord(row))
                    /\ \A j \in 1..Len(w) : WriteRecord(row)[at + j] = w[j]
                    /\ c < Len(row) =>
                        /\ WriteRecord(row)[at + Len(w) + 1] = Delimiter
                        /\ Starts(Cells(row))[c + 1] = at + Len(w)
                    /\ c = Len(row) =>
                        /\ WriteRecord(row)[at + Len(w) + 1] = LF
                        /\ Len(WriteRecord(row)) = at + Len(w) + 1
<1>1. Len(row) \in Nat \ {0} /\ DOMAIN row = 1..Len(row) /\ \A c \in 1..Len(row) : row[c] \in Text
    OBVIOUS
<1>2. \A c \in 1..Len(row) : WriteField(row[c]) \in Seq(Byte)
    BY <1>1, FieldBytesWritten
<1>3. ASSUME NEW w \in Seq(Byte)
      PROVE  /\ <<Delimiter>> \o w \in Seq(Byte) /\ Len(<<Delimiter>> \o w) = 1 + Len(w)
             /\ (<<Delimiter>> \o w)[1] = Delimiter
             /\ \A j \in 1..Len(w) : (<<Delimiter>> \o w)[1 + j] = w[j]
             /\ << >> \o w = w
    BY BytesDiffer
<1>4. ASSUME NEW c \in 1..Len(row)
      PROVE  /\ WriteCell(row, c) \in Seq(Byte)
             /\ Len(WriteCell(row, c)) = Gap(c) + Len(WriteField(row[c]))
             /\ c > 1 => WriteCell(row, c)[1] = Delimiter
             /\ \A j \in 1..Len(WriteField(row[c])) :
                    WriteCell(row, c)[Gap(c) + j] = WriteField(row[c])[j]
    <2>1. WriteField(row[c]) \in Seq(Byte) /\ Len(WriteField(row[c])) \in Nat
        BY <1>2
    <2>2. CASE c > 1
        <3>1. WriteCell(row, c) = <<Delimiter>> \o WriteField(row[c]) /\ Gap(c) = 1
            BY <2>2 DEF WriteCell, Gap
        <3> QED
            BY <1>3, <2>1, <3>1
    <2>3. CASE ~(c > 1)
        <3>1. WriteCell(row, c) = << >> \o WriteField(row[c]) /\ Gap(c) = 0
            BY <2>3 DEF WriteCell, Gap
        <3>2. WriteCell(row, c) = WriteField(row[c])
            BY <1>3, <2>1, <3>1
        <3>3. \A j \in 1..Len(WriteField(row[c])) : 0 + j = j
            OBVIOUS
        <3> QED
            BY <2>1, <2>3, <3>1, <3>2, <3>3
    <2> QED
        BY <2>2, <2>3
<1>5. Cells(row) \in [1..Len(row) -> Seq(Byte)]
    BY <1>1, <1>4 DEF Cells
<1>6. Cells(row) \in Seq(Seq(Byte)) /\ Len(Cells(row)) = Len(row)
    BY <1>1, <1>5
<1> DEFINE flat == FlattenSeq(Cells(row))
           C == Starts(Cells(row))
<1>7. WriteRecord(row) = flat \o <<LF>>
    BY DEF WriteRecord, Cells
<1>8. flat \in Seq(Byte) /\ IsStarts(Cells(row), C)
    BY <1>6, Flattened
<1> HIDE DEF flat, C
<1>9. /\ WriteRecord(row) \in Seq(Byte)
      /\ Len(WriteRecord(row)) = Len(flat) + 1
      /\ \A p \in 1..Len(flat) : WriteRecord(row)[p] = flat[p]
      /\ WriteRecord(row)[Len(flat) + 1] = LF
      /\ Len(flat) \in Nat
    <2>1. ASSUME NEW s \in Seq(Byte), NEW b \in Byte
          PROVE  /\ s \o <<b>> \in Seq(Byte) /\ Len(s \o <<b>>) = Len(s) + 1
                 /\ \A p \in 1..Len(s) : (s \o <<b>>)[p] = s[p]
                 /\ (s \o <<b>>)[Len(s) + 1] = b
                 /\ Len(s) \in Nat
        OBVIOUS
    <2> QED
        BY <1>7, <1>8, <2>1, BytesDiffer
<1>10. /\ C \in [1..(Len(row) + 1) -> Nat] /\ C[1] = 0 /\ C[Len(row) + 1] = Len(flat)
       /\ \A c \in 1..Len(row) :
            /\ C[c + 1] = C[c] + Len(WriteCell(row, c))
            /\ C[c + 1] <= Len(flat)
            /\ \A j \in 1..Len(WriteCell(row, c)) : flat[C[c] + j] = WriteCell(row, c)[j]
    <2>1. \A c \in 1..Len(row) : Cells(row)[c] = WriteCell(row, c)
        BY <1>1 DEF Cells
    <2> QED
        BY <1>6, <1>8, <2>1 DEF IsStarts, flat
<1>11. ASSUME NEW c \in 1..Len(row)
       PROVE  /\ C[c] \in Nat /\ C[c + 1] \in Nat /\ Gap(c) \in {0, 1}
              /\ Len(WriteField(row[c])) \in Nat
              /\ C[c + 1] = C[c] + Gap(c) + Len(WriteField(row[c]))
    <2>1. c \in 1..(Len(row) + 1) /\ c + 1 \in 1..(Len(row) + 1)
        BY <1>1
    <2>2. Gap(c) \in {0, 1}
        BY DEF Gap
    <2>3. Len(WriteField(row[c])) \in Nat
        BY <1>2
    <2>4. C[c] \in Nat /\ C[c + 1] \in Nat
        BY <1>10, <2>1
    <2>5. C[c + 1] = C[c] + Len(WriteCell(row, c))
        BY <1>10
    <2>6. Len(WriteCell(row, c)) = Gap(c) + Len(WriteField(row[c]))
        BY <1>4
    <2>7. C[c + 1] = C[c] + Gap(c) + Len(WriteField(row[c]))
        BY <2>2, <2>3, <2>4, <2>5, <2>6
    <2> QED
        BY <2>2, <2>3, <2>4, <2>7
<1>12. ASSUME NEW c \in 1..Len(row)
       PROVE  LET at == C[c] + Gap(c)
                  w == WriteField(row[c])
              IN  /\ at + Len(w) + 1 <= Len(WriteRecord(row))
                  /\ \A j \in 1..Len(w) : WriteRecord(row)[at + j] = w[j]
                  /\ c < Len(row) =>
                      /\ WriteRecord(row)[at + Len(w) + 1] = Delimiter
                      /\ C[c + 1] = at + Len(w)
                  /\ c = Len(row) =>
                      /\ WriteRecord(row)[at + Len(w) + 1] = LF
                      /\ Len(WriteRecord(row)) = at + Len(w) + 1
    <2> DEFINE at == C[c] + Gap(c)
               w == WriteField(row[c])
    <2>0. /\ C[c] \in Nat /\ C[c + 1] \in Nat /\ Gap(c) \in {0, 1} /\ Len(w) \in Nat
          /\ C[c + 1] = C[c] + Gap(c) + Len(w) /\ C[c + 1] <= Len(flat)
          /\ Len(WriteCell(row, c)) = Gap(c) + Len(w)
        <3>1. C[c + 1] <= Len(flat)
            BY <1>10
        <3>2. Len(WriteCell(row, c)) = Gap(c) + Len(w)
            BY <1>4
        <3> QED
            BY <1>11, <3>1, <3>2
    <2>1. at \in Nat /\ Len(w) \in Nat /\ C[c + 1] = at + Len(w) /\ C[c + 1] <= Len(flat)
        <3> HIDE DEF w
        <3> QED
            BY <2>0
    <2>2. ASSUME NEW j \in 1..Len(w) PROVE WriteRecord(row)[at + j] = w[j]
        <3>1. Gap(c) + j \in 1..Len(WriteCell(row, c))
            <4> HIDE DEF w, at
            <4> QED
                BY <2>0
        <3>2. flat[C[c] + (Gap(c) + j)] = WriteCell(row, c)[Gap(c) + j]
            BY <1>10, <3>1
        <3>3. C[c] + (Gap(c) + j) = at + j /\ at + j \in 1..Len(flat)
            <4>1. j \in Nat \ {0} /\ j <= Len(w) /\ Len(flat) \in Nat
                BY <1>9, <2>1
            <4>2. C[c] + (Gap(c) + j) = at + j
                BY <2>0, <4>1
            <4> HIDE DEF w, at
            <4> QED
                BY <2>0, <2>1, <4>1, <4>2
        <3>4. WriteCell(row, c)[Gap(c) + j] = w[j]
            BY <1>4
        <3> HIDE DEF at, w
        <3> QED
            BY <1>9, <3>2, <3>3, <3>4
    <2>3. ASSUME c < Len(row) PROVE WriteRecord(row)[at + Len(w) + 1] = Delimiter
        <3>1. c + 1 \in 1..Len(row) /\ c + 1 > 1
            BY <2>3, <1>1
        <3>2. WriteCell(row, c + 1)[1] = Delimiter /\ Gap(c + 1) = 1
            BY <1>4, <3>1 DEF Gap
        <3> DEFINE v == Len(WriteField(row[c + 1]))
        <3>3. v \in Nat /\ Len(WriteCell(row, c + 1)) = 1 + v /\ C[c + 1] \in Nat
              /\ C[(c + 1) + 1] = C[c + 1] + 1 + v /\ C[(c + 1) + 1] <= Len(flat)
            <4>1. Len(WriteCell(row, c + 1)) = Gap(c + 1) + v /\ C[(c + 1) + 1] <= Len(flat)
                BY <1>4, <1>10, <3>1
            <4>2. v \in Nat /\ C[c + 1] \in Nat /\ C[(c + 1) + 1] = C[c + 1] + Gap(c + 1) + v
                BY <1>11, <3>1
            <4> QED
                BY <3>2, <4>1, <4>2
        <3> HIDE DEF v
        <3>4. flat[C[c + 1] + 1] = Delimiter
            <4>1. 1 \in 1..Len(WriteCell(row, c + 1))
                BY <3>3
            <4> QED
                BY <1>10, <3>1, <3>2, <4>1
        <3>5. C[c + 1] + 1 \in 1..Len(flat)
            BY <1>9, <3>3
        <3> HIDE DEF at, w
        <3> QED
            BY <1>9, <2>1, <3>4, <3>5
    <2>4. c = Len(row) => C[c + 1] = Len(flat)
        BY <1>10
    <2> HIDE DEF at, w
    <2>5. /\ at + Len(w) + 1 <= Len(WriteRecord(row))
          /\ c = Len(row) =>
                /\ WriteRecord(row)[at + Len(w) + 1] = LF
                /\ Len(WriteRecord(row)) = at + Len(w) + 1
        BY <1>9, <2>1, <2>4
    <2> QED
        BY <2>1, <2>2, <2>3, <2>5 DEF at, w
<1> QED
    BY <1>9, <1>10, <1>12 DEF C

RowAt(rows, r) == Starts(Lines(rows))[r]
FieldAt(rows, r, c) == RowAt(rows, r) + Starts(Cells(rows[r]))[c] + Gap(c)

\* The bytes w stand in the file from offset `at` on, and a terminator after them.
Stands(bytes, at, w) ==
    /\ at \in Nat
    /\ at + Len(w) + 1 <= Len(bytes)
    /\ \A j \in 1..Len(w) : bytes[at + j] = w[j]
    /\ bytes[at + Len(w) + 1] \in {Delimiter, LF}

\* A written table is its rows one after the other, field by field.
LEMMA TableBytes ==
    ASSUME NEW rows \in Tables
    PROVE  /\ Len(rows) \in Nat /\ DOMAIN rows = 1..Len(rows)
           /\ RowAt(rows, 1) = 0 /\ RowAt(rows, Len(rows) + 1) = Len(WriteAll(rows))
           /\ \A r \in 1..Len(rows) :
                /\ rows[r] \in Seq(Text) /\ Len(rows[r]) \in Nat \ {0}
                /\ DOMAIN rows[r] = 1..Len(rows[r])
                /\ FieldAt(rows, r, 1) = RowAt(rows, r)
                /\ \A c \in 1..Len(rows[r]) :
                    LET at == FieldAt(rows, r, c)
                        w == WriteField(rows[r][c])
                    IN  /\ Stands(WriteAll(rows), at, w)
                        /\ c < Len(rows[r]) =>
                            /\ WriteAll(rows)[at + Len(w) + 1] = Delimiter
                            /\ FieldAt(rows, r, c + 1) = at + Len(w) + 1
                        /\ c = Len(rows[r]) =>
                            /\ WriteAll(rows)[at + Len(w) + 1] = LF
                            /\ RowAt(rows, r + 1) = at + Len(w) + 1
<1>1. rows \in Seq(Seq(Text) \ {<< >>})
    BY TablesAssumption DEF Text
<1>2. /\ Len(rows) \in Nat /\ DOMAIN rows = 1..Len(rows)
      /\ \A r \in 1..Len(rows) : rows[r] \in Seq(Text) /\ rows[r] # << >>
    BY <1>1
<1>3. \A r \in 1..Len(rows) : Len(rows[r]) \in Nat \ {0} /\ DOMAIN rows[r] = 1..Len(rows[r])
                              /\ \A c \in 1..Len(rows[r]) : rows[r][c] \in Text
    <2> SUFFICES ASSUME NEW s \in Seq(Text), s # << >>
                 PROVE  Len(s) \in Nat \ {0} /\ DOMAIN s = 1..Len(s)
                        /\ \A c \in 1..Len(s) : s[c] \in Text
        BY <1>2
    <2> QED
        OBVIOUS
<1>4. Lines(rows) \in [1..Len(rows) -> Seq(Byte)]
    BY <1>2, RecordBytes DEF Lines
<1>5. Lines(rows) \in Seq(Seq(Byte)) /\ Len(Lines(rows)) = Len(rows)
    BY <1>2, <1>4
<1>6. WriteAll(rows) = FlattenSeq(Lines(rows))
    BY DEF WriteAll, Lines
<1> DEFINE R(r) == RowAt(rows, r)
           L(r) == WriteRecord(rows[r])
<1>7. /\ R(1) = 0 /\ R(Len(rows) + 1) = Len(WriteAll(rows)) /\ WriteAll(rows) \in Seq(Byte)
      /\ \A r \in 1..(Len(rows) + 1) : R(r) \in Nat
      /\ \A r \in 1..Len(rows) :
            /\ R(r + 1) = R(r) + Len(L(r))
            /\ R(r + 1) <= Len(WriteAll(rows))
            /\ \A j \in 1..Len(L(r)) : WriteAll(rows)[R(r) + j] = L(r)[j]
    <2>1. IsStarts(Lines(rows), Starts(Lines(rows))) /\ WriteAll(rows) \in Seq(Byte)
        BY <1>5, <1>6, Flattened
    <2>2. \A r \in 1..Len(rows) : Lines(rows)[r] = L(r)
        BY <1>2 DEF Lines
    <2> QED
        BY <1>5, <1>6, <2>1, <2>2 DEF IsStarts, RowAt
<1> HIDE DEF R, L
<1>8. ASSUME NEW r \in 1..Len(rows), NEW c \in 1..Len(rows[r])
      PROVE  LET at == FieldAt(rows, r, c)
                 w == WriteField(rows[r][c])
             IN  /\ Stands(WriteAll(rows), at, w)
                 /\ c < Len(rows[r]) =>
                     /\ WriteAll(rows)[at + Len(w) + 1] = Delimiter
                     /\ FieldAt(rows, r, c + 1) = at + Len(w) + 1
                 /\ c = Len(rows[r]) =>
                     /\ WriteAll(rows)[at + Len(w) + 1] = LF
                     /\ RowAt(rows, r + 1) = at + Len(w) + 1
    <2> DEFINE C(d) == Starts(Cells(rows[r]))[d]
               at == FieldAt(rows, r, c)
               w == WriteField(rows[r][c])
               off == C(c) + Gap(c)
    <2>1. rows[r] \in Seq(Text) /\ rows[r] # << >> /\ Len(rows[r]) \in Nat /\ rows[r][c] \in Text
        BY <1>2, <1>3
    <2>2. L(r) \in Seq(Byte) /\ Len(L(r)) \in Nat
        BY <2>1, RecordBytes DEF L
    <2>3. C(c) \in Nat
        <3>1. Starts(Cells(rows[r])) \in [1..(Len(rows[r]) + 1) -> Nat]
            BY <2>1, RecordBytes
        <3>2. c \in 1..(Len(rows[r]) + 1)
            BY <2>1
        <3> QED
            BY <3>1, <3>2
    <2>4. Gap(c) \in {0, 1} /\ Gap(c + 1) = 1
        BY <2>1 DEF Gap
    <2>5. /\ off + Len(w) + 1 <= Len(L(r))
          /\ \A j \in 1..Len(w) : L(r)[off + j] = w[j]
          /\ c < Len(rows[r]) => L(r)[off + Len(w) + 1] = Delimiter /\ C(c + 1) = off + Len(w)
          /\ c = Len(rows[r]) => L(r)[off + Len(w) + 1] = LF /\ Len(L(r)) = off + Len(w) + 1
        BY <2>1, RecordBytes DEF L
    <2>6. Len(w) \in Nat
        BY <2>1, FieldBytesWritten
    <2>7. at = R(r) + C(c) + Gap(c) /\ FieldAt(rows, r, c + 1) = R(r) + C(c + 1) + Gap(c + 1)
        BY DEF FieldAt, R
    <2>8. r \in Nat /\ R(r) \in Nat /\ R(r + 1) = R(r) + Len(L(r)) /\ R(r + 1) <= Len(WriteAll(rows))
          /\ R(r + 1) = RowAt(rows, r + 1)
          /\ \A j \in 1..Len(L(r)) : WriteAll(rows)[R(r) + j] = L(r)[j]
        <3>1. r \in 1..(Len(rows) + 1)
            BY <1>2
        <3>2. R(r + 1) = RowAt(rows, r + 1)
            BY DEF R
        <3> QED
            BY <1>7, <3>1, <3>2
    <2>9. Len(WriteAll(rows)) \in Nat
        BY <1>7
    <2> HIDE DEF C, w, at
    <2>10. off \in Nat /\ at = R(r) + off
        BY <2>3, <2>4, <2>7, <2>8
    <2> HIDE DEF off
    <2>11. at \in Nat /\ at + Len(w) + 1 <= Len(WriteAll(rows))
        BY <2>2, <2>5, <2>6, <2>8, <2>9, <2>10
    <2>12. ASSUME NEW j \in 1..(Len(w) + 1)
           PROVE  WriteAll(rows)[at + j] = L(r)[off + j]
        <3>1. off + j \in 1..Len(L(r)) /\ R(r) + (off + j) = at + j
            BY <2>2, <2>5, <2>6, <2>8, <2>10
        <3>2. WriteAll(rows)[R(r) + (off + j)] = L(r)[off + j]
            BY <2>8, <3>1
        <3> QED
            BY <3>1, <3>2
    <2>13. \A j \in 1..Len(w) : WriteAll(rows)[at + j] = w[j]
        BY <2>5, <2>6, <2>12
    <2>14. WriteAll(rows)[at + (Len(w) + 1)] = L(r)[off + (Len(w) + 1)]
        <3>1. Len(w) + 1 \in 1..(Len(w) + 1)
            BY <2>6
        <3> QED
            BY <2>12, <3>1
    <2>15. at + (Len(w) + 1) = at + Len(w) + 1 /\ off + (Len(w) + 1) = off + Len(w) + 1
        BY <2>6, <2>10, <2>11
    <2>16. /\ c < Len(rows[r]) => WriteAll(rows)[at + Len(w) + 1] = Delimiter
           /\ c = Len(rows[r]) => WriteAll(rows)[at + Len(w) + 1] = LF
        BY <2>5, <2>14, <2>15
    <2>17. c < Len(rows[r]) \/ c = Len(rows[r])
        BY <2>1
    <2>18. Stands(WriteAll(rows), at, w)
        BY <2>11, <2>13, <2>16, <2>17 DEF Stands
    <2>19. c < Len(rows[r]) => FieldAt(rows, r, c + 1) = at + Len(w) + 1
        BY <2>4, <2>5, <2>6, <2>7, <2>8, <2>10
    <2>20. c = Len(rows[r]) => RowAt(rows, r + 1) = at + Len(w) + 1
        <3> SUFFICES ASSUME c = Len(rows[r]) PROVE R(r + 1) = at + Len(w) + 1
            BY <2>8
        <3>1. Len(L(r)) = off + Len(w) + 1
            BY <2>5
        <3> HIDE DEF L
        <3> QED
            BY <2>6, <2>8, <2>10, <3>1
    <2> QED
        BY <2>16, <2>18, <2>19, <2>20 DEF at, w
<1>9. ASSUME NEW r \in 1..Len(rows) PROVE FieldAt(rows, r, 1) = RowAt(rows, r)
    <2>1. Starts(Cells(rows[r]))[1] = 0
        BY <1>2, RecordBytes
    <2>2. Gap(1) = 0
        BY DEF Gap
    <2>3. RowAt(rows, r) \in Nat
        <3>1. r \in 1..(Len(rows) + 1)
            BY <1>2
        <3> QED
            BY <1>7, <3>1 DEF R
    <2> QED
        BY <2>1, <2>2, <2>3 DEF FieldAt
<1>10. RowAt(rows, 1) = 0 /\ RowAt(rows, Len(rows) + 1) = Len(WriteAll(rows))
    BY <1>7 DEF R
<1> QED
    BY <1>2, <1>3, <1>8, <1>9, <1>10

----------------------------------------------------------------------------
(* The reader inside a written field. *)

\* The loop acts on byte b of the file, la is the one after it.
Acts(b, la) ==
    /\ OnByte(b, la)
    /\ Consumed' = Consumed + (IF TakesPair(b, la) THEN 2 ELSE 1)

ActsNext == Acts(input[Consumed + 1], Whole!ByteAt(Consumed + 2))

\* The reader is inside the field f, which was written from offset `at` on: the
\* bytes it has used of it give the bytes of f it has collected.
InPlain(f, at) ==
    /\ ~NeedsQuotes(f) /\ ~in_quotes
    /\ \E k \in 0..Len(f) : Consumed = at + k /\ field = SubSeq(f, 1, k)
Opening(f, at) == NeedsQuotes(f) /\ ~in_quotes /\ Consumed = at /\ field = << >>
InQuoted(f, at) ==
    /\ NeedsQuotes(f) /\ in_quotes
    /\ \E k \in 0..Len(f) :
        Consumed = at + 1 + Starts(Parts(f))[k + 1] /\ field = SubSeq(f, 1, k)
Closed(f, at) ==
    /\ NeedsQuotes(f) /\ ~in_quotes
    /\ Consumed = at + Len(WriteField(f)) /\ field = f

InField(f, at) == InPlain(f, at) \/ Opening(f, at) \/ InQuoted(f, at) \/ Closed(f, at)

\* A step of the loop on each kind of byte.
LEMMA OrdinaryByte ==
    ASSUME NEW b \in Ordinary, NEW la, ~in_quotes, Acts(b, la)
    PROVE  Push(b) /\ Consumed' = Consumed + 1
<1>1. b # Quote /\ b # Delimiter /\ b # CR /\ b # LF
    BY BytesAssumption DEF Special
<1> QED
    BY <1>1 DEF Acts, OnByte, TakesPair, QuotedData, DoubledQuote, CloseQuote, OpenQuote,
                EndField, PlainData, BlankLine, EndRecord

LEMMA OpeningByte ==
    ASSUME NEW la, ~in_quotes, field = << >>, Acts(Quote, la)
    PROVE  SetQuotes(TRUE) /\ Consumed' = Consumed + 1
BY BytesDiffer, BytesAssumption DEF Acts, OnByte, TakesPair, QuotedData, DoubledQuote, CloseQuote,
                OpenQuote, EndField, PlainData, BlankLine, EndRecord, Special

Closes == SetQuotes(FALSE)

LEMMA QuotedByte ==
    ASSUME NEW b, NEW la, in_quotes, Acts(b, la)
    PROVE  /\ b # Quote => Push(b) /\ Consumed' = Consumed + 1
           /\ b = Quote /\ la = Quote => Push(b) /\ Consumed' = Consumed + 2
           /\ b = Quote /\ la # Quote => Closes /\ Consumed' = Consumed + 1
BY DEF Acts, OnByte, TakesPair, QuotedData, DoubledQuote, CloseQuote, OpenQuote,
       EndField, PlainData, BlankLine, EndRecord, Closes

LEMMA TerminatorByte ==
    ASSUME NEW b \in {Delimiter, LF}, NEW la, ~in_quotes, Acts(b, la)
    PROVE  /\ Consumed' = Consumed + 1
           /\ b = Delimiter => EndField(b)
           /\ b = LF => BlankLine(b) \/ EndRecord(b)
BY BytesDiffer, BytesAssumption DEF Acts, OnByte, TakesPair, QuotedData, DoubledQuote, CloseQuote,
       OpenQuote, EndField, PlainData, BlankLine, EndRecord, Special

\* The first k + 1 elements are the first k and one more.
LEMMA OneMore ==
    ASSUME NEW S, NEW s \in Seq(S), NEW k \in 0..Len(s), k # Len(s)
    PROVE  /\ Append(SubSeq(s, 1, k), s[k + 1]) = SubSeq(s, 1, k + 1)
           /\ k + 1 \in 0..Len(s) /\ k + 1 \in 1..Len(s)
<1>1. Len(s) \in Nat /\ k + 1 \in 1..Len(s)
    OBVIOUS
<1>2. \A i \in 1..Len(s) : s[i] \in S
    OBVIOUS
<1>3. SubSeq(s, 1, k) \in Seq(S) /\ SubSeq(s, 1, k + 1) \in Seq(S)
      /\ Len(SubSeq(s, 1, k)) = k /\ Len(SubSeq(s, 1, k + 1)) = k + 1
      /\ (\A i \in 1..k : SubSeq(s, 1, k)[i] = s[i])
      /\ (\A i \in 1..(k + 1) : SubSeq(s, 1, k + 1)[i] = s[i])
    BY <1>1, <1>2
<1> DEFINE t == Append(SubSeq(s, 1, k), s[k + 1])
           u == SubSeq(s, 1, k + 1)
           p == SubSeq(s, 1, k)
<1> HIDE DEF u, p
<1>4. t \in Seq(S) /\ Len(t) = k + 1
    BY <1>1, <1>2, <1>3 DEF p
<1>5. \A i \in 1..(k + 1) : t[i] = u[i]
    <2> SUFFICES ASSUME NEW i \in 1..(k + 1) PROVE t[i] = u[i]
        OBVIOUS
    <2>1. CASE i \in 1..k
        BY <1>1, <1>2, <1>3, <2>1 DEF u, p
    <2>2. CASE i = k + 1
        BY <1>1, <1>2, <1>3, <2>2 DEF u, p
    <2> QED
        BY <2>1, <2>2
<1> HIDE DEF t
<1>6. t = u
    <2>1. u \in Seq(S) /\ Len(u) = k + 1
        BY <1>3 DEF u
    <2> QED
        BY <1>4, <1>5, <2>1, SeqEqual
<1> QED
    BY <1>1, <1>6 DEF t, u, p

LEMMA AllOfIt ==
    ASSUME NEW S, NEW s \in Seq(S)
    PROVE  SubSeq(s, 1, Len(s)) = s /\ SubSeq(s, 1, 0) = << >>
BY SubSeqFull, SubSeqEmpty

LEMMA PlainStep ==
    ASSUME NEW f \in Text, NEW at \in Nat, Stands(input, at, WriteField(f)), InPlain(f, at),
           Consumed # at + Len(WriteField(f)), ActsNext
    PROVE  InPlain(f, at)' /\ UNCHANGED <<status, fields, output>>
<1>1. WriteField(f) = f
    BY FieldBytesWritten DEF InPlain
<1>2. Len(f) \in Nat /\ f \in Seq(Byte) /\ \A i \in 1..Len(f) : f[i] \in Ordinary
    BY TextBytes DEF InPlain
<1>3. PICK k \in 0..Len(f) : Consumed = at + k /\ field = SubSeq(f, 1, k)
    BY DEF InPlain
<1>4. k # Len(f)
    BY <1>1, <1>3
<1>5. Append(SubSeq(f, 1, k), f[k + 1]) = SubSeq(f, 1, k + 1)
      /\ k + 1 \in 0..Len(f) /\ k + 1 \in 1..Len(f)
    BY <1>2, <1>4, OneMore
<1>6. input[Consumed + 1] = f[k + 1]
    <2>1. Consumed + 1 = at + (k + 1)
        BY <1>3
    <2> QED
        BY <1>1, <1>5, <2>1 DEF Stands
<1>7. Push(f[k + 1]) /\ Consumed' = Consumed + 1
    BY <1>2, <1>5, <1>6, OrdinaryByte DEF ActsNext, InPlain
<1>8. field' = SubSeq(f, 1, k + 1) /\ Consumed' = at + (k + 1)
    BY <1>3, <1>5, <1>7 DEF Push
<1> QED
    BY <1>5, <1>7, <1>8 DEF InPlain, Push

LEMMA OpeningStep ==
    ASSUME NEW f \in Text, NEW at \in Nat, Stands(input, at, WriteField(f)), Opening(f, at),
           ActsNext
    PROVE  InQuoted(f, at)' /\ UNCHANGED <<status, fields, output>>
<1>1. /\ Len(WriteField(f)) = Len(Escaped(f)) + 2
      /\ WriteField(f)[1] = Quote
      /\ Len(Escaped(f)) \in Nat /\ Len(f) \in Nat /\ f \in Seq(Byte)
    BY FieldBytesWritten, EscapedBytes, TextBytes DEF Opening
<1>2. input[Consumed + 1] = Quote
    <2>1. 1 \in 1..Len(WriteField(f))
        BY <1>1
    <2> QED
        BY <1>1, <2>1 DEF Stands, Opening
<1>3. SetQuotes(TRUE) /\ Consumed' = Consumed + 1
    BY <1>2, OpeningByte DEF ActsNext, Opening
<1>4. Starts(Parts(f))[0 + 1] = 0 /\ SubSeq(f, 1, 0) = << >> /\ 0 \in 0..Len(f)
    BY <1>1, EscapedBytes, AllOfIt
<1>5. Consumed' = at + 1 + Starts(Parts(f))[0 + 1] /\ field' = SubSeq(f, 1, 0)
    BY <1>3, <1>4 DEF Opening, SetQuotes
<1>6. \E k \in 0..Len(f) :
        Consumed' = at + 1 + Starts(Parts(f))[k + 1] /\ field' = SubSeq(f, 1, k)
    BY <1>4, <1>5
<1> QED
    BY <1>3, <1>6 DEF Opening, InQuoted, SetQuotes

\* Where the escaped bytes of k fields' bytes end.
LEMMA EscapedEnds ==
    ASSUME NEW f \in Text, NEW k \in 0..Len(f)
    PROVE  Starts(Parts(f))[k + 1] \in Nat /\ Starts(Parts(f))[k + 1] <= Len(Escaped(f))
<1>1. Len(f) \in Nat /\ Len(Escaped(f)) \in Nat
    BY TextBytes, EscapedBytes
<1>2. k + 1 \in 1..(Len(f) + 1)
    BY <1>1
<1>3. Starts(Parts(f))[k + 1] \in Nat
    BY <1>2, EscapedBytes
<1>4. CASE k = 0
    BY <1>1, <1>4, EscapedBytes
<1>5. CASE k # 0
    <2>1. k \in 1..Len(f)
        BY <1>1, <1>5
    <2> QED
        BY <1>3, <2>1, EscapedBytes
<1> QED
    BY <1>3, <1>4, <1>5

LEMMA QuotedStep ==
    ASSUME NEW f \in Text, NEW at \in Nat, Stands(input, at, WriteField(f)), InQuoted(f, at),
           Len(input) \in Nat, ActsNext
    PROVE  (InQuoted(f, at)' \/ Closed(f, at)') /\ UNCHANGED <<status, fields, output>>
<1> DEFINE w == WriteField(f)
           E == Starts(Parts(f))
           e == Len(Escaped(f))
<1>1. /\ Len(w) = e + 2 /\ w[e + 2] = Quote /\ e \in Nat
      /\ \A j \in 1..e : w[1 + j] = Escaped(f)[j]
    <2>1. NeedsQuotes(f)
        BY DEF InQuoted
    <2>2. Escaped(f) \in Seq(Byte)
        BY EscapedBytes
    <2> QED
        BY <2>1, <2>2, FieldBytesWritten
<1>2. Len(f) \in Nat /\ f \in Seq(Byte)
    BY TextBytes
<1>3. PICK k \in 0..Len(f) : Consumed = at + 1 + E[k + 1] /\ field = SubSeq(f, 1, k)
    BY DEF InQuoted
<1>4. E[k + 1] \in Nat /\ E[k + 1] <= e
    BY EscapedEnds
<1>5. /\ at + Len(w) + 1 <= Len(input)
      /\ \A j \in 1..Len(w) : input[at + j] = w[j]
      /\ input[at + Len(w) + 1] \in {Delimiter, LF}
    BY DEF Stands
<1>6. ASSUME NEW j \in 1..(e + 1) PROVE input[(at + 1) + j] = w[1 + j]
    <2>1. 1 + j \in 1..Len(w) /\ at + (1 + j) = (at + 1) + j
        BY <1>1
    <2> QED
        BY <1>5, <2>1
<1>7. NeedsQuotes(f) /\ in_quotes
    BY DEF InQuoted
<1>8. CASE k = Len(f)
    <2>1. E[k + 1] = e
        BY <1>8, EscapedBytes
    <2> HIDE DEF w, e, E
    <2>2. input[Consumed + 1] = Quote
        <3>1. Consumed + 1 = (at + 1) + (e + 1) /\ 1 + (e + 1) = e + 2 /\ e + 1 \in 1..(e + 1)
            BY <1>1, <1>3, <2>1
        <3> QED
            BY <1>1, <1>6, <3>1
    <2>3. Whole!ByteAt(Consumed + 2) # Quote
        <3>1. Consumed + 2 = at + Len(w) + 1 /\ Consumed + 2 \in 1..Len(input)
            BY <1>1, <1>3, <1>5, <2>1
        <3>2. input[Consumed + 2] # Quote
            BY <1>5, <3>1, BytesDiffer
        <3> QED
            BY <3>1, <3>2 DEF Whole!ByteAt
    <2>4. SetQuotes(FALSE) /\ Consumed' = Consumed + 1
        <3>1. Acts(Quote, Whole!ByteAt(Consumed + 2))
            BY <2>2 DEF ActsNext
        <3>2. Closes /\ Consumed' = Consumed + 1
            BY <1>7, <2>3, <3>1, QuotedByte
        <3> QED
            BY <3>2 DEF Closes
    <2>5. Consumed' = at + Len(w)
        BY <1>1, <1>3, <2>1, <2>4
    <2>6. field' = f
        BY <1>2, <1>3, <1>8, <2>4, AllOfIt DEF SetQuotes
    <2>7. Closed(f, at)'
        BY <1>7, <2>4, <2>5, <2>6 DEF Closed, SetQuotes, w
    <2> QED
        BY <2>4, <2>7 DEF SetQuotes
<1>9. CASE k # Len(f)
    <2>1. /\ Append(SubSeq(f, 1, k), f[k + 1]) = SubSeq(f, 1, k + 1)
          /\ k + 1 \in 0..Len(f) /\ k + 1 \in 1..Len(f)
        BY <1>2, <1>9, OneMore
    <2>2. /\ E[(k + 1) + 1] \in Nat /\ E[(k + 1) + 1] <= e
          /\ Escaped(f)[E[k + 1] + 1] = f[k + 1]
          /\ f[k + 1] # Quote => E[(k + 1) + 1] = E[k + 1] + 1
          /\ f[k + 1] = Quote => E[(k + 1) + 1] = E[k + 1] + 2
                                 /\ Escaped(f)[E[k + 1] + 2] = Quote
        BY <2>1, EscapedBytes, EscapedEnds
    <2> DEFINE x == E[k + 1]
               y == E[(k + 1) + 1]
    <2>9. x \in Nat /\ y \in Nat /\ y <= e /\ Consumed = at + 1 + x /\ e \in Nat
           /\ (f[k + 1] # Quote => y = x + 1) /\ (f[k + 1] = Quote => y = x + 2)
        BY <1>1, <1>3, <1>4, <2>2
    <2> HIDE DEF w, e, E, x, y
    <2>3. input[Consumed + 1] = f[k + 1]
        <3>1. E[k + 1] + 1 \in 1..e /\ E[k + 1] + 1 \in 1..(e + 1)
              /\ Consumed + 1 = (at + 1) + (E[k + 1] + 1)
            <4>1. x + 1 \in 1..e /\ x + 1 \in 1..(e + 1) /\ Consumed + 1 = (at + 1) + (x + 1)
                BY <2>9
            <4> QED
                BY <4>1 DEF x
        <3> QED
            BY <1>1, <1>6, <2>2, <3>1
    <2>4. ASSUME f[k + 1] = Quote PROVE Whole!ByteAt(Consumed + 2) = Quote
        <3>1. E[k + 1] + 2 \in 1..e /\ E[k + 1] + 2 \in 1..(e + 1)
              /\ Consumed + 2 = (at + 1) + (E[k + 1] + 2)
            <4>1. x + 2 \in 1..e /\ x + 2 \in 1..(e + 1) /\ Consumed + 2 = (at + 1) + (x + 2)
                BY <2>4, <2>9
            <4> QED
                BY <4>1 DEF x
        <3>2. input[Consumed + 2] = Quote
            BY <1>1, <1>6, <2>2, <2>4, <3>1
        <3>3. Consumed + 2 \in 1..Len(input)
            BY <1>1, <1>5, <3>1
        <3> QED
            BY <3>2, <3>3 DEF Whole!ByteAt
    <2>5. Push(f[k + 1]) /\ Consumed' = at + 1 + E[(k + 1) + 1]
        <3>1. CASE f[k + 1] = Quote
            <4>1. Push(f[k + 1]) /\ Consumed' = Consumed + 2
                BY <1>7, <2>3, <2>4, <3>1, QuotedByte DEF ActsNext
            <4> QED
                BY <1>3, <1>4, <2>2, <3>1, <4>1
        <3>2. CASE f[k + 1] # Quote
            <4>1. Push(f[k + 1]) /\ Consumed' = Consumed + 1
                BY <1>7, <2>3, <3>2, QuotedByte DEF ActsNext
            <4> QED
                BY <1>3, <1>4, <2>2, <3>2, <4>1
        <3> QED
            BY <3>1, <3>2
    <2>6. field' = SubSeq(f, 1, k + 1)
        BY <1>3, <2>1, <2>5 DEF Push
    <2>7. \E m \in 0..Len(f) : Consumed' = at + 1 + E[m + 1] /\ field' = SubSeq(f, 1, m)
        BY <2>1, <2>5, <2>6
    <2>8. InQuoted(f, at)'
        BY <1>7, <2>5, <2>7 DEF InQuoted, Push, E
    <2> QED
        BY <2>5, <2>8 DEF Push
<1> QED
    BY <1>8, <1>9

\* A byte of a written field keeps the reader inside it.
LEMMA FieldStep ==
    ASSUME NEW f \in Text, NEW at \in Nat, Stands(input, at, WriteField(f)), InField(f, at),
           Len(input) \in Nat, Consumed # at + Len(WriteField(f)), ActsNext
    PROVE  InField(f, at)' /\ UNCHANGED <<status, fields, output>>
BY PlainStep, OpeningStep, QuotedStep DEF InField, Closed

\* At its last byte the whole field has been collected.
LEMMA FieldBounds ==
    ASSUME NEW f \in Text, NEW at \in Nat, InField(f, at)
    PROVE  /\ Consumed \in Nat /\ Consumed <= at + Len(WriteField(f))
           /\ Consumed = at + Len(WriteField(f)) => field = f /\ ~in_quotes
<1>1. Len(f) \in Nat /\ f \in Seq(Byte) /\ Len(WriteField(f)) \in Nat /\ Len(Escaped(f)) \in Nat
    BY TextBytes, FieldBytesWritten, EscapedBytes
<1>2. CASE InPlain(f, at)
    <2>1. WriteField(f) = f
        BY <1>2, FieldBytesWritten DEF InPlain
    <2>2. SubSeq(f, 1, Len(f)) = f
        BY <1>1, AllOfIt
    <2>3. PICK k \in 0..Len(f) : Consumed = at + k /\ field = SubSeq(f, 1, k)
        BY <1>2 DEF InPlain
    <2>4. Consumed = at + Len(f) => k = Len(f)
        BY <1>1, <2>3
    <2>5. ~in_quotes
        BY <1>2 DEF InPlain
    <2>6. Consumed \in Nat /\ Consumed <= at + Len(f)
        BY <1>1, <2>3
    <2> QED
        BY <2>1, <2>2, <2>3, <2>4, <2>5, <2>6
<1>3. CASE Opening(f, at)
    <2>1. Len(WriteField(f)) = Len(Escaped(f)) + 2
        BY <1>3, FieldBytesWritten DEF Opening
    <2> QED
        BY <1>1, <1>3, <2>1 DEF Opening
<1>4. CASE InQuoted(f, at)
    <2>1. Len(WriteField(f)) = Len(Escaped(f)) + 2
        BY <1>4, FieldBytesWritten DEF InQuoted
    <2>2. PICK k \in 0..Len(f) : Consumed = at + 1 + Starts(Parts(f))[k + 1]
        BY <1>4 DEF InQuoted
    <2>3. Starts(Parts(f))[k + 1] \in Nat /\ Starts(Parts(f))[k + 1] <= Len(Escaped(f))
        BY EscapedEnds
    <2> QED
        BY <1>1, <2>1, <2>2, <2>3
<1>5. CASE Closed(f, at)
    BY <1>1, <1>5 DEF Closed
<1> QED
    BY <1>2, <1>3, <1>4, <1>5 DEF InField

\* Before its first byte nothing has been collected, in this state or the next.
LEMMA FieldStarts ==
    ASSUME NEW f \in Text, NEW at \in Nat, Consumed = at, field = << >>, ~in_quotes
    PROVE  InField(f, at)
<1>1. SubSeq(f, 1, 0) = << >> /\ 0 \in 0..Len(f) /\ Consumed = at + 0
    BY TextBytes, AllOfIt
<1> QED
    BY <1>1 DEF InField, Opening, InPlain

LEMMA FieldEntered ==
    ASSUME NEW f \in Text, NEW at \in Nat, Consumed' = at, field' = << >>, ~in_quotes'
    PROVE  InField(f, at)'
<1>1. SubSeq(f, 1, 0) = << >> /\ 0 \in 0..Len(f) /\ Consumed' = at + 0
    BY TextBytes, AllOfIt
<1> QED
    BY <1>1 DEF InField, Opening, InPlain

----------------------------------------------------------------------------
(* The reader inside a written table. *)

\* The rows before the r-th one that come back.
Before(rows, r) == {n \in ComesBack(rows) : n < r}

RankOf(rows, n) == Cardinality({m \in ComesBack(rows) : m <= n})

\* Those are the records returned so far, in order.
Returned(rows, r) ==
    /\ Len(output) = Cardinality(Before(rows, r))
    /\ \A n \in Before(rows, r) : output[RankOf(rows, n)].fields = rows[n]

\* No byte of the r-th row has been used yet.
Between(rows, r) ==
    /\ Consumed = RowAt(rows, r)
    /\ fields = << >> /\ field = << >> /\ ~in_quotes /\ ~saw_any
    /\ status = "end" => r = Len(rows) + 1

\* The reader is in the c-th field of the r-th row.
InRow(rows, r, c) ==
    /\ status = "reading"
    /\ fields = SubSeq(rows[r], 1, c - 1)
    /\ InField(rows[r][c], FieldAt(rows, r, c))

InTable(rows, r) ==
    /\ Returned(rows, r)
    /\ \/ Between(rows, r)
       \/ r <= Len(rows) /\ \E c \in 1..Len(rows[r]) : InRow(rows, r, c)

TripInv ==
    status # "failed" =>
        \A rows \in Tables : WriteAll(rows) = input =>
            \E r \in 1..(Len(rows) + 1) : InTable(rows, r)

\* A row that comes back is returned after those before it.
LEMMA Ranking ==
    ASSUME NEW rows \in Tables, NEW r \in 1..Len(rows)
    PROVE  /\ IsFiniteSet(Before(rows, r)) /\ Cardinality(Before(rows, r)) \in Nat
           /\ \A n \in Before(rows, r) : RankOf(rows, n) \in 1..Cardinality(Before(rows, r))
           /\ r \notin ComesBack(rows) => Before(rows, r + 1) = Before(rows, r)
           /\ r \in ComesBack(rows) =>
                /\ Before(rows, r + 1) = Before(rows, r) \cup {r}
                /\ Cardinality(Before(rows, r + 1)) = Cardinality(Before(rows, r)) + 1
                /\ RankOf(rows, r) = Cardinality(Before(rows, r)) + 1
<1>1. Len(rows) \in Nat /\ DOMAIN rows = 1..Len(rows)
    BY TableBytes
<1> DEFINE K == ComesBack(rows)
           B == Before(rows, r)
<1>2. K \subseteq 1..Len(rows) /\ IsFiniteSet(K)
    <2>1. K \subseteq 1..Len(rows)
        BY <1>1 DEF ComesBack
    <2>2. IsFiniteSet(1..Len(rows))
        BY <1>1, FS_Interval
    <2> QED
        BY <2>1, <2>2, FS_Subset
<1>3. B \subseteq K /\ IsFiniteSet(B) /\ Cardinality(B) \in Nat
    <2>1. B \subseteq K
        BY DEF Before
    <2> HIDE DEF B, K
    <2>2. IsFiniteSet(B)
        BY <1>2, <2>1, FS_Subset
    <2> QED
        BY <2>1, <2>2, FS_CardinalityType
<1>4. ASSUME NEW n \in B PROVE RankOf(rows, n) \in 1..Cardinality(B)
    <2> DEFINE U == {m \in K : m <= n}
    <2>1. n \in K /\ n < r /\ n \in Nat
        BY <1>2 DEF Before
    <2>2. U \subseteq B /\ n \in U
        BY <1>2, <2>1 DEF Before
    <2>3. RankOf(rows, n) = Cardinality(U)
        BY DEF RankOf
    <2> HIDE DEF U, B, K
    <2>4. IsFiniteSet(U) /\ Cardinality(U) <= Cardinality(B)
        BY <1>3, <2>2, FS_Subset
    <2>5. Cardinality(U) \in Nat /\ Cardinality(U) # 0
        BY <2>2, <2>4, FS_CardinalityType, FS_EmptySet
    <2> QED
        BY <1>3, <2>3, <2>4, <2>5
<1>5. r \notin K => Before(rows, r + 1) = B
    BY <1>2 DEF Before
<1>6. ASSUME r \in K
      PROVE  /\ Before(rows, r + 1) = B \cup {r}
             /\ Cardinality(Before(rows, r + 1)) = Cardinality(B) + 1
             /\ RankOf(rows, r) = Cardinality(B) + 1
    <2>1. Before(rows, r + 1) = B \cup {r}
        BY <1>2, <1>6 DEF Before
    <2>2. r \notin B
        BY DEF Before
    <2>3. {m \in K : m <= r} = Before(rows, r + 1)
        BY <1>2 DEF Before
    <2>4. RankOf(rows, r) = Cardinality(Before(rows, r + 1))
        BY <2>3 DEF RankOf
    <2> HIDE DEF B, K
    <2>5. Cardinality(B \cup {r}) = Cardinality(B) + 1
        BY <1>3, <2>2, FS_AddElement
    <2> QED
        BY <2>1, <2>4, <2>5
<1> QED
    BY <1>3, <1>4, <1>5, <1>6

\* What the lemmas about one field need of the c-th field of the r-th row.
LEMMA FieldOf ==
    ASSUME NEW rows \in Tables, WriteAll(rows) = input,
           NEW r \in 1..Len(rows), NEW c \in 1..Len(rows[r])
    PROVE  /\ rows[r] \in Seq(Text) /\ rows[r][c] \in Text
           /\ Len(WriteField(rows[r][c])) \in Nat
           /\ FieldAt(rows, r, c) \in Nat
           /\ Stands(input, FieldAt(rows, r, c), WriteField(rows[r][c]))
<1>1. rows[r] \in Seq(Text)
    BY TableBytes
<1>2. rows[r][c] \in Text
    BY <1>1, ElementOfSeq
<1>3. Stands(input, FieldAt(rows, r, c), WriteField(rows[r][c]))
    BY TableBytes
<1> QED
    BY <1>1, <1>2, <1>3, FieldBytesWritten DEF Stands

\* Between two rows the reader is at the start of the first field of the next.
LEMMA EnterRow ==
    ASSUME NEW rows \in Tables, WriteAll(rows) = input, NEW r \in 1..Len(rows),
           Between(rows, r), status = "reading"
    PROVE  InRow(rows, r, 1) /\ 1 \in 1..Len(rows[r])
<1>1. Len(rows[r]) \in Nat \ {0} /\ FieldAt(rows, r, 1) = RowAt(rows, r)
    BY TableBytes
<1>2. 1 \in 1..Len(rows[r])
    BY <1>1
<1>3. rows[r][1] \in Text /\ FieldAt(rows, r, 1) \in Nat
    BY <1>2, FieldOf
<1>4. InField(rows[r][1], FieldAt(rows, r, 1))
    BY <1>1, <1>3, FieldStarts DEF Between
<1>5. SubSeq(rows[r], 1, 1 - 1) = << >>
    BY SubSeqEmpty
<1> QED
    BY <1>2, <1>4, <1>5 DEF InRow, Between

\* The record of a row is returned after its last field.
LEMMA RowReturned ==
    ASSUME NEW rows \in Tables, NEW r \in 1..Len(rows), Returned(rows, r),
           output \in Seq([fields : Seq(Seq(Byte)), line : Nat]),
           rows[r] # << << >> >>, NEW rec, rec.fields = rows[r],
           output' = Append(output, rec)
    PROVE  Returned(rows, r + 1)'
<1>1. r \in ComesBack(rows)
    BY TableBytes DEF ComesBack
<1>2. /\ Before(rows, r + 1) = Before(rows, r) \cup {r}
      /\ Cardinality(Before(rows, r + 1)) = Cardinality(Before(rows, r)) + 1
      /\ RankOf(rows, r) = Cardinality(Before(rows, r)) + 1
      /\ \A n \in Before(rows, r) : RankOf(rows, n) \in 1..Cardinality(Before(rows, r))
    BY <1>1, Ranking
<1>3. Len(output) = Cardinality(Before(rows, r)) /\ Len(output) \in Nat
      /\ \A n \in Before(rows, r) : output[RankOf(rows, n)].fields = rows[n]
    BY DEF Returned
<1>4. /\ Len(output') = Len(output) + 1
      /\ output'[Len(output) + 1] = rec
      /\ \A i \in 1..Len(output) : output'[i] = output[i]
    <2>1. \A s \in Seq([fields : Seq(Seq(Byte)), line : Nat]) :
            /\ Len(Append(s, rec)) = Len(s) + 1
            /\ Append(s, rec)[Len(s) + 1] = rec
            /\ \A i \in 1..Len(s) : Append(s, rec)[i] = s[i]
        OBVIOUS
    <2> QED
        BY <2>1
<1>5. ASSUME NEW n \in Before(rows, r + 1) PROVE output'[RankOf(rows, n)].fields = rows[n]
    <2>1. CASE n = r
        BY <1>2, <1>3, <1>4, <2>1
    <2>2. CASE n # r
        BY <1>2, <1>3, <1>4, <2>2
    <2> QED
        BY <2>1, <2>2
<1> QED
    BY <1>2, <1>3, <1>4, <1>5 DEF Returned

\* A row is its fields before the last one, and the last.
LEMMA LastOfRow ==
    ASSUME NEW S, NEW s \in Seq(S), s # << >>
    PROVE  Append(SubSeq(s, 1, Len(s) - 1), s[Len(s)]) = s
<1> DEFINE k == Len(s) - 1
<1>1. k \in 0..Len(s) /\ k # Len(s) /\ k + 1 = Len(s)
    OBVIOUS
<1> HIDE DEF k
<1>2. Append(SubSeq(s, 1, k), s[k + 1]) = SubSeq(s, 1, k + 1)
    BY <1>1, OneMore
<1>3. Append(SubSeq(s, 1, k), s[Len(s)]) = s
    BY <1>1, <1>2, AllOfIt
<1> QED
    BY <1>3 DEF k

\* A byte inside a row.
LEMMA RowStep ==
    ASSUME TypeOK, NEW rows \in Tables, WriteAll(rows) = input, UNCHANGED input,
           NEW r \in 1..Len(rows), NEW c \in 1..Len(rows[r]), Returned(rows, r),
           InRow(rows, r, c), ActsNext
    PROVE  InTable(rows, r)' \/ InTable(rows, r + 1)'
<1> DEFINE f == rows[r][c]
           at == FieldAt(rows, r, c)
           w == WriteField(f)
           stop == input[at + Len(w) + 1]
<1>1. /\ rows[r] \in Seq(Text) /\ f \in Text /\ Len(w) \in Nat /\ at \in Nat
      /\ Stands(input, at, w)
    BY FieldOf
<1>2. InField(f, at) /\ status = "reading" /\ fields = SubSeq(rows[r], 1, c - 1)
    BY DEF InRow
<1>3. Len(input) \in Nat
    BY InputType
<1>4. Len(rows) \in Nat /\ Len(rows[r]) \in Nat /\ c \in Nat
    BY TableBytes
<1>5. CASE Consumed # at + Len(w)
    <2>1. InField(f, at)' /\ UNCHANGED <<status, fields, output>>
        BY <1>1, <1>2, <1>3, <1>5, FieldStep
    <2>2. InRow(rows, r, c)'
        BY <1>2, <2>1 DEF InRow
    <2>3. Returned(rows, r)'
        BY <2>1 DEF Returned
    <2> QED
        BY <1>4, <2>2, <2>3 DEF InTable
<1>6. CASE Consumed = at + Len(w)
    <2>1. field = f /\ ~in_quotes
        BY <1>1, <1>2, <1>6, FieldBounds
    <2>2. stop \in {Delimiter, LF}
        BY <1>1 DEF Stands
    <2>3. Acts(stop, Whole!ByteAt(Consumed + 2))
        BY <1>6 DEF ActsNext
    <2>4. /\ Consumed' = Consumed + 1
          /\ stop = Delimiter => EndField(stop)
          /\ stop = LF => BlankLine(stop) \/ EndRecord(stop)
        BY <2>1, <2>2, <2>3, TerminatorByte
    <2>5. TakeUtf8(field) = f
        BY <1>1, <2>1, TextBytes
    <2>6. CASE c < Len(rows[r])
        <3>1. stop = Delimiter /\ FieldAt(rows, r, c + 1) = at + Len(w) + 1
            BY <2>6, TableBytes
        <3>2. EndField(stop)
            BY <2>4, <3>1
        <3>3. c + 1 \in 1..Len(rows[r])
            BY <1>4, <2>6
        <3>4. fields' = SubSeq(rows[r], 1, (c + 1) - 1)
            <4>1. c - 1 \in 0..Len(rows[r]) /\ c - 1 # Len(rows[r])
                  /\ (c - 1) + 1 = c /\ (c + 1) - 1 = c
                BY <1>4
            <4>2. Append(SubSeq(rows[r], 1, c - 1), rows[r][c]) = SubSeq(rows[r], 1, c)
                BY <1>1, <4>1, OneMore
            <4> QED
                BY <1>2, <2>5, <3>2, <4>1, <4>2 DEF EndField
        <3>5. rows[r][c + 1] \in Text /\ FieldAt(rows, r, c + 1) \in Nat
            BY <3>3, FieldOf
        <3>6. /\ Consumed' = FieldAt(rows, r, c + 1) /\ field' = << >> /\ ~in_quotes'
              /\ status' = "reading" /\ output' = output
            BY <1>1, <1>2, <1>6, <2>1, <2>4, <3>1, <3>2 DEF EndField
        <3>7. InField(rows[r][c + 1], FieldAt(rows, r, c + 1))'
            BY <3>5, <3>6, FieldEntered
        <3>8. InRow(rows, r, c + 1)'
            BY <3>4, <3>6, <3>7 DEF InRow
        <3>9. Returned(rows, r)'
            BY <3>6 DEF Returned
        <3> QED
            BY <1>4, <3>3, <3>8, <3>9 DEF InTable
    <2>7. CASE c = Len(rows[r])
        <3>1. stop = LF /\ RowAt(rows, r + 1) = at + Len(w) + 1
            BY <2>7, TableBytes
        <3>2. BlankLine(stop) \/ EndRecord(stop)
            BY <2>4, <3>1
        <3>3. /\ Consumed' = RowAt(rows, r + 1)
              /\ fields' = << >> /\ field' = << >> /\ ~in_quotes' /\ ~saw_any'
              /\ status' # "end"
            <4>1. Consumed' = RowAt(rows, r + 1)
                BY <1>6, <2>4, <3>1
            <4> QED
                BY <1>2, <3>2, <4>1 DEF BlankLine, Enter, EndRecord, ReturnRecord, Leave
        <3>4. Between(rows, r + 1)'
            BY <3>3 DEF Between
        <3>5. rows[r] # << >>
            BY <1>4, <2>7
        <3>6. Append(fields, f) = rows[r]
            <4>1. Append(SubSeq(rows[r], 1, Len(rows[r]) - 1), rows[r][Len(rows[r])]) = rows[r]
                BY <1>1, <3>5, LastOfRow
            <4> QED
                BY <1>2, <2>7, <4>1
        <3>7. Returned(rows, r + 1)'
            <4>1. CASE BlankLine(stop)
                <5>1. fields = << >> /\ f = << >> /\ output' = output
                    BY <2>1, <4>1 DEF BlankLine
                <5>2. rows[r] = << << >> >>
                    BY <3>6, <5>1
                <5>3. Before(rows, r + 1) = Before(rows, r)
                    BY <5>2, Ranking DEF ComesBack
                <5> QED
                    BY <5>1, <5>3 DEF Returned
            <4>2. CASE EndRecord(stop)
                <5>1. fields # << >> \/ f # << >>
                    BY <2>1, <4>2 DEF EndRecord
                <5>2. rows[r] # << << >> >>
                    <6>1. fields \in Seq(Seq(Byte))
                        BY DEF TypeOK, TypeOKRecord
                    <6>2. Len(Append(fields, f)) = Len(fields) + 1 /\ Len(fields) \in Nat
                          /\ Append(fields, f)[Len(fields) + 1] = f
                          /\ (Len(fields) = 0 => fields = << >>)
                        BY <6>1
                    <6>3. Len(<< << >> >>) = 1 /\ << << >> >>[1] = << >>
                        OBVIOUS
                    <6> QED
                        BY <3>6, <5>1, <6>2, <6>3
                <5>3. output' = Append(output, [fields |-> Append(fields, TakeUtf8(field)),
                                                line |-> start_line])
                    BY <4>2 DEF EndRecord, ReturnRecord
                <5> DEFINE rec == [fields |-> Append(fields, TakeUtf8(field)), line |-> start_line]
                <5>4. rec.fields = rows[r]
                    BY <2>5, <3>6
                <5>5. output \in Seq([fields : Seq(Seq(Byte)), line : Nat])
                    BY DEF TypeOK, TypeOKRecord
                <5> HIDE DEF rec
                <5>6. output' = Append(output, rec)
                    BY <5>3 DEF rec
                <5> QED
                    BY <5>2, <5>4, <5>5, <5>6, RowReturned
            <4> QED
                BY <3>2, <4>1, <4>2
        <3> QED
            BY <3>4, <3>7 DEF InTable
    <2> QED
        BY <1>4, <2>6, <2>7
<1> QED
    BY <1>5, <1>6

\* Every step of the parser keeps the reader in the table that was written.
LEMMA TripStep ==
    ASSUME IInv, IInv', TripInv, [Whole!Next]_(Whole!wholeVars)
    PROVE  TripInv'
<1> SUFFICES ASSUME status' # "failed", NEW rows \in Tables, WriteAll(rows) = input'
             PROVE  \E r \in 1..(Len(rows) + 1) : InTable(rows, r)'
    BY DEF TripInv
<1>1. input' = input
    BY DEF Whole!Next, Whole!Start, Whole!Parse, Whole!Finish, Whole!Fail, Whole!wholeVars
<1>2. /\ Len(rows) \in Nat /\ RowAt(rows, Len(rows) + 1) = Len(input)
      /\ Len(input) \in Nat /\ TypeOK
    <2>1. Len(input) \in Nat /\ TypeOK
        BY InputType DEF IInv
    <2> QED
        BY <1>1, <2>1, TableBytes
<1>3. status # "failed"
    <2>1. CASE Whole!Parse
        BY <2>1, SameMachine DEF Whole!Parse, OnByte
    <2>2. CASE Whole!Start \/ Whole!Finish \/ Whole!Fail
        BY <2>2 DEF Whole!Start, Whole!Finish, Whole!Fail, Whole!Call, Whole!OnEnd,
                    Whole!NoMoreRecords, Whole!LastRecord, Whole!ReadFails
    <2>3. CASE UNCHANGED Whole!wholeVars
        BY <2>3 DEF Whole!wholeVars, Whole!recordVars
    <2> QED
        BY <2>1, <2>2, <2>3 DEF Whole!Next
<1>4. PICK r \in 1..(Len(rows) + 1) : InTable(rows, r)
    BY <1>1, <1>3 DEF TripInv
<1>5. r \in Nat /\ (r <= Len(rows) <=> r \in 1..Len(rows)) /\ (r > Len(rows) => r = Len(rows) + 1)
      /\ (r <= Len(rows) => r + 1 \in 1..(Len(rows) + 1))
    BY <1>2
<1>6. status # "reading" => Between(rows, r)
    BY <1>4 DEF InTable, InRow
<1>7. ASSUME r \in 1..Len(rows), status = "reading"
      PROVE  \E c \in 1..Len(rows[r]) : InRow(rows, r, c)
    BY <1>1, <1>4, <1>7, EnterRow DEF InTable
<1>8. ASSUME r \in 1..Len(rows), status = "reading" PROVE Consumed < Len(input)
    <2>1. PICK c \in 1..Len(rows[r]) : InRow(rows, r, c)
        BY <1>7, <1>8
    <2> DEFINE at == FieldAt(rows, r, c)
               w == WriteField(rows[r][c])
    <2>2. rows[r][c] \in Text /\ at \in Nat /\ Stands(input, at, w) /\ Len(w) \in Nat
        BY <1>1, <1>8, FieldOf
    <2>3. Consumed \in Nat /\ Consumed <= at + Len(w)
        BY <2>1, <2>2, FieldBounds DEF InRow
    <2>4. at + Len(w) + 1 <= Len(input)
        BY <2>2 DEF Stands
    <2> HIDE DEF at, w
    <2> QED
        BY <1>2, <2>2, <2>3, <2>4
<1>9. CASE Whole!Start
    <2>1. Call /\ Consumed' = Consumed
        BY <1>9, SameMachine DEF Whole!Start
    <2>2. Between(rows, r)
        BY <1>6, <2>1 DEF Call
    <2>3. Between(rows, r)'
        BY <2>1, <2>2 DEF Between, Call, Enter
    <2>4. Returned(rows, r)'
        BY <1>4, <2>1 DEF InTable, Returned, Call
    <2> QED
        BY <2>3, <2>4 DEF InTable
<1>10. CASE Whole!Parse
    <2>1. Consumed < Len(input) /\ ActsNext
        <3>1. /\ Consumed < Len(input)
              /\ Whole!OnByte(Whole!ByteAt(Consumed + 1), Whole!ByteAt(Consumed + 2))
              /\ Consumed' = Consumed + (IF Whole!TakesPair(Whole!ByteAt(Consumed + 1),
                                                            Whole!ByteAt(Consumed + 2))
                                         THEN 2 ELSE 1)
            BY <1>10 DEF Whole!Parse
        <3>2. Acts(Whole!ByteAt(Consumed + 1), Whole!ByteAt(Consumed + 2))
            BY <3>1, SameMachine DEF Acts
        <3>3. Consumed \in Nat
            BY InputType DEF IInv, Consumed, WindowInv
        <3>4. Whole!ByteAt(Consumed + 1) = input[Consumed + 1]
            BY <1>2, <3>1, <3>3 DEF Whole!ByteAt
        <3> QED
            BY <3>1, <3>2, <3>4 DEF ActsNext
    <2>2. status = "reading"
        BY <2>1 DEF ActsNext, Acts, OnByte
    <2>3. r \in 1..Len(rows)
        <3>1. ASSUME r = Len(rows) + 1 PROVE FALSE
            <4>1. Between(rows, r)
                BY <1>2, <1>4, <1>5, <3>1 DEF InTable
            <4> QED
                BY <1>2, <2>1, <3>1, <4>1 DEF Between
        <3> QED
            BY <1>2, <1>5, <3>1
    <2>4. PICK c \in 1..Len(rows[r]) : InRow(rows, r, c)
        BY <1>7, <2>2, <2>3
    <2>5. InTable(rows, r)' \/ InTable(rows, r + 1)'
        BY <1>1, <1>2, <1>4, <2>1, <2>3, <2>4, RowStep DEF InTable
    <2> QED
        BY <1>5, <2>3, <2>5
<1>11. CASE Whole!Finish
    <2>1. OnEnd /\ Consumed = Len(input) /\ Consumed' = Consumed
        BY <1>11, SameMachine DEF Whole!Finish
    <2>2. status = "reading"
        BY <2>1 DEF OnEnd, NoMoreRecords, LastRecord
    <2>3. r = Len(rows) + 1
        BY <1>2, <1>5, <1>8, <2>1, <2>2
    <2>4. Between(rows, r)
        BY <1>2, <1>4, <2>3 DEF InTable
    <2>5. NoMoreRecords
        BY <2>1, <2>4 DEF OnEnd, LastRecord, Between
    <2>6. Between(rows, r)' /\ Returned(rows, r)'
        BY <1>4, <2>1, <2>3, <2>4, <2>5 DEF Between, InTable, Returned, NoMoreRecords, Leave
    <2> QED
        BY <2>6 DEF InTable
<1>12. CASE Whole!Fail
    BY <1>12 DEF Whole!Fail, Whole!ReadFails, Whole!Leave
<1>13. CASE UNCHANGED Whole!wholeVars
    <2>1. UNCHANGED <<Consumed, status, fields, field, in_quotes, saw_any, output>>
        BY <1>13 DEF Whole!wholeVars, Whole!recordVars, Whole!locals
    <2>2. Returned(rows, r) => Returned(rows, r)'
        BY <2>1 DEF Returned
    <2>3. Between(rows, r) => Between(rows, r)'
        BY <2>1 DEF Between
    <2>4. ASSUME NEW c \in 1..Len(rows[r]), InRow(rows, r, c) PROVE InRow(rows, r, c)'
        BY <2>1, <2>4 DEF InRow, InField, InPlain, Opening, InQuoted, Closed
    <2>5. InTable(rows, r)'
        BY <1>4, <2>2, <2>3, <2>4 DEF InTable
    <2> QED
        BY <2>5
<1> QED
    BY <1>9, <1>10, <1>11, <1>12, <1>13 DEF Whole!Next

LEMMA TripInit == Init => TripInv
<1> SUFFICES ASSUME Init, NEW rows \in Tables, WriteAll(rows) = input
             PROVE  1 \in 1..(Len(rows) + 1) /\ InTable(rows, 1)
    BY DEF TripInv
<1>1. Len(rows) \in Nat /\ RowAt(rows, 1) = 0 /\ DOMAIN rows = 1..Len(rows)
    BY TableBytes
<1>2. Consumed = 0
    BY DEF Init, Consumed
<1>3. Between(rows, 1)
    BY <1>1, <1>2 DEF Between, Init, InitRecord
<1>4. Before(rows, 1) = {}
    BY <1>1 DEF Before, ComesBack
<1>5. Returned(rows, 1)
    BY <1>4, FS_EmptySet DEF Returned, Init, InitRecord
<1> QED
    BY <1>1, <1>3, <1>5 DEF InTable

\* The file has been read to its end: all rows that come back have been returned.
LEMMA TripImpliesRoundTrip == TripInv => RoundTrip
<1> SUFFICES ASSUME TripInv, status = "end", NEW w \in Written, w.bytes = input
             PROVE  /\ Len(output) = Cardinality(ComesBack(w.rows))
                    /\ \A n \in ComesBack(w.rows) :
                        output[RankOf(w.rows, n)].fields = w.rows[n]
    BY DEF RoundTrip, RankOf
<1>1. PICK rows \in Tables : w = [rows |-> rows, bytes |-> WriteAll(rows)]
    BY DEF Written
<1>2. w.rows = rows /\ WriteAll(rows) = input
    BY <1>1
<1>3. PICK r \in 1..(Len(rows) + 1) : InTable(rows, r)
    BY <1>2 DEF TripInv
<1>4. Between(rows, r) /\ Returned(rows, r)
    BY <1>3 DEF InTable, InRow
<1>5. r = Len(rows) + 1
    BY <1>4 DEF Between
<1>6. Before(rows, r) = ComesBack(rows)
    BY <1>5, TableBytes DEF Before, ComesBack
<1> QED
    BY <1>2, <1>4, <1>6 DEF Returned

\* For every set of tables of valid UTF-8, whatever their size, and however the
\* reads cut the file: what write_record wrote, next_record reads back field for
\* field and row by row, a row of one empty field excepted.
THEOREM WrittenFilesComeBack == Spec => []RoundTrip
<1>1. Init => TripInv
    BY TripInit
<1>2. IInv /\ IInv' /\ TripInv /\ [Next]_vars => TripInv'
    BY StepIInv, TripStep
<1>3. TripInv => RoundTrip
    BY TripImpliesRoundTrip
<1> QED
    BY <1>1, <1>2, <1>3, Invariance, PTL DEF Spec

----------------------------------------------------------------------------
(* The grammar, one byte of the file at a time. *)

\* A function on 1..n + 1 is one on 1..n with a value appended.
LEMMA OneLonger ==
    ASSUME NEW n \in Nat, NEW f, NEW g, DOMAIN f = 1..n, DOMAIN g = 1..(n + 1),
           f = [k \in DOMAIN f |-> f[k]], g = [k \in DOMAIN g |-> g[k]],
           \A k \in 1..n : g[k] = f[k]
    PROVE  g = Append(f, g[n + 1])
<1> DEFINE T == {g[k] : k \in 1..(n + 1)}
<1>1. f \in [1..n -> T] /\ g \in [1..(n + 1) -> T] /\ g[n + 1] \in T
    <2>1. \A k \in 1..(n + 1) : g[k] \in T
        OBVIOUS
    <2> HIDE DEF T
    <2> QED
        BY <2>1
<1> HIDE DEF T
<1>2. f \in Seq(T) /\ g \in Seq(T)
    <2>1. n \in Nat /\ n + 1 \in Nat
        OBVIOUS
    <2> QED
        BY <1>1, <2>1, SeqDef
<1>3. Len(f) = n /\ Len(g) = n + 1
    BY <1>2
<1>4. Append(f, g[n + 1]) \in Seq(T) /\ Len(Append(f, g[n + 1])) = n + 1
    BY <1>1, <1>2, <1>3
<1>5. \A k \in 1..(n + 1) : Append(f, g[n + 1])[k] = g[k]
    BY <1>1, <1>2, <1>3
<1> QED
    BY <1>2, <1>3, <1>4, <1>5, SeqEqual

\* A piece grows by the byte after it, unless that byte cuts it off.
LEMMA PieceNext ==
    ASSUME NEW cuts, NEW e \in Nat \ {0}
    PROVE  Grammar!Piece(cuts, e + 1)
               = IF e \in cuts THEN {} ELSE Grammar!Piece(cuts, e) \cup {e}
BY DEF Grammar!Piece

\* A piece ends before the position that names it.
LEMMA PieceType ==
    ASSUME NEW cuts, NEW e \in Nat
    PROVE  Grammar!Piece(cuts, e) \subseteq 1..(e - 1)
BY DEF Grammar!Piece

\* The grammar's instance counts as this module does.
LEMMA SameCardinality ==
    ASSUME NEW S
    PROVE  Grammar!Cardinality(S) = Cardinality(S)
BY DEF Grammar!Cardinality, Cardinality

\* A quote turns the parity, any other byte leaves it.
LEMMA InsideNext ==
    ASSUME NEW s, NEW e \in Nat \ {0}
    PROVE  Grammar!Inside(s, e + 1)
               <=> IF s[e] = Quote THEN ~Grammar!Inside(s, e) ELSE Grammar!Inside(s, e)
<1> DEFINE Q(i) == Grammar!QuotesBefore(s, i)
<1>1. IsFiniteSet(Q(e)) /\ Cardinality(Q(e)) \in Nat
    <2>1. IsFiniteSet(1..(e - 1))
        BY FS_Interval, 1 \in Int, e - 1 \in Int
    <2>2. IsFiniteSet(Q(e))
        BY <2>1, FS_Subset, Q(e) \subseteq 1..(e - 1) DEF Grammar!QuotesBefore
    <2> HIDE DEF Q
    <2> QED
        BY <2>2, FS_CardinalityType
<1>2. Q(e + 1) = IF s[e] = Quote THEN Q(e) \cup {e} ELSE Q(e)
    BY DEF Grammar!QuotesBefore
<1>3. e \notin Q(e)
    BY DEF Grammar!QuotesBefore
<1>4. /\ Grammar!Inside(s, e + 1) <=> Cardinality(Q(e + 1)) % 2 = 1
      /\ Grammar!Inside(s, e) <=> Cardinality(Q(e)) % 2 = 1
    BY SameCardinality DEF Grammar!Inside
<1> HIDE DEF Q
<1>5. Cardinality(Q(e) \cup {e}) = Cardinality(Q(e)) + 1
    BY <1>1, <1>3, FS_AddElement
<1>6. \A n \in Nat : (n + 1) % 2 = 1 <=> ~(n % 2 = 1)
    OBVIOUS
<1> QED
    BY <1>1, <1>2, <1>4, <1>5, <1>6

\* A place after all others takes the next rank and leaves the ranks of the others.
LEMMA RanksBelow ==
    ASSUME NEW S, S \subseteq Nat, IsFiniteSet(S), NEW x \in Nat, \A y \in S : y < x
    PROVE  /\ Cardinality(S) \in Nat
           /\ Cardinality(S \cup {x}) = Cardinality(S) + 1
           /\ \A k \in 1..Cardinality(S) : Grammar!AtRank(S \cup {x}, k) = Grammar!AtRank(S, k)
           /\ Grammar!AtRank(S \cup {x}, Cardinality(S) + 1) = {x}
<1> DEFINE Below(T, i) == {j \in T : j <= i}
           W == S \cup {x}
           n == Cardinality(S)
<1>1. x \notin S /\ n \in Nat
    BY FS_CardinalityType
<1>2. Cardinality(W) = n + 1
    BY <1>1, FS_AddElement
<1>3. ASSUME NEW y \in S PROVE Below(W, y) = Below(S, y)
    OBVIOUS
<1>4. ASSUME NEW y \in S PROVE Cardinality(Below(S, y)) \in 0..n
    <2>1. Below(S, y) \subseteq S
        OBVIOUS
    <2> HIDE DEF Below
    <2>2. IsFiniteSet(Below(S, y)) /\ Cardinality(Below(S, y)) <= n
        BY <2>1, FS_Subset
    <2> QED
        BY <2>2, <1>1, FS_CardinalityType
<1>5. Below(W, x) = W
    <2>1. \A j \in W : j <= x
        OBVIOUS
    <2> HIDE DEF W
    <2> QED
        BY <2>1
<1>6. \A T, k : Grammar!AtRank(T, k) = {i \in T : Cardinality(Below(T, i)) = k}
    BY SameCardinality DEF Grammar!AtRank
<1>7. /\ \A i \in W : i = x \/ i \in S
      /\ \A i \in S : i \in W
      /\ x \in W
    OBVIOUS
<1>8. /\ Cardinality(Below(W, x)) = n + 1
      /\ \A y \in S : Cardinality(Below(W, y)) = Cardinality(Below(S, y))
    BY <1>2, <1>3, <1>5
<1> HIDE DEF Below, W, n
<1>9. ASSUME NEW k \in 1..n PROVE Grammar!AtRank(W, k) = Grammar!AtRank(S, k)
    <2>1. \A i : i \in Grammar!AtRank(W, k) <=> i \in Grammar!AtRank(S, k)
        <3>1. n + 1 # k
            BY <1>1
        <3> QED
            BY <1>6, <1>7, <1>8, <3>1
    <2> QED
        BY <2>1
<1>10. Grammar!AtRank(W, n + 1) = {x}
    <2>1. \A y \in S : Cardinality(Below(S, y)) # n + 1
        BY <1>1, <1>4
    <2>2. \A i : i \in Grammar!AtRank(W, n + 1) <=> i = x
        BY <1>1, <1>6, <1>7, <1>8, <2>1
    <2> QED
        BY <2>2
<1> QED
    BY <1>1, <1>2, <1>9, <1>10 DEF W, n

\* In order, it comes last.
LEMMA InOrderAdds ==
    ASSUME NEW S, S \subseteq Nat, IsFiniteSet(S), NEW x \in Nat, \A y \in S : y < x
    PROVE  /\ Cardinality(S) \in Nat
           /\ DOMAIN Grammar!InOrder(S) = 1..Cardinality(S)
           /\ DOMAIN Grammar!InOrder(S \cup {x}) = 1..(Cardinality(S) + 1)
           /\ \A k \in 1..Cardinality(S) : Grammar!InOrder(S \cup {x})[k] = Grammar!InOrder(S)[k]
           /\ Grammar!InOrder(S \cup {x})[Cardinality(S) + 1] = x
<1> DEFINE The(T) == CHOOSE i \in T : TRUE
           W == S \cup {x}
           n == Cardinality(S)
<1>1. /\ n \in Nat /\ Cardinality(W) = n + 1
      /\ \A k \in 1..n : Grammar!AtRank(W, k) = Grammar!AtRank(S, k)
      /\ Grammar!AtRank(W, n + 1) = {x}
    BY RanksBelow
<1>2. /\ Grammar!InOrder(S) = [k \in 1..n |-> The(Grammar!AtRank(S, k))]
      /\ Grammar!InOrder(W) = [k \in 1..Cardinality(W) |-> The(Grammar!AtRank(W, k))]
    BY SameCardinality DEF Grammar!InOrder
<1>3. The({x}) = x
    OBVIOUS
<1>4. n + 1 \in 1..(n + 1) /\ \A k \in 1..n : k \in 1..(n + 1)
    BY <1>1
<1> HIDE DEF The, W, n
<1> QED
    BY <1>1, <1>2, <1>3, <1>4 DEF n, W

\* One byte of take_utf8
Lossy(b) == IF b \in Invalid THEN Replacement ELSE b

\* The contents of the cells that end at given places, and one after them.
LEMMA ContentsAdd ==
    ASSUME NEW s, NEW S, S \subseteq Nat, IsFiniteSet(S), NEW x \in Nat, \A y \in S : y < x
    PROVE  /\ Grammar!Contents(s, S \cup {x})
                 = Append(Grammar!Contents(s, S), Grammar!Content(s, x))
           /\ DOMAIN Grammar!Contents(s, S) = 1..Cardinality(S)
           /\ Cardinality(S) \in Nat
<1> DEFINE n == Cardinality(S)
           W == S \cup {x}
           f == Grammar!Contents(s, S)
           g == Grammar!Contents(s, W)
<1>1. /\ n \in Nat
      /\ DOMAIN Grammar!InOrder(S) = 1..n
      /\ DOMAIN Grammar!InOrder(W) = 1..(n + 1)
      /\ \A k \in 1..n : Grammar!InOrder(W)[k] = Grammar!InOrder(S)[k]
      /\ Grammar!InOrder(W)[n + 1] = x
    BY InOrderAdds
<1>2. \A T : Grammar!Contents(s, T)
        = [k \in DOMAIN Grammar!InOrder(T) |-> Grammar!Content(s, Grammar!InOrder(T)[k])]
    BY DEF Grammar!Contents
<1> HIDE DEF n, W
<1>3. /\ f = [k \in 1..n |-> Grammar!Content(s, Grammar!InOrder(S)[k])]
      /\ g = [k \in 1..(n + 1) |-> Grammar!Content(s, Grammar!InOrder(W)[k])]
    BY <1>1, <1>2
<1> HIDE DEF f, g
<1>4. /\ DOMAIN f = 1..n /\ DOMAIN g = 1..(n + 1)
      /\ f = [k \in DOMAIN f |-> f[k]] /\ g = [k \in DOMAIN g |-> g[k]]
      /\ \A k \in 1..n : g[k] = f[k]
      /\ g[n + 1] = Grammar!Content(s, x)
    BY <1>1, <1>3
<1>5. g = Append(f, g[n + 1])
    BY <1>1, <1>4, OneLonger
<1> QED
    BY <1>1, <1>4, <1>5 DEF f, g, W, n

\* The records of the lines that end at given places, and one after them.
LEMMA RecordsAdd ==
    ASSUME NEW s, NEW S, S \subseteq Nat, IsFiniteSet(S), NEW x \in Nat, \A y \in S : y < x
    PROVE  Grammar!RecordsOf(s, S \cup {x})
               = Append(Grammar!RecordsOf(s, S), Grammar!FieldsOf(s, x))
<1> DEFINE n == Cardinality(S)
           W == S \cup {x}
           f == Grammar!RecordsOf(s, S)
           g == Grammar!RecordsOf(s, W)
<1>1. /\ n \in Nat
      /\ DOMAIN Grammar!InOrder(S) = 1..n
      /\ DOMAIN Grammar!InOrder(W) = 1..(n + 1)
      /\ \A k \in 1..n : Grammar!InOrder(W)[k] = Grammar!InOrder(S)[k]
      /\ Grammar!InOrder(W)[n + 1] = x
    BY InOrderAdds
<1>2. \A T : Grammar!RecordsOf(s, T)
        = [k \in DOMAIN Grammar!InOrder(T) |-> Grammar!FieldsOf(s, Grammar!InOrder(T)[k])]
    BY DEF Grammar!RecordsOf
<1> HIDE DEF n, W
<1>3. /\ f = [k \in 1..n |-> Grammar!FieldsOf(s, Grammar!InOrder(S)[k])]
      /\ g = [k \in 1..(n + 1) |-> Grammar!FieldsOf(s, Grammar!InOrder(W)[k])]
    BY <1>1, <1>2
<1> HIDE DEF f, g
<1>4. /\ DOMAIN f = 1..n /\ DOMAIN g = 1..(n + 1)
      /\ f = [k \in DOMAIN f |-> f[k]] /\ g = [k \in DOMAIN g |-> g[k]]
      /\ \A k \in 1..n : g[k] = f[k]
      /\ g[n + 1] = Grammar!FieldsOf(s, x)
    BY <1>1, <1>3
<1>5. g = Append(f, g[n + 1])
    BY <1>1, <1>4, OneLonger
<1> QED
    BY <1>5, <1>4 DEF f, g, W

\* A cell whose text has one more byte, after the others.
LEMMA ContentAdds ==
    ASSUME NEW s, NEW d \in Nat, NEW e \in Nat, NEW x \in Nat,
           Grammar!Text(s, d) \subseteq Nat, IsFiniteSet(Grammar!Text(s, d)),
           \A y \in Grammar!Text(s, d) : y < x,
           Grammar!Text(s, e) = Grammar!Text(s, d) \cup {x}
    PROVE  Grammar!Content(s, e) = Append(Grammar!Content(s, d), Lossy(s[x]))
<1> DEFINE S == Grammar!Text(s, d)
           n == Cardinality(S)
           W == S \cup {x}
           f == Grammar!Content(s, d)
           g == Grammar!Content(s, e)
<1>1. /\ n \in Nat
      /\ DOMAIN Grammar!InOrder(S) = 1..n
      /\ DOMAIN Grammar!InOrder(W) = 1..(n + 1)
      /\ \A k \in 1..n : Grammar!InOrder(W)[k] = Grammar!InOrder(S)[k]
      /\ Grammar!InOrder(W)[n + 1] = x
    BY InOrderAdds
<1>2. \A c : Grammar!Content(s, c)
        = [k \in DOMAIN Grammar!InOrder(Grammar!Text(s, c)) |->
             Lossy(s[Grammar!InOrder(Grammar!Text(s, c))[k]])]
    BY DEF Grammar!Content, Lossy
<1>3. Grammar!Text(s, e) = W
    OBVIOUS
<1> HIDE DEF n, W
<1>4. /\ f = [k \in 1..n |-> Lossy(s[Grammar!InOrder(S)[k]])]
      /\ g = [k \in 1..(n + 1) |-> Lossy(s[Grammar!InOrder(W)[k]])]
    BY <1>1, <1>2, <1>3
<1> HIDE DEF f, g, S
<1>5. /\ DOMAIN f = 1..n /\ DOMAIN g = 1..(n + 1)
      /\ f = [k \in DOMAIN f |-> f[k]] /\ g = [k \in DOMAIN g |-> g[k]]
      /\ \A k \in 1..n : g[k] = f[k]
      /\ g[n + 1] = Lossy(s[x])
    BY <1>1, <1>4
<1>6. g = Append(f, g[n + 1])
    BY <1>1, <1>5, OneLonger
<1> QED
    BY <1>5, <1>6 DEF f, g

\* No places, in order.
LEMMA NoneInOrder == DOMAIN Grammar!InOrder({}) = {}
<1>1. Cardinality({}) = 0
    BY FS_EmptySet
<1> QED
    BY <1>1, SameCardinality DEF Grammar!InOrder

\* A function on no places is the empty sequence.
LEMMA NoPlaces ==
    ASSUME NEW f, f = [k \in DOMAIN f |-> f[k]], DOMAIN f = {}
    PROVE  f = << >>
<1>1. f \in [1..0 -> {}]
    OBVIOUS
<1>2. f \in Seq({}) /\ Len(f) = 0
    <2>1. f \in Seq({})
        BY <1>1, SeqDef
    <2> QED
        BY <1>1, <2>1
<1> QED
    BY <1>2, EmptySeq

\* No places, no contents; no lines, no records; no text, no content.
LEMMA NothingListed ==
    ASSUME NEW s
    PROVE  /\ Grammar!Contents(s, {}) = << >>
           /\ Grammar!RecordsOf(s, {}) = << >>
           /\ \A e : Grammar!Text(s, e) = {} => Grammar!Content(s, e) = << >>
<1>1. Grammar!Contents(s, {}) = << >>
    <2> DEFINE f == Grammar!Contents(s, {})
    <2>1. f = [k \in DOMAIN f |-> f[k]] /\ DOMAIN f = {}
        BY NoneInOrder DEF Grammar!Contents
    <2> HIDE DEF f
    <2> QED
        BY <2>1, NoPlaces DEF f
<1>2. Grammar!RecordsOf(s, {}) = << >>
    <2> DEFINE f == Grammar!RecordsOf(s, {})
    <2>1. f = [k \in DOMAIN f |-> f[k]] /\ DOMAIN f = {}
        BY NoneInOrder DEF Grammar!RecordsOf
    <2> HIDE DEF f
    <2> QED
        BY <2>1, NoPlaces DEF f
<1>3. ASSUME NEW e, Grammar!Text(s, e) = {} PROVE Grammar!Content(s, e) = << >>
    <2> DEFINE f == Grammar!Content(s, e)
    <2>1. f = [k \in DOMAIN f |-> f[k]] /\ DOMAIN f = {}
        BY <1>3, NoneInOrder DEF Grammar!Content
    <2> HIDE DEF f
    <2> QED
        BY <2>1, NoPlaces DEF f
<1> QED
    BY <1>1, <1>2, <1>3

\* take_utf8 goes byte by byte.
LEMMA TakeUtf8Next ==
    ASSUME NEW f \in Seq(Byte), NEW b \in Byte
    PROVE  TakeUtf8(Append(f, b)) = Append(TakeUtf8(f), Lossy(b))
<1> DEFINE n == Len(f)
           h == TakeUtf8(f)
           g == TakeUtf8(Append(f, b))
<1>1. /\ n \in Nat /\ DOMAIN f = 1..n /\ DOMAIN Append(f, b) = 1..(n + 1)
      /\ \A k \in 1..n : Append(f, b)[k] = f[k]
      /\ Append(f, b)[n + 1] = b
    OBVIOUS
<1>2. /\ h = [k \in 1..n |-> Lossy(f[k])]
      /\ g = [k \in 1..(n + 1) |-> Lossy(Append(f, b)[k])]
    BY <1>1 DEF TakeUtf8, Lossy
<1> HIDE DEF h, g, n
<1>3. /\ DOMAIN h = 1..n /\ DOMAIN g = 1..(n + 1)
      /\ h = [k \in DOMAIN h |-> h[k]] /\ g = [k \in DOMAIN g |-> g[k]]
      /\ \A k \in 1..n : g[k] = h[k]
      /\ g[n + 1] = Lossy(b)
    BY <1>1, <1>2
<1>4. g = Append(h, g[n + 1])
    BY <1>1, <1>3, OneLonger
<1> QED
    BY <1>3, <1>4 DEF g, h

\* take_utf8 neither adds nor drops a byte.
LEMMA TakeUtf8Empty ==
    ASSUME NEW f \in Seq(Byte)
    PROVE  TakeUtf8(f) = << >> <=> f = << >>
<1>1. TakeUtf8(f) \in Seq(Byte) /\ DOMAIN TakeUtf8(f) = DOMAIN f
    BY TakeUtf8Type DEF TakeUtf8
<1>2. Len(TakeUtf8(f)) = Len(f)
    BY <1>1
<1> QED
    BY <1>1, <1>2, EmptySeq

\* A piece is a finite set of positions before its end.
LEMMA PieceFinite ==
    ASSUME NEW cuts, NEW e \in Nat, NEW S, S \subseteq Grammar!Piece(cuts, e)
    PROVE  IsFiniteSet(S) /\ S \subseteq Nat /\ \A y \in S : y < e
<1>1. S \subseteq 1..(e - 1)
    BY PieceType
<1>2. IsFiniteSet(1..(e - 1))
    BY FS_Interval, 1 \in Int, e - 1 \in Int
<1>3. IsFiniteSet(S)
    BY <1>1, <1>2, FS_Subset
<1> QED
    BY <1>1, <1>3

\* The content of the cell so far: empty after a break, and one byte longer after
\* a byte that is data (a quote is data only if it is the second of a doubled one).
LEMMA ContentNext ==
    ASSUME NEW s, NEW e \in Nat \ {0}
    PROVE  Grammar!Content(s, e + 1)
               = IF e \in Grammar!Breaks(s) THEN << >>
                 ELSE IF s[e] # Quote \/ e \in Grammar!Doubled(s)
                 THEN Append(Grammar!Content(s, e), Lossy(s[e]))
                 ELSE Grammar!Content(s, e)
<1>1. Grammar!Piece(Grammar!Breaks(s), e + 1)
        = IF e \in Grammar!Breaks(s) THEN {} ELSE Grammar!Piece(Grammar!Breaks(s), e) \cup {e}
    BY PieceNext
<1>2. CASE e \in Grammar!Breaks(s)
    <2>1. Grammar!Text(s, e + 1) = {}
        BY <1>1, <1>2 DEF Grammar!Text
    <2> QED
        BY <1>2, <2>1, NothingListed
<1>3. CASE e \notin Grammar!Breaks(s) /\ (s[e] # Quote \/ e \in Grammar!Doubled(s))
    <2>1. Grammar!Text(s, e + 1) = Grammar!Text(s, e) \cup {e}
        BY <1>1, <1>3 DEF Grammar!Text
    <2>2. Grammar!Text(s, e) \subseteq Grammar!Piece(Grammar!Breaks(s), e)
        BY DEF Grammar!Text
    <2>3. /\ Grammar!Text(s, e) \subseteq Nat /\ IsFiniteSet(Grammar!Text(s, e))
          /\ \A y \in Grammar!Text(s, e) : y < e
        BY <2>2, PieceFinite
    <2>4. e \in Nat /\ e + 1 \in Nat
        OBVIOUS
    <2>5. Grammar!Content(s, e + 1) = Append(Grammar!Content(s, e), Lossy(s[e]))
        BY <2>1, <2>3, <2>4, ContentAdds
    <2> QED
        BY <1>3, <2>5
<1>4. CASE e \notin Grammar!Breaks(s) /\ ~(s[e] # Quote \/ e \in Grammar!Doubled(s))
    <2>1. Grammar!Text(s, e + 1) = Grammar!Text(s, e)
        BY <1>1, <1>4 DEF Grammar!Text
    <2> QED
        BY <1>4, <2>1 DEF Grammar!Content
<1> QED
    BY <1>2, <1>3, <1>4

\* The line that runs up to e, and the ends of the cells already ended in it
LineTo(s, e) == Grammar!Piece(Grammar!Terminators(s), e)
Ended(s, e) == LineTo(s, e) \cap Grammar!Delimiters(s)

\* A line starts over after a terminator.
LEMMA LineAtTerminator ==
    ASSUME NEW s, NEW e \in Nat \ {0}, e \in Grammar!Terminators(s)
    PROVE  /\ LineTo(s, e + 1) = {}
           /\ Grammar!Contents(s, Ended(s, e + 1)) = << >>
<1>1. LineTo(s, e + 1) = {}
    BY PieceNext DEF LineTo
<1> QED
    BY <1>1, NothingListed DEF Ended

\* A delimiter is a byte of its line and ends a cell of it.
LEMMA LineAtDelimiter ==
    ASSUME NEW s, NEW e \in Nat \ {0}, e \in Grammar!Delimiters(s),
           e \notin Grammar!Terminators(s)
    PROVE  /\ LineTo(s, e + 1) = LineTo(s, e) \cup {e}
           /\ Grammar!Contents(s, Ended(s, e + 1))
                = Append(Grammar!Contents(s, Ended(s, e)), Grammar!Content(s, e))
<1>1. LineTo(s, e + 1) = LineTo(s, e) \cup {e}
    BY PieceNext DEF LineTo
<1>2. Ended(s, e + 1) = Ended(s, e) \cup {e}
    BY <1>1 DEF Ended
<1>3. Ended(s, e) \subseteq Nat /\ IsFiniteSet(Ended(s, e)) /\ \A y \in Ended(s, e) : y < e
    BY PieceFinite DEF Ended, LineTo
<1>4. e \in Nat
    OBVIOUS
<1>5. Grammar!Contents(s, Ended(s, e) \cup {e})
        = Append(Grammar!Contents(s, Ended(s, e)), Grammar!Content(s, e))
    BY <1>3, <1>4, ContentsAdd
<1> QED
    BY <1>1, <1>2, <1>5

\* Any other byte lengthens the line and ends no cell.
LEMMA LineAtData ==
    ASSUME NEW s, NEW e \in Nat \ {0}, e \notin Grammar!Breaks(s)
    PROVE  /\ LineTo(s, e + 1) = LineTo(s, e) \cup {e}
           /\ Ended(s, e + 1) = Ended(s, e)
<1>1. LineTo(s, e + 1) = LineTo(s, e) \cup {e}
    BY PieceNext DEF LineTo, Grammar!Breaks
<1>2. Ended(s, e + 1) = Ended(s, e)
    BY <1>1 DEF Ended, Grammar!Breaks
<1> QED
    BY <1>1, <1>2

\* The fields of a line are those of the cells ended in it and its last one.
LEMMA FieldsAtEnd ==
    ASSUME NEW s, NEW e \in Nat
    PROVE  /\ Grammar!FieldsOf(s, e)
                = Append(Grammar!Contents(s, Ended(s, e)), Grammar!Content(s, e))
           /\ DOMAIN Grammar!Contents(s, Ended(s, e)) = 1..Cardinality(Ended(s, e))
           /\ Cardinality(Ended(s, e)) \in Nat
<1>1. Ended(s, e) \subseteq Nat /\ IsFiniteSet(Ended(s, e)) /\ \A y \in Ended(s, e) : y < e
    BY PieceFinite DEF Ended, LineTo
<1>2. Grammar!FieldsOf(s, e) = Grammar!Contents(s, Ended(s, e) \cup {e})
    BY DEF Grammar!FieldsOf, Ended, LineTo
<1> QED
    BY <1>1, <1>2, ContentsAdd

\* The lines kept that end within the first c bytes
KeptTo(s, c) == {e \in Kept(s) : e <= c}

\* The records of the lines that end in one byte more of the file.
LEMMA KeptNext ==
    ASSUME NEW s, Len(s) \in Nat, DOMAIN s = 1..Len(s), NEW c \in Nat, c <= Len(s)
    PROVE  /\ c + 1 \notin Kept(s) => KeptTo(s, c + 1) = KeptTo(s, c)
           /\ c + 1 \in Kept(s) =>
                Grammar!RecordsOf(s, KeptTo(s, c + 1))
                    = Append(Grammar!RecordsOf(s, KeptTo(s, c)), Grammar!FieldsOf(s, c + 1))
           /\ KeptTo(s, Len(s) + 1) = Kept(s)
<1>1. Kept(s) \subseteq 1..(Len(s) + 1)
    BY DEF Kept, Grammar!Lines, Grammar!Terminators, Grammar!Unquoted
<1>2. c + 1 \notin Kept(s) => KeptTo(s, c + 1) = KeptTo(s, c)
    BY <1>1 DEF KeptTo
<1>3. ASSUME c + 1 \in Kept(s)
      PROVE  Grammar!RecordsOf(s, KeptTo(s, c + 1))
                 = Append(Grammar!RecordsOf(s, KeptTo(s, c)), Grammar!FieldsOf(s, c + 1))
    <2>1. KeptTo(s, c + 1) = KeptTo(s, c) \cup {c + 1}
        BY <1>1, <1>3 DEF KeptTo
    <2>2. /\ KeptTo(s, c) \subseteq Nat /\ KeptTo(s, c) \subseteq 1..c
          /\ \A y \in KeptTo(s, c) : y < c + 1
        BY <1>1 DEF KeptTo
    <2>3. IsFiniteSet(KeptTo(s, c))
        <3>1. IsFiniteSet(1..c)
            BY FS_Interval, 1 \in Int, c \in Int
        <3> QED
            BY <2>2, <3>1, FS_Subset
    <2>4. c + 1 \in Nat
        OBVIOUS
    <2> QED
        BY <2>1, <2>2, <2>3, <2>4, RecordsAdd
<1>4. KeptTo(s, Len(s) + 1) = Kept(s)
    BY <1>1 DEF KeptTo
<1> QED
    BY <1>2, <1>3, <1>4

----------------------------------------------------------------------------
(* The reader at the places of the grammar. *)

\* The locals of an activation that has read nothing
Fresh == fields = << >> /\ field = << >> /\ ~in_quotes /\ ~saw_any

\* c bytes have been read and the reader is in the line they end in: it has
\* returned the lines before, and holds the cells ended and the content so far.
WithinAt(c) ==
    /\ Fields(output) = Grammar!RecordsOf(input, KeptTo(input, c))
    /\ fields = Grammar!Contents(input, Ended(input, c + 1))
    /\ TakeUtf8(field) = Grammar!Content(input, c + 1)
    /\ in_quotes <=> Grammar!Inside(input, c + 1)
    /\ saw_any <=> LineTo(input, c + 1) # {}
    /\ c + 1 \notin Grammar!Doubled(input)
    /\ status = "idle" => Fresh
    /\ status # "end"

\* The last line has been returned, or there was none
AllRead ==
    /\ Consumed = Len(input)
    /\ Fields(output) = Grammar!RecordsOf(input, Kept(input))
    /\ Fresh

\* Where a reader of a well-formed file that has not failed is
GrammarInv ==
    status # "failed" /\ Grammar!WellFormed(input) => WithinAt(Consumed) \/ AllRead

\* The places of the grammar are bytes of the file.
LEMMA PlaceOf ==
    ASSUME NEW s \in Seq(Byte), NEW e \in 1..Len(s)
    PROVE  /\ e \in Grammar!Terminators(s) <=> s[e] \in {CR, LF} /\ ~Grammar!Inside(s, e)
           /\ e \in Grammar!Delimiters(s) <=> s[e] = Delimiter /\ ~Grammar!Inside(s, e)
           /\ e \in Grammar!Doubled(s) <=>
                /\ s[e] = Quote /\ ~Grammar!Inside(s, e)
                /\ e > 1 /\ s[e - 1] = Quote
           /\ e \notin Grammar!Terminators(s) => e \notin Kept(s)
BY DEF Grammar!Terminators, Grammar!Delimiters, Grammar!Doubled, Grammar!Unquoted,
       Kept, Grammar!Lines

\* A byte that cuts nothing, read into the field.
LEMMA DataStep ==
    ASSUME TypeOK, input' = input, NEW c \in Nat, c < Len(input), WithinAt(c),
           status = "reading",
           c + 1 \notin Grammar!Breaks(input), input[c + 1] # Quote, Push(input[c + 1])
    PROVE  WithinAt(c + 1)'
<1> DEFINE e == c + 1
<1>1. /\ input \in Seq(Byte) /\ Len(input) \in Nat /\ DOMAIN input = 1..Len(input)
      /\ e \in 1..Len(input) /\ input[e] \in Byte /\ e \in Nat \ {0} /\ e \in Nat
    BY InputType
<1>2. /\ e \notin Grammar!Terminators(input) /\ e \notin Kept(input)
      /\ KeptTo(input, e) = KeptTo(input, c)
    BY <1>1, PlaceOf, KeptNext DEF Grammar!Breaks
<1>3. /\ LineTo(input, e + 1) = LineTo(input, e) \cup {e}
      /\ Ended(input, e + 1) = Ended(input, e)
    BY <1>1, LineAtData
<1>4. Grammar!Content(input, e + 1) = Append(Grammar!Content(input, e), Lossy(input[e]))
    BY <1>1, ContentNext
<1>5. Grammar!Inside(input, e + 1) <=> Grammar!Inside(input, e)
    BY <1>1, InsideNext
<1>6. e + 1 \notin Grammar!Doubled(input)
    BY <1>1 DEF Grammar!Doubled
<1>7. TakeUtf8(field)' = Append(TakeUtf8(field), Lossy(input[e]))
    <2>1. field \in Seq(Byte) /\ field' = Append(field, input[e])
        BY DEF Push, TypeOK, TypeOKRecord
    <2>2. TakeUtf8(Append(field, input[e])) = Append(TakeUtf8(field), Lossy(input[e]))
        BY <1>1, <2>1, TakeUtf8Next
    <2> QED
        BY <2>1, <2>2 DEF TakeUtf8
<1>8. /\ UNCHANGED <<status, fields, in_quotes, output>>
      /\ saw_any' = TRUE /\ Fields(output)' = Fields(output)
    BY DEF Push, Fields
<1>9. /\ Fields(output) = Grammar!RecordsOf(input, KeptTo(input, c))
      /\ fields = Grammar!Contents(input, Ended(input, e))
      /\ TakeUtf8(field) = Grammar!Content(input, e)
      /\ in_quotes <=> Grammar!Inside(input, e)
    BY DEF WithinAt
<1>10. /\ (Fields(output) = Grammar!RecordsOf(input, KeptTo(input, e)))'
       /\ (fields = Grammar!Contents(input, Ended(input, e + 1)))'
       /\ (TakeUtf8(field) = Grammar!Content(input, e + 1))'
    BY <1>2, <1>3, <1>4, <1>7, <1>8, <1>9
<1>11. (in_quotes <=> Grammar!Inside(input, e + 1))'
    BY <1>5, <1>8, <1>9
<1>12. (saw_any <=> LineTo(input, e + 1) # {})'
    BY <1>3, <1>8
<1>13. (e + 1 \notin Grammar!Doubled(input))' /\ status' = "reading"
    BY <1>6, <1>8
<1> QED
    BY <1>10, <1>11, <1>12, <1>13 DEF WithinAt

\* The first quote of a doubled one and the one after it, which is data.
LEMMA DoubledStep ==
    ASSUME TypeOK, input' = input, NEW c \in Nat, c + 1 < Len(input), WithinAt(c),
           status = "reading", in_quotes,
           input[c + 1] = Quote, input[c + 2] = Quote, Push(Quote)
    PROVE  WithinAt(c + 2)'
<1> DEFINE e == c + 1
<1>1. /\ input \in Seq(Byte) /\ Len(input) \in Nat /\ DOMAIN input = 1..Len(input)
      /\ e \in 1..Len(input) /\ e + 1 \in 1..Len(input)
      /\ e \in Nat \ {0} /\ e + 1 \in Nat \ {0} /\ e \in Nat /\ e + 1 \in Nat
      /\ e <= Len(input) /\ (e + 1) - 1 = e /\ e + 1 > 1
      /\ input[e] = Quote /\ input[e + 1] = Quote /\ Quote \in Byte
    BY InputType DEF Byte, Special
<1>2. Grammar!Inside(input, e) /\ ~Grammar!Inside(input, e + 1)
      /\ Grammar!Inside(input, e + 2)
    <2>1. Grammar!Inside(input, e)
        BY DEF WithinAt
    <2>2. ~Grammar!Inside(input, e + 1)
        BY <1>1, <2>1, InsideNext
    <2>3. Grammar!Inside(input, e + 1 + 1)
        BY <1>1, <2>2, InsideNext
    <2>4. e + 1 + 1 = e + 2
        BY <1>1
    <2> QED
        BY <2>1, <2>2, <2>3, <2>4
<1>3. /\ e \notin Grammar!Breaks(input) /\ e + 1 \notin Grammar!Breaks(input)
      /\ e \notin Grammar!Doubled(input) /\ e + 1 \in Grammar!Doubled(input)
      /\ e \notin Kept(input) /\ e + 1 \notin Kept(input)
    <2>1. Quote \notin {CR, LF} /\ Quote # Delimiter
        BY BytesAssumption
    <2>2. /\ e \notin Grammar!Terminators(input) /\ e + 1 \notin Grammar!Terminators(input)
          /\ e \notin Grammar!Delimiters(input) /\ e + 1 \notin Grammar!Delimiters(input)
        BY <1>1, <2>1, PlaceOf
    <2> QED
        BY <1>1, <1>2, <2>2, PlaceOf DEF Grammar!Breaks
<1>4. KeptTo(input, e + 1) = KeptTo(input, c)
    <2>1. KeptTo(input, e) = KeptTo(input, c)
        BY <1>1, <1>3, KeptNext
    <2>2. KeptTo(input, e + 1) = KeptTo(input, e)
        BY <1>1, <1>3, KeptNext
    <2> QED
        BY <2>1, <2>2
<1>5. /\ LineTo(input, e + 2) # {}
      /\ Ended(input, e + 2) = Ended(input, e)
    <2>1. Ended(input, e + 1) = Ended(input, e)
        BY <1>1, <1>3, LineAtData
    <2>2. /\ Ended(input, e + 1 + 1) = Ended(input, e + 1)
          /\ LineTo(input, e + 1 + 1) = LineTo(input, e + 1) \cup {e + 1}
        BY <1>1, <1>3, LineAtData
    <2>3. e + 1 + 1 = e + 2
        BY <1>1
    <2> QED
        BY <2>1, <2>2, <2>3
<1>6. Grammar!Content(input, e + 2) = Append(Grammar!Content(input, e), Lossy(Quote))
    <2>1. Grammar!Content(input, e + 1) = Grammar!Content(input, e)
        BY <1>1, <1>3, ContentNext
    <2>2. Grammar!Content(input, e + 1 + 1) = Append(Grammar!Content(input, e + 1), Lossy(Quote))
        BY <1>1, <1>3, ContentNext
    <2>3. e + 1 + 1 = e + 2
        BY <1>1
    <2> QED
        BY <2>1, <2>2, <2>3
<1>7. e + 2 \notin Grammar!Doubled(input)
    BY <1>2 DEF Grammar!Doubled, Grammar!Unquoted
<1>8. TakeUtf8(field)' = Append(TakeUtf8(field), Lossy(Quote))
    <2>1. field \in Seq(Byte) /\ field' = Append(field, Quote)
        BY DEF Push, TypeOK, TypeOKRecord
    <2>2. TakeUtf8(Append(field, Quote)) = Append(TakeUtf8(field), Lossy(Quote))
        BY <1>1, <2>1, TakeUtf8Next
    <2> QED
        BY <2>1, <2>2 DEF TakeUtf8
<1>9. /\ UNCHANGED <<status, fields, in_quotes, output>>
      /\ saw_any' = TRUE /\ Fields(output)' = Fields(output)
    BY DEF Push, Fields
<1>10. /\ (Fields(output) = Grammar!RecordsOf(input, KeptTo(input, e + 1)))'
       /\ (fields = Grammar!Contents(input, Ended(input, e + 2)))'
       /\ (TakeUtf8(field) = Grammar!Content(input, e + 2))'
    <2>1. /\ Fields(output) = Grammar!RecordsOf(input, KeptTo(input, c))
          /\ fields = Grammar!Contents(input, Ended(input, e))
          /\ TakeUtf8(field) = Grammar!Content(input, e)
        BY DEF WithinAt
    <2> QED
        BY <1>4, <1>5, <1>6, <1>8, <1>9, <2>1
<1>11. (in_quotes <=> Grammar!Inside(input, e + 2))' /\ (saw_any <=> LineTo(input, e + 2) # {})'
    BY <1>2, <1>5, <1>9
<1>12. (e + 2 \notin Grammar!Doubled(input))' /\ status' = "reading"
    BY <1>7, <1>9
<1>13. c + 2 = e + 1 /\ c + 2 + 1 = e + 2
    OBVIOUS
<1> QED
    BY <1>10, <1>11, <1>12, <1>13 DEF WithinAt

\* A quote that opens or closes: it is no data, and the byte after it is no
\* doubled quote.
LEMMA QuoteStep ==
    ASSUME TypeOK, input' = input, NEW c \in Nat, c < Len(input), WithinAt(c),
           status = "reading", input[c + 1] = Quote,
           in_quotes /\ c + 2 \in 1..Len(input) => input[c + 2] # Quote,
           SetQuotes(~in_quotes)
    PROVE  WithinAt(c + 1)'
<1> DEFINE e == c + 1
<1>1. /\ input \in Seq(Byte) /\ Len(input) \in Nat /\ DOMAIN input = 1..Len(input)
      /\ e \in 1..Len(input) /\ input[e] = Quote /\ e \in Nat \ {0} /\ e \in Nat
      /\ e + 1 = c + 2
    BY InputType
<1>2. Grammar!Inside(input, e + 1) <=> ~Grammar!Inside(input, e)
    BY <1>1, InsideNext
<1>3. /\ e \notin Grammar!Breaks(input) /\ e \notin Kept(input)
      /\ e \notin Grammar!Doubled(input) /\ e + 1 \notin Grammar!Doubled(input)
    <2>1. Quote \notin {CR, LF} /\ Quote # Delimiter
        BY BytesAssumption
    <2>2. e \notin Grammar!Terminators(input) /\ e \notin Grammar!Delimiters(input)
        BY <1>1, <2>1, PlaceOf
    <2>3. e \notin Grammar!Doubled(input) /\ (in_quotes <=> Grammar!Inside(input, e))
        BY DEF WithinAt
    <2>4. e + 1 \notin Grammar!Doubled(input)
        BY <1>1, <1>2, <2>3 DEF Grammar!Doubled, Grammar!Unquoted
    <2> QED
        BY <1>1, <2>2, <2>3, <2>4, PlaceOf DEF Grammar!Breaks
<1>4. KeptTo(input, e) = KeptTo(input, c)
    BY <1>1, <1>3, KeptNext
<1>5. /\ LineTo(input, e + 1) = LineTo(input, e) \cup {e}
      /\ Ended(input, e + 1) = Ended(input, e)
    BY <1>1, <1>3, LineAtData
<1>6. Grammar!Content(input, e + 1) = Grammar!Content(input, e)
    BY <1>1, <1>3, ContentNext
<1>7. /\ UNCHANGED <<status, fields, field, output>> /\ in_quotes' = ~in_quotes
      /\ saw_any' = TRUE /\ Fields(output)' = Fields(output)
      /\ TakeUtf8(field)' = TakeUtf8(field)
    BY DEF SetQuotes, Fields, TakeUtf8
<1>8. /\ Fields(output) = Grammar!RecordsOf(input, KeptTo(input, c))
      /\ fields = Grammar!Contents(input, Ended(input, e))
      /\ TakeUtf8(field) = Grammar!Content(input, e)
      /\ in_quotes <=> Grammar!Inside(input, e)
    BY DEF WithinAt
<1>9. /\ (Fields(output) = Grammar!RecordsOf(input, KeptTo(input, e)))'
      /\ (fields = Grammar!Contents(input, Ended(input, e + 1)))'
      /\ (TakeUtf8(field) = Grammar!Content(input, e + 1))'
    BY <1>4, <1>5, <1>6, <1>7, <1>8
<1>10. (in_quotes <=> Grammar!Inside(input, e + 1))'
    BY <1>2, <1>7, <1>8
<1>11. (saw_any <=> LineTo(input, e + 1) # {})'
    BY <1>5, <1>7
<1>12. (e + 1 \notin Grammar!Doubled(input))' /\ status' = "reading"
    BY <1>3, <1>7
<1> QED
    BY <1>9, <1>10, <1>11, <1>12 DEF WithinAt

\* A delimiter outside quotes ends the field.
LEMMA DelimiterStep ==
    ASSUME TypeOK, input' = input, NEW c \in Nat, c < Len(input), WithinAt(c),
           status = "reading", EndField(input[c + 1])
    PROVE  WithinAt(c + 1)'
<1> DEFINE e == c + 1
<1>1. /\ input \in Seq(Byte) /\ Len(input) \in Nat /\ DOMAIN input = 1..Len(input)
      /\ e \in 1..Len(input) /\ e \in Nat \ {0} /\ e \in Nat
      /\ (e + 1) - 1 = e
      /\ input[e] = Delimiter /\ Delimiter \notin {CR, LF} /\ Delimiter # Quote
      /\ ~in_quotes
    BY InputType, BytesAssumption DEF EndField
<1>2. /\ Fields(output) = Grammar!RecordsOf(input, KeptTo(input, c))
      /\ fields = Grammar!Contents(input, Ended(input, e))
      /\ TakeUtf8(field) = Grammar!Content(input, e)
      /\ ~Grammar!Inside(input, e)
    BY <1>1 DEF WithinAt
<1>3. /\ e \in Grammar!Delimiters(input) /\ e \notin Grammar!Terminators(input)
      /\ e \in Grammar!Breaks(input) /\ e \notin Kept(input)
    BY <1>1, <1>2, PlaceOf DEF Grammar!Breaks
<1>4. e + 1 \notin Grammar!Doubled(input) /\ ~Grammar!Inside(input, e + 1)
    BY <1>1, <1>2, InsideNext DEF Grammar!Doubled
<1>5. KeptTo(input, e) = KeptTo(input, c)
    BY <1>1, <1>3, KeptNext
<1>6. /\ LineTo(input, e + 1) = LineTo(input, e) \cup {e}
      /\ Grammar!Contents(input, Ended(input, e + 1))
           = Append(Grammar!Contents(input, Ended(input, e)), Grammar!Content(input, e))
    BY <1>1, <1>3, LineAtDelimiter
<1>7. Grammar!Content(input, e + 1) = << >>
    BY <1>1, <1>3, ContentNext
<1>8. /\ UNCHANGED <<status, in_quotes, output>> /\ field' = << >>
      /\ fields' = Append(fields, TakeUtf8(field))
      /\ saw_any' = TRUE /\ Fields(output)' = Fields(output)
    BY DEF EndField, Fields
<1>9. TakeUtf8(field)' = << >>
    <2>1. TakeUtf8(<< >>) = << >>
        BY TakeUtf8Empty, << >> \in Seq(Byte)
    <2> QED
        BY <1>8, <2>1 DEF TakeUtf8
<1>10. /\ (Fields(output) = Grammar!RecordsOf(input, KeptTo(input, e)))'
       /\ (fields = Grammar!Contents(input, Ended(input, e + 1)))'
       /\ (TakeUtf8(field) = Grammar!Content(input, e + 1))'
    BY <1>2, <1>5, <1>6, <1>7, <1>8, <1>9
<1>11. (in_quotes <=> Grammar!Inside(input, e + 1))'
    BY <1>1, <1>4, <1>8
<1>12. (saw_any <=> LineTo(input, e + 1) # {})'
    BY <1>6, <1>8
<1>13. (e + 1 \notin Grammar!Doubled(input))' /\ status' = "reading"
    BY <1>4, <1>8
<1> QED
    BY <1>10, <1>11, <1>12, <1>13 DEF WithinAt

\* After a terminator the locals are those of an activation that has read
\* nothing.
LEMMA AfterTerminator ==
    ASSUME input' = input, input \in Seq(Byte), NEW e \in 1..Len(input),
           e \in Grammar!Terminators(input), input[e] # Quote,
           Fresh', status' \in {"idle", "reading"},
           Fields(output)' = Grammar!RecordsOf(input, KeptTo(input, e))
    PROVE  WithinAt(e)'
<1>1. /\ DOMAIN input = 1..Len(input) /\ e \in Nat \ {0}
      /\ (e + 1) - 1 = e /\ e \in Grammar!Breaks(input)
    BY DEF Grammar!Breaks
<1>2. ~Grammar!Inside(input, e + 1)
    BY <1>1, InsideNext, PlaceOf
<1>3. e + 1 \notin Grammar!Doubled(input)
    BY <1>1 DEF Grammar!Doubled
<1>4. LineTo(input, e + 1) = {} /\ Grammar!Contents(input, Ended(input, e + 1)) = << >>
    BY <1>1, LineAtTerminator
<1>5. Grammar!Content(input, e + 1) = << >>
    BY <1>1, ContentNext
<1>6. TakeUtf8(field)' = << >>
    <2>1. TakeUtf8(<< >>) = << >>
        BY TakeUtf8Empty, << >> \in Seq(Byte)
    <2> QED
        BY <2>1 DEF TakeUtf8, Fresh
<1>7. fields' = << >> /\ ~in_quotes' /\ ~saw_any'
    BY DEF Fresh
<1>8. /\ (fields = Grammar!Contents(input, Ended(input, e + 1)))'
      /\ (TakeUtf8(field) = Grammar!Content(input, e + 1))'
      /\ (saw_any <=> LineTo(input, e + 1) # {})'
    BY <1>4, <1>5, <1>6, <1>7
<1>9. (in_quotes <=> Grammar!Inside(input, e + 1))' /\ (e + 1 \notin Grammar!Doubled(input))'
    BY <1>2, <1>3, <1>7
<1>10. (Fields(output) = Grammar!RecordsOf(input, KeptTo(input, e)))'
    BY DEF Fresh
<1> QED
    BY <1>8, <1>9, <1>10 DEF WithinAt

\* The LF of a CRLF ends a blank line, which is not kept.
LEMMA LfOfPair ==
    ASSUME input \in Seq(Byte), NEW e \in 1..Len(input), e + 1 \in 1..Len(input),
           e \in Grammar!Terminators(input), input[e] # Quote, input[e + 1] = LF
    PROVE  /\ e + 1 \in Grammar!Terminators(input)
           /\ KeptTo(input, e + 1) = KeptTo(input, e)
<1>1. /\ DOMAIN input = 1..Len(input) /\ Len(input) \in Nat
      /\ e \in Nat \ {0} /\ e \in Nat /\ e <= Len(input) /\ e + 1 # Len(input) + 1
    OBVIOUS
<1>2. ~Grammar!Inside(input, e + 1)
    BY <1>1, InsideNext, PlaceOf
<1>3. e + 1 \in Grammar!Terminators(input)
    BY <1>2, PlaceOf
<1>4. LineTo(input, e + 1) = {}
    BY <1>1, LineAtTerminator
<1>5. e + 1 \notin Kept(input)
    BY <1>4 DEF Kept, Grammar!Lines, LineTo
<1> QED
    BY <1>1, <1>3, <1>5, KeptNext

\* A returned record adds its fields to those returned.
LEMMA RecordReturned ==
    ASSUME TypeOK, ReturnRecord
    PROVE  Fields(output)' = Append(Fields(output), Append(fields, TakeUtf8(field)))
<1> DEFINE n == Len(output)
           r == [fields |-> Append(fields, TakeUtf8(field)), line |-> start_line]
           f == Fields(output)
           g == Fields(Append(output, r))
<1>1. /\ output \in Seq([fields : Seq(Seq(Byte)), line : Nat]) /\ output' = Append(output, r)
    BY DEF ReturnRecord, TypeOK, TypeOKRecord
<1>2. r.fields = Append(fields, TakeUtf8(field))
    OBVIOUS
<1> HIDE DEF r
<1>3. /\ n \in Nat /\ DOMAIN output = 1..n /\ DOMAIN Append(output, r) = 1..(n + 1)
      /\ \A k \in 1..n : Append(output, r)[k] = output[k]
      /\ Append(output, r)[n + 1] = r
    BY <1>1
<1>4. /\ f = [k \in 1..n |-> output[k].fields]
      /\ g = [k \in 1..(n + 1) |-> Append(output, r)[k].fields]
    BY <1>3 DEF Fields
<1>5. Fields(output)' = g
    BY <1>1 DEF Fields
<1> HIDE DEF f, g, n
<1>6. /\ DOMAIN f = 1..n /\ DOMAIN g = 1..(n + 1)
      /\ f = [k \in DOMAIN f |-> f[k]] /\ g = [k \in DOMAIN g |-> g[k]]
      /\ \A k \in 1..n : g[k] = f[k]
      /\ g[n + 1] = r.fields
    BY <1>3, <1>4
<1>7. g = Append(f, g[n + 1])
    BY <1>3, <1>6, OneLonger
<1> QED
    BY <1>2, <1>5, <1>6, <1>7 DEF f

\* What the reader holds of the line so far is what FieldsOf makes of it.
LEMMA FieldsSoFar ==
    ASSUME TypeOK, NEW c \in Nat, WithinAt(c)
    PROVE  /\ Grammar!FieldsOf(input, c + 1) = Append(fields, TakeUtf8(field))
           /\ Grammar!FieldsOf(input, c + 1) = << << >> >> <=> fields = << >> /\ field = << >>
<1>1. /\ fields \in Seq(Seq(Byte)) /\ field \in Seq(Byte) /\ TakeUtf8(field) \in Seq(Byte)
    BY TakeUtf8Type DEF TypeOK, TypeOKRecord
<1>2. Grammar!FieldsOf(input, c + 1) = Append(fields, TakeUtf8(field))
    BY FieldsAtEnd DEF WithinAt
<1> DEFINE T == TakeUtf8(field)
<1>3. Len(Append(fields, T)) = Len(fields) + 1 /\ Len(fields) \in Nat
      /\ Append(fields, T)[Len(fields) + 1] = T
    <2> HIDE DEF T
    <2> QED
        BY <1>1 DEF T
<1>4. Append(fields, TakeUtf8(field)) = << << >> >> => fields = << >> /\ field = << >>
    <2> SUFFICES ASSUME Append(fields, TakeUtf8(field)) = << << >> >>
                 PROVE  fields = << >> /\ field = << >>
        OBVIOUS
    <2>1. Len(fields) = 0
        BY <1>3, Len(<< << >> >>) = 1
    <2>2. TakeUtf8(field) = << >>
        BY <1>3, <2>1, << << >> >>[1] = << >>
    <2> QED
        BY <1>1, <2>1, <2>2, EmptySeq, TakeUtf8Empty
<1>5. fields = << >> /\ field = << >> => Append(fields, TakeUtf8(field)) = << << >> >>
    <2>1. field = << >> => TakeUtf8(field) = << >>
        BY <1>1, TakeUtf8Empty
    <2>2. Append(<< >>, << >>) = << << >> >>
        OBVIOUS
    <2> QED
        BY <2>1, <2>2
<1> QED
    BY <1>2, <1>4, <1>5

\* A line that has something in it is a line of the grammar, kept unless it is
\* one empty field before a terminator.
LEMMA KeptLine ==
    ASSUME TypeOK, NEW c \in Nat, c < Len(input), WithinAt(c),
           c + 1 \in Grammar!Terminators(input)
    PROVE  c + 1 \in Kept(input) <=> fields # << >> \/ field # << >>
<1>1. Len(input) \in Nat /\ c + 1 # Len(input) + 1
    BY InputType
<1>2. c + 1 \in Kept(input) <=> /\ LineTo(input, c + 1) # {}
                                /\ ~(fields = << >> /\ field = << >>)
    BY <1>1, FieldsSoFar DEF Kept, Grammar!Lines, LineTo
<1>3. ASSUME LineTo(input, c + 1) = {} PROVE fields = << >> /\ field = << >>
    <2>1. Ended(input, c + 1) = {}
        BY <1>3 DEF Ended
    <2>2. fields = << >>
        BY <2>1, NothingListed DEF WithinAt
    <2>3. Grammar!Piece(Grammar!Breaks(input), c + 1) = {}
        BY <1>3 DEF LineTo, Grammar!Piece, Grammar!Breaks
    <2>4. Grammar!Text(input, c + 1) = {}
        BY <2>3 DEF Grammar!Text
    <2>5. TakeUtf8(field) = << >>
        BY <2>4, NothingListed DEF WithinAt
    <2> QED
        BY <2>2, <2>5, TakeUtf8Empty DEF TypeOK, TypeOKRecord
<1> QED
    BY <1>2, <1>3

\* A terminator outside quotes ends a record or a blank line.
LEMMA TerminatorStep ==
    ASSUME TypeOK, input' = input, NEW c \in Nat, c < Len(input), WithinAt(c),
           status = "reading", c + 1 \in Grammar!Terminators(input), input[c + 1] # Quote,
           BlankLine(input[c + 1]) \/ EndRecord(input[c + 1])
    PROVE  /\ Fresh' /\ status' \in {"idle", "reading"}
           /\ Fields(output)' = Grammar!RecordsOf(input, KeptTo(input, c + 1))
<1>1. /\ DOMAIN input = 1..Len(input) /\ Len(input) \in Nat /\ c <= Len(input)
    BY InputType
<1>2. Fields(output) = Grammar!RecordsOf(input, KeptTo(input, c))
    BY DEF WithinAt
<1>3. CASE BlankLine(input[c + 1])
    <2>1. Fresh' /\ status' = "reading" /\ output' = output
        BY <1>3 DEF BlankLine, Enter, Fresh
    <2>2. c + 1 \notin Kept(input)
        BY <1>3, KeptLine DEF BlankLine
    <2>3. KeptTo(input, c + 1) = KeptTo(input, c)
        BY <1>1, <2>2, KeptNext
    <2>4. Fields(output)' = Fields(output)
        BY <2>1 DEF Fields
    <2> QED
        BY <1>2, <2>1, <2>3, <2>4
<1>4. CASE EndRecord(input[c + 1])
    <2>1. Fresh' /\ status' = "idle" /\ ReturnRecord
        BY <1>4 DEF EndRecord, ReturnRecord, Leave, Fresh
    <2>2. c + 1 \in Kept(input)
        BY <1>4, KeptLine DEF EndRecord
    <2>3. Grammar!RecordsOf(input, KeptTo(input, c + 1))
            = Append(Grammar!RecordsOf(input, KeptTo(input, c)), Grammar!FieldsOf(input, c + 1))
        BY <1>1, <2>2, KeptNext
    <2>4. Fields(output)' = Append(Fields(output), Grammar!FieldsOf(input, c + 1))
        BY <2>1, RecordReturned, FieldsSoFar
    <2> QED
        BY <1>2, <2>1, <2>3, <2>4
<1> QED
    BY <1>3, <1>4

\* Inside a line, every byte leads to the next place in it or past its end.
LEMMA ByteStep ==
    ASSUME TypeOK, input' = input, Grammar!WellFormed(input),
           NEW c \in Nat, c < Len(input), WithinAt(c),
           NEW la, la = (IF c + 2 \in 1..Len(input) THEN input[c + 2] ELSE NoByte),
           OnByte(input[c + 1], la)
    PROVE  /\ TakesPair(input[c + 1], la) => WithinAt(c + 2)'
           /\ ~TakesPair(input[c + 1], la) => WithinAt(c + 1)'
<1> DEFINE e == c + 1
           b == input[c + 1]
<1>1. /\ input \in Seq(Byte) /\ Len(input) \in Nat /\ DOMAIN input = 1..Len(input)
      /\ e \in 1..Len(input) /\ e \in Nat \ {0} /\ e \in Nat /\ b \in Byte
      /\ e + 1 = c + 2 /\ status = "reading"
    BY InputType DEF OnByte
<1>2. la \in {Quote, LF} => e + 1 \in 1..Len(input) /\ input[e + 1] = la
    BY <1>1, BytesAssumption DEF Byte, Special
<1>3. in_quotes <=> Grammar!Inside(input, e)
    BY DEF WithinAt
<1>4. /\ e \in Grammar!Terminators(input) <=> b \in {CR, LF} /\ ~in_quotes
      /\ e \in Grammar!Delimiters(input) <=> b = Delimiter /\ ~in_quotes
    BY <1>1, <1>3, PlaceOf
<1>5. ASSUME b \in Ordinary \/ (in_quotes /\ b # Quote), Push(b)
      PROVE  WithinAt(c + 1)'
    <2>1. b # Quote /\ e \notin Grammar!Breaks(input)
        BY <1>4, <1>5, BytesAssumption DEF Special, Grammar!Breaks
    <2> QED
        BY <1>1, <1>5, <2>1, DataStep
<1>6. CASE QuotedData(b)
    <2>1. WithinAt(c + 1)'
        BY <1>5, <1>6 DEF QuotedData
    <2>2. ~TakesPair(b, la)
        BY <1>6 DEF QuotedData, TakesPair
    <2> QED
        BY <2>1, <2>2
<1>7. CASE DoubledQuote(b, la)
    <2>1. b = Quote /\ la = Quote /\ in_quotes /\ Push(Quote) /\ TakesPair(b, la)
        BY <1>7 DEF DoubledQuote, TakesPair
    <2>2. c + 1 < Len(input) /\ input[c + 2] = Quote
        BY <1>1, <1>2, <2>1
    <2>3. WithinAt(c + 2)'
        BY <1>1, <2>1, <2>2, DoubledStep
    <2> QED
        BY <2>1, <2>3
<1>8. CASE CloseQuote(b, la)
    <2>1. b = Quote /\ in_quotes /\ ~TakesPair(b, la) /\ SetQuotes(FALSE)
        BY <1>8 DEF CloseQuote
    <2>2. c + 2 \in 1..Len(input) => input[c + 2] # Quote
        BY <2>1 DEF TakesPair
    <2>3. SetQuotes(~in_quotes)
        BY <2>1 DEF SetQuotes
    <2>4. WithinAt(c + 1)'
        BY <1>1, <2>1, <2>2, <2>3, QuoteStep
    <2> QED
        BY <2>1, <2>4
<1>9. CASE OpenQuote(b)
    <2>1. b = Quote /\ ~in_quotes /\ SetQuotes(TRUE)
        BY <1>9 DEF OpenQuote
    <2>2. SetQuotes(~in_quotes)
        BY <2>1 DEF SetQuotes
    <2>3. WithinAt(c + 1)'
        BY <1>1, <2>1, <2>2, QuoteStep
    <2>4. ~TakesPair(b, la)
        BY <2>1, BytesAssumption DEF TakesPair
    <2> QED
        BY <2>3, <2>4
<1>10. CASE EndField(b)
    <2>1. WithinAt(c + 1)'
        BY <1>1, <1>10, DelimiterStep
    <2>2. ~TakesPair(b, la)
        BY <1>10, BytesAssumption DEF EndField, TakesPair
    <2> QED
        BY <2>1, <2>2
<1>11. CASE PlainData(b)
    <2>1. ~in_quotes /\ Push(b)
        BY <1>11 DEF PlainData
    <2>2. b # Quote
        <3> SUFFICES ASSUME b = Quote PROVE FALSE
            OBVIOUS
        <3>1. field # << >>
            BY <1>11, BytesAssumption DEF PlainData, Special
        <3>2. e = 1 \/ e - 1 \in Grammar!Breaks(input) \/ e \in Grammar!Doubled(input)
            BY <1>1, <1>3, <2>1 DEF Grammar!WellFormed
        <3>3. e = 1 \/ e - 1 \in Grammar!Breaks(input)
            BY <3>2 DEF WithinAt
        <3>4. Grammar!Piece(Grammar!Breaks(input), e) = {}
            BY <1>1, <3>3 DEF Grammar!Piece
        <3>5. Grammar!Text(input, e) = {}
            BY <3>4 DEF Grammar!Text
        <3>6. TakeUtf8(field) = << >>
            BY <3>5, NothingListed DEF WithinAt
        <3> QED
            BY <3>1, <3>6, TakeUtf8Empty DEF TypeOK, TypeOKRecord
    <2>3. b \in Ordinary /\ ~TakesPair(b, la)
        BY <1>11, <2>1, <2>2, BytesAssumption DEF PlainData, TakesPair, Special
    <2>4. WithinAt(c + 1)'
        BY <1>5, <2>1, <2>3
    <2> QED
        BY <2>3, <2>4
<1>12. CASE BlankLine(b) \/ EndRecord(b)
    <2>1. b \in {CR, LF} /\ ~in_quotes
        BY <1>12 DEF BlankLine, EndRecord
    <2>2. e \in Grammar!Terminators(input) /\ b # Quote
        BY <1>4, <2>1, BytesAssumption
    <2>3. /\ Fresh' /\ status' \in {"idle", "reading"}
          /\ Fields(output)' = Grammar!RecordsOf(input, KeptTo(input, e))
        BY <1>1, <1>12, <2>2, TerminatorStep
    <2>4. WithinAt(e)'
        BY <1>1, <2>2, <2>3, AfterTerminator
    <2>5. ASSUME TakesPair(b, la) PROVE WithinAt(c + 2)'
        <3>1. e + 1 \in 1..Len(input) /\ input[e + 1] = LF
            BY <1>2, <2>1, <2>5 DEF TakesPair
        <3>2. e + 1 \in Grammar!Terminators(input) /\ KeptTo(input, e + 1) = KeptTo(input, e)
            BY <1>1, <2>2, <3>1, LfOfPair
        <3>3. input[e + 1] # Quote
            BY <3>1, BytesAssumption
        <3>4. WithinAt(e + 1)'
            BY <1>1, <2>3, <3>1, <3>2, <3>3, AfterTerminator
        <3> QED
            BY <1>1, <3>4
    <2> QED
        BY <2>4, <2>5
<1> QED
    BY <1>6, <1>7, <1>8, <1>9, <1>10, <1>11, <1>12 DEF OnByte

\* At the end of the input the last line is returned, or there is none left.
LEMMA EndStep ==
    ASSUME TypeOK, input' = input, Consumed' = Consumed, Consumed = Len(input),
           WithinAt(Len(input)), OnEnd
    PROVE  AllRead'
<1> DEFINE n == Len(input)
<1>1. /\ input \in Seq(Byte) /\ n \in Nat /\ DOMAIN input = 1..n /\ n <= n
    BY InputType
<1>2. /\ Fields(output) = Grammar!RecordsOf(input, KeptTo(input, n))
      /\ saw_any <=> LineTo(input, n + 1) # {}
    BY DEF WithinAt
<1>3. n + 1 \in Kept(input) <=> LineTo(input, n + 1) # {}
    BY DEF Kept, Grammar!Lines, LineTo
<1>4. KeptTo(input, n + 1) = Kept(input)
    BY <1>1, KeptNext
<1>5. CASE NoMoreRecords
    <2>1. Fresh' /\ output' = output /\ ~saw_any
        BY <1>5 DEF NoMoreRecords, Leave, Fresh
    <2>2. KeptTo(input, n + 1) = KeptTo(input, n)
        BY <1>1, <1>2, <1>3, <2>1, KeptNext
    <2>3. Fields(output)' = Fields(output)
        BY <2>1 DEF Fields
    <2> QED
        BY <1>2, <1>4, <2>1, <2>2, <2>3 DEF AllRead
<1>6. CASE LastRecord
    <2>1. Fresh' /\ ReturnRecord
        BY <1>6 DEF LastRecord, ReturnRecord, Leave, Fresh
    <2>2. LineTo(input, n + 1) # {}
        <3> SUFFICES ASSUME LineTo(input, n + 1) = {} PROVE FALSE
            OBVIOUS
        <3>1. Ended(input, n + 1) = {}
            BY DEF Ended
        <3>2. fields = << >>
            BY <3>1, NothingListed DEF WithinAt
        <3>3. Grammar!Piece(Grammar!Breaks(input), n + 1) = {}
            BY DEF LineTo, Grammar!Piece, Grammar!Breaks
        <3>4. Grammar!Text(input, n + 1) = {}
            BY <3>3 DEF Grammar!Text
        <3>5. TakeUtf8(field) = << >>
            BY <3>4, NothingListed DEF WithinAt
        <3>6. field = << >>
            BY <3>5, TakeUtf8Empty DEF TypeOK, TypeOKRecord
        <3> QED
            BY <1>2, <1>6, <3>2, <3>6 DEF LastRecord
    <2>3. Grammar!RecordsOf(input, KeptTo(input, n + 1))
            = Append(Grammar!RecordsOf(input, KeptTo(input, n)), Grammar!FieldsOf(input, n + 1))
        BY <1>1, <1>3, <2>2, KeptNext
    <2>4. Fields(output)' = Append(Fields(output), Grammar!FieldsOf(input, n + 1))
        BY <1>1, <2>1, RecordReturned, FieldsSoFar
    <2>5. Fields(output)' = Grammar!RecordsOf(input, Kept(input))
        BY <1>2, <1>4, <2>3, <2>4
    <2> QED
        BY <2>1, <2>5 DEF AllRead
<1> QED
    BY <1>5, <1>6 DEF OnEnd

\* Nothing has been read, and nothing returned.
LEMMA GrammarInit == Init => GrammarInv
<1> SUFFICES ASSUME Init PROVE WithinAt(0) /\ Consumed = 0
    BY DEF GrammarInv
<1>1. input \in Seq(Byte) /\ DOMAIN input = 1..Len(input) /\ Len(input) \in Nat
    BY InputsAssumption DEF Init
<1>2. Consumed = 0
    BY DEF Init, Consumed
<1>3. /\ Fresh /\ output = << >> /\ status = "idle"
    BY DEF Init, InitRecord, Fresh
<1>4. ~Grammar!Inside(input, 1)
    <2>1. Grammar!QuotesBefore(input, 1) = {}
        BY DEF Grammar!QuotesBefore
    <2>2. Cardinality({}) = 0 /\ 0 % 2 = 0
        BY FS_EmptySet
    <2> QED
        BY <2>1, <2>2, SameCardinality DEF Grammar!Inside
<1>5. LineTo(input, 1) = {} /\ Ended(input, 1) = {}
    BY DEF LineTo, Ended, Grammar!Piece
<1>6. Grammar!Content(input, 1) = << >> /\ Grammar!Contents(input, Ended(input, 1)) = << >>
    <2>1. Grammar!Text(input, 1) = {}
        BY DEF Grammar!Text, Grammar!Piece
    <2> QED
        BY <1>5, <2>1, NothingListed
<1>7. Fields(output) = Grammar!RecordsOf(input, KeptTo(input, 0))
    <2>1. KeptTo(input, 0) = {}
        BY <1>1 DEF KeptTo, Kept, Grammar!Lines, Grammar!Terminators, Grammar!Unquoted
    <2>2. Fields(output) = << >>
        <3> DEFINE f == Fields(output)
        <3>1. f = [k \in DOMAIN f |-> f[k]] /\ DOMAIN f = {}
            BY <1>3 DEF Fields
        <3> HIDE DEF f
        <3> QED
            BY <3>1, NoPlaces DEF f
    <2> QED
        BY <2>1, <2>2, NothingListed
<1>8. TakeUtf8(field) = << >>
    BY <1>3, TakeUtf8Empty, << >> \in Seq(Byte) DEF Fresh
<1>9. 1 \notin Grammar!Doubled(input) /\ 0 + 1 = 1
    BY DEF Grammar!Doubled
<1> QED
    BY <1>2, <1>3, <1>4, <1>5, <1>6, <1>7, <1>8, <1>9 DEF WithinAt, Fresh

\* Every step of the reader goes from one place of the grammar to the next.
LEMMA GrammarStep ==
    ASSUME IInv, IInv', GrammarInv, [Whole!Next]_(Whole!wholeVars)
    PROVE  GrammarInv'
<1>1. input' = input
    BY DEF Whole!Next, Whole!Start, Whole!Parse, Whole!Finish, Whole!Fail, Whole!wholeVars
<1>2. /\ TypeOK /\ Consumed \in Nat /\ Len(input) \in Nat
    BY InputType DEF IInv, Consumed, WindowInv
<1> SUFFICES ASSUME status' # "failed", Grammar!WellFormed(input)
             PROVE  WithinAt(Consumed)' \/ AllRead'
    BY <1>1 DEF GrammarInv
<1>3. CASE Whole!Start
    <2>1. Call /\ Consumed' = Consumed
        BY <1>3, SameMachine DEF Whole!Start
    <2>2. WithinAt(Consumed) \/ AllRead
        BY <2>1 DEF GrammarInv, Call
    <2>3. Fields(output)' = Fields(output) /\ status' = "reading" /\ Fresh'
        BY <2>1 DEF Call, Fields, Enter, Fresh
    <2>4. AllRead => AllRead'
        BY <1>1, <2>1, <2>3 DEF AllRead
    <2>5. ASSUME WithinAt(Consumed) PROVE WithinAt(Consumed)'
        <3>1. Fresh
            BY <2>1, <2>5 DEF Call, WithinAt
        <3>2. /\ UNCHANGED <<fields, field>> /\ TakeUtf8(field)' = TakeUtf8(field)
              /\ (in_quotes' <=> in_quotes) /\ (saw_any' <=> saw_any)
            BY <3>1, <2>3 DEF Fresh, TakeUtf8
        <3> QED
            BY <1>1, <2>1, <2>3, <2>5, <3>2 DEF WithinAt
    <2> QED
        BY <2>2, <2>4, <2>5
<1>4. CASE Whole!Parse
    <2> DEFINE la == Whole!ByteAt(Consumed + 2)
    <2>1. /\ Consumed < Len(input)
          /\ OnByte(input[Consumed + 1], la)
          /\ Consumed' = Consumed + (IF TakesPair(input[Consumed + 1], la) THEN 2 ELSE 1)
          /\ la = (IF Consumed + 2 \in 1..Len(input) THEN input[Consumed + 2] ELSE NoByte)
        <3>1. Whole!ByteAt(Consumed + 1) = input[Consumed + 1]
            BY <1>2, <1>4 DEF Whole!Parse, Whole!ByteAt
        <3> QED
            BY <1>4, <3>1, SameMachine DEF Whole!Parse, Whole!ByteAt
    <2>2. WithinAt(Consumed)
        BY <2>1, <1>2 DEF GrammarInv, AllRead, OnByte
    <2> HIDE DEF la
    <2>3. PICK c \in Nat : c = Consumed
        BY <1>2
    <2>4. /\ c < Len(input) /\ WithinAt(c) /\ OnByte(input[c + 1], la)
          /\ la = (IF c + 2 \in 1..Len(input) THEN input[c + 2] ELSE NoByte)
        BY <2>1, <2>2, <2>3
    <2>5. /\ TakesPair(input[c + 1], la) => WithinAt(c + 2)'
          /\ ~TakesPair(input[c + 1], la) => WithinAt(c + 1)'
        BY <1>1, <1>2, <2>4, ByteStep
    <2>6. /\ TakesPair(input[c + 1], la) => Consumed' = c + 2
          /\ ~TakesPair(input[c + 1], la) => Consumed' = c + 1
        BY <2>1, <2>3
    <2>7. ASSUME NEW d \in Nat, Consumed' = d, WithinAt(d)' PROVE WithinAt(Consumed)'
        BY <2>7 DEF WithinAt
    <2> QED
        BY <2>5, <2>6, <2>7
<1>5. CASE Whole!Finish
    <2>1. OnEnd /\ Consumed = Len(input) /\ Consumed' = Consumed
        BY <1>5, SameMachine DEF Whole!Finish
    <2>2. WithinAt(Consumed) \/ AllRead
        BY <2>1 DEF GrammarInv, OnEnd, NoMoreRecords, LastRecord
    <2>3. WithinAt(Consumed) => AllRead'
        BY <1>1, <1>2, <2>1, EndStep
    <2>4. ASSUME AllRead PROVE AllRead'
        <3>1. NoMoreRecords
            BY <2>1, <2>4 DEF AllRead, Fresh, OnEnd, LastRecord
        <3>2. Fresh' /\ Fields(output)' = Fields(output)
            BY <3>1 DEF NoMoreRecords, Leave, Fresh, Fields
        <3> QED
            BY <1>1, <2>1, <2>4, <3>2 DEF AllRead
    <2> QED
        BY <2>2, <2>3, <2>4
<1>6. CASE Whole!Fail
    BY <1>6 DEF Whole!Fail, Whole!ReadFails, Whole!Leave
<1>7. CASE UNCHANGED Whole!wholeVars
    <2>1. UNCHANGED <<input, Consumed, status, fields, field, in_quotes, saw_any, output>>
        BY <1>7 DEF Whole!wholeVars, Whole!recordVars, Whole!locals
    <2>2. WithinAt(Consumed) => WithinAt(Consumed)'
        BY <2>1 DEF WithinAt, Fresh, Fields, TakeUtf8
    <2>3. AllRead => AllRead'
        BY <2>1 DEF AllRead, Fresh, Fields
    <2> QED
        BY <2>1, <2>2, <2>3 DEF GrammarInv
<1> QED
    BY <1>3, <1>4, <1>5, <1>6, <1>7 DEF Whole!Next

\* For every alphabet, every well-formed file and however the reads cut it: at its
\* end next_record has returned the records RFC 4180 defines, field for field, a
\* line of one empty quoted field before a terminator excepted.
THEOREM RecordsOfTheGrammar == Spec => []MatchesGrammar
<1>1. Init => GrammarInv
    BY GrammarInit
<1>2. IInv /\ IInv' /\ GrammarInv /\ [Next]_vars => GrammarInv'
    BY StepIInv, GrammarStep
<1>3. GrammarInv => MatchesGrammar
    BY DEF GrammarInv, MatchesGrammar, WithinAt, AllRead
<1> QED
    BY <1>1, <1>2, <1>3, Invariance, PTL DEF Spec

----------------------------------------------------------------------------
(* How many steps are left.                                                *)

\* What the reads, and the records to return, still cost
ToRead == (Len(input) - taken) + (IF exhausted THEN 0 ELSE 1)
ToReturn ==
    (IF status = "idle" THEN 2 ELSE IF status = "reading" THEN 1 ELSE 0)
    + (IF Fresh THEN 0 ELSE 2)

\* A byte may open a record's line and end it: it costs as much as four steps.
Remaining ==
    ToRead + ToReturn + (IF held = NoByte THEN 1 ELSE 0) + 4 * (Len(input) - Consumed)

\* The measure is a natural number, and at most 5 for each byte and 4 more.
LEMMA RemainingType ==
    ASSUME IInv
    PROVE  /\ ToRead \in Nat /\ ToReturn \in Nat /\ Consumed \in Int
           /\ Len(input) - Consumed \in Nat
           /\ Remaining \in Nat
<1>1. /\ Len(input) \in Nat /\ taken \in Nat /\ filled \in Nat /\ position \in Nat
      /\ position <= filled /\ taken <= Len(input) /\ filled <= taken
    BY InputType DEF IInv, WindowInv
<1>2. Consumed \in Int /\ Len(input) - Consumed \in Nat
    BY <1>1 DEF Consumed
<1>3. ToRead \in Nat
    BY <1>1 DEF ToRead
<1>4. ToReturn \in Nat
    BY DEF ToReturn
<1> QED
    BY <1>2, <1>3, <1>4 DEF Remaining

\* A step that only reads: the position in the file is what changes.
LEMMA ReadNears ==
    ASSUME IInv, IInv', Read \/ ReadNothing, Consumed' = Consumed
    PROVE  Remaining' < Remaining
<1>1. /\ ToRead \in Nat /\ ToReturn \in Nat /\ Consumed \in Int
      /\ Len(input) - Consumed \in Nat
    BY RemainingType
<1>2. Len(input) \in Nat /\ taken \in Nat
    BY InputType DEF IInv
<1>3. ToRead' \in Int /\ ToRead' < ToRead
    <2>1. ASSUME Read PROVE ToRead' \in Int /\ ToRead' < ToRead
        <3>1. PICK n \in Slots : Refill(n)
            BY <2>1 DEF Read
        <3>2. n \in Nat /\ n > 0 /\ taken' = taken + n /\ exhausted' = exhausted
            BY <2>1, <3>1, BufferAssumption DEF Read, Refill, Slots
        <3> QED
            BY <1>2, <2>1, <3>2 DEF ToRead, Read
    <2>2. ASSUME ReadNothing PROVE ToRead' \in Int /\ ToRead' < ToRead
        <3>1. taken' = taken /\ ~exhausted /\ exhausted' /\ input' = input
            BY <1>2, <2>2 DEF ReadNothing, Refill
        <3> QED
            BY <1>2, <3>1 DEF ToRead
    <2> QED
        BY <2>1, <2>2
<1>4. /\ ToReturn' = ToReturn /\ held' = held /\ input' = input
    BY DEF Read, ReadNothing, ToReturn, Fresh, recordVars, locals
<1> QED
    BY <1>1, <1>3, <1>4 DEF Remaining

\* What acting on a byte may add to the records to return
LEMMA ByteCosts ==
    ASSUME NEW b, NEW la, OnByte(b, la)
    PROVE  ToReturn' <= ToReturn + 2
<1>1. status = "reading"
    BY DEF OnByte
<1>2. CASE status' = "reading"
    <2>1. ToReturn' \in {1, 3} /\ ToReturn \in {1, 3}
        BY <1>1, <1>2 DEF ToReturn
    <2> QED
        BY <2>1
<1>3. CASE EndRecord(b)
    <2>1. status' = "idle" /\ Fresh'
        BY <1>3 DEF EndRecord, ReturnRecord, Leave, Fresh
    <2>2. ToReturn' = 2 /\ ToReturn \in {1, 3}
        BY <1>1, <2>1 DEF ToReturn
    <2> QED
        BY <2>2
<1>4. status' = "reading" \/ EndRecord(b)
    BY <1>1 DEF OnByte, QuotedData, DoubledQuote, CloseQuote, OpenQuote, EndField,
                PlainData, BlankLine, Push, SetQuotes
<1> QED
    BY <1>2, <1>3, <1>4

\* Starting, ending, failing: one record or none at all is left to return.
LEMMA ReturnNears ==
    ASSUME Call \/ OnEnd \/ ReadFails
    PROVE  ToReturn' < ToReturn
<1>1. CASE Call
    <2>1. status = "idle" /\ status' = "reading" /\ Fresh'
        BY <1>1 DEF Call, Enter, Fresh
    <2>2. ToReturn' = 1 /\ ToReturn \in {2, 4}
        BY <2>1 DEF ToReturn
    <2> QED
        BY <2>2
<1>2. CASE NoMoreRecords \/ ReadFails
    <2>1. status = "reading" /\ status' \in {"end", "failed"} /\ Fresh'
        BY <1>2 DEF NoMoreRecords, ReadFails, Leave, Fresh
    <2>2. ToReturn' = 0 /\ ToReturn \in {1, 3}
        BY <2>1 DEF ToReturn
    <2> QED
        BY <2>2
<1>3. CASE LastRecord
    <2>1. status = "reading" /\ status' = "idle" /\ Fresh' /\ ~Fresh
        BY <1>3 DEF LastRecord, ReturnRecord, Leave, Fresh
    <2>2. ToReturn' = 2 /\ ToReturn = 3
        BY <2>1 DEF ToReturn
    <2> QED
        BY <2>2
<1> QED
    BY <1>1, <1>2, <1>3 DEF OnEnd

\* Every step of the reader leaves fewer to take, or changes nothing.
LEMMA StepNears ==
    ASSUME IInv, IInv', [Next]_vars
    PROVE  Remaining' < Remaining \/ UNCHANGED vars
<1>1. /\ ToRead \in Nat /\ ToReturn \in Nat /\ Consumed \in Int
      /\ Len(input) - Consumed \in Nat /\ Len(input) \in Nat
    BY RemainingType, InputType DEF IInv
<1>0. ToReturn' \in Nat
    BY DEF ToReturn
<1>2. ASSUME Call \/ OnEnd \/ ReadFails, UNCHANGED bufferVars
      PROVE  Remaining' < Remaining
    <2>1. /\ ToRead' = ToRead /\ Consumed' = Consumed /\ input' = input /\ held' = held
        BY <1>2 DEF bufferVars, ToRead, Consumed
    <2> QED
        BY <1>0, <1>1, <1>2, <2>1, ReturnNears DEF Remaining
<1>3. CASE Start \/ ReadError \/ AtEnd
    BY <1>2, <1>3 DEF Start, ReadError, AtEnd
<1>4. CASE Read \/ ReadNothing
    <2>1. Consumed' = Consumed
        <3>1. /\ taken \in Nat /\ filled \in Nat /\ position \in Nat
            BY InputType DEF IInv
        <3>2. \A n \in 0..BufferBytes : Refill(n) /\ position = filled /\ held' = held
                => Consumed' = Consumed
            BY <3>1, BufferAssumption DEF Refill, Consumed
        <3> QED
            BY <1>4, <3>2, BufferAssumption DEF Read, ReadNothing, Slots
    <2> QED
        BY <1>4, <2>1, ReadNears
<1>5. CASE NextByte
    <2>1. Consumed' = Consumed /\ held = NoByte
        BY <1>5, NextByteIInv DEF NextByte
    <2>2. held' # NoByte
        <3>1. /\ taken \in Nat /\ filled \in Nat /\ position \in Nat
            BY InputType DEF IInv
        <3> QED
            BY <1>5, <2>1, <3>1 DEF NextByte, Consumed
    <2>3. ToRead' = ToRead /\ ToReturn' = ToReturn /\ input' = input
        BY <1>5 DEF NextByte, ToRead, ToReturn, Fresh, recordVars, locals
    <2> QED
        BY <1>1, <2>1, <2>2, <2>3 DEF Remaining
<1>6. CASE Parse
    <2>1. Consumed' \in Int /\ Consumed' >= Consumed + 1
        BY <1>1, <1>6, ParseIInv DEF Whole!Parse
    <2>2. ToReturn' <= ToReturn + 2
        BY <1>6, ByteCosts DEF Parse
    <2>3. ToRead' = ToRead /\ input' = input /\ held # NoByte /\ held' = NoByte
        BY <1>6 DEF Parse, ToRead
    <2> QED
        BY <1>0, <1>1, <2>1, <2>2, <2>3 DEF Remaining
<1> QED
    BY <1>3, <1>4, <1>5, <1>6 DEF Next, Progress, Stopped

\* However the reads cut the file, every step of a run leaves fewer steps to take:
\* at most five for each byte and four more, whether or not the steps are fair.
\* What Terminates adds is that the reader does take them.
THEOREM StepsRunOut ==
    Spec => /\ Remaining = 5 * Len(input) + 4
            /\ [](Remaining \in Nat)
            /\ [][Remaining' < Remaining]_vars
<1>1. Init => Remaining = 5 * Len(input) + 4
    <2>1. Init => Len(input) \in Nat
        BY InputsAssumption DEF Init
    <2>2. Init => /\ ToRead = Len(input) + 1 /\ ToReturn = 2
                  /\ Consumed = 0 /\ held = NoByte
        BY <2>1 DEF Init, InitRecord, ToRead, ToReturn, Consumed, Fresh
    <2> QED
        BY <2>1, <2>2 DEF Remaining
<1>2. IInv => Remaining \in Nat
    BY RemainingType
<1>3. IInv /\ IInv' /\ [Next]_vars => [Remaining' < Remaining]_vars
    BY StepNears
<1> QED
    BY <1>1, <1>2, <1>3, Invariance, PTL DEF Spec
=============================================================================
