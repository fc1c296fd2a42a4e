----------------------------- MODULE CsvRecord -----------------------------
(***************************************************************************)
(* The quoting state machine of csv-guard's Reader::next_record, without   *)
(* the place its bytes come from: every action takes the byte the loop     *)
(* just read and the byte a peek would return.  CsvWhole gives those bytes *)
(* from the whole input, CsvReader from a buffer that is refilled by short *)
(* reads.                                                                  *)
(***************************************************************************)
EXTENDS Naturals, Sequences

CONSTANTS
    Quote, Delimiter, CR, LF,   \* the bytes next_record tests for
    Ordinary,                   \* the other bytes (a few of them)
    Invalid,                    \* ordinary bytes that are not valid UTF-8
    Replacement,                \* what from_utf8_lossy writes for one of those
    NoByte                      \* Option::None: there is no byte

Special == {Quote, Delimiter, CR, LF}
Byte == Special \cup Ordinary

ASSUME BytesAssumption ==
    /\ Quote # Delimiter /\ Quote # CR /\ Quote # LF
    /\ Delimiter # CR /\ Delimiter # LF /\ CR # LF
    /\ Special \cap Ordinary = {}
    /\ Invalid \subseteq Ordinary
    /\ Replacement \in Ordinary \ Invalid
    /\ NoByte \notin Byte

VARIABLES
    status,         \* "idle", "reading" a record, "end" (None) or "failed" (Err)
    fields,         \* locals of next_record
    field,
    in_quotes,
    saw_any,
    start_line,
    record_number,  \* the Reader's counter of line terminators
    frames,         \* next_record activations on the stack
    output          \* the records returned so far

locals == <<fields, field, in_quotes, saw_any, start_line>>
recordVars == <<status, locals, record_number, frames, output>>

TypeOKRecord ==
    /\ status \in {"idle", "reading", "end", "failed"}
    /\ fields \in Seq(Seq(Byte))
    /\ field \in Seq(Byte)
    /\ in_quotes \in BOOLEAN
    /\ saw_any \in BOOLEAN
    /\ start_line \in Nat
    /\ record_number \in Nat
    /\ frames \in Nat
    /\ output \in Seq([fields : Seq(Seq(Byte)), line : Nat])

----------------------------------------------------------------------------
\* take_utf8: a bad byte becomes the replacement character.
TakeUtf8(bytes) ==
    [i \in DOMAIN bytes |-> IF bytes[i] \in Invalid THEN Replacement ELSE bytes[i]]

\* The locals as next_record initialises them, `line` terminators into the file.
Enter(line) ==
    /\ fields' = << >> /\ field' = << >>
    /\ in_quotes' = FALSE /\ saw_any' = FALSE
    /\ start_line' = line + 1

InitRecord ==
    /\ status = "idle" /\ output = << >>
    /\ fields = << >> /\ field = << >>
    /\ in_quotes = FALSE /\ saw_any = FALSE
    /\ start_line = 0 /\ record_number = 0 /\ frames = 0

\* main's loop asks for the next record.
Call ==
    /\ status = "idle"
    /\ status' = "reading"
    /\ Enter(record_number)
    /\ frames' = frames + 1
    /\ UNCHANGED <<record_number, output>>

\* Every activation returns; the locals die with it.
Leave(outcome) ==
    /\ status' = outcome
    /\ fields' = << >> /\ field' = << >>
    /\ in_quotes' = FALSE /\ saw_any' = FALSE
    /\ frames' = 0
    /\ UNCHANGED start_line

ReturnRecord ==
    /\ Leave("idle")
    /\ record_number' = record_number + 1
    /\ output' = Append(output, [fields |-> Append(fields, TakeUtf8(field)),
                                 line |-> start_line])

----------------------------------------------------------------------------
\* One iteration of the loop on byte b; la is what peek_byte would return.

\* Only a quote that may close a field, and a CR, are followed by a peek.
Peeks(b) == IF in_quotes THEN b = Quote ELSE b = CR

\* A plausible slip: a doubled quote closes the field like any other quote.
TakesPairNoDoubling(b, la) == ~in_quotes /\ b = CR /\ la = LF
\* The peeked byte is consumed with b: a doubled quote, or the LF of a CRLF.
TakesPair(b, la) ==
    IF in_quotes THEN b = Quote /\ la = Quote ELSE b = CR /\ la = LF

Push(b) ==
    /\ field' = Append(field, b)
    /\ saw_any' = TRUE
    /\ UNCHANGED <<status, fields, in_quotes, start_line, record_number, frames, output>>

QuotedData(b) == in_quotes /\ b # Quote /\ Push(b)

DoubledQuote(b, la) == in_quotes /\ b = Quote /\ TakesPair(b, la) /\ Push(Quote)

SetQuotes(open) ==
    /\ in_quotes' = open
    /\ saw_any' = TRUE
    /\ UNCHANGED <<status, fields, field, start_line, record_number, frames, output>>

CloseQuote(b, la) == in_quotes /\ b = Quote /\ ~TakesPair(b, la) /\ SetQuotes(FALSE)

OpenQuote(b) == ~in_quotes /\ b = Quote /\ field = << >> /\ SetQuotes(TRUE)

EndField(b) ==
    /\ ~in_quotes /\ b = Delimiter
    /\ fields' = Append(fields, TakeUtf8(field))
    /\ field' = << >>
    /\ saw_any' = TRUE
    /\ UNCHANGED <<status, in_quotes, start_line, record_number, frames, output>>

PlainData(b) ==
    /\ ~in_quotes
    /\ b \in Ordinary \/ (b = Quote /\ field # << >>)
    /\ Push(b)

\* The terminator is counted, then next_record calls itself: the new
\* activation starts with fresh locals while the old one waits on the stack.
BlankLine(b) ==
    /\ ~in_quotes /\ b \in {CR, LF}
    /\ fields = << >> /\ field = << >>
    /\ record_number' = record_number + 1
    /\ Enter(record_number + 1)
    /\ frames' = frames + 1
    /\ UNCHANGED <<status, output>>

EndRecord(b) ==
    /\ ~in_quotes /\ b \in {CR, LF}
    /\ fields # << >> \/ field # << >>
    /\ ReturnRecord

OnByte(b, la) ==
    /\ status = "reading"
    /\ \/ QuotedData(b)
       \/ DoubledQuote(b, la)
       \/ CloseQuote(b, la)
       \/ OpenQuote(b)
       \/ EndField(b)
       \/ PlainData(b)
       \/ BlankLine(b)
       \/ EndRecord(b)

\* next_byte returned None before this activation read anything: Ok(None).
NoMoreRecords ==
    /\ status = "reading"
    /\ ~saw_any /\ fields = << >> /\ field = << >>
    /\ Leave("end")
    /\ UNCHANGED <<record_number, output>>

\* The last record needs no terminator (and an open quote ends with it).
LastRecord ==
    /\ status = "reading"
    /\ saw_any \/ fields # << >> \/ field # << >>
    /\ ReturnRecord

OnEnd == NoMoreRecords \/ LastRecord

\* source.read returned Err: the error propagates out of every activation.
ReadFails ==
    /\ status = "reading"
    /\ Leave("failed")
    /\ UNCHANGED <<record_number, output>>
============================================================================
