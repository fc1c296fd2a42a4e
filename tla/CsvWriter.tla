----------------------------- MODULE CsvWriter -----------------------------
(***************************************************************************)
(* csv-guard's write_record, and what the reader makes of what it wrote.   *)
(***************************************************************************)
EXTENDS CsvReader, SequencesExt

CONSTANT Tables                 \* what is written: sequences of rows of fields

\* A row has a field, and the fields are text.
ASSUME TablesAssumption == Tables \subseteq Seq(Seq(Seq(Byte \ Invalid)) \ {<< >>})

----------------------------------------------------------------------------
\* A field is quoted if it holds a special byte.

\* A plausible slip: a CR does not make a field need quotes.
NeedsQuotesNoCr(f) == ToSet(f) \cap {Quote, Delimiter, LF} # {}
NeedsQuotes(f) == ToSet(f) \cap {Quote, Delimiter, LF, CR} # {}

EscapedByte(b) == IF b = Quote THEN <<Quote, Quote>> ELSE <<b>>

Escaped(f) == FlattenSeq([i \in DOMAIN f |-> EscapedByte(f[i])])

WriteField(f) == IF NeedsQuotes(f) THEN <<Quote>> \o Escaped(f) \o <<Quote>> ELSE f

\* Field i with the delimiter before it
WriteCell(fs, i) == (IF i > 1 THEN <<Delimiter>> ELSE << >>) \o WriteField(fs[i])

WriteRecord(fs) == FlattenSeq([i \in DOMAIN fs |-> WriteCell(fs, i)]) \o <<LF>>

WriteAll(rows) == FlattenSeq([i \in DOMAIN rows |-> WriteRecord(rows[i])])

Written == {[rows |-> t, bytes |-> WriteAll(t)] : t \in Tables}

----------------------------------------------------------------------------
\* A row of one empty field is written as a blank line and does not come back.
ComesBack(rows) == {n \in DOMAIN rows : rows[n] # << << >> >>}

\* What write_record wrote, next_record reads back field for field and row by
\* row, so the clean and the rejects files can be processed again (README, "a
\* round trip through the writer").
RoundTrip ==
    status = "end" =>
        \A w \in Written : w.bytes = input =>
            /\ Len(output) = Cardinality(ComesBack(w.rows))
            /\ \A n \in ComesBack(w.rows) :
                output[Cardinality({m \in ComesBack(w.rows) : m <= n})].fields = w.rows[n]
============================================================================
