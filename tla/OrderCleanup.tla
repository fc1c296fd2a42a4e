---------------------------- MODULE OrderCleanup ----------------------------
(***************************************************************************)
(* spreadsheet-cleanup: clean's path of each row of an export through      *)
(* duplicates, problems and conflicts, the two summaries, and the workbook *)
(* clean_orders.py makes of them.                                          *)
(*                                                                         *)
(* A cell is a text, of which Reads says what the parser of its column     *)
(* makes: a value, None where it makes nothing of it, Blank where nothing  *)
(* is left of it.  Several texts may read the same.  Rows are known by     *)
(* their place in the export; how a sheet formats a value is left out.     *)
(***************************************************************************)
EXTENDS Integers, Sequences, FiniteSets, FiniteSetsExt

CONSTANTS
    Exports,        \* the tables there may be: sequences of rows, [column -> text]
    Reads,          \* what each text reads as
    Month,          \* the month of each date
    None, Blank, Old

Fields == {"order_id", "order_date", "customer", "email", "category", "quantity", "unit_price"}
Texts == DOMAIN Reads

ASSUME ExportsAssumption == Exports \subseteq Seq([Fields -> Texts])
ASSUME NoneAssumption == None \notin Int
\* What the parsers of two columns return (cleaning.py:46, 67): dates, which are
\* numbered, and whole numbers.
ASSUME ParsersAssumption ==
    \A table \in Exports : \A i \in DOMAIN table :
        /\ Reads[table[i].order_date] \in Int \cup {None}
        /\ Reads[table[i].quantity] \in Nat \cup {None}

VARIABLES
    raw,            \* the export
    pc,
    frame,          \* the rows left when exact duplicates are dropped
    at,             \* the row that is normalised next
    kept, issues,   \* the rows without a blocking problem; [row, field, kind]
    clean,          \* the rows of the clean table
    by_month, by_category,
    workbook,       \* the file: Old, or the sheets in it
    code            \* the exit code, or None

found == <<frame, at, kept, issues, clean>>
sums == <<by_month, by_category>>
vars == <<raw, pc, found, sums, workbook, code>>

Ended == {"done", "failed", "broken", "killed"}
RowNumbers == 1..Len(raw)

Init ==
    /\ raw \in Exports
    /\ pc = "loading" /\ code = None /\ workbook = Old
    /\ frame = {} /\ at = 1 /\ kept = {} /\ issues = {} /\ clean = {}
    /\ by_month = << >> /\ by_category = << >>

Goes(from, to) == pc = from /\ pc' = to

----------------------------------------------------------------------------
(* What is read from a row. *)

Value(i, field) == Reads[raw[i][field]]

\* What is wrong with each field of a row
IsWrong(i) ==
    [order_id |-> Value(i, "order_id") = Blank,
     order_date |-> Value(i, "order_date") = None,
     customer |-> Value(i, "customer") = Blank,
     email |-> Value(i, "email") = None,
     category |-> FALSE,
     quantity |-> Value(i, "quantity") = None,
     unit_price |-> Value(i, "unit_price") \notin Nat]
Problems(i) == {f \in Fields : IsWrong(i)[f]}

\* A bad email is worth reporting but not worth losing the order over.
Blocks(i) == Problems(i) \ {"email"} # {}

Issue(i, f, k) == [row |-> i, field |-> f, kind |-> k]
LineTotal(i) == Value(i, "quantity") * Value(i, "unit_price")

----------------------------------------------------------------------------
Load ==
    /\ Goes("loading", "dropping")
    /\ UNCHANGED <<raw, found, sums, workbook, code>>

\* No such file, nothing in it, or a required column missing
LoadFails ==
    /\ Goes("loading", "failed") /\ code' = 1
    /\ UNCHANGED <<raw, found, sums, workbook>>

\* A plausible slip: a row is dropped for its order_id alone.
SameOrderIsDuplicate == {i \in RowNumbers : \E j \in 1..(i - 1) : raw[j].order_id = raw[i].order_id}
\* Rows whose texts are all those of an earlier row, before they are tidied
Duplicates == {i \in RowNumbers : \E j \in 1..(i - 1) : raw[j] = raw[i]}

DropDuplicates ==
    /\ Goes("dropping", "normalising")
    /\ frame' = RowNumbers \ Duplicates
    /\ UNCHANGED <<raw, at, kept, issues, clean, sums, workbook, code>>

NormaliseRow ==
    /\ pc = "normalising" /\ at \in RowNumbers
    /\ at' = at + 1
    /\ IF at \in frame
       THEN /\ issues' = issues \cup {Issue(at, f, "problem") : f \in Problems(at)}
            /\ kept' = IF Blocks(at) THEN kept ELSE kept \cup {at}
       ELSE UNCHANGED <<kept, issues>>
    /\ UNCHANGED <<raw, pc, frame, clean, sums, workbook, code>>

\* A plausible slip: the last of several rows is the one that is kept.
RepeatedLater(i) == \E j \in kept : j > i /\ Value(j, "order_id") = Value(i, "order_id")
\* An earlier row, of those without a blocking problem, has the same order_id.
Repeated(i) == \E j \in kept : j < i /\ Value(j, "order_id") = Value(i, "order_id")

FindConflicts ==
    /\ Goes("normalising", "summarising") /\ at \notin RowNumbers
    /\ issues' = issues \cup {Issue(i, "order_id", "conflict") : i \in {k \in kept : Repeated(k)}}
    /\ clean' = {i \in kept : ~Repeated(i)}
    /\ UNCHANGED <<raw, frame, at, kept, sums, workbook, code>>

Totals(R) ==
    [orders |-> Cardinality(R),
     units |-> MapThenSumSet(LAMBDA i : Value(i, "quantity"), R),
     revenue |-> MapThenSumSet(LineTotal, R)]
MonthOf(i) == Month[Value(i, "order_date")]
CategoryOf(i) == Value(i, "category")

\* A plausible slip: the rows that conflict are summed up as well.
SummariseKept ==
    /\ Goes("summarising", "opening")
    /\ by_month' = [m \in {MonthOf(i) : i \in kept} |-> Totals({i \in kept : MonthOf(i) = m})]
    /\ by_category' = [c \in {CategoryOf(i) : i \in kept} |-> Totals({i \in kept : CategoryOf(i) = c})]
    /\ UNCHANGED <<raw, found, workbook, code>>
Summarise ==
    /\ Goes("summarising", "opening")
    /\ by_month' = [m \in {MonthOf(i) : i \in clean} |-> Totals({i \in clean : MonthOf(i) = m})]
    /\ by_category' = [c \in {CategoryOf(i) : i \in clean} |-> Totals({i \in clean : CategoryOf(i) = c})]
    /\ UNCHANGED <<raw, found, workbook, code>>

----------------------------------------------------------------------------
(* The workbook. *)

DateOf(i) == Value(i, "order_date")
InOrder(i, j) == DateOf(i) < DateOf(j) \/ (DateOf(i) = DateOf(j) /\ i < j)

\* The place a problem of a row has among the row's: as they are looked for
Place(x) ==
    IF x.kind = "conflict" THEN 7
    ELSE [order_id |-> 1, order_date |-> 2, customer |-> 3, quantity |-> 4, unit_price |-> 5, email |-> 6][x.field]
ByRow(x, y) == x.row < y.row \/ (x.row = y.row /\ Place(x) < Place(y))

\* Each sheet has as its n-th line the one that n - 1 come before.
CleanSheet ==
    [n \in 1..Cardinality(clean) |->
        CHOOSE i \in clean : Cardinality({j \in clean : InOrder(j, i)}) = n - 1]
IssueSheet ==
    [n \in 1..Cardinality(issues) |->
        CHOOSE x \in issues : Cardinality({y \in issues : ByRow(y, x)}) = n - 1]

Sheets == <<CleanSheet, by_month, by_category, IssueSheet>>

\* Opening empties the file ...
OpenWorkbook ==
    /\ Goes("opening", "writing") /\ workbook' = << >>
    /\ UNCHANGED <<raw, found, sums, code>>

\* ... which is written when it is closed.
CloseWorkbook ==
    /\ Goes("writing", "done") /\ workbook' = Sheets /\ code' = 0
    /\ UNCHANGED <<raw, found, sums>>

\* A sheet cannot be made, or the file not be written: an exception, after the
\* sheets so far were saved.
WriteFails ==
    /\ Goes("writing", "broken") /\ code' = 1
    /\ \E n \in 0..3 : workbook' = SubSeq(Sheets, 1, n)
    /\ UNCHANGED <<raw, found, sums>>

Kill ==
    /\ pc \notin Ended /\ pc' = "killed"
    /\ UNCHANGED <<raw, found, sums, workbook, code>>

Next ==
    \/ Load \/ LoadFails \/ DropDuplicates \/ NormaliseRow \/ FindConflicts \/ Summarise
    \/ OpenWorkbook \/ CloseWorkbook \/ WriteFails \/ Kill

Spec == Init /\ [][Next]_vars
----------------------------------------------------------------------------
Cleaned == pc \in {"summarising", "opening", "writing", "done", "broken"}

\* What became of a row
HasIssue(i, kind, fields) == \E x \in issues : x.row = i /\ x.kind = kind /\ x.field \in fields
Fates(i) ==
    {f \in {"clean", "rejected", "conflict", "duplicate"} :
        CASE f = "clean" -> i \in clean
          [] f = "rejected" -> HasIssue(i, "problem", Fields \ {"email"})
          [] f = "conflict" -> HasIssue(i, "conflict", Fields)
          [] f = "duplicate" -> i \notin frame}

\* "Never loses a row quietly" (README.md:3 of spreadsheet-cleanup): a row is in
\* the clean table, or has an issue that says why not, or repeats an earlier row
\* that does one of these, and only one of these (cleaning.py:115-149).
NoRowLost ==
    Cleaned => \A i \in RowNumbers :
        /\ \E f \in Fates(i) : Fates(i) = {f}
        /\ i \notin frame => \E j \in frame : j < i /\ raw[j] = raw[i]

\* An order that some row states without a blocking problem is in the clean
\* table once, as the first such row has it, whatever rows with problems come
\* before (cleaning.py:101-102, 133-144).
FirstGoodRowKept ==
    Cleaned => \A i \in frame : ~Blocks(i) =>
        \E c \in clean :
            /\ c <= i /\ Value(c, "order_id") = Value(i, "order_id")
            /\ \A d \in clean : Value(d, "order_id") = Value(i, "order_id") => d = c

AddedUp(T) ==
    [orders |-> MapThenSumSet(LAMBDA k : T[k].orders, DOMAIN T),
     units |-> MapThenSumSet(LAMBDA k : T[k].units, DOMAIN T),
     revenue |-> MapThenSumSet(LAMBDA k : T[k].revenue, DOMAIN T)]

\* The sheets of a workbook that main answers 0 for agree: each summary adds up
\* to the rows of the clean sheet (cleaning.py:152-164, clean_orders.py:64-65).
SheetsAgree ==
    code = 0 =>
        LET rows == {workbook[1][n] : n \in 1..Len(workbook[1])}
        IN  /\ Len(workbook[1]) = Cardinality(rows)
            /\ AddedUp(workbook[2]) = Totals(rows) /\ AddedUp(workbook[3]) = Totals(rows)
=============================================================================
