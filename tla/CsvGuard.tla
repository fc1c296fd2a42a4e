------------------------------ MODULE CsvGuard ------------------------------
(***************************************************************************)
(* csv-guard's run(): one pass that splits the records of a file into a    *)
(* clean file and a rejects file, both written through buffers, and the    *)
(* exit code main makes of it.  The reader is the sequence of records it   *)
(* returns; opening, creating, reading and writing may fail at any point,  *)
(* and the process may be killed between any two steps.                    *)
(***************************************************************************)
EXTENDS CsvRules, FiniteSets

CONSTANTS
    Records,        \* the records a file may hold: [fields, line]
    Tables,         \* the files: sequences of records, the header first
    RuleLists       \* the --rule options: sequences of [column, rule]

ASSUME TablesAssumption ==
    /\ Tables \subseteq Seq(Records)
    /\ \A r \in Records :
        /\ Len(r.fields) \in Nat /\ DOMAIN r.fields = 1..Len(r.fields)
        /\ \A i \in DOMAIN r.fields : IsValue(r.fields[i])

ASSUME RuleListsAssumption ==
    \A list \in RuleLists : Len(list) \in Nat /\ DOMAIN list = 1..Len(list)

Outputs == {"clean", "rejects"}

VARIABLES
    records,        \* what the reader returns, one call after another
    next,           \* the next of them
    rules, wanted,  \* options.rules, and which of --clean and --rejects are given
    checks,         \* rules resolved to column positions
    pc,
    created,        \* the outputs this run has truncated
    files, buffers, \* what it has written to each on disk, and to its BufWriter
    rows_read, rows_clean, rows_rejected, failures_by_column,
    exit            \* "running", an exit code, or "killed"

options == <<records, rules, wanted>>
summary == <<rows_read, rows_clean, rows_rejected, failures_by_column>>
vars == <<options, next, checks, pc, created, files, buffers, summary, exit>>

Init ==
    /\ records \in Tables /\ next = 1
    /\ rules \in RuleLists /\ wanted \in SUBSET Outputs
    /\ checks = << >>
    /\ pc = "open"
    /\ created = {}
    /\ files = [f \in Outputs |-> << >>]
    /\ buffers = [f \in Outputs |-> << >>]
    /\ rows_read = 0 /\ rows_clean = 0 /\ rows_rejected = 0
    /\ failures_by_column = [c \in {rules[k].column : k \in DOMAIN rules} |-> 0]
    /\ exit = "running"

----------------------------------------------------------------------------
\* The last buffer content reaches the disk, or not, when a writer is dropped.
Dropped(f, saved) ==
    IF saved THEN files[f] \o buffers[f] ELSE files[f]

\* A `?` returned Err: the writers are dropped and main exits with 3.
Fails ==
    /\ \E saved \in SUBSET Outputs : files' = [f \in Outputs |-> Dropped(f, f \in saved)]
    /\ buffers' = [f \in Outputs |-> << >>]
    /\ exit' = "3" /\ pc' = "done"
    /\ UNCHANGED <<options, next, checks, created, summary>>

At(label) == exit = "running" /\ pc = label

OpenInput ==
    /\ At("open")
    /\ pc' = "header"
    /\ UNCHANGED <<options, next, checks, created, files, buffers, summary, exit>>

\* A plausible slip: an empty file is taken to have a header.
ReadHeaderAlways ==
    /\ At("header")
    /\ pc' = "resolve" /\ next' = 2
    /\ UNCHANGED <<options, checks, created, files, buffers, summary, exit>>
ReadHeader ==
    /\ At("header")
    /\ IF records = << >>
       THEN pc' = "done" /\ exit' = "0" /\ UNCHANGED next
       ELSE pc' = "resolve" /\ next' = 2 /\ UNCHANGED exit
    /\ UNCHANGED <<options, checks, created, files, buffers, summary>>

Header == records[1].fields

\* The text of a value is kept trimmed.
IsColumn(i, column) ==
    i \in DOMAIN Header /\ Header[i].text = column

\* header.iter().position(|name| name.trim() == column)
Position(column) ==
    CHOOSE i \in DOMAIN Header :
        IsColumn(i, column) /\ \A j \in 1..(i - 1) : ~IsColumn(j, column)

Resolve ==
    /\ At("resolve")
    /\ \A k \in DOMAIN rules : \E i \in DOMAIN Header : IsColumn(i, rules[k].column)
    /\ checks' = [k \in DOMAIN rules |->
                    [index |-> Position(rules[k].column), rule |-> rules[k].rule,
                     column |-> rules[k].column]]
    /\ pc' = "create_clean"
    /\ UNCHANGED <<options, next, created, files, buffers, summary, exit>>

ResolveFails ==
    /\ At("resolve")
    /\ \E k \in DOMAIN rules : \A i \in DOMAIN Header : ~IsColumn(i, rules[k].column)
    /\ Fails

\* File::create truncates what an earlier run left.
Create(f, here, there) ==
    /\ At(here)
    /\ created' = created \cup ({f} \cap wanted)
    /\ pc' = there
    /\ UNCHANGED <<options, next, checks, files, buffers, summary, exit>>

CreateClean == Create("clean", "create_clean", "create_rejects")
CreateRejects == Create("rejects", "create_rejects", "header_rows")

\* write_record into a BufWriter, or into the sink when the output is not wanted
Buffered(f, lines) == IF f \in wanted THEN buffers[f] \o lines ELSE buffers[f]

RejectsHeader == [line |-> 0, column |-> "column"]

WriteHeaders ==
    /\ At("header_rows")
    /\ buffers' = [clean |-> Buffered("clean", <<records[1]>>),
                   rejects |-> Buffered("rejects", <<RejectsHeader>>)]
    /\ pc' = "rows"
    /\ UNCHANGED <<options, next, checks, created, files, summary, exit>>

----------------------------------------------------------------------------
\* A short row is a problem in itself.
Problem(check, record) ==
    check.index \in DOMAIN record.fields =>
        ~Check(check.rule, record.fields[check.index])

Rejected(record) == \E k \in DOMAIN checks : Problem(checks[k], record)

\* The members of a finite set of numbers, the least one first.
Ascending(S) ==
    [i \in 1..Cardinality(S) |-> CHOOSE k \in S : Cardinality({j \in S : j <= k}) = i]

\* The checks that a record fails, in the order of the rules.
Problems(record) == Ascending({k \in DOMAIN checks : Problem(checks[k], record)})

RejectLine(record, k) == [line |-> record.line, column |-> checks[k].column]

\* A plausible slip: only the first problem of a row is reported.
RejectLinesOnce(record) == <<RejectLine(record, Problems(record)[1])>>
\* One line of the rejects file per problem.
RejectLines(record) ==
    [i \in DOMAIN Problems(record) |-> RejectLine(record, Problems(record)[i])]

\* A plausible slip: a rejected row is written to the clean file as well.
CleanRowAlways ==
    /\ At("rows") /\ next <= Len(records)
    /\ rows_read' = rows_read + 1
    /\ rows_clean' = rows_clean + 1
    /\ buffers' = [buffers EXCEPT !["clean"] = Buffered("clean", <<records[next]>>)]
    /\ next' = next + 1
    /\ UNCHANGED <<options, checks, pc, created, files, rows_rejected, failures_by_column, exit>>
CleanRow ==
    /\ At("rows") /\ next <= Len(records) /\ ~Rejected(records[next])
    /\ rows_read' = rows_read + 1
    /\ rows_clean' = rows_clean + 1
    /\ buffers' = [buffers EXCEPT !["clean"] = Buffered("clean", <<records[next]>>)]
    /\ next' = next + 1
    /\ UNCHANGED <<options, checks, pc, created, files, rows_rejected, failures_by_column, exit>>

\* failures_by_column.entry(column) += 1, once per line
Tally(lines) ==
    [c \in DOMAIN failures_by_column |->
        failures_by_column[c] + Cardinality({k \in DOMAIN lines : lines[k].column = c})]

RejectRow ==
    /\ At("rows") /\ next <= Len(records) /\ Rejected(records[next])
    /\ rows_read' = rows_read + 1
    /\ rows_rejected' = rows_rejected + 1
    /\ LET lines == RejectLines(records[next])
       IN  /\ failures_by_column' = Tally(lines)
           /\ buffers' = [buffers EXCEPT !["rejects"] = Buffered("rejects", lines)]
    /\ next' = next + 1
    /\ UNCHANGED <<options, checks, pc, created, files, rows_clean, exit>>

\* A full BufWriter writes what it holds, and it may be full in the middle of a
\* row's lines.
Spill(f) ==
    \E n \in 1..Len(buffers[f]) :
        /\ exit = "running"
        /\ files' = [files EXCEPT ![f] = @ \o SubSeq(buffers[f], 1, n)]
        /\ buffers' = [buffers EXCEPT ![f] = SubSeq(@, n + 1, Len(@))]
        /\ UNCHANGED <<options, next, checks, pc, created, summary, exit>>

EndOfRows ==
    /\ At("rows") /\ next > Len(records)
    /\ pc' = "flush_clean"
    /\ UNCHANGED <<options, next, checks, created, files, buffers, summary, exit>>

\* A plausible slip: the writer is dropped without the flush whose error counts.
FlushNot(f, here, there) ==
    /\ At(here)
    /\ buffers' = [buffers EXCEPT ![f] = << >>]
    /\ pc' = there
    /\ UNCHANGED <<options, next, checks, created, files, summary, exit>>
Flush(f, here, there) ==
    /\ At(here)
    /\ files' = [files EXCEPT ![f] = @ \o buffers[f]]
    /\ buffers' = [buffers EXCEPT ![f] = << >>]
    /\ pc' = there
    /\ UNCHANGED <<options, next, checks, created, summary, exit>>

FlushClean == Flush("clean", "flush_clean", "flush_rejects")
FlushRejects == Flush("rejects", "flush_rejects", "report")

\* A plausible slip: rejected rows do not make the run fail.
ReportSuccess ==
    /\ At("report")
    /\ exit' = "0" /\ pc' = "done"
    /\ UNCHANGED <<options, next, checks, created, files, buffers, summary>>
\* main's exit code: non-zero when anything was rejected.
Report ==
    /\ At("report")
    /\ exit' = (IF rows_rejected > 0 THEN "1" ELSE "0") /\ pc' = "done"
    /\ UNCHANGED <<options, next, checks, created, files, buffers, summary>>

\* Opening, creating, reading or writing failed; resolving and reporting cannot.
IoError == exit = "running" /\ pc \notin {"resolve", "report"} /\ Fails

\* The process is killed: what the BufWriters hold is lost.
Killed ==
    /\ exit = "running"
    /\ exit' = "killed" /\ pc' = "done"
    /\ buffers' = [f \in Outputs |-> << >>]
    /\ UNCHANGED <<options, next, checks, created, files, summary>>

Stopped == pc = "done" /\ UNCHANGED vars

Next ==
    \/ OpenInput \/ ReadHeader \/ Resolve \/ ResolveFails
    \/ CreateClean \/ CreateRejects \/ WriteHeaders
    \/ CleanRow \/ RejectRow \/ EndOfRows
    \/ (\E f \in Outputs : Spill(f))
    \/ FlushClean \/ FlushRejects \/ Report
    \/ IoError \/ Killed \/ Stopped

Spec == Init /\ [][Next]_vars

----------------------------------------------------------------------------
Labels ==
    {"open", "header", "resolve", "create_clean", "create_rejects", "header_rows",
     "rows", "flush_clean", "flush_rejects", "report", "done"}

TypeOK ==
    /\ records \in Tables /\ rules \in RuleLists /\ wanted \in SUBSET Outputs
    /\ next \in 1..(Len(records) + 1)
    /\ pc \in Labels
    /\ created \in SUBSET wanted
    /\ DOMAIN files = Outputs /\ DOMAIN buffers = Outputs
    /\ files["clean"] \in Seq(Records) /\ buffers["clean"] \in Seq(Records)
    /\ rows_read \in Nat /\ rows_clean \in Nat /\ rows_rejected \in Nat
    /\ exit \in {"running", "0", "1", "3", "killed"}

\* No row that fails a rule is in the clean file or on its way there, whether
\* the run completes, fails or is killed (run(), the split of main.rs:174-187).
CleanRowsPass ==
    \A lines \in {files["clean"], buffers["clean"]} :
        \A k \in DOMAIN lines : lines[k] = records[1] \/ ~Rejected(lines[k])

\* Every row is counted once, and the clean file and its buffer hold the header
\* and the rows counted clean.
RowsAddUp ==
    /\ rows_read = rows_clean + rows_rejected
    /\ pc \in {"rows", "flush_clean", "flush_rejects", "report"} =>
        /\ rows_read = next - 2
        /\ Len(files["clean"]) + Len(buffers["clean"])
             = IF "clean" \in wanted THEN rows_clean + 1 ELSE 0

\* What the README promises of a row: a rule is about the first column of its name.
RulePasses(r, record) ==
    LET named == {i \in DOMAIN Header : Header[i].text = r.column}
        i == CHOOSE n \in named : \A m \in named : n <= m
    IN  i \in DOMAIN record.fields /\ Check(r.rule, record.fields[i])

RowPasses(record) == \A k \in DOMAIN rules : RulePasses(rules[k], record)

\* The exit code a scheduler acts on: 0 only if every row passed, 1 only if some
\* row did not (main.rs:242-248).
ExitTellsTruth ==
    /\ exit = "0" => \A n \in 2..Len(records) : RowPasses(records[n])
    /\ exit = "1" => \E n \in 2..Len(records) : ~RowPasses(records[n])

----------------------------------------------------------------------------
(* What the README promises of the outputs, over the whole file at once.  A *)
(* line of the clean file stands for a row that passes, one of the rejects  *)
(* file for a row and a rule that it fails.                                 *)

Entries(f) ==
    IF f = "clean"
    THEN {e \in (2..Len(records)) \X {0} : RowPasses(records[e[1]])}
    ELSE {e \in (2..Len(records)) \X DOMAIN rules : ~RulePasses(rules[e[2]], records[e[1]])}

Heading(f) == IF f = "clean" THEN records[1] ELSE RejectsHeader

Line(f, e) ==
    IF f = "clean" THEN records[e[1]]
    ELSE [line |-> records[e[1]].line, column |-> rules[e[2]].column]

\* In the order of the rows, and of the rules within a row.
NotAfter(d, e) == d[1] < e[1] \/ (d[1] = e[1] /\ d[2] <= e[2])

\* The place of an entry in its file, after the heading.
Place(f, e) == 1 + Cardinality({d \in Entries(f) : NotAfter(d, e)})

\* The lines are the first ones of what is promised.
Begins(lines, f) ==
    /\ Len(lines) <= 1 + Cardinality(Entries(f))
    /\ lines # << >> => lines[1] = Heading(f)
    /\ \A e \in Entries(f) : Place(f, e) <= Len(lines) => lines[Place(f, e)] = Line(f, e)

Resolvable ==
    records # << >> /\
    \A k \in DOMAIN rules : \E i \in DOMAIN Header : IsColumn(i, rules[k].column)

\* An output file is the one the earlier run left or the beginning of the one
\* this run would write, whenever the run fails or is killed; and until every
\* rule's column is found it is the earlier one (run(), main.rs:111-135).
OutputsArePrefixes ==
    \A f \in Outputs :
        \/ f \notin created /\ files[f] = << >>
        \/ Resolvable /\ Begins(files[f], f)

\* A run that exits with 0 or 1 over a file that has a header has written both
\* outputs to the end, and its summary counts the rows, those that pass, and the
\* failures of each column (main.rs:151-192).
OutputsComplete ==
    exit \in {"0", "1"} /\ records # << >> =>
        /\ rows_read = Len(records) - 1
        /\ rows_clean = Cardinality(Entries("clean"))
        /\ \A c \in DOMAIN failures_by_column :
            failures_by_column[c]
                = Cardinality({e \in Entries("rejects") : rules[e[2]].column = c})
        /\ \A f \in wanted :
            Begins(files[f], f) /\ Len(files[f]) = 1 + Cardinality(Entries(f))
=============================================================================
