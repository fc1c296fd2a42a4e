----------------------------- MODULE RatesSync -----------------------------
(***************************************************************************)
(* rates-sync: scheduled jobs that bring an Excel workbook of daily rates  *)
(* up to today.  A run loads the workbook, asks the API for the days after *)
(* its last row, merges the answer and rewrites the file, which is opened  *)
(* (and truncated) before it is saved.  Runs may overlap or be killed, and *)
(* each request may fail.                                                  *)
(*                                                                         *)
(* A table is a function from dates to rows: drop_duplicates and           *)
(* sort_values leave one row per date, in the order of the dates.          *)
(***************************************************************************)
EXTENDS Integers, FiniteSets

CONSTANTS
    Jobs,           \* the command lines run against this workbook
    Base, Symbols,  \* the --base and the --symbols of each
    Sinces,         \* the values of --since, NoSince where it is not given
    NoSince,
    DEFAULT_LOOKBACK_DAYS,      \* how many days back a new workbook starts without it
    BusinessDays,   \* the days the API has rates for
    FirstDay, LastDay,          \* bound: the calendar explored
    MaxRevisions,   \* bound: how often the API corrects a rate
    MaxKills        \* bound: how many runs are killed

ASSUME DaysAssumption == BusinessDays \subseteq Int /\ FirstDay \in Int
ASSUME SincesAssumption ==
    Sinces \subseteq Int \cup {NoSince} /\ NoSince \notin Int /\ DEFAULT_LOOKBACK_DAYS \in Nat

MAX_ATTEMPTS == 3

NoRows == [d \in {} |-> {}]
Absent == [kind |-> "absent", rows |-> NoRows, columns |-> {}, to |-> FirstDay]
Unreadable == [Absent EXCEPT !.kind = "unreadable"]

VARIABLES
    today, published, version,      \* the calendar, and what the API answers with
    since,                          \* the --since of each command line
    file,                           \* the workbook: [kind, rows, columns, to]
    pc, till, existing, columns,    \* per run: where it is, date.today(), the loaded table
    start, attempt, fresh,          \* the first day asked for, the request, its rows
    overlapped,                     \* another run had the file open at the same time
    exit,                           \* the exit code of a job's last run
    saved,                          \* history: the rows of the last save
    kills, revisions                \* how much of the bounds is used

api == <<today, published, version, revisions>>
world == <<api, since>>
run == <<till, existing, columns, start, attempt, fresh, overlapped>>
vars == <<world, file, pc, run, exit, saved, kills>>

Init ==
    /\ today = FirstDay /\ published = {}
    /\ version = [d \in BusinessDays |-> 1]
    /\ since \in [Jobs -> Sinces]
    /\ file = Absent
    /\ pc = [j \in Jobs |-> "idle"]
    /\ till = [j \in Jobs |-> FirstDay]
    /\ existing = [j \in Jobs |-> NoRows] /\ columns = [j \in Jobs |-> {}]
    /\ start = [j \in Jobs |-> FirstDay] /\ attempt = [j \in Jobs |-> 0]
    /\ fresh = [j \in Jobs |-> NoRows]
    /\ overlapped = [j \in Jobs |-> FALSE]
    /\ exit = [j \in Jobs |-> 0]
    /\ saved = NoRows
    /\ kills = 0 /\ revisions = 0

----------------------------------------------------------------------------
\* The API: a day passes, the next business day is published, a rate is corrected.
NextDay ==
    /\ today < LastDay
    /\ today' = today + 1
    /\ UNCHANGED <<published, version, revisions, since, file, pc, run, exit, saved, kills>>

Publish(d) ==
    /\ d \in BusinessDays \ published /\ d <= today
    /\ \A e \in BusinessDays : e < d => e \in published
    /\ published' = published \cup {d}
    /\ UNCHANGED <<today, version, revisions, since, file, pc, run, exit, saved, kills>>

Revise(d) ==
    /\ d \in published /\ revisions < MaxRevisions
    /\ version' = [version EXCEPT ![d] = @ + 1]
    /\ revisions' = revisions + 1
    /\ UNCHANGED <<today, published, since, file, pc, run, exit, saved, kills>>

----------------------------------------------------------------------------
Goes(j, label) == pc' = [pc EXCEPT ![j] = label]

\* The run ends, in success (0) or with a SyncError or another exception (1).
Ends(j, code) == Goes(j, "idle") /\ exit' = [exit EXCEPT ![j] = code]

\* The scheduler starts a job; main reads the date once.
Begin(j) ==
    /\ pc[j] = "idle"
    /\ since[j] # NoSince => since[j] <= today
    /\ till' = [till EXCEPT ![j] = today]
    /\ Goes(j, "load")
    /\ UNCHANGED <<world, file, existing, columns, start, attempt, fresh, overlapped,
                   exit, saved, kills>>

\* The first day of a new workbook, for a run on that day: --since, or 90 days back.
First(j, day) == IF since[j] = NoSince THEN day - DEFAULT_LOOKBACK_DAYS ELSE since[j]

LastOf(rows) == CHOOSE d \in DOMAIN rows : \A e \in DOMAIN rows : e <= d

\* A plausible slip: the day after the last row is skipped.
StartOffByOne(j, rows, day) == IF rows = NoRows THEN First(j, day) ELSE LastOf(rows) + 2
\* The first day to ask for.
Start(j, rows, day) == IF rows = NoRows THEN First(j, day) ELSE LastOf(rows) + 1

Loadable(j) ==
    \/ file.kind = "absent"
    \/ file.kind = "book" /\ Symbols[j] \subseteq file.columns

Load(j) ==
    /\ pc[j] = "load" /\ Loadable(j)
    /\ existing' = [existing EXCEPT ![j] = file.rows]
    /\ columns' = [columns EXCEPT ![j] = file.columns]
    /\ start' = [start EXCEPT ![j] = Start(j, file.rows, till[j])]
    /\ IF Start(j, file.rows, till[j]) > till[j]
       THEN Ends(j, 0) /\ UNCHANGED attempt
       ELSE Goes(j, "fetch") /\ attempt' = [attempt EXCEPT ![j] = 1] /\ UNCHANGED exit
    /\ UNCHANGED <<world, file, till, fresh, overlapped, saved, kills>>

LoadFails(j) ==
    /\ pc[j] = "load" /\ ~Loadable(j)
    /\ Ends(j, 1)
    /\ UNCHANGED <<world, file, run, saved, kills>>

\* The days the API answers with: those of the range, perhaps padded with the
\* last one before it.
Answers(j) ==
    LET range == {d \in published : start[j] <= d /\ d <= till[j]}
        padding == {d \in published : d < start[j] /\ \A e \in published : e < start[j] => e <= d}
    IN  {range, range \cup padding}

\* A plausible slip: the padding is kept.
FreshRowsPadded(j, days) ==
    [d \in days |-> [base |-> Base[j], symbols |-> Symbols[j], version |-> version[d]]]
\* fetch_rates: one row per day of the answer, the padding dropped
FreshRows(j, days) ==
    [d \in {e \in days : start[j] <= e} |->
        [base |-> Base[j], symbols |-> Symbols[j], version |-> version[d]]]

\* A plausible slip: only the new rows are written.
MergeFreshOnly(old, new) == IF DOMAIN new = {} THEN old ELSE new
\* merge: existing rows win
Merge(old, new) ==
    [d \in DOMAIN old \cup DOMAIN new |-> IF d \in DOMAIN old THEN old[d] ELSE new[d]]

\* HTTP 200 with JSON; a table without rows is refused.
Answer(j) ==
    /\ pc[j] = "fetch"
    /\ \E days \in Answers(j) :
        /\ fresh' = [fresh EXCEPT ![j] = FreshRows(j, days)]
        /\ IF Merge(existing[j], FreshRows(j, days)) = NoRows
           THEN Ends(j, 1)
           ELSE Goes(j, "open") /\ UNCHANGED exit
    /\ UNCHANGED <<world, file, till, existing, columns, start, attempt, overlapped, saved, kills>>

\* A 4xx other than 429, an answer that is not JSON, or a day without a symbol
Refused(j) ==
    /\ pc[j] = "fetch"
    /\ Ends(j, 1)
    /\ UNCHANGED <<world, file, run, saved, kills>>

\* A plausible slip: one attempt too many.
TransientOnceMore(j) ==
    /\ pc[j] = "fetch"
    /\ IF attempt[j] <= MAX_ATTEMPTS
       THEN attempt' = [attempt EXCEPT ![j] = @ + 1] /\ UNCHANGED <<pc, exit>>
       ELSE Ends(j, 1) /\ UNCHANGED attempt
    /\ UNCHANGED <<world, file, till, existing, columns, start, fresh, overlapped, saved, kills>>
\* A network error, a 5xx, a 429 or another status: try again, then give up.
Transient(j) ==
    /\ pc[j] = "fetch"
    /\ IF attempt[j] < MAX_ATTEMPTS
       THEN attempt' = [attempt EXCEPT ![j] = @ + 1] /\ UNCHANGED <<pc, exit>>
       ELSE Ends(j, 1) /\ UNCHANGED attempt
    /\ UNCHANGED <<world, file, till, existing, columns, start, fresh, overlapped, saved, kills>>

----------------------------------------------------------------------------
\* ExcelWriter opens the path for writing, which empties it.
Open(j) ==
    /\ pc[j] = "open"
    /\ file' = Unreadable
    /\ Goes(j, "save")
    /\ LET others == {k \in Jobs \ {j} : pc[k] = "save"}
       IN  overlapped' = [k \in Jobs |->
                            IF k = j THEN others # {} ELSE overlapped[k] \/ k \in others]
    /\ UNCHANGED <<world, till, existing, columns, start, attempt, fresh, exit, saved, kills>>

\* summarise: "to" is the date of the last row
SummaryEnd(rows, new) == LastOf(rows)

Book(j) ==
    LET rows == Merge(existing[j], fresh[j])
    IN  [kind |-> "book", rows |-> rows, columns |-> columns[j] \cup Symbols[j],
         to |-> SummaryEnd(rows, fresh[j])]

\* The workbook is written when the writer closes; two writers at once may leave
\* the bytes of both.
Save(j) ==
    /\ pc[j] = "save"
    /\ file' \in {Book(j)} \cup (IF overlapped[j] THEN {Unreadable} ELSE {})
    /\ saved' = (IF file'.kind = "book" THEN file'.rows ELSE saved)
    /\ Ends(j, 0)
    /\ UNCHANGED <<world, run, kills>>

\* The process is killed: the file stays as it is.
Kill(j) ==
    /\ pc[j] # "idle" /\ kills < MaxKills
    /\ Ends(j, 1)
    /\ kills' = kills + 1
    /\ UNCHANGED <<world, file, run, saved>>

Progress(j) ==
    Begin(j) \/ Load(j) \/ LoadFails(j) \/ Answer(j) \/ Open(j) \/ Save(j)

Next ==
    \/ NextDay \/ (\E d \in BusinessDays : Publish(d) \/ Revise(d))
    \/ \E j \in Jobs : Progress(j) \/ Refused(j) \/ Transient(j) \/ Kill(j)

Spec == Init /\ [][Next]_vars

\* The scheduler keeps starting the job, a run proceeds, and the API does not fail
\* every run there will ever be.
FairSpec ==
    /\ Spec
    /\ \A j \in Jobs :
        /\ WF_vars(Begin(j) \/ Load(j) \/ LoadFails(j) \/ Open(j) \/ Save(j))
        /\ SF_vars(Answer(j))
----------------------------------------------------------------------------
TypeOK ==
    /\ today \in Int /\ published \subseteq BusinessDays
    /\ since \in [Jobs -> Sinces]
    /\ file.kind \in {"absent", "unreadable", "book"}
    /\ DOMAIN file.rows \subseteq BusinessDays
    /\ pc \in [Jobs -> {"idle", "load", "fetch", "open", "save"}]
    /\ till \in [Jobs -> Int] /\ start \in [Jobs -> Int]
    /\ DOMAIN existing = Jobs /\ DOMAIN columns = Jobs /\ DOMAIN fresh = Jobs
    /\ \A j \in Jobs : DOMAIN existing[j] \subseteq BusinessDays
    /\ \A j \in Jobs : DOMAIN fresh[j] \subseteq BusinessDays
    /\ attempt \in [Jobs -> 0..MAX_ATTEMPTS]
    /\ overlapped \in [Jobs -> BOOLEAN]
    /\ exit \in [Jobs -> {0, 1}]

Unbroken(rows) ==
    \A a, b \in DOMAIN rows : \A d \in BusinessDays : a <= d /\ d <= b => d \in DOMAIN rows

\* A workbook has every business day between its first and its last row, however
\* runs overlap, fail or are killed: a day that was skipped would never be asked
\* for again (sync_rates.py:51).
NoGaps == Unbroken(file.rows)

\* No row is of a day before the one the workbook could start with, which without
\* --since depends on the day of the first run: the API's padding of a range that
\* starts on a weekend is dropped (rates.py:34-36).
NothingBeforeSince == \A d \in DOMAIN file.rows : \E j \in Jobs : d >= First(j, FirstDay)

\* Existing rows win: what one save wrote the next one writes again, whatever the
\* API has corrected since (rates.py:67-68), as long as runs do not overlap.
RowsKept ==
    [][\A d \in DOMAIN saved : d \in DOMAIN saved' /\ saved'[d] = saved[d]]_saved

\* A workbook holds rates of one base (README.md:8).
OneBase == \A d, e \in DOMAIN file.rows : file.rows[d].base = file.rows[e].base

\* A day is due when a new workbook would have it today, whichever job writes it;
\* it is wanted when it is due or comes after a row of the workbook there is.
Due(d) == \A j \in Jobs : First(j, today) <= d
Wanted(d) == Due(d) \/ \E e \in DOMAIN file.rows : e <= d

\* Every wanted day the API has published gets into the workbook (README.md:3,
\* "Keeps an Excel workbook of daily exchange rates up to date"), unless a kill
\* while it was written has left the file unreadable.  Without --since the first day
\* of a new workbook moves on each day (sync_rates.py:53), so that a day may fall
\* out of the look-back for as long as no run has succeeded.
KeptUpToDate ==
    \A d \in BusinessDays :
        (d \in published /\ Wanted(d)) ~>
            \/ d \in DOMAIN file.rows
            \/ file.kind = "absent" /\ ~Wanted(d)
            \/ file.kind = "unreadable" /\ \A j \in Jobs : pc[j] # "save"
=============================================================================
