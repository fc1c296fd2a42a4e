# Verification of the security and infrastructure labs

This directory holds TLA+ specifications of the programs in `src/`, the TLC
configurations that check them on small instances, and proofs that TLAPS checks
of their properties for every instance.  `PROJECT.json` lists the components,
the runs, the slips each property is shown to catch, the source lines of each
definition, the hazards and the theorems.

- [The system](#the-system): its parts, their state and operations, what is hard
- [The modules](#the-modules): which models what, and how it corresponds to the code
- [The runs](#the-runs): what each checks, its bounds and its fairness
- [The proofs](#the-proofs): what is proved, and along which argument
- [Differences found](#differences-found)
- [What is not modelled](#what-is-not-modelled)
- [The plan](#the-plan)

To check a run: `tlc -config <cfg> <module>`, with the pairs listed under
[The runs](#the-runs).  To check the proofs of a module: `tlapm <module>.tla`.

## The system

The repository is ten separate labs.  They share no code and never call each
other; what interacts is inside a lab.  Seven of them run a program whose
outcome depends on state, order or failure, and these are modelled.  A lab that
comes in a vulnerable and a fixed copy is modelled in the fixed one.

### csv-guard-rust

A command line program that checks the rows of a CSV file against rules on
columns and splits it into a clean file and a file of rejects, in one pass.

| Part | State | Operations |
|---|---|---|
| `Reader` (`csv.rs`) | a buffer with `filled`, `position`, `exhausted`; a line and a record number; within a call the fields read so far, the field being read and whether it is in quotes | `next_byte`, `peek_byte`, `next_record` |
| `write_record` (`csv.rs`) | none | writes a record, quoting where it must |
| rules (`rules.rs`) | none | `parse_spec`, `check` |
| `run` (`main.rs`) | the resolved checks, two buffered writers, the counts | resolve the columns, split the rows, flush, report, exit code |
| `compare.py` | the row it is at, the clean file it writes | the same rules in Python; `bench.sh` compares the two clean files |

`run` calls the reader once per record and the writer once per line.  What is
hard: a record, a doubled quote or a CRLF may straddle two reads, and a read may
return any number of bytes; the outputs are written through buffers while rows
are still read, and reading, writing or the whole process may fail in between;
the exit code is what a scheduler acts on.

What makes it correct: the records do not depend on how the file arrives in
pieces, and are those RFC 4180 defines; the reader terminates; what the writer
writes the reader reads back; no bad row is ever in the clean file; every row is
accounted for once; an interrupted run leaves prefixes of what it would have
written; a code of 0 or 1 means what it says; and the Python program, over rows
that both read alike, writes the same clean file.

### c-memory-safety

`hdrparse` reads a block of headers (`Name`, `Tag`, `Roles`, `Role`, `Note`)
into a `struct header` on the stack with pointers to the heap, and prints it.
The state is that struct, the two counters and the heap.  The operations are
one per kind of line, and the report and the clean-up at the end; each may end
in `fail`, and every allocation may fail.  `first_note` keeps the text of the
first note while `note` is replaced, and a second `Roles` line replaces a list
that is partly filled.  What makes it correct: no byte outside its block is
written, nothing is read before it is written or after it is freed, nothing is
freed twice, nothing is left at the end, and what is printed is what was read.

### rates-sync

A scheduled job that keeps an Excel workbook of daily rates up to date.  The
state that lasts is the workbook; a run holds the table it loaded, the answer of
the API and how often it has asked.  `sync` loads the workbook, computes the
first day to ask for, asks the API (three attempts), merges, and rewrites the
file.  What is hard: nothing locks the workbook, so runs may overlap; the file
is emptied when it is opened and written when it is closed, so a run may be
killed between; the API corrects rates, pads ranges with the business day before
them and fails; a day that is skipped once is never asked for again, because
the next run starts after the last row; and without `--since` a new workbook
starts 90 days before the date of the run that creates it, so that days drop out
for as long as no run succeeds.  What makes it correct: no business day is
missing between two rows, rows are never rewritten, and the workbook comes to
hold every day published since the one it starts with.

### multi-tenant-isolation

A timesheet service per tenant, on Postgres, and `verify.py`, which probes a
running stack from outside.  Three compose files give each service its database
and its signing key, which may be shared.  The state that lasts is the table
`entries`; a service has one connection for as long as it runs, and sessions are
signed tokens that no one stores.  A service starts by connecting (for up to
thirty seconds) and by setting the database up under an advisory lock: it
creates the table if there is none, and inserts the rows of each tenant that has
none.  Then it answers `/login`, `/entries` and `/entries/<id>`.  `verify.py`
logs in at both services, asks one for an id it was told by the other, replays a
token, and asks Docker about the network; it counts the probes whose result is
not the one its table gives for the stack.

What is hard: services that share a database start at once and race to set it
up; each insert commits by itself, so a service may be stopped between two; a
database may be stopped under a service; tokens and ids of one tenant may be
presented to another; and `verify.py` takes its ids and tokens while all this
goes on.  What makes it correct: a row is never seeded twice, no service loses
the race for the table, a service that answers has rows of every tenant, whoever
waits for the lock gets it, an answer only holds rows of the tenant whose session
it answers, and `verify.py` raises no alarm over services that stay up.

### flask-api-review

A small task API: accounts, tokens, tasks, a list of users for admins.  All
threads share one SQLite connection, and with it one transaction, one
`lastrowid` and one count of changes; `login` counts failures per username in a
dict of lists that they share without a lock.  Tokens are signed ids; the key is
drawn at each start unless `TASK_API_SECRET` gives one.  What is hard: Python
opens a transaction before a statement that writes, and any thread's `commit`
ends it, so a thread may find its transaction gone, its row saved by another, or
the counters of another's statement; a registration looks whether a name is free
and inserts later; and one thread's `too_many_failures` puts a new list into the
dict while another is about to append to the old one, or has forgotten the count
after a success.  What makes it correct: an answer only holds tasks of the
account whose token asked, a name is registered once, an id never names a second
task, what was answered as done is saved, an undisturbed request is told of its
own row, nobody is refused who has not failed often enough, and nobody fails more
often than the limit.

### books-scraper

`scrape` walks the pages of a catalogue along their links, with three attempts
for each page and a pause between, up to `--max-pages`; `main` writes the books
to a CSV file at the end.  The state is the next link, the count of pages, the
attempt, the books so far and the file.  What is hard: 429, 5xx and network
errors are retried and other 4xx are not; a page without books or one that
cannot be parsed ends the run after others were read; links may form a circle;
the file is emptied before it is written.  What makes it correct: each page is
taken once and in order whatever was retried, a page is given up for the right
answers, a run that fails before writing leaves the old file alone, and a run
that has read `robots.txt` ends.

### spreadsheet-cleanup

`clean` takes the rows of an export through three steps (exact duplicates are
dropped, fields are parsed and problems noted, rows with the `order_id` of an
earlier one are reported as conflicts), two summaries are made, and
`clean_orders.py` writes a workbook of four sheets.  The state is the rows still
there at each step, the issues and the workbook.  What is hard: each step sees
only what the one before has left, so their order decides what becomes of a row;
several texts read the same; the workbook is emptied when it is opened.  What
makes it correct: every row has exactly one fate, the first good row of an order
is the one kept, and the sheets add up.

### aws-cost-review

`costcheck` reads a Terraform plan and a file of prices, applies six rules to
the resources, sums two totals, and fails the build if the bill is above
`--fail-over`.  What is hard: resources sit in modules, values are null or
absent, prices are missing, a rule looks at resources one by one or in relation
to each other (gateways beyond the first, addresses beyond the gateways).  What
makes it correct: the total is the bill of the databases, gp2 volumes, gateways
and idle addresses of the plan (but for a gateway that is the only one, which the
rules leave out), each resource that a rule is about is named in a finding, and
what could be saved is never more than what is spent.

### The other labs

- docker-port-hardening: `verify.py` makes five probes and gives a verdict.
- java-xxe: settings of two XML parsers of the JDK, and a harness that tries them.

## The modules

| Module | Models | State | Actions |
|---|---|---|---|
| `CsvRecord` | the quoting state machine of `next_record` | fields, field, quotes, counters, the activations of the recursion | one per kind of byte, and the ends of input |
| `CsvWhole` | what the reader promises: `CsvRecord` on the whole input | adds how much was used | `Start`, `Parse`, `AtEnd` |
| `CsvReader` | `CsvRecord` on a buffer that is refilled by short reads | adds the buffer | `Read`, `ReadNothing`, `ReadError`, `NextByte`, `Parse`, `AtEnd`, `Start` |
| `CsvGrammar` | RFC 4180 over a whole file, by the parity of the quotes before each byte: the reference for its records | none | none |
| `CsvWriter` | `write_record`, and which rows of what it writes come back | the reader's | none |
| `CsvRules` | `check` and the dates of `rules.rs` | none | none |
| `CsvGuard` | `run` and `main` | the step, the writers' buffers and files, the counts, the exit code | one per step, failing I/O, a kill |
| `CsvCompare` | `compare.py` run after csv-guard, as `bench.sh` does | adds the row it is at and its clean file | start, a row, an exception, the end |
| `RatesSync` | a run of `sync`, any number of them, and the API | workbook, runs, published days | one per step of a run, failures, kills, the calendar |
| `HdrBlock` | what `hdrparse` promises: the values that lines give, without a heap | values and the step | one per kind of line |
| `HdrParse` | `hdrparse` on an explicit heap | pointers, blocks in use, their contents | one per kind of line, a failing allocation, clean-up |
| `Tenancy` | the service of each tenant: start and requests | the step of each start, lock, table, rows, tokens, the last answer | one per statement of the setup, per route, per fault |
| `TenancyVerify` | `verify.py` against the services of `Tenancy` | adds the probe it is at, the id it took, its count of failures | one per request or probe, and the services' own |
| `FlaskServer` | the threads and the names both parts of `app.py` share | none | none |
| `LoginLimit` | `login` as threads interleave | the dict and the list objects, the step of each thread | one per access to the dict or a list |
| `TaskApi` | the other routes of `app.py`, as threads interleave | the tables, the rows saved, the connection's transaction and counters, tokens, the step of each thread | one per route up to its statement; the look for a transaction, its beginning, the statement (done or refused), its counters, the commit; requests that are malformed; kill and start |
| `BookWalk` | what the scraper promises: a walk without requests | next page, count, books, outcome, file | `ReadPage`, `GiveUp`, `StartToWrite`, `Write`, `Finish`, `Break` |
| `BookScraper` | `main`, `scrape`, `fetch` and `write_csv` | page, attempt, books, file, exit code | one per kind of answer and page, per step of the file, a kill |
| `OrderCleanup` | `clean`, the summaries and the workbook | rows left, issues, clean rows, sums, workbook | load, drop duplicates, one row normalised, conflicts, sums, write, failures, a kill |
| `CostCheck` | `costcheck.py` | resources, findings, totals, exit code | read, check, add up, decide, two failures |

`CsvReader` implements `CsvWhole` (refinement `WholeSpec`), `HdrParse`
implements `HdrBlock` (`BlockSpec`) and `BookScraper` implements `BookWalk`
(`WalkSpec`).  `CsvReader` and `CsvWhole` both extend `CsvRecord`, so that the
state machine is written once and only where its bytes come from differs.
Two modules compose programs: `CsvCompare` extends `CsvGuard` with the program
that runs after it, and `TenancyVerify` extends `Tenancy` with the one that runs
beside it; the actions of both are disjuncts of one next-state relation.
The modules named `MC...` give the constants for TLC and hold the properties that
need recursive operators; the modules named `...Proofs` hold the theorems.

A definition named like another with a few more words (`RefillKeepingPosition`
before `Refill`, say) is a plausible slip in that code.  Nothing uses it: it
documents what a property would catch, and `PROJECT.json` pairs each such slip
with the property it breaks.

What the models abstract:

- A byte of a CSV file is one that `next_record` tests for or one of two
  others, of which one is not valid UTF-8 by itself.  So a replaced byte is a
  replaced field of the model, and that several invalid bytes may give fewer
  replacement characters is left out.
- A cell of a CSV file is what the checks of either program tell apart: its kind,
  the numbers between its hyphens, and its length.  Where Rust and Python read a
  text differently there is a kind for it (`beyond_i64`; `loose` and
  `loose_fraction` for underscores and for digits beyond ASCII; `separated` for
  an information separator at the end), and a part of a date is loose if only
  Python's `int` reads it, for white space around it or digits beyond ASCII.
- `CsvGuard` takes the reader as the sequence of records it returns, and
  buffers hold whole lines: that a buffer is written in the middle of a line is
  not modelled, so a file that is a prefix of lines stands for one with the
  beginning of the next.
- A value of `hdrparse` is its length and the number it reads as; a heap block
  holds a text or garbage.
- A table of rates is a function from days to rows.  A day is a number.
- A token is the tenant and the key, or in `TaskApi` the id and, as history, the
  account it was given to.  A request that is answered 400 changes nothing and is
  left out.  One whose values the handler does not expect is answered 500 before
  anything is written (`Malformed`), or by its statement, which SQLite refuses
  after the transaction has been opened (`StatementRefused`, of the operation
  `unfit`).
- What Docker answers to `verify.py`'s last two probes follows from the stack,
  or Docker fails.
- In `LoginLimit` the password is a free choice, and `time.monotonic()` counts
  the ticks of a clock.  Each access to the dict or to a list is a step, which is
  what the interpreter's lock makes of them.
- In `TaskApi` a statement that only reads is one step; one that writes is taken
  apart as the `sqlite3` module does it, since the threads can interleave
  between its calls into SQLite.  Whether a password is right, which titles a
  search matches and who is an admin are free choices.
- A page of a catalogue is how many books it lists, its link, and whether it can
  be parsed; a book is the page and its place there.
- A cell of an order is a text, of which a constant says what the parser of its
  column reads; several texts may read the same.
- Prices are small whole numbers, and a resource is the values the rules look at.

Behaviour from outside the repository is modelled from how the code uses it
and marked external in `PROJECT.json`: `malloc` and `free`, the operating
system's kill, Postgres' restart, its release of advisory locks with their
session and its two-step `CREATE TABLE IF NOT EXISTS` (`common.py:20-24`),
pysqlite's implicit transactions and SQLite's autocommit, and the Frankfurter
API, which is taken to publish days in order and to correct them afterwards.

## The runs

| Run | Module, cfg | Shows |
|---|---|---|
| csv_reader | MCCsvReader, CsvReader.cfg | every file of up to 5 bytes and every file the writer makes of small rows, in every chunking: the window of the buffer, the grammar, what is written is read back, the refinement, termination |
| csv_guard | MCCsvGuard, CsvGuard.cfg | the split, the counts, the exit code, over failures and kills; and that compare.py agrees |
| rates_sync | MCRatesSync, RatesSync.cfg | a daily job over days off, corrections, failing requests and a kill |
| rates_bases | MCRatesSync, RatesBases.cfg | a difference: a job with another base appends |
| hdr_parse | MCHdrParse, HdrParse.cfg | every sequence of lines on a heap, and the refinement |
| tenancy | MCTenancy, Tenancy.cfg | two services that start, stop and answer, on three stacks, and verify.py beside them |
| login_limit | MCLoginLimit, LoginLimit.cfg | two threads and two users |
| login_race | MCLoginLimit, LoginRace.cfg | a difference: overlapping requests exceed the limit |
| tasks | MCTaskApi, TaskApi.cfg | two threads that register, log in, create, read and delete on one connection, with restarts |
| books | MCBookScraper, BookScraper.cfg | every site of three pages, every way of answering: the refinement, the retries, the end |
| orders | MCOrderCleanup, OrderCleanup.cfg | every table of up to three messy rows |
| cost | MCCostCheck, CostCheck.cfg | every plan of up to three resources, in modules or not |

Bounds, and why they are enough to reach what matters:

- csv_reader: 5 bytes over an alphabet of 6 hold a quoted field with a doubled
  quote, a CRLF inside and outside quotes, two records and blank lines; a buffer
  of 2 puts the seam between any two of them and leaves stale bytes behind short
  reads.  What the writer makes of one row of two fields or two rows of one, with
  fields of up to 2 bytes, is longer and is read as well.
- csv_guard: two rows, some of them short, under one or two rules that may name
  one column twice or none; each of the two outputs may be unwanted.  Two rows
  are enough for one to be on disk, one in the buffer and one unread.  Under the
  rules of `bench.sh`: a good order with one cell changed, orders of other
  widths, and the dates around the ends of months and the century rules.
- rates_sync: five days, of which the first and the last are days off, with a
  business day before them; `--since` on the first of them, or none and a
  look-back of two days, so that business days drop out of it while runs fail;
  one corrected rate, one kill.  That is enough for a padded answer, for a day without news and
  for a run that is killed after it has emptied the file.
- hdr_parse: a list of up to two roles, values of 15, 16 and 32 bytes (each side
  of each limit), seven blocks.  The program holds at most five blocks (list, two
  roles, two notes), so seven make every allocation possible; that one may fail
  is a choice besides.  Blocks are symmetric: only identity is compared.
- tenancy: two tenants with two rows each and two faults, on a shared database,
  on separate ones, and on a shared one with one key; one run of `verify.py`,
  started at any time.  Two rows are enough to be stopped between.
- login_limit: two threads, two users, four requests, a limit of two in two
  ticks.  Two ticks let a failure leave the window.  Three requests exceed the
  limit, and a fourth overlaps them.  login_race: one user.
- tasks: two threads, two names, two accounts and two tasks, two tokens, any
  number of restarts.  Two threads are enough for every interleaving the
  properties are about, each of which is between a statement and one other
  thread's; two tasks are enough for one to be deleted and an id to be given out
  after it; two tokens are both users', or one from before a start and one after.
- books: three pages, each of which may hold two books, one, none or something
  that cannot be parsed and may link to any page or none, so circles of each
  length occur; limits of 1, 2, 4 and none, of which 4 is more than there are
  pages; three attempts; at most five pages turned to (a circle without a limit
  is cut off there, and `Ends` is not about it).
- orders: all tables of up to three rows out of twenty-one, among them exact
  duplicates, ones that differ in white space only, ones with the same order_id
  and each kind of problem.  Three rows hold a bad first, a good second and a
  conflicting third.
- cost: three resources in the root, or spread over the root and two modules, or
  in a module in a module; every type a rule looks at with values that are null,
  0, below, at and above the limits; a price list and one that lacks an entry.

Deadlock is checked except where the program ends or idles: the runs of
`LoginLimit` and `TaskApi` (a server without requests, at the bounds) and books,
orders and cost (the program has ended).

The run of rates_sync has one job, so that runs do not overlap: `RowsKept` is false
of runs that do (see [Differences found](#differences-found)).

Fairness.  A property with "eventually" needs that somebody proceeds:

- csv_reader, `Terminates`: the reader takes its steps as long as there is one.
  It is a loop that runs on one thread; nothing is assumed of a read beyond that
  it returns.
- rates_sync, `KeptUpToDate`: the scheduler starts the job again and again
  (README.md of rates-sync, "Scheduling"), a run takes its steps (weak fairness),
  and the API does not fail every run there will ever be (strong fairness of
  `Answer`, since failures disable it again and again).  A workbook that a kill
  left unreadable is an exception the property names, and so is a day that is no
  longer in the look-back while there is no workbook.
- tenancy, `SetupEnds`: a service takes the steps of its setup.  Nobody has to
  start, to stop or to come back.  Weak fairness is enough even for the lock: it
  is taken once by each service in a run.
- books, `Ends`: the scraper takes its steps once `robots.txt` has been read.  It
  is one thread, and the request for a page has a timeout (`scrape_books.py:83`),
  which bounds each wait for bytes: with the assumption that an answer has an end,
  the request is answered or fails.  `robots.txt` is read without a timeout
  (`scrape_books.py:99`), so no fairness is assumed of that step: a run may stay
  there, and `Ends` is about the runs that do not.  Nothing is assumed of the
  answers: the attempts are bounded.
- The other runs state no liveness.

## The proofs

| Module | Theorems |
|---|---|
| `CsvReaderProofs` | types, `WindowInv`, that `CsvReader` implements `CsvWhole`, `MatchesGrammar` and `RoundTrip`, for every alphabet, buffer size, set of files and tables written; that a file of n bytes is read in at most 5n + 4 steps |
| `CsvGuardProofs` | types, `CleanRowsPass`, `RowsAddUp`, `ExitTellsTruth`, `OutputsArePrefixes`, `OutputsComplete`, for every set of files and rules; `CrossCheck`, for every plain file: one without a value that only one of the two languages reads |
| `RatesSyncProofs` | types, `NoGaps`, `NothingBeforeSince`, for any number of jobs, days and kills; that the next run asks for every published day that is missing and wanted, and that a run misses none of those up to its date; `RowsKept`, as long as runs do not overlap |
| `HdrParseProofs` | types, `Defined`, `Owned`, and that `HdrParse` implements `HdrBlock`, for every heap, limits and values |
| `TenancyProofs` | types, `SeededOnce`, `NoConflict`, `SeededWhole`, `OwnRowsOnly`, `ProbesMatch`, for any number of tenants, rows, databases, keys and faults; that `verify.py` takes only steps the services have anyway; that the lock is never left behind, and that a setup has so many steps |
| `FlaskProofs` | of `LoginLimit`: types, `RefusedRightly`, `QuietLimit`, `QuietRefusal`, for any number of threads and users and any limit; of `TaskApi`: types, `GoneForGood`, `OwnTasksOnly`, `AcksAreSaved`, `RegisteredOnce`, `QuietAnswers`, for any number of threads, names, rows and restarts |
| `BookScraperProofs` | types, `GivesUpRightly`, and that `BookScraper` implements `BookWalk`, for any sites, limits and number of attempts; that a run with a limit has so many steps |
| `ReportProofs` | of `OrderCleanup`: `NoRowLost`, `FirstGoodRowKept`, `SheetsAgree`, for any exports, texts and parsers; of `CostCheck`: `BillAddsUp` (the total is the bill but for a lone gateway), `NothingVanishes`, `AvoidableWithinTotal`, for any plans, prices and thresholds |

Each rests on the ASSUMEs about constants in the module it is about, on no
other assumption, and on an inductive invariant.  The assumptions say what type
a constant has: that files are sequences of bytes, that a table to be written is
one of fields of valid UTF-8 in which no row is without fields (`TablesAssumption`
of `CsvWriter`: a header gives every row of csv-guard at least one), that a
file's rows and the rules are built of the kinds of cell that `CsvRules` tells
apart, that exports have the required columns and the parsers of dates and
quantities return what their types say, that a plan's sizes and the prices are
numbers, none below zero, and that gp3 is not dearer than gp2 ("gp3 is cheaper
per GB", `costcheck.py:188`, without which what could be saved would be less
than nothing).  What each invariant adds to the
property, and why:

- `CsvReader`: `WindowInv` is inductive with `TypeOK`.  It says that the bytes of
  the buffer between `position` and `filled` are those of the file that end at
  the offset of the last read.  With it, the byte and the look-ahead that the
  state machine gets are those `CsvWhole` takes from the file, which is the step
  of the refinement; a read maps to a stutter.
  `MatchesGrammar` is an equality, of the records returned at the end of a
  well-formed file and the lines of `CsvGrammar` that are `Kept`: all but the
  ones that are `""` before a terminator.  `GrammarInv` says where in the grammar
  the reader is: within a line (`WithinAt`: the records are those of the lines
  that have ended, the fields collected those of the cells that have, the bytes
  collected the content of the piece of the cell that has been used, and the
  reader is in quotes when their number so far is odd) or past the last byte
  (`AllRead`).  The lemmas before it say what one byte more does to each set of
  positions of the grammar; one byte, or the two of a pair, is one step of
  `CsvWhole`, so the refinement gives the step of the reader.
  `RoundTrip` needs more: `TripInv` says where in a written file the reader is.
  `Starts` gives the offset at which each line, and in it each cell, begins.
  Between two rows (`Between`) the records returned are the rows before, those
  aside that do not come back; within one (`InRow`), the fields collected are
  the row's first ones and what is used of the next field is what
  `write_field` makes of the bytes collected of it, with the doubled quotes
  halved (`InPlain`, `Opening`, `InQuoted`, `Closed`: the four places a reader
  can be at in a field).  A field without quotes holds no byte that ends it, and
  a quoted one ends at the only quote that no quote follows.
- `CsvGuard`: `Phase` says what has been created, checked and counted at each
  step, which `RowsAddUp` needs at the moment the rows begin; and that the checks
  are resolved before a row is split, which `CleanRowsPass` needs.  On top of it
  `ExitInv` says that none has been counted as rejected exactly if every row read
  so far passes; the position that resolving finds is the least one of its name,
  which exists because numbers are well-founded.
  `OutInv` is about the outputs: what is on disk and in the buffer of each is,
  in order, one line for each entry (`Entries`: a row that passes, or a row and a
  rule it fails) of the rows read so far (`Written`), the counts are the numbers
  of those entries (`Counted`), and nothing is on disk before every rule's column
  has been found (`Creation`).  An entry's place among the lines is the number
  of entries not after it, so a line that is appended disturbs no other; a
  buffer that is flushed, whole or in part, moves lines and changes none.
  For `CrossCheck`, `CompareInv` says that `compare.py` has written the fields of
  the clean lines of the rows it has read, and `SameVerdict` that the two
  programs judge a row of a plain file alike: one lemma for each rule, over all
  values of a cell, with the calendars of the two date parsers compared by month.
  The two parsers of a date's parts are different definitions, which agree where
  no part is loose.
- `RatesSync`: `PublishedInOrder` (a published day has all earlier business days
  before it), `Dated` (a run's date is not after today's), `Tables` (the workbook
  and every loaded table have no gap and start no earlier than a new workbook
  could) and `Runs` (what a run asks for starts right after the table it has, or
  is possible for a new one).  A merged table has no gap because the answer begins
  where the table ends and is a range of published days.  Since every loaded table
  is covered, runs may overlap in any way: the second to save loses rows, and
  leaves no gap.
  The first day of a new workbook (`First`) only moves on (`FirstMoves`), so a day
  that is `Due`, that is, not before it for any job today, was due to every run
  that has started.  `Complete` adds that no table lacks a due day before its last
  row (`FromDue`), nor does a run before the first day it asks for.  So what the
  second save loses is after the last row, and what a failed first run did not get
  is due for as long as `--since` or the look-back reaches it: either way the next
  run asks for it (`MissingDaysAreAskedFor`), and a run that ends well has every
  such day up to its date (`RunsMissNothing`).  That is the part of `KeptUpToDate`
  that is about states.
  Runs that do not overlap (`OneAtATime`) also keep `UpToLastSave`: whatever can
  be loaded holds what was saved last, since a run that is killed in between
  leaves a file that cannot be loaded; so existing rows win over every save.
- `HdrParse`: `Shape` ties the pointers to the step the program is at (a list is
  there exactly when it has been allocated, and its slots up to `roles_seen` are
  filled); with it `Owned`, that the blocks in use are those the header points at
  and no two pointers share one, is inductive, and `Defined` follows step by step.
- `Tenancy`: `Locked` (a service in its setup holds its database's lock, so two
  in setup have different databases), `Place` (where a service is in SEED),
  `Inserting` (the rows inserted so far of the tenant being seeded are exactly
  those before `row`), `Behind` (every tenant passed has rows) and `Accounted`
  (a tenant that has rows and is not being seeded has all of them, or its seed is
  in `torn`).  `SeededWhole` follows from the last two, `NoConflict` from the
  first.
  `ProbesMatch` adds what `verify.py` may rely on as long as nothing has stopped
  part-way: the ids of a seeded database are those SEED gives them (`Numbered`,
  and `InTurn` while a service inserts), who has a connection has it to a
  database that runs (`Connected`), and the id and the tokens `verify.py` holds
  are of the tenants it took them from (`Probing`).  The composed specification
  implies the services' own, so what is proved of them holds beside `verify.py`.
  `LockNeverLeftBehind` is the converse of `Locked`: a lock that is held is held
  by a service in the setup of that database, through every kill and restart.
- `LoginLimit`: `Belongs` (the items of a list are failures of one user, the one
  that whoever refers to the list is about) and `Current` (what is in a list that
  a thread is about to count is within its window).  The second survives another
  thread's append because whoever holds that list took it from the dict after
  the copy was made, so the time it appends is later than the cutoff.  For a user
  whose requests do not overlap, `Quiet` adds that the list of the dict (between
  a copy and its store, the copy) holds exactly what counts, and that once the
  test is passed there is room in it for one more; other users' steps disturb
  none of it because of `Belongs`.
- `TaskApi`: in layers, each inductive over the ones before.  `Typed`; the ids
  (no row has an id that AUTOINCREMENT has not given out, nor one that is in
  `gone`); the owners (a token's id is the id of the account it was given to, so
  the rows an answer selects by id are that account's); the rows (what a thread
  has written and not yet answered for is in the tables, what is not open is
  saved, and each account is one registration's); and the quiet requests (while
  a request is `alone`, the counters are its own, and it looks for a transaction,
  finds one that an earlier failure has left or begins its own, and loses neither;
  so it is answered 500 only if it is malformed or its own statement is refused).
- `BookScraper`: `InStep` ties `page_number`, which is counted before a page is
  fetched, to the pages taken, and says the loop's test held when the fetch
  began, which is what makes `TakePage` a step of the abstract walk; `Heard` ties
  the answers to the attempt, for any number of attempts.

- `OrderCleanup`: `IInv` says what each step has left: after the first, the rows
  that repeat none (`Dropped`); within the loop, the good rows and the problems of
  the rows before `at` (`Normalised`); then the clean rows and the conflicts
  (`Sorted`).  That the row a duplicate repeats is itself there, and that an
  order's first good row is, are the least elements of sets of row numbers.
  `SheetsAgree` rests on lemmas about sums over finite sets: the library's sum,
  which takes some element away at each step, has one value whichever it takes
  (`SumIs`), and the sums of the parts of a set add up to its own (`SumOfParts`).
  The library's sorting cannot be expanded in a proof, so the sheets are defined
  by the number of lines that come before each; that the numbers are 1 to the
  number of lines is `Ranked`.
- `CostCheck`: `CostInv` says that the findings are those of the plan and the
  prices, by cost, and the totals theirs.  The rest is about what was found:
  `FoundIsOrdered` (by cost, then by check, then by resource there are no ties,
  so `Ranked` makes the report a bijection onto the findings, `ReportIs`),
  `ChecksAre` (what a check finds is of its own resources and rules, and no two
  findings of a check share one), `SumByCheck` (the total is the sum over the six
  checks), and for each check that its sum is what its resources cost
  (`DatabasesAddUp`, `VolumesAddUp`: sums along a bijection, and a common factor;
  `GatewaysButOne`: that of all gateways, unless there is one only).
  Both reports rest on the same lemmas about sums and ranks, which is why their
  proofs share a module.

Every invariant, refinement and action property that a passing run checks is a
theorem.  Only model-checked are the four liveness properties (`Terminates`,
`KeptUpToDate`, `SetupEnds`, `Ends`): fairness and ENABLED are beyond the prover.
What they rest on beside fairness is proved, as a number that each step lowers
and none raises, so that there cannot be infinitely many:

- `StepsRunOut`, of the reader: `Remaining` starts at 5n + 4 for a file of n bytes.
- `SetupRunsOut`, of a service: `Work` is what is left of its start, which only
  its own steps lower and only a new start raises; and `LockNeverLeftBehind` says
  that who waits for the lock waits for such a setup.
- `LimitedRunsRunOut`, of the scraper: `Left` goes down with every step of a run
  with a limit, or else there are fewer rows to write.  For a run without a limit
  whose links end, the argument would be an induction along the links.
- For `KeptUpToDate`, `MissingDaysAreAskedFor` and `RunsMissNothing`, above.

## Differences found

Two runs end in a violation, each of a statement the repository makes:

- rates_bases: a job with another base appends its rows (`sync_rates.py:40`),
  against README.md:8 of rates-sync.
- login_race: requests that overlap lose failures or pass the test together
  (`app.py:61`), so more than the limit are answered 401 within the window,
  against REVIEW.md:201.

Others were met on the way and are stated here without a run.

csv-guard-rust:

- A blank line is skipped by a recursive call, so the stack grows with a run of
  blank lines (`csv.rs:129`), against "memory is bounded by the largest single
  record" (`csv.rs:8`).  The call is in tail position, but the vectors of the
  activation are dropped after it returns.
- A line that holds only `""` is skipped like a blank one (`csv.rs:128`), against
  `csv.rs:126-127`; without its newline it is returned.
- The line number of a record counts the terminators outside quotes only
  (`csv.rs:31`, `csv.rs:86`), so after a quoted newline it is not the line an
  editor shows.
- A row in which a byte was replaced is not necessarily rejected: whether it is
  depends on the rules (README.md:82-83 of csv-guard-rust).
- An empty input exits with 0 before the outputs are created (`main.rs:102`), so
  what an earlier run wrote is still there.
- `--clean` may name the input, which is then truncated while it is read
  (`main.rs:129`).
- `compare.py` and csv-guard differ on rows of another width, on empty optional
  cells, on numbers with underscores, with digits beyond ASCII or beyond 64 bits,
  and on a column that is named twice; `compare.py` ends in an exception over an
  empty file, over bytes that are not UTF-8 and over a field of more than 131072
  characters (the limit of Python's `csv`, which the model does not reach).
- A date with white space around a part, or with digits beyond ASCII, such as
  `2026- 1-31`, is clean for `compare.py`, whose `int(part)` strips and reads any
  script (`compare.py:35`), and rejected by csv-guard (`rules.rs:105`).  Python
  also strips U+001C to U+001F, which Rust does not take for white space.  A date
  part with a sign (`+9`) is accepted by both.
- `CrossCheck` is about the files without any of these (`PlainFile`), against
  `cross_check.sh:2-4`, which expects identical output of its own samples.

rates-sync:

- A run that is killed after `sync_rates.py:67` leaves a file that every later
  run refuses to load.  Two runs that overlap lose the rows of the first, until
  the next run asks for them again.
- Without `--since` the first day is 90 days before the date of each run for as
  long as there is no workbook (`sync_rates.py:53`): the first days of a run that
  failed are never asked for once later runs have moved past them.
  `KeptUpToDate` is about the days that are still in the look-back.

c-memory-safety:

- `hdrparse` reads lines in pieces of 511 bytes (`hdrparse.c:109`) and takes each
  for a line, where its header (lines 6-9) speaks of lines.

multi-tenant-isolation:

- A service that is stopped between two inserts leaves a seed that is counted as
  done (`common.py:81`), against `common.py:41`.  On separate databases the ids
  then differ, and `verify.py` reports a read across tenants that was none.  In
  Postgres an insert that is stopped part-way uses up an id as well; in the model
  a stop falls between two inserts.
- A service whose database was restarted answers `/healthz` with ok and no query
  (`common.py:193`).

flask-api-review:

- Two registrations of one name that overlap are answered 201 and 500, not 201
  and 409 (`app.py:85`).
- `lastrowid`, `rowcount` and the transaction are the connection's, and threads
  share it: an answer may name another thread's row, and a request may be
  answered 500 because another one has begun or committed the transaction in
  between (`app.py:92-93`, `139-140`, `154-155`).
- An INSERT or DELETE that fails leaves its transaction open until some thread
  commits (`app.py:87`, `136`, `150`).
- The values of a request are not looked at before they reach SQLite: a title that
  is null or a list, or an id beyond 64 bits, is answered 500 though no other
  thread is about; so is a body that is not an object, or a password that is not a
  string.  `QuietAnswers` allows a 500 for these only.
- `SCHEMA` creates tables without IF NOT EXISTS, so a server with a database file
  starts once.
- With `TASK_API_SECRET` (`app.py:42`) tokens outlive the tables in memory, and
  their ids are given to whoever registers next.  `OwnTasksOnly` leaves these
  starts out (`key_kept`).
- `failures` keeps a list for every username that ever failed.

books-scraper:

- Links that form a circle are walked for ever unless `--max-pages` is given
  (`scrape_books.py:114`).
- `robots.txt` is read without a timeout (`scrape_books.py:99`), where each page
  has one (`scrape_books.py:83`): a server that accepts and never answers holds
  the run for ever.  `Ends` begins after that step.
- A kill or a full disk while the file is written leaves a part of the books and
  nothing of the last run's.

spreadsheet-cleanup:

- A row that differs from an earlier one in white space only is reported as a
  conflict with "different details", since exact duplicates are looked for
  before the texts are tidied (`cleaning.py:120`).
- Blank lines of the export are skipped when it is read, so the row numbers of
  the issues are not the lines of the file.

aws-cost-review:

- Resources of modules that are called by modules are left out of every total
  (`costcheck.py:42`); `BillAddsUp` is about plans without them.
- A NAT gateway that is the only one is in no finding, no total and not under
  `--fail-over` (`costcheck.py:57`), though it is "billed per hour whether or not
  traffic flows" (`costcheck.py:25`).  So the $340.22 that README.md:4-5 of
  aws-cost-review calls the fixed cost of the tuned plan is without its gateway.
  `BillAddsUp` prices every gateway in the bill and says that this is all of the
  priced kinds that the total leaves out.
- Storage of a type that has no price counts as free, while a class that has none
  is reported; volumes of another type than gp2 are neither priced nor reported,
  so the bill of the properties has none either.
- A price that is missing from the file ends in a traceback, whose exit code is
  that of a bill above `--fail-over`.

## What is not modelled

- The deliberately wrong copies (`vulnerable/`): what they lack is what the
  properties catch.
- Renderers and generators (`chart.py`, `preview.py`, `summary.py`,
  `make_sample.py`): pictures and sample data.
- Terraform, compose and Caddy files: configuration, of which `Tenancy` takes the
  databases and the keys.
- docker-port-hardening: one pass over five probes and a table of four verdicts;
  what it observes is Docker's and the kernel's.
- java-xxe: the behaviour is that of the JDK's parsers under their settings.
- The command lines (`parse_arguments`, `parse_spec`, argparse), number formats,
  wording, logging and the layout of reports everywhere.

## The plan

The order was: the reader and the split of csv-guard, rates-sync, hdrparse, the
tenants' services and the login limit first; then the task API, the scraper, the
clean-up, the cost review and `verify.py`; then the theorems, of which the last
was the grammar's.  What is left would be, in order of what it would add:

1. The end of a walk whose links end, by an induction along the links, and the
   liveness properties, if a prover comes to take fairness.
2. The tables of accounts after a start with a key that was kept, which
   `OwnTasksOnly` leaves out, once the code says whose the old ids are.
3. Runs of rates-sync that write to a temporary file, should the code come to:
   `KeptUpToDate` would then need no exception for an unreadable workbook.
