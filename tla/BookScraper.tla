----------------------------- MODULE BookScraper -----------------------------
(***************************************************************************)
(* books-scraper/scrape_books.py: scrape's walk over the pages of the      *)
(* catalogue, fetch with its attempts, and the file main writes at the     *)
(* end.  A site answers each request as it likes; what its pages hold does *)
(* not change while they are walked.                                       *)
(*                                                                         *)
(* A page is how many books it lists, the link to the next one, and        *)
(* whether parse_listing can read it at all (price, rating and link are    *)
(* where they should be); a book is the page and its place there.          *)
(***************************************************************************)
EXTENDS Integers, Sequences, FiniteSets

CONSTANTS
    First, Sites,           \* the first page; the sites, [page -> [books, next, sound]]
    Limits,                 \* the values of --max-pages
    MAX_ATTEMPTS,
    NoPage, NoLimit, Old,   \* no link; no --max-pages; the file as it was
    MaxPages                \* bound of the exploration: how many pages are turned to

ASSUME AttemptsAssumption == MAX_ATTEMPTS \in Nat \ {0}
ASSUME LimitsAssumption == Limits \subseteq Nat \cup {NoLimit}
ASSUME SitesAssumption ==
    \A s \in Sites :
        /\ First \in DOMAIN s /\ NoPage \notin DOMAIN s
        /\ \A p \in DOMAIN s : s[p].books \in Nat /\ s[p].next \in (DOMAIN s) \cup {NoPage}

VARIABLES
    site, limit,
    pc,
    url, page_number, attempt,
    books,
    file,           \* Old, or the books in it
    code,           \* the exit code, or None
    taken,          \* how many pages were read to the end (history)
    answers         \* what the requests for the page were answered (history)

walk == <<url, page_number, books, taken>>
vars == <<site, limit, pc, walk, attempt, file, code, answers>>

None == -1
Ended == {"done", "failed", "crashed", "torn", "killed"}

Init ==
    /\ site \in Sites /\ limit \in Limits
    /\ pc = "robots" /\ code = None
    /\ url = First /\ page_number = 0 /\ books = << >>
    /\ attempt = 0 /\ answers = << >> /\ taken = 0
    /\ file = Old

Goes(from, to) == pc = from /\ pc' = to
Listing(p) == [i \in 1..site[p].books |-> <<p, i>>]

\* A ScrapeError: main answers 1 without writing anything.
Fails(from) ==
    /\ Goes(from, "failed") /\ code' = 1
    /\ UNCHANGED <<site, limit, walk, attempt, file>>
\* Any other exception ends the process with a traceback.
Crashes(from) ==
    /\ Goes(from, "crashed") /\ code' = 1
    /\ UNCHANGED <<site, limit, walk, attempt, file>>

----------------------------------------------------------------------------
\* robots.txt allows the walk, forbids it, or cannot be read.
Allowed ==
    /\ Goes("robots", "testing")
    /\ UNCHANGED <<site, limit, walk, attempt, file, code, answers>>
Disallowed == Fails("robots") /\ UNCHANGED answers
RobotsUnreadable == Crashes("robots") /\ UNCHANGED answers

\* while url and (max_pages is None or page_number < max_pages)
More == url # NoPage /\ (limit # NoLimit => page_number < limit)

\* A plausible slip: pages are not counted.
TurnToPageUncounted ==
    /\ More /\ Goes("testing", "fetching") /\ taken < MaxPages
    /\ attempt' = 1 /\ answers' = << >>
    /\ UNCHANGED <<site, limit, walk, file, code>>
\* A plausible slip: attempts are counted over the whole walk.
TurnToPageStillTrying ==
    /\ More /\ Goes("testing", "fetching") /\ taken < MaxPages
    /\ page_number' = page_number + 1
    /\ attempt' = (IF attempt = 0 THEN 1 ELSE attempt) /\ answers' = << >>
    /\ UNCHANGED <<site, limit, url, books, taken, file, code>>
TurnToPage ==
    /\ More /\ Goes("testing", "fetching") /\ taken < MaxPages
    /\ page_number' = page_number + 1
    /\ attempt' = 1 /\ answers' = << >>
    /\ UNCHANGED <<site, limit, url, books, taken, file, code>>

\* session.get: a page
Answered ==
    /\ Goes("fetching", "parsing")
    /\ answers' = Append(answers, "200")
    /\ UNCHANGED <<site, limit, walk, attempt, file, code>>

\* ... a 4xx other than 429
Refused == Fails("fetching") /\ answers' = Append(answers, "4xx")

\* ... or a network error, a 429, a 5xx or anything else: try again
TryAgain ==
    /\ Goes("fetching", "backoff") /\ attempt < MAX_ATTEMPTS
    /\ answers' = Append(answers, "busy")
    /\ UNCHANGED <<site, limit, walk, attempt, file, code>>
GiveUp == attempt = MAX_ATTEMPTS /\ Fails("fetching") /\ answers' = Append(answers, "busy")

Backoff ==
    /\ Goes("backoff", "fetching") /\ attempt' = attempt + 1
    /\ UNCHANGED <<site, limit, walk, file, code, answers>>

\* parse_listing and what scrape does with the page
PageUnreadable == Crashes("parsing") /\ ~site[url].sound /\ UNCHANGED answers
PageEmpty == Fails("parsing") /\ site[url].sound /\ site[url].books = 0 /\ UNCHANGED answers
\* A plausible slip: a page without books is taken for the last.
TakeEmptyForLast ==
    /\ pc = "parsing" /\ site[url].sound
    /\ pc' = "testing"
    /\ books' = books \o Listing(url)
    /\ url' = (IF site[url].books = 0 THEN NoPage ELSE site[url].next) /\ taken' = taken + 1
    /\ UNCHANGED <<site, limit, page_number, attempt, file, code, answers>>
TakePage ==
    /\ pc = "parsing" /\ site[url].sound /\ site[url].books > 0
    /\ pc' = IF site[url].next = NoPage THEN "testing" ELSE "pausing"
    /\ books' = books \o Listing(url)
    /\ url' = site[url].next /\ taken' = taken + 1
    /\ UNCHANGED <<site, limit, page_number, attempt, file, code, answers>>

Pause ==
    /\ Goes("pausing", "testing")
    /\ UNCHANGED <<site, limit, walk, attempt, file, code, answers>>

\* write_csv: opening empties the file, or fails ...
OpenFile ==
    /\ ~More /\ Goes("testing", "writing") /\ file' = << >>
    /\ UNCHANGED <<site, limit, walk, attempt, code, answers>>
OpenFails == ~More /\ Crashes("testing") /\ UNCHANGED answers

\* ... the rows get there through a buffer ...
WriteRows ==
    /\ pc = "writing" /\ Len(file) < Len(books)
    /\ \E n \in (Len(file) + 1)..Len(books) : file' = SubSeq(books, 1, n)
    /\ UNCHANGED <<site, limit, pc, walk, attempt, code, answers>>
WriteFails ==
    /\ Goes("writing", "torn") /\ code' = 1
    /\ UNCHANGED <<site, limit, walk, attempt, file, answers>>

\* ... and the rest when it is closed.
CloseFile ==
    /\ Goes("writing", "done") /\ code' = 0 /\ file' = books
    /\ UNCHANGED <<site, limit, walk, attempt, answers>>

Kill ==
    /\ pc \notin Ended /\ pc' = IF pc = "writing" THEN "torn" ELSE "killed"
    /\ UNCHANGED <<site, limit, walk, attempt, file, code, answers>>

Step ==
    \/ Allowed \/ Disallowed \/ RobotsUnreadable
    \/ TurnToPage \/ Answered \/ Refused \/ TryAgain \/ GiveUp \/ Backoff
    \/ PageUnreadable \/ PageEmpty \/ TakePage \/ Pause
    \/ OpenFile \/ OpenFails \/ WriteRows \/ WriteFails \/ CloseFile

Next == Step \/ Kill

Spec == Init /\ [][Next]_vars

\* A page is waited for no longer than session.get's timeout allows, but robots.txt
\* is read without one (scrape_books.py:83, 99): nothing says that it is answered.
FairSpec == Spec /\ WF_vars(pc # "robots" /\ Step)
----------------------------------------------------------------------------
TypeOK ==
    /\ site \in Sites /\ limit \in Limits
    /\ pc \in Ended \cup {"robots", "testing", "fetching", "backoff", "parsing", "pausing", "writing"}
    /\ url \in (DOMAIN site) \cup {NoPage}
    /\ page_number \in Nat /\ taken \in Nat /\ attempt \in 0..MAX_ATTEMPTS
    /\ books \in Seq((DOMAIN site) \X Nat)
    /\ file = Old \/ file \in Seq((DOMAIN site) \X Nat)
    /\ code \in {None, 0, 1}
    /\ answers \in Seq({"200", "4xx", "busy"})

\* What the steps are to the walk of BookWalk
Outcome ==
    CASE pc \in {"failed", "crashed", "killed"} -> "given up"
      [] pc = "writing" -> "writing"
      [] pc = "done" -> "written"
      [] pc = "torn" -> "broken off"
      [] OTHER -> "walking"

Walk == INSTANCE BookWalk WITH count <- taken, outcome <- Outcome

\* The walk reads each page its links lead to once, in order, up to the limit,
\* whatever has to be asked for again; it writes all of that or, if anything
\* goes wrong on the way, leaves the file as it was (scrape_books.py:112-124,
\* 155-162; README.md:9 of books-scraper).
WalkSpec == Walk!Spec

\* A page is given up for three answers that may pass, or for one that will not,
\* and for no answers to other pages (scrape_books.py:81-94).
GivesUpRightly ==
    LET tried == Len(answers)
    IN  pc = "failed" /\ tried > 0 =>
            \/ answers[tried] = "4xx" \/ answers[tried] = "200"
            \/ tried = MAX_ATTEMPTS /\ \A i \in 1..tried : answers[i] = "busy"

\* The page that n links lead to
Hop[n \in Nat] ==
    IF n = 0 THEN First ELSE IF Hop[n - 1] = NoPage THEN NoPage ELSE site[Hop[n - 1]].next

\* Once robots.txt has been read, a run ends if it has a limit or if the links end
\* (scrape_books.py:114).
Ends ==
    limit # NoLimit \/ Hop[Cardinality(DOMAIN site)] = NoPage =>
        (pc # "robots" ~> pc \in Ended)
=============================================================================
