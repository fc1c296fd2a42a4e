--------------------------- MODULE BookScraperProofs ---------------------------
(***************************************************************************)
(* BookScraper implements BookWalk, and gives a page up for the answers to *)
(* that page alone, for every site, limit and number of attempts.          *)
(***************************************************************************)
EXTENDS BookScraper, TLAPS

Asking == {"fetching", "backoff", "parsing"}

\* While a page is asked for, page_number is ahead of what has been read, and
\* the test of the loop still holds of the page before.
InStep ==
    /\ pc \notin Ended /\ pc \notin Asking => page_number = taken
    /\ pc \in Asking => /\ page_number = taken + 1 /\ url # NoPage
                        /\ limit # NoLimit => taken < limit
    /\ pc = "writing" => file \in Seq((DOMAIN site) \X Nat)

\* What the answers to a page are while it is asked for
AllBusy == \A i \in 1..Len(answers) : answers[i] = "busy"
Heard ==
    /\ pc = "fetching" => attempt = Len(answers) + 1 /\ AllBusy
    /\ pc = "backoff" => attempt = Len(answers) /\ attempt < MAX_ATTEMPTS /\ AllBusy
    /\ pc = "parsing" => Len(answers) > 0 /\ answers[Len(answers)] = "200"
    /\ pc = "robots" => answers = << >>

IInv == TypeOK /\ InStep /\ Heard /\ GivesUpRightly

----------------------------------------------------------------------------
\* The books of a page are a sequence of books of the site.
LEMMA ListingType ==
    ASSUME TypeOK, url # NoPage
    PROVE  /\ url \in DOMAIN site /\ site[url].books \in Nat
           /\ site[url].next \in (DOMAIN site) \cup {NoPage}
           /\ Listing(url) \in Seq((DOMAIN site) \X Nat)
<1>1. url \in DOMAIN site /\ site[url].books \in Nat /\ site[url].next \in (DOMAIN site) \cup {NoPage}
    BY SitesAssumption DEF TypeOK
<1>2. Listing(url) \in [1..site[url].books -> (DOMAIN site) \X Nat]
    BY <1>1 DEF Listing
<1>3. QED
    BY <1>1, <1>2

\* One more answer
LEMMA OneMoreAnswer ==
    ASSUME NEW s \in Seq({"200", "4xx", "busy"}), NEW a \in {"200", "4xx", "busy"}
    PROVE  /\ Append(s, a) \in Seq({"200", "4xx", "busy"})
           /\ Len(s) \in Nat /\ Len(Append(s, a)) = Len(s) + 1
           /\ Append(s, a)[Len(s) + 1] = a
           /\ \A i \in 1..Len(s) : Append(s, a)[i] = s[i]
    OBVIOUS

LEMMA InitInv == Init => IInv
<1> SUFFICES ASSUME Init PROVE IInv
    OBVIOUS
<1>1. TypeOK
    BY SitesAssumption, AttemptsAssumption DEF Init, TypeOK, None, Ended
<1>2. InStep
    BY DEF Init, InStep, Asking
<1>3. Heard /\ GivesUpRightly
    BY DEF Init, Heard, GivesUpRightly
<1>4. QED
    BY <1>1, <1>2, <1>3 DEF IInv

\* The steps that ask for nothing and take nothing
Elsewhere ==
    \/ Allowed \/ Disallowed \/ RobotsUnreadable \/ PageUnreadable \/ PageEmpty \/ Pause
    \/ OpenFile \/ OpenFails \/ WriteRows \/ WriteFails \/ CloseFile \/ Kill

LEMMA ElsewhereType == ASSUME IInv, Elsewhere PROVE TypeOK'
<1>1. CASE WriteRows
    <2>1. books \in Seq((DOMAIN site) \X Nat) /\ Len(file) \in Nat
        BY <1>1 DEF WriteRows, IInv, TypeOK, InStep
    <2>2. file' \in Seq((DOMAIN site) \X Nat)
        BY <1>1, <2>1 DEF WriteRows
    <2>3. QED
        BY <1>1, <2>2 DEF WriteRows, IInv, TypeOK, walk
<1>2. CASE OpenFile
    BY <1>2 DEF OpenFile, Goes, IInv, TypeOK, walk
<1>3. CASE CloseFile
    BY <1>3 DEF CloseFile, Goes, IInv, TypeOK, walk, Ended
<1>4. CASE Allowed \/ Pause \/ Kill \/ WriteFails
    BY <1>4 DEF Allowed, Pause, Kill, WriteFails, Goes, IInv, TypeOK, walk, Ended
<1>5. CASE Disallowed \/ RobotsUnreadable \/ PageUnreadable \/ PageEmpty \/ OpenFails
    BY <1>5 DEF Disallowed, RobotsUnreadable, PageUnreadable, PageEmpty, OpenFails, Fails, Crashes,
                Goes, IInv, TypeOK, walk, Ended
<1>6. QED
    BY <1>1, <1>2, <1>3, <1>4, <1>5 DEF Elsewhere

LEMMA ElsewhereInv == ASSUME IInv, Elsewhere PROVE IInv'
<1>1. TypeOK'
    BY ElsewhereType
<1>2. answers' = answers /\ taken' = taken /\ page_number' = page_number /\ url' = url
      /\ limit' = limit /\ site' = site
    BY DEF Elsewhere, Allowed, Pause, Kill, WriteFails, Disallowed, RobotsUnreadable, PageUnreadable,
           PageEmpty, OpenFails, WriteRows, OpenFile, CloseFile, Fails, Crashes, Goes, walk
<1>3. pc' \in Ended \/ (pc \in {"robots", "pausing"} /\ pc' = "testing") \/ pc' = "writing"
    BY DEF Elsewhere, Allowed, Pause, Kill, WriteFails, Disallowed, RobotsUnreadable, PageUnreadable,
           PageEmpty, OpenFails, WriteRows, OpenFile, CloseFile, Fails, Crashes, Goes, Ended
<1>4. pc' = "writing" => pc \in {"testing", "writing"} /\ file' \in Seq((DOMAIN site) \X Nat)
    <2>1. CASE OpenFile
        BY <2>1 DEF OpenFile, Goes
    <2>2. CASE WriteRows
        <3>1. books \in Seq((DOMAIN site) \X Nat) /\ Len(file) \in Nat
            BY <2>2 DEF WriteRows, IInv, TypeOK, InStep
        <3>2. QED
            BY <2>2, <3>1 DEF WriteRows
    <2>3. CASE ~OpenFile /\ ~WriteRows
        BY <2>3 DEF Elsewhere, Allowed, Pause, Kill, WriteFails, Disallowed, RobotsUnreadable,
                    PageUnreadable, PageEmpty, OpenFails, CloseFile, Fails, Crashes, Goes
    <2>4. QED
        BY <2>1, <2>2, <2>3
<1>5. InStep'
    BY <1>2, <1>3, <1>4 DEF IInv, InStep, Ended, Asking
<1>6. Heard'
    BY <1>2, <1>3 DEF Heard, Ended, Asking
<1>7. GivesUpRightly'
    <2>1. pc' = "failed" => Disallowed \/ PageEmpty
        BY DEF Elsewhere, Allowed, Pause, Kill, WriteFails, Disallowed, RobotsUnreadable, PageUnreadable,
               PageEmpty, OpenFails, WriteRows, OpenFile, CloseFile, Fails, Crashes, Goes, IInv, TypeOK, Ended
    <2>2. Disallowed => answers = << >>
        BY DEF Disallowed, Fails, Goes, IInv, Heard
    <2>3. PageEmpty => answers[Len(answers)] = "200"
        BY DEF PageEmpty, Fails, Goes, IInv, Heard
    <2>4. QED
        BY <1>2, <2>1, <2>2, <2>3 DEF GivesUpRightly
<1>8. QED
    BY <1>1, <1>5, <1>6, <1>7 DEF IInv

\* The steps of fetch
LEMMA FetchInv ==
    ASSUME IInv, TurnToPage \/ Answered \/ Refused \/ TryAgain \/ GiveUp \/ Backoff
    PROVE  IInv'
<1>1. CASE TurnToPage
    <2>1. TypeOK'
        BY <1>1, AttemptsAssumption DEF TurnToPage, Goes, IInv, TypeOK, Ended
    <2>2. InStep'
        BY <1>1 DEF TurnToPage, Goes, More, IInv, InStep, Ended, Asking
    <2>3. Heard' /\ GivesUpRightly'
        BY <1>1 DEF TurnToPage, Goes, Heard, AllBusy, GivesUpRightly
    <2>4. QED
        BY <2>1, <2>2, <2>3 DEF IInv
<1>2. CASE Backoff
    <2>1. TypeOK'
        BY <1>2, AttemptsAssumption DEF Backoff, Goes, IInv, TypeOK, walk, Heard
    <2>2. InStep'
        BY <1>2 DEF Backoff, Goes, IInv, InStep, Asking, walk
    <2>3. Heard' /\ GivesUpRightly'
        BY <1>2 DEF Backoff, Goes, IInv, Heard, AllBusy, GivesUpRightly
    <2>4. QED
        BY <2>1, <2>2, <2>3 DEF IInv
<1>3. CASE Answered
    <2>1. TypeOK'
        BY <1>3 DEF Answered, Goes, IInv, TypeOK, walk
    <2>2. InStep'
        BY <1>3 DEF Answered, Goes, IInv, InStep, Asking, walk
    <2>3. answers \in Seq({"200", "4xx", "busy"}) /\ answers' = Append(answers, "200") /\ pc' = "parsing"
        BY <1>3 DEF Answered, Goes, IInv, TypeOK
    <2>4. Heard' /\ GivesUpRightly'
        BY <2>3, OneMoreAnswer DEF Heard, GivesUpRightly
    <2>5. QED
        BY <2>1, <2>2, <2>4 DEF IInv
<1>4. CASE Refused
    <2>1. TypeOK'
        BY <1>4 DEF Refused, Fails, Goes, IInv, TypeOK, walk, Ended
    <2>2. InStep'
        BY <1>4 DEF Refused, Fails, Goes, InStep, Asking, Ended
    <2>3. answers \in Seq({"200", "4xx", "busy"}) /\ answers' = Append(answers, "4xx") /\ pc' = "failed"
        BY <1>4 DEF Refused, Fails, Goes, IInv, TypeOK
    <2>4. Heard' /\ GivesUpRightly'
        BY <2>3, OneMoreAnswer DEF Heard, GivesUpRightly
    <2>5. QED
        BY <2>1, <2>2, <2>4 DEF IInv
<1>5. CASE TryAgain
    <2>1. TypeOK'
        BY <1>5 DEF TryAgain, Goes, IInv, TypeOK, walk
    <2>2. InStep'
        BY <1>5 DEF TryAgain, Goes, IInv, InStep, Asking, walk
    <2>3. answers \in Seq({"200", "4xx", "busy"}) /\ answers' = Append(answers, "busy") /\ pc' = "backoff"
          /\ attempt' = attempt /\ attempt < MAX_ATTEMPTS /\ attempt = Len(answers) + 1 /\ AllBusy
        BY <1>5 DEF TryAgain, Goes, IInv, TypeOK, Heard
    <2>4. Heard' /\ GivesUpRightly'
        BY <2>3, OneMoreAnswer DEF Heard, AllBusy, GivesUpRightly
    <2>5. QED
        BY <2>1, <2>2, <2>4 DEF IInv
<1>6. CASE GiveUp
    <2>1. TypeOK'
        BY <1>6 DEF GiveUp, Fails, Goes, IInv, TypeOK, walk, Ended
    <2>2. InStep'
        BY <1>6 DEF GiveUp, Fails, Goes, InStep, Asking, Ended
    <2>3. answers \in Seq({"200", "4xx", "busy"}) /\ answers' = Append(answers, "busy") /\ pc' = "failed"
          /\ attempt = MAX_ATTEMPTS /\ attempt = Len(answers) + 1 /\ AllBusy
        BY <1>6 DEF GiveUp, Fails, Goes, IInv, TypeOK, Heard
    <2>4. Heard' /\ GivesUpRightly'
        BY <2>3, OneMoreAnswer DEF Heard, AllBusy, GivesUpRightly
    <2>5. QED
        BY <2>1, <2>2, <2>4 DEF IInv
<1>7. QED
    BY <1>1, <1>2, <1>3, <1>4, <1>5, <1>6

\* A page that is taken is in the books, and the count catches up.
LEMMA TakeInv == ASSUME IInv, TakePage PROVE IInv'
<1>1. url # NoPage /\ page_number = taken + 1 /\ TypeOK
    BY DEF TakePage, IInv, InStep, Asking
<1>2. books' \in Seq((DOMAIN site) \X Nat) /\ url' \in (DOMAIN site) \cup {NoPage}
    BY <1>1, ListingType DEF TakePage, TypeOK
<1>3. TypeOK'
    BY <1>1, <1>2 DEF TakePage, TypeOK
<1>4. InStep'
    BY <1>1 DEF TakePage, InStep, Asking, TypeOK
<1>5. Heard' /\ GivesUpRightly'
    BY DEF TakePage, Heard, GivesUpRightly
<1>6. QED
    BY <1>3, <1>4, <1>5 DEF IInv

LEMMA NextInv == IInv /\ [Next]_vars => IInv'
<1> SUFFICES ASSUME IInv, [Next]_vars PROVE IInv'
    OBVIOUS
<1>1. CASE Next
    BY <1>1, ElsewhereInv, FetchInv, TakeInv DEF Next, Step, Elsewhere
<1>2. CASE UNCHANGED vars
    BY <1>2 DEF vars, walk, IInv, TypeOK, InStep, Heard, AllBusy, GivesUpRightly
<1>3. QED
    BY <1>1, <1>2

LEMMA Invariance == Spec => []IInv
    BY InitInv, NextInv, PTL DEF Spec

----------------------------------------------------------------------------
\* Every variable keeps its type (scrape, fetch, write_csv and main).
THEOREM ScraperTypeCorrect == Spec => []TypeOK
<1>1. IInv => TypeOK
    BY DEF IInv
<1>2. QED
    BY <1>1, Invariance, PTL

\* A page is given up for as many answers as fetch has attempts, all to this
\* page, or for one that will not change (scrape_books.py:81-94).
THEOREM GivenUpRightly == Spec => []GivesUpRightly
<1>1. IInv => GivesUpRightly
    BY DEF IInv
<1>2. QED
    BY <1>1, Invariance, PTL

----------------------------------------------------------------------------
\* Each step of the scraper is a step of the walk, or none of its business.
LEMMA WalkInit == Init => Walk!Init
    BY DEF Init, Walk!Init, Outcome

LEMMA WalkStep == IInv /\ IInv' /\ [Next]_vars => [Walk!Next]_(Walk!vars)
<1> SUFFICES ASSUME IInv, IInv', [Next]_vars PROVE [Walk!Next]_(Walk!vars)
    OBVIOUS
<1> USE DEF Walk!vars
<1>1. CASE Allowed \/ TurnToPage \/ Answered \/ TryAgain \/ Backoff \/ Pause
    BY <1>1 DEF Allowed, TurnToPage, Answered, TryAgain, Backoff, Pause, Goes, walk, Outcome
<1>2. CASE Disallowed \/ RobotsUnreadable \/ Refused \/ GiveUp \/ PageUnreadable \/ PageEmpty \/ OpenFails
    <2>1. Outcome = "walking" /\ Outcome' = "given up" /\ UNCHANGED <<site, limit, walk, file>>
        BY <1>2 DEF Disallowed, RobotsUnreadable, Refused, GiveUp, PageUnreadable, PageEmpty, OpenFails,
                    Fails, Crashes, Goes, Outcome
    <2>2. QED
        BY <2>1 DEF Walk!Next, Walk!GiveUp, walk
<1>3. CASE TakePage
    <2>1. url # NoPage /\ (limit # NoLimit => taken < limit)
        BY <1>3 DEF TakePage, IInv, InStep, Asking
    <2>2. Outcome = "walking" /\ Outcome' = "walking"
        BY <1>3 DEF TakePage, Outcome
    <2>3. Walk!ReadPage
        BY <1>3, <2>1, <2>2 DEF TakePage, Walk!ReadPage, Walk!More, Walk!Listing, Listing
    <2>4. QED
        BY <2>3 DEF Walk!Next
<1>4. CASE OpenFile
    <2>1. page_number = taken
        BY <1>4 DEF OpenFile, Goes, IInv, InStep, Ended, Asking
    <2>2. Walk!StartToWrite
        BY <1>4, <2>1 DEF OpenFile, Goes, More, walk, Outcome, Walk!StartToWrite, Walk!More
    <2>3. QED
        BY <2>2 DEF Walk!Next
<1>5. CASE WriteRows
    <2>1. Len(file) \in Nat /\ Len(books) \in Nat
        BY <1>5 DEF WriteRows, IInv, TypeOK, InStep
    <2>2. Walk!Write
        BY <1>5, <2>1 DEF WriteRows, walk, Outcome, Walk!Write
    <2>3. QED
        BY <2>2 DEF Walk!Next
<1>6. CASE WriteFails
    BY <1>6 DEF WriteFails, Goes, walk, Outcome, Walk!Next, Walk!Break
<1>7. CASE CloseFile
    BY <1>7 DEF CloseFile, Goes, walk, Outcome, Walk!Next, Walk!Finish
<1>8. CASE Kill
    <2>1. CASE pc = "writing"
        BY <1>8, <2>1 DEF Kill, walk, Outcome, Walk!Next, Walk!Break
    <2>2. CASE pc # "writing"
        BY <1>8, <2>2 DEF Kill, walk, Outcome, Ended, Walk!Next, Walk!GiveUp
    <2>3. QED
        BY <2>1, <2>2
<1>9. CASE UNCHANGED vars
    BY <1>9 DEF vars, walk, Outcome
<1>10. QED
    BY <1>1, <1>2, <1>3, <1>4, <1>5, <1>6, <1>7, <1>8, <1>9 DEF Next, Step

\* The scraper walks as BookWalk promises: what was read is what the links of the
\* pages lead to, in order and up to the limit, and the file is left alone or
\* gets all of it, unless writing itself is broken off (scrape_books.py:112-131).
THEOREM ScraperWalks == Spec => WalkSpec
<1>1. Spec => Walk!Init /\ [][Walk!Next]_(Walk!vars)
    BY WalkInit, WalkStep, Invariance, PTL DEF Spec
<1>2. QED
    BY <1>1 DEF WalkSpec, Walk!Spec

----------------------------------------------------------------------------
(* A run with a limit has so many steps.                                   *)

\* What a run still does, a limit given: so much for each page it may still turn
\* to, and what the page it is at may take
PerPage == 2 * MAX_ATTEMPTS + 2
Phase ==
    CASE pc = "robots" -> 3
      [] pc = "testing" -> 2
      [] pc = "fetching" -> 5 + 2 * (MAX_ATTEMPTS - attempt)
      [] pc = "backoff" -> 4 + 2 * (MAX_ATTEMPTS - attempt)
      [] pc = "parsing" -> 4
      [] pc = "pausing" -> 3
      [] pc = "writing" -> 1
      [] OTHER -> 0
Left == (limit - page_number) * PerPage + Phase

\* The rows get to the file, fewer and fewer of them left out.
RowsFollow ==
    /\ WriteRows /\ Left' = Left /\ books' = books
    /\ Len(file) < Len(file') /\ Len(file') <= Len(books)

\* No more pages are turned to than the limit says.
WithinLimit == limit # NoLimit => page_number <= limit

\* The bound of the loop, in numbers
LEMMA LimitType ==
    ASSUME IInv, WithinLimit, limit # NoLimit
    PROVE  /\ limit \in Nat /\ page_number \in Nat /\ limit - page_number \in Nat
           /\ MAX_ATTEMPTS \in Nat /\ MAX_ATTEMPTS # 0 /\ attempt \in 0..MAX_ATTEMPTS
           /\ PerPage = 2 * MAX_ATTEMPTS + 2 /\ PerPage \in Nat
           /\ (limit - page_number) * PerPage \in Nat
<1>1. limit \in Nat /\ page_number \in Nat /\ attempt \in 0..MAX_ATTEMPTS
    BY LimitsAssumption DEF IInv, TypeOK
<1>2. MAX_ATTEMPTS \in Nat /\ MAX_ATTEMPTS # 0 /\ PerPage = 2 * MAX_ATTEMPTS + 2 /\ PerPage \in Nat
    BY AttemptsAssumption DEF PerPage
<1>3. limit - page_number \in Nat
    BY <1>1 DEF WithinLimit
<1> QED
    BY <1>1, <1>2, <1>3

\* A page is turned to only below the limit.
LEMMA StepWithinLimit ==
    ASSUME IInv, WithinLimit, [Next]_vars
    PROVE  WithinLimit'
<1>1. limit' = limit
    BY DEF Next, Step, Allowed, Disallowed, RobotsUnreadable, TurnToPage, Answered, Refused, TryAgain,
           GiveUp, Backoff, PageUnreadable, PageEmpty, TakePage, Pause, OpenFile, OpenFails, WriteRows,
           WriteFails, CloseFile, Kill, Fails, Crashes, vars
<1>2. CASE TurnToPage
    <2>1. page_number' = page_number + 1 /\ (limit # NoLimit => page_number < limit)
        BY <1>2 DEF TurnToPage, More
    <2>2. page_number \in Nat /\ limit \in Nat \cup {NoLimit}
        BY LimitsAssumption DEF IInv, TypeOK
    <2> QED
        BY <1>1, <2>1, <2>2 DEF WithinLimit
<1>3. CASE ~TurnToPage
    <2>1. page_number' = page_number
        BY <1>3 DEF Next, Step, Allowed, Disallowed, RobotsUnreadable, Answered, Refused, TryAgain,
               GiveUp, Backoff, PageUnreadable, PageEmpty, TakePage, Pause, OpenFile, OpenFails,
               WriteRows, WriteFails, CloseFile, Kill, Fails, Crashes, vars, walk
    <2> QED
        BY <1>1, <2>1 DEF WithinLimit
<1> QED
    BY <1>2, <1>3

\* What is left is a natural number.
LEMMA LeftType ==
    ASSUME IInv, WithinLimit, limit # NoLimit
    PROVE  Left \in Nat /\ Phase \in Nat
<1>1. Phase \in Nat
    BY LimitType DEF Phase
<1> QED
    BY <1>1, LimitType DEF Left

\* Within a page, the phase is what goes down.
LEMMA PhaseLowers ==
    ASSUME IInv, WithinLimit, limit # NoLimit, Next, ~TurnToPage, ~WriteRows
    PROVE  Phase' \in Int /\ Phase' < Phase
<1>1. MAX_ATTEMPTS \in Nat /\ MAX_ATTEMPTS # 0 /\ attempt \in 0..MAX_ATTEMPTS
    BY LimitType
<1>2. CASE pc' \in Ended
    <2>1. pc \notin Ended
        BY <1>2 DEF Next, Step, Allowed, Disallowed, RobotsUnreadable, Answered, Refused, TryAgain,
               GiveUp, Backoff, PageUnreadable, PageEmpty, TakePage, Pause, OpenFile, OpenFails,
               WriteFails, CloseFile, Kill, Fails, Crashes, Goes, Ended
    <2>2. Phase' = 0
        BY <1>2 DEF Phase, Ended
    <2>3. Phase \in Nat /\ Phase > 0
        BY <1>1, <2>1 DEF Phase, Ended, IInv, TypeOK
    <2> QED
        BY <2>2, <2>3
<1>3. CASE Allowed \/ Pause \/ OpenFile \/ TakePage
    <2>1. \/ pc \in {"robots", "pausing"} /\ pc' = "testing"
          \/ pc = "testing" /\ pc' = "writing"
          \/ pc = "parsing" /\ pc' \in {"testing", "pausing"}
        BY <1>3 DEF Allowed, Pause, OpenFile, TakePage, Goes
    <2> QED
        BY <2>1 DEF Phase
<1>4. CASE Answered \/ TryAgain
    <2>1. pc = "fetching" /\ pc' \in {"parsing", "backoff"} /\ attempt' = attempt
        BY <1>4 DEF Answered, TryAgain, Goes
    <2> QED
        BY <1>1, <2>1 DEF Phase
<1>5. CASE Backoff
    <2>1. pc = "backoff" /\ pc' = "fetching" /\ attempt' = attempt + 1
        BY <1>5 DEF Backoff, Goes
    <2> QED
        BY <1>1, <2>1 DEF Phase
<1> QED
    BY <1>2, <1>3, <1>4, <1>5 DEF Next, Step, Disallowed, RobotsUnreadable, Refused, GiveUp,
       PageUnreadable, PageEmpty, OpenFails, WriteFails, CloseFile, Kill, Fails, Crashes, Goes, Ended

\* Every step of a run with a limit leaves less to do, or fewer rows to write.
LEMMA StepLowers ==
    ASSUME IInv, WithinLimit, limit # NoLimit, Next
    PROVE  Left' < Left \/ RowsFollow
<1>1. /\ limit \in Nat /\ page_number \in Nat /\ limit - page_number \in Nat
      /\ MAX_ATTEMPTS \in Nat /\ MAX_ATTEMPTS # 0
      /\ PerPage = 2 * MAX_ATTEMPTS + 2 /\ PerPage \in Nat
      /\ (limit - page_number) * PerPage \in Nat /\ Phase \in Nat
    BY LimitType, LeftType
<1>2. CASE TurnToPage
    <2>1. /\ page_number' = page_number + 1 /\ limit' = limit /\ page_number < limit
          /\ pc = "testing" /\ pc' = "fetching" /\ attempt' = 1
        BY <1>2 DEF TurnToPage, More, Goes
    <2>2. Phase = 2 /\ Phase' = 5 + 2 * (MAX_ATTEMPTS - 1)
        BY <2>1 DEF Phase
    <2>3. limit' - page_number' = (limit - page_number) - 1
        BY <1>1, <2>1
    <2>4. ((limit - page_number) - 1) * PerPage = (limit - page_number) * PerPage - PerPage
        BY <1>1
    <2>5. Left' = (limit - page_number) * PerPage - PerPage + Phase'
        BY <2>3, <2>4 DEF Left, PerPage
    <2> QED
        BY <1>1, <2>2, <2>5 DEF Left
<1>3. CASE WriteRows
    <2>1. /\ books \in Seq((DOMAIN site) \X Nat) /\ Len(file) \in Nat /\ Len(books) \in Nat
        BY <1>3 DEF WriteRows, IInv, TypeOK, InStep
    <2>2. PICK n \in (Len(file) + 1)..Len(books) : file' = SubSeq(books, 1, n)
        BY <1>3 DEF WriteRows
    <2>3. Len(file') = n
        BY <2>1, <2>2
    <2>4. UNCHANGED <<limit, pc, page_number, attempt, books>>
        BY <1>3 DEF WriteRows, walk
    <2>5. Left' = Left
        BY <2>4 DEF Left, Phase, PerPage
    <2> QED
        BY <1>3, <2>1, <2>2, <2>3, <2>4, <2>5 DEF RowsFollow
<1>4. CASE ~TurnToPage /\ ~WriteRows
    <2>1. Phase' \in Int /\ Phase' < Phase
        BY <1>4, PhaseLowers
    <2>2. limit' = limit /\ page_number' = page_number
        BY <1>4 DEF Next, Step, Allowed, Disallowed, RobotsUnreadable, Answered, Refused, TryAgain,
               GiveUp, Backoff, PageUnreadable, PageEmpty, TakePage, Pause, OpenFile, OpenFails,
               WriteFails, CloseFile, Kill, Fails, Crashes, walk
    <2>3. Left' = (limit - page_number) * PerPage + Phase'
        BY <2>2 DEF Left, PerPage
    <2> QED
        BY <1>1, <2>1, <2>3 DEF Left
<1> QED
    BY <1>2, <1>3, <1>4

\* However pages link to each other and whatever the site answers, every step of a
\* run with --max-pages leaves it less to do or fewer rows to write: at most so many
\* requests for each page, for at most so many pages (scrape_books.py:81-94, 114).
\* That it takes these steps is what Ends needs fairness for.
THEOREM LimitedRunsRunOut ==
    Spec => /\ [](limit # NoLimit => page_number <= limit /\ Left \in Nat)
            /\ [][limit # NoLimit => Left' < Left \/ RowsFollow]_vars
<1>1. Init => WithinLimit
    BY LimitsAssumption DEF Init, WithinLimit
<1>2. IInv /\ WithinLimit /\ [Next]_vars => WithinLimit'
    BY StepWithinLimit
<1>3. IInv /\ WithinLimit => (limit # NoLimit => page_number <= limit /\ Left \in Nat)
    BY LeftType DEF WithinLimit
<1>4. IInv /\ WithinLimit /\ [Next]_vars => [limit # NoLimit => Left' < Left \/ RowsFollow]_vars
    BY StepLowers
<1> QED
    BY <1>1, <1>2, <1>3, <1>4, Invariance, PTL DEF Spec
=============================================================================
