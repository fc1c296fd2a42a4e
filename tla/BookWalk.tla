------------------------------ MODULE BookWalk ------------------------------
(***************************************************************************)
(* What books-scraper promises, without requests, retries and pauses: the  *)
(* walk reads the pages in the order of their links, each link once, up to *)
(* the limit; it gives up and leaves the file alone, or it reaches the end *)
(* and then writes all it has read (README.md of books-scraper, "What it   *)
(* does").                                                                 *)
(***************************************************************************)
EXTENDS Integers, Sequences

CONSTANTS First, Sites, Limits, NoPage, NoLimit, Old

VARIABLES
    site,       \* [page -> [books, next, sound]]
    limit,      \* --max-pages
    url,        \* the page that comes next
    count,      \* how many were read
    books,      \* what they held
    outcome,
    file        \* the output: Old, or the books in it

vars == <<site, limit, url, count, books, outcome, file>>

\* The books of a page
Listing(p) == [i \in 1..site[p].books |-> <<p, i>>]
More == url # NoPage /\ (limit # NoLimit => count < limit)

Init ==
    /\ site \in Sites /\ limit \in Limits
    /\ url = First /\ count = 0 /\ books = << >>
    /\ outcome = "walking" /\ file = Old

ReadPage ==
    /\ outcome = "walking" /\ More
    /\ site[url].sound /\ site[url].books > 0
    /\ url' = site[url].next /\ count' = count + 1
    /\ books' = books \o Listing(url)
    /\ UNCHANGED <<site, limit, outcome, file>>

GiveUp ==
    /\ outcome = "walking" /\ outcome' = "given up"
    /\ UNCHANGED <<site, limit, url, count, books, file>>

StartToWrite ==
    /\ outcome = "walking" /\ ~More
    /\ outcome' = "writing" /\ file' = << >>
    /\ UNCHANGED <<site, limit, url, count, books>>

\* Some of the books, from the first on, are in the file.
Write ==
    /\ outcome = "writing"
    /\ \E n \in Len(file)..Len(books) : file' = SubSeq(books, 1, n)
    /\ UNCHANGED <<site, limit, url, count, books, outcome>>

Finish ==
    /\ outcome = "writing" /\ outcome' = "written" /\ file' = books
    /\ UNCHANGED <<site, limit, url, count, books>>

Break ==
    /\ outcome = "writing" /\ outcome' = "broken off"
    /\ UNCHANGED <<site, limit, url, count, books, file>>

Next == ReadPage \/ GiveUp \/ StartToWrite \/ Write \/ Finish \/ Break

Spec == Init /\ [][Next]_vars
=============================================================================
