--------------------------- MODULE MCBookScraper ---------------------------
(***************************************************************************)
(* BookScraper on every site of three pages, each of which may link to any *)
(* other or to none.                                                       *)
(***************************************************************************)
EXTENDS BookScraper

CONSTANTS p1, p2, p3

Pages == {p1, p2, p3}

\* Two books, one, none, and a page that cannot be read
Layouts ==
    {[books |-> n, sound |-> TRUE] : n \in 0..2} \cup {[books |-> 1, sound |-> FALSE]}
PagesOf(layouts, links) ==
    {[books |-> l.books, sound |-> l.sound, next |-> n] : l \in layouts, n \in links}

AllSites == [Pages -> PagesOf(Layouts, Pages \cup {NoPage})]
SomeLimits == {1, 2, 4, NoLimit}
=============================================================================
