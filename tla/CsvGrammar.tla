----------------------------- MODULE CsvGrammar -----------------------------
(***************************************************************************)
(* RFC 4180 over a whole file, by the parity of the quotes before each     *)
(* byte: a declarative reference for the reader.  Lines and cells are      *)
(* named by the position that ends them: that of the byte that cuts them   *)
(* off, or the one after the last byte.                                    *)
(***************************************************************************)
EXTENDS Naturals, Sequences, FiniteSets

CONSTANTS Quote, Delimiter, CR, LF, Replacement, Invalid

----------------------------------------------------------------------------
QuotesBefore(s, i) == {j \in 1..(i - 1) : s[j] = Quote}

\* Is byte i of s inside a quoted field, or the quote that closes one?
Inside(s, i) == Cardinality(QuotesBefore(s, i)) % 2 = 1

Unquoted(s, bytes) == {i \in DOMAIN s : s[i] \in bytes /\ ~Inside(s, i)}

Terminators(s) == Unquoted(s, {CR, LF})
Delimiters(s) == Unquoted(s, {Delimiter})
Breaks(s) == Terminators(s) \cup Delimiters(s)

\* The second quotes of the doubled ones.
Doubled(s) == {i \in Unquoted(s, {Quote}) : i > 1 /\ s[i - 1] = Quote}

\* A quote opens at the start of a field, closes at the end of one, or is
\* doubled; the last field may be left open.
WellFormed(s) ==
    \A i \in DOMAIN s : s[i] = Quote =>
        IF Inside(s, i)
        THEN i = Len(s) \/ i + 1 \in Breaks(s) \/ s[i + 1] = Quote
        ELSE i = 1 \/ i - 1 \in Breaks(s) \/ i \in Doubled(s)

----------------------------------------------------------------------------
\* The positions right before e that no cut separates from it.
Piece(cuts, e) == {i \in 1..(e - 1) : \A j \in i..(e - 1) : j \notin cuts}

AtRank(S, k) == {i \in S : Cardinality({j \in S : j <= i}) = k}
InOrder(S) == [k \in 1..Cardinality(S) |-> CHOOSE i \in AtRank(S, k) : TRUE]

\* The cell that ends at e: the quotes around it go, a doubled one is halved.
Text(s, e) == {i \in Piece(Breaks(s), e) : s[i] # Quote \/ i \in Doubled(s)}

Content(s, e) ==
    LET text == InOrder(Text(s, e))
    IN  [k \in DOMAIN text |->
            IF s[text[k]] \in Invalid THEN Replacement ELSE s[text[k]]]

Contents(s, ends) ==
    LET at == InOrder(ends) IN [k \in DOMAIN at |-> Content(s, at[k])]

\* The fields of the line that ends at e.
FieldsOf(s, e) ==
    Contents(s, (Piece(Terminators(s), e) \cap Delimiters(s)) \cup {e})

\* The lines that are not blank (CRLF cuts twice, with nothing between).
Lines(s) == {e \in Terminators(s) \cup {Len(s) + 1} : Piece(Terminators(s), e) # {}}

RecordsOf(s, ends) ==
    LET at == InOrder(ends) IN [k \in DOMAIN at |-> FieldsOf(s, at[k])]
=============================================================================
