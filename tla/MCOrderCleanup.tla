--------------------------- MODULE MCOrderCleanup ---------------------------
(***************************************************************************)
(* OrderCleanup on every table of up to three rows out of a few.           *)
(***************************************************************************)
EXTENDS OrderCleanup, TLC

\* An order_id may be typed in two ways and a date in two; a price may be below
\* zero.
MCReads ==
    ("A-1" :> "A-1") @@ (" A-1" :> "A-1") @@ ("B-2" :> "B-2") @@ (" " :> Blank)
    @@ ("2026-03-05" :> 64) @@ ("05.03.2026" :> 64) @@ ("1 Apr 2026" :> 91) @@ ("soon" :> None)
    @@ ("acme" :> "Acme") @@ ("a@b.c" :> "a@b.c") @@ ("at b" :> None)
    @@ ("office" :> "Office") @@ ("toys" :> "Toys")
    @@ ("2" :> 2) @@ ("3" :> 3) @@ ("two" :> None) @@ ("$5" :> 5) @@ ("-$5" :> -5)
MCMonth == (64 :> "2026-03") @@ (91 :> "2026-04")

Row(id, date, quantity, price, email) ==
    [order_id |-> id, order_date |-> date, customer |-> "acme", email |-> email,
     category |-> IF quantity = "3" THEN "toys" ELSE "office",
     quantity |-> quantity, unit_price |-> price]

\* At most one cell of a row is bad.
Rows ==
    {Row(id, date, q, "$5", "a@b.c") : id \in {"A-1", " A-1", "B-2"}, date \in {"2026-03-05", "1 Apr 2026"}, q \in {"2", "3"}}
    \cup {Row(id, "05.03.2026", "2", "$5", e) : id \in {"A-1", "B-2"}, e \in {"a@b.c", "at b"}}
    \cup {Row("A-1", "soon", "2", "$5", "a@b.c"), Row("A-1", "1 Apr 2026", "two", "$5", "at b"),
          Row(" A-1", "1 Apr 2026", "2", "-$5", "a@b.c"), Row(" ", "1 Apr 2026", "3", "$5", "a@b.c"),
          [Row("B-2", "1 Apr 2026", "2", "$5", "a@b.c") EXCEPT !.customer = " "]}

MCExports == UNION {[1..n -> Rows] : n \in 0..3}
=============================================================================
