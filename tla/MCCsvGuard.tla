----------------------------- MODULE MCCsvGuard -----------------------------
(***************************************************************************)
(* CsvCompare on small files: up to two rows under a header of two columns *)
(* and rules that repeat or miss one, and the orders of bench.sh with      *)
(* every cell changed, other widths, and dates around the leap rules or    *)
(* that only Python reads.                                                 *)
(***************************************************************************)
EXTENDS CsvCompare, SequencesExt

Value(kind, text) == [kind |-> kind, parts |-> << >>, length |-> 1, text |-> text]

Cells == {Value("digits", ""), Value("blank", ""), Value("replaced", "")}

Headers ==
    {<<Value("word", "a"), Value("word", "b")>>,
     <<Value("word", "b"), Value("word", "b")>>}

Rows == {<<c>> : c \in Cells} \cup {<<c, d>> : c, d \in Cells}

\* The header of the orders; the second names one column twice.
OrderNames == <<"order_id", "qty", "price", "ordered_on", "status", "notes">>

OrderHeader(names) == [i \in DOMAIN names |-> Value("word", names[i])]

DateCell(y, m, d) == [kind |-> "date", parts |-> <<y, m, d>>, length |-> 10, text |-> ""]

Part(width, number) == [width |-> width, number |-> number, loose |-> FALSE]
Loose(part) == [part EXCEPT !.loose = TRUE]

GoodDate == DateCell(Part(4, 2026), Part(2, 1), Part(2, 31))

GoodRow ==
    <<Value("word", ""), Value("digits", ""), Value("fraction", ""), GoodDate,
      Value("word", ""), Value("word", "")>>

Long(n) == [kind |-> "word", parts |-> << >>, length |-> n, text |-> ""]

OrderCells ==
    {Value(k, "") : k \in Kinds \ {"empty", "date"}} \cup
    {[Value("empty", "") EXCEPT !.length = 0], GoodDate, Long(200), Long(201)}

DateRows ==
    {[GoodRow EXCEPT ![4] = DateCell(Part(4, y), m, d)] :
        y \in {999, 1000, 1900, 2000, 2023, 2024, 9999},
        m \in {Part(2, n) : n \in {0, 2, 4, 12, 13}} \cup 
            {Part(1, 2), Part(2, NotANumber), Loose(Part(2, 2))},
        d \in {Part(2, n) : n \in {0, 28, 29, 30, 31, 32}} \cup {Part(3, 28), Loose(Part(2, 1))}}

OrderRows ==
    {[GoodRow EXCEPT ![i] = c] : i \in 1..6, c \in OrderCells} \cup DateRows \cup
    {SubSeq(GoodRow, 1, n) : n \in 0..5} \cup {Append(GoodRow, c) : c \in OrderCells}

OrderTables ==
    {<<OrderHeader(OrderNames), r>> : r \in OrderRows} \cup
    {<<OrderHeader(OrderNames), GoodRow, [GoodRow EXCEPT ![2] = c]>> : c \in OrderCells} \cup
    {<<OrderHeader(Append(OrderNames, "qty")), Append(GoodRow, c)>> : c \in OrderCells}

SmallTables ==
    {<< >>} \cup {<<h>> \o rows : h \in Headers, rows \in BoundedSeq(Rows, 2)}

\* The reader numbers the records.
MCTables ==
    {[k \in DOMAIN t |-> [fields |-> t[k], line |-> k]] : t \in SmallTables \cup OrderTables}

MCRecords == UNION {ToSet(t) : t \in MCTables}

Req == [name |-> "req"]
Int_ == [name |-> "int"]

MCRuleLists ==
    {<<[column |-> "b", rule |-> Int_]>>,
     <<[column |-> "a", rule |-> Req], [column |-> "b", rule |-> Int_]>>,
     <<[column |-> "b", rule |-> Req], [column |-> "b", rule |-> Int_]>>,
     BenchRules}

=============================================================================
