----------------------------- MODULE CsvCompare -----------------------------
(***************************************************************************)
(* bench.sh runs csv-guard and then compare.py, the Python program its     *)
(* clean file is compared with byte for byte, over the same input.         *)
(***************************************************************************)
EXTENDS CsvGuard

VARIABLES
    compare,        \* "idle", "rows", "ended", or "raised" an exception
    row,            \* the next record compare.py reads
    clean_py        \* what it has written to its clean file

compareVars == <<compare, row, clean_py>>

NotesLimit == 200

\* The rules bench.sh gives csv-guard; of the words only new, paid and void are
\* there to be told apart, so "word" is a status.
BenchRules ==
    LET Rule(column, rule) == [column |-> column, rule |-> rule]
    IN  << Rule("order_id", [name |-> "req"]), Rule("qty", [name |-> "int"]),
           Rule("price", [name |-> "dec"]), Rule("ordered_on", [name |-> "date"]),
           Rule("status", [name |-> "enum", allowed |-> {"word"}]),
           Rule("notes", [name |-> "max", limit |-> NotesLimit]) >>

----------------------------------------------------------------------------
\* value.strip(), which takes the information separators for white space
Strip(v) ==
    IF v.kind = "separated" THEN [v EXCEPT !.kind = "word", !.length = @ - 1] ELSE Trim(v)

\* int(value.strip()): unbounded, with digits of any script, and underscores
IsInt(v) == v.kind \in {"digits", "signed", "beyond_i64", "loose"}

\* float(value.strip()), which is not inf or nan
IsDec(v) == IsInt(v) \/ v.kind \in {"fraction", "exponent", "loose_fraction"}

\* is_date: int(part) reads loose parts as well.
IsDate(parts) ==
    /\ Len(parts) = 3
    /\ parts[1].width = 4 /\ parts[2].width = 2 /\ parts[3].width = 2
    /\ \A i \in 1..3 : parts[i].number # NotANumber
    /\ parts[1].number \in 1000..9999 /\ parts[2].number \in 1..12
    /\ LET year == parts[1].number
           leap == (year % 4 = 0 /\ year % 100 # 0) \/ year % 400 = 0
           lengths == <<31, IF leap THEN 29 ELSE 28, 31, 30, 31, 30,
                        31, 31, 30, 31, 30, 31>>
       IN  parts[3].number \in 1..lengths[parts[2].number]

\* The dict comprehension: the last column of a name wins.
Index(column) ==
    CHOOSE i \in DOMAIN Header :
        Header[i].text = column
        /\ \A j \in (i + 1)..Len(Header) : Header[j].text # column

Names(column) == \E i \in DOMAIN Header : Header[i].text = column

\* A plausible slip: the limit on the notes is exclusive.
PassesShorterNotes(rule, v) ==
    CASE rule.name = "req"  -> Strip(v).kind # "empty"
      [] rule.name = "int"  -> IsInt(v)
      [] rule.name = "dec"  -> IsDec(v)
      [] rule.name = "date" -> IsDate(v.parts)
      [] rule.name = "enum" -> Strip(v).kind \in rule.allowed
      [] rule.name = "max"  -> Strip(v).length < rule.limit
\* The six tests, in the order of the rules.
Passes(rule, v) ==
    CASE rule.name = "req"  -> Strip(v).kind # "empty"
      [] rule.name = "int"  -> IsInt(v)
      [] rule.name = "dec"  -> IsDec(v)
      [] rule.name = "date" -> IsDate(v.parts)
      [] rule.name = "enum" -> Strip(v).kind \in rule.allowed
      [] rule.name = "max"  -> Strip(v).length <= rule.limit

\* Test k of the row looks up a column that the header has, and passes.
TestPasses(k, fields) ==
    Names(BenchRules[k].column)
    /\ Passes(BenchRules[k].rule, fields[Index(BenchRules[k].column)])

IsOk(fields) ==
    Len(fields) = Len(Header) /\ \A k \in DOMAIN BenchRules : TestPasses(k, fields)

\* `and` stops at the first test that fails; a KeyError is the one that looks up
\* a column that is not there.
KeyError(fields) ==
    Len(fields) = Len(Header) /\ \E k \in DOMAIN BenchRules :
        ~Names(BenchRules[k].column) /\ \A j \in 1..(k - 1) : TestPasses(j, fields)

\* The decoder refuses the bytes that csv-guard replaces.
Undecodable(record) == \E i \in DOMAIN record.fields : record.fields[i].kind = "replaced"

----------------------------------------------------------------------------
InitCompare == Init /\ compare = "idle" /\ row = 1 /\ clean_py = << >>

\* The header is read and written to the clean file.
StartCompare ==
    /\ pc = "done" /\ compare = "idle"
    /\ records # << >> /\ ~Undecodable(records[1])
    /\ compare' = "rows" /\ row' = 2 /\ clean_py' = <<Header>>
    /\ UNCHANGED vars

CompareRow ==
    /\ compare = "rows" /\ row <= Len(records) /\ ~Undecodable(records[row])
    /\ LET fields == records[row].fields
       IN  /\ ~KeyError(fields)
           /\ clean_py' = IF IsOk(fields) THEN Append(clean_py, fields) ELSE clean_py
    /\ row' = row + 1
    /\ UNCHANGED <<vars, compare>>

\* StopIteration of an empty file, UnicodeDecodeError of a chunk read ahead, or
\* the KeyError.
CompareRaises ==
    /\ pc = "done" /\ compare \in {"idle", "rows"}
    /\ \/ records = << >>
       \/ \E k \in row..Len(records) : Undecodable(records[k])
       \/ compare = "rows" /\ row <= Len(records)
          /\ KeyError(records[row].fields)
    /\ compare' = "raised"
    /\ UNCHANGED <<vars, row, clean_py>>

EndCompare ==
    /\ compare = "rows" /\ row > Len(records)
    /\ compare' = "ended"
    /\ UNCHANGED <<vars, row, clean_py>>

NextCompare ==
    \/ Next /\ UNCHANGED compareVars
    \/ StartCompare \/ CompareRow \/ CompareRaises \/ EndCompare

SpecCompare == InitCompare /\ [][NextCompare]_<<vars, compareVars>>

----------------------------------------------------------------------------
\* A value that is not empty and that both programs read alike: no number of more
\* than 64 bits, no underscores, ASCII digits, no white space in a date, and no
\* separators that only strip() takes away.
Plain(v) ==
    /\ Trim(v).kind \notin {"empty", "beyond_i64", "loose", "loose_fraction", "separated"}
    /\ \A i \in DOMAIN v.parts : ~v.parts[i].loose

PlainFile ==
    /\ \A i, j \in DOMAIN Header : Header[i].text = Header[j].text => i = j
    /\ \A n \in 2..Len(records) :
        /\ Len(records[n].fields) = Len(Header)
        /\ \A i \in DOMAIN Header : Plain(records[n].fields[i])

\* The two clean files are the same when both programs end and every row is as
\* wide as the header, under distinct names, with no empty cell and no value that
\* only Python reads as a number or strips (cross_check.sh:2-4, "the files should be
\* identical").
CrossCheck ==
    rules = BenchRules /\ exit \in {"0", "1"} /\ "clean" \in wanted /\ compare = "ended"
        /\ PlainFile
        => clean_py = [k \in DOMAIN files["clean"] |-> files["clean"][k].fields]
=============================================================================
