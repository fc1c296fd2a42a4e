------------------------------ MODULE CsvRules ------------------------------
(***************************************************************************)
(* csv-guard's column rules.  A value is abstracted to what the checks     *)
(* tell apart: its kind (which of trim, parse::<i64> and parse::<f64>, and *)
(* of the Python functions of the same use, accept it), the parts split at *)
(* '-' gives, and its length.                                              *)
(***************************************************************************)
EXTENDS Integers, Sequences

CONSTANT NotANumber     \* what a date part without a number is read as

ASSUME NotANumberAssumption == NotANumber \notin Int

Kinds ==
    {"empty", "blank",                  \* "" and white space
     "digits", "signed",                \* 7 and +7
     "beyond_i64",                      \* 9223372036854775808
     "loose", "loose_fraction",         \* 1_000 and 1_000.5, or in digits beyond ASCII
     "fraction", "exponent",            \* 1.5 and 1e5
     "infinite", "nan",                 \* inf or 1e999, and nan
     "word",                            \* text
     "separated",                       \* text that ends in one of U+001C to U+001F
     "replaced",                        \* text in which take_utf8 replaced a byte
     "date"}                            \* text with two hyphens

IsValue(v) ==
    /\ v = [kind |-> v.kind, parts |-> v.parts, length |-> v.length, text |-> v.text]
    /\ v.kind \in Kinds /\ v.length \in Nat
    /\ v.parts \in Seq([width : Nat, number : Int \cup {NotANumber}, loose : BOOLEAN])

\* value.trim()
Trim(v) == IF v.kind = "blank" THEN [v EXCEPT !.kind = "empty", !.length = 0] ELSE v

ParsesI64(v) == v.kind \in {"digits", "signed"}

\* parse::<f64> gave a finite number
ParsesFinite(v) ==
    v.kind \in {"digits", "signed", "beyond_i64", "fraction", "exponent"}

----------------------------------------------------------------------------
\* A plausible slip: the century rule is forgotten.
IsLeapYearJulian(year) == year % 4 = 0
IsLeapYear(year) == (year % 4 = 0 /\ year % 100 # 0) \/ year % 400 = 0

DaysInMonth(year, month) ==
    CASE month \in {1, 3, 5, 7, 8, 10, 12} -> 31
      [] month \in {4, 6, 9, 11} -> 30
      [] month = 2 -> IF IsLeapYear(year) THEN 29 ELSE 28
      [] OTHER -> 0

MinYear == 1000
MaxYear == 9999

\* part.parse::<i64>(): a part is its width in characters, the number that Python
\* reads in it, and whether it is loose: one with white space around its digits, or
\* with digits beyond ASCII, is no number here.
ParsePart(part) == IF part.loose THEN NotANumber ELSE part.number

ParseIsoDate(parts) ==
    /\ Len(parts) = 3
    /\ parts[1].width = 4 /\ parts[2].width = 2 /\ parts[3].width = 2
    /\ \A i \in 1..3 : ParsePart(parts[i]) # NotANumber
    /\ LET year == ParsePart(parts[1])
           month == ParsePart(parts[2])
           day == ParsePart(parts[3])
       IN  /\ year \in MinYear..MaxYear
           /\ month \in 1..12
           /\ day >= 1
           /\ day <= DaysInMonth(year, month)

\* What a rule asks of a value that is not empty.
Satisfies(rule, v) ==
    CASE rule.name = "req"  -> TRUE
      [] rule.name = "int"  -> ParsesI64(v)
      [] rule.name = "dec"  -> ParsesFinite(v)
      [] rule.name = "date" -> ParseIsoDate(v.parts)
      [] rule.name = "enum" -> v.kind \in rule.allowed
      [] rule.name = "max"  -> v.length <= rule.limit

\* A plausible slip: an empty value is checked like any other.
CheckEmptyToo(rule, v) == Trim(v).kind # "empty" /\ Satisfies(rule, Trim(v))
\* Rule::check: an empty value passes everything except req.
Check(rule, v) ==
    LET trimmed == Trim(v)
    IN  IF trimmed.kind = "empty" THEN rule.name # "req" ELSE Satisfies(rule, trimmed)
=============================================================================
