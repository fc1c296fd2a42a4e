---------------------------- MODULE MCRatesSync ----------------------------
(***************************************************************************)
(* RatesSync over six days: the first comes before --since, and the second *)
(* and the sixth are days without rates.  Without --since a new workbook   *)
(* goes two days back: to a day without rates on the second and the fourth *)
(* day, and past the first business days on the fifth and the sixth.       *)
(***************************************************************************)
EXTENDS RatesSync

CONSTANT OtherBase      \* the base of the second job

MCBusinessDays == {1, 3, 4, 5}

JobBase == [j \in Jobs |-> IF j = "one" THEN "USD" ELSE OtherBase]
JobSymbols == [j \in Jobs |-> {"EUR"}]
=============================================================================
