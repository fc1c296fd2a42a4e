---------------------------- MODULE MCCsvReader ----------------------------
(***************************************************************************)
(* CsvReader on every file of a few bytes and on files that csv-guard's    *)
(* own writer produces, with every way to chunk them.                      *)
(***************************************************************************)
EXTENDS CsvWriter

CONSTANTS
    MaxBytes,       \* length of the longest file
    FieldBytes      \* length of the longest field that is written

\* One row of two fields, or two rows of one.
MCTables ==
    LET Field(n) == BoundedSeq(Byte \ Invalid, n)
    IN  UNION {{<<<<f, g>>>>, <<<<f>>, <<g>>>>} : f \in Field(FieldBytes), g \in Field(1)}

MCInputs == BoundedSeq(Byte, MaxBytes) \cup {w.bytes : w \in Written}

----------------------------------------------------------------------------
\* Every file is read to its end or to a read error (the loop of next_record
\* makes progress on every byte, and a read of nothing is remembered).
Terminates == <>(status \in {"end", "failed"})
============================================================================
