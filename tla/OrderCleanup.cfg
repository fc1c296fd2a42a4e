\* every table of up to three rows out of twenty-one; the program ends
SPECIFICATION Spec
CONSTANTS
    Exports <- MCExports
    Reads <- MCReads
    Month <- MCMonth
    None = None
    Blank = Blank
    Old = Old
INVARIANTS NoRowLost FirstGoodRowKept SheetsAgree
CHECK_DEADLOCK FALSE
