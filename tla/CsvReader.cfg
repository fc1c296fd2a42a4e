\* every file of up to 5 bytes over an alphabet of 6, written files of fields of
\* up to 2 bytes, and a buffer of 2
SPECIFICATION FairSpec
CONSTANTS
    Quote = q
    Delimiter = d
    CR = cr
    LF = lf
    Ordinary = {bad, repl}
    Invalid = {bad}
    Replacement = repl
    NoByte = none
    MaxBytes = 5
    FieldBytes = 2
    Tables <- MCTables
    Inputs <- MCInputs
    BufferBytes = 2
INVARIANTS WindowInv MatchesGrammar RoundTrip
PROPERTIES WholeSpec Terminates
