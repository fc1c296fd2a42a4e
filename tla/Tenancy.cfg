\* two tenants with two rows each, two faults, and one run of verify.py
SPECIFICATION SpecVerify
CONSTANTS
    N = 2
    ROWS = 2
    Databases = {"db-a", "db-b"}
    Keys = {"key-a", "key-b"}
    Stacks <- MCStacks
    MaxFaults = 2
    A = 1
    B = 2
INVARIANTS SeededOnce NoConflict SeededWhole OwnRowsOnly ProbesMatch
PROPERTY SetupEnds
