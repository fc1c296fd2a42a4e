\* lists of up to 2 roles, 7 blocks, values at each limit
SPECIFICATION Spec
CONSTANTS
    Blocks = {b1, b2, b3, b4, b5, b6, b7}
    NULL = null
    Garbage = garbage
    NotANumber = nan
    NAME_LEN = 32
    TAG_LEN = 16
    MaxRoles = 2
    Values <- MCValues
    Anonymous <- MCAnonymous
    Untagged <- MCUntagged
SYMMETRY BlockSymmetry
INVARIANTS Defined Owned
PROPERTY BlockSpec
