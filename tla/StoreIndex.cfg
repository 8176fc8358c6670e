CONSTANTS
    Ids = {a, b}
    Garbage = Garbage
    Leftovers = {0, 3}
    MaxEpochs = 2
    MaxBlocks = 3
    MaxStrays = 2
SPECIFICATION Spec
CHECK_DEADLOCK FALSE
INVARIANT IndexIsLookupTable
