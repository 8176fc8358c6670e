CONSTANTS
    a = a
    b = b
    c = c
    Vertices = {a, b, c}
    numberOfPartitions = 2
    Hash <- SharedHash
    MaxEdges = 4
SPECIFICATION Spec
CHECK_DEADLOCK FALSE
INVARIANT CountedEdgesAreStored
