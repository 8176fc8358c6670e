\* Under HASH two vertices share partition 0, one has partition 1 to itself;
\* LDG and FENNEL choose among three.  Five counted edges, repetitions, both
\* directions and self-loops included.
CONSTANTS
    a = a
    b = b
    c = c
    Vertices = {a, b, c}
    numberOfPartitions = 3
    Hash <- SharedHash
    MaxEdges = 5
SPECIFICATION Spec
\* The greedy algorithms stop at the bound on totalEdges.
CHECK_DEADLOCK FALSE
INVARIANT TypeOK
INVARIANT PartitionsAgree
INVARIANT HashStoresEdgesOnce
INVARIANT HomesKnowVertices
INVARIANT LostEdgesAreKnown
