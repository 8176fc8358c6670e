\* No symmetry: the run checks liveness.  Two values of a name, and a second
\* message for the same node, tell an update from a property kept.
CONSTANTS
    a = a
    b = b
    c = c
    Nodes = {a, c}
    IdLength <- IdLengths
    Relations = {r1, r2}
    Edges <- EdgesWithoutShortLoops
    Names = {1, 2}
    LabelName = 2
    Values = {v, w}
    NoValue = NoValue
    NoOwner = NoOwner
    MaxLinks = 5
SPECIFICATION Spec
\* The model stops when the files are full.
CHECK_DEADLOCK FALSE
PROPERTY PublishedIsImmutable
PROPERTY ImplementsMap
PROPERTY AddPropertyReturns
