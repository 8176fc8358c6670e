CONSTANTS
    a = a
    b = b
    c = c
    Nodes = {a, b, c}
    IdLength <- IdLengths
    Relations = {r1, r2}
    Edges <- AllEdges
    Names = {1, 2, 3}
    LabelName = 2
    Values = {v}
    NoValue = NoValue
    NoOwner = NoOwner
    MaxLinks = 6
SPECIFICATION Spec
CHECK_DEADLOCK FALSE
PROPERTY ReferenceUpdatedIfEmpty
