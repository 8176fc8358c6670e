\* Three nodes, one for each way an ID can fit its label field, two relations
\* and a file of five blocks: lists of two links grow side by side, or one to four,
\* and a list of several links can be extended by a second message.
CONSTANTS
    a = a
    b = b
    c = c
    Nodes = {a, b, c}
    IdLength <- IdLengths
    Relations = {r1, r2}
    Edges <- EdgesWithoutShortLoops
    Names = {1, 2, 3}
    LabelName = 2
    Values = {v}
    NoValue = NoValue
    NoOwner = NoOwner
    MaxLinks = 5
SPECIFICATION Spec
SYMMETRY RelationSymmetry
\* The model stops when the files are full.
CHECK_DEADLOCK FALSE
INVARIANT TypeOK
INVARIANT NoSharedLinks
INVARIANT NoLinkLost
INVARIANT LongIdsReadable
PROPERTY CallStoresProperty
