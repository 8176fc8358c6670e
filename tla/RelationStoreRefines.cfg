\* No symmetry: the run checks liveness.  The relation file holds three
\* blocks, enough for lists of three relations and a self-loop among them.
CONSTANTS
    Ids = {a, b, c}
    NoId = NoId
    MaxNodes = 3
    MaxRelations = 3
SPECIFICATION Spec
PROPERTY ReadersKeepTheirPlace
PROPERTY AddEdgeReturns
PROPERTY ImplementsGraph
PROPERTY CallStoresEdge
