\* Two epochs: one index can outlive the files it was made for.  Room for
\* both nodes and one block appended when its node has one already, and for
\* the two stray references of an edge.
CONSTANTS
    Ids = {a, b}
    Garbage = Garbage
    Leftovers = {0, 3}
    MaxEpochs = 2
    MaxBlocks = 3
    MaxStrays = 2
SPECIFICATION Spec
\* After the last epoch a torn index stops everything.
CHECK_DEADLOCK FALSE
SYMMETRY IdSymmetry
VIEW LifecycleView
INVARIANT TypeOK
INVARIANT AnswersOwnNodes
INVARIANT ClosedStoreIsComplete
PROPERTY BlocksStay
