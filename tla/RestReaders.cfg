\* Two threads, two nodes and two of the three edges between them.  The name of
\* b is too long for the label field.  No symmetry: the run checks liveness.
CONSTANTS
    a = a
    b = b
    Ids = {a, b}
    NoId = NoId
    MaxNodes = 2
    MaxRelations = 2
    Threads = {t1, t2}
    NoThread = NoThread
    ReadableIds = {a}
    IndexFiles <- Left
    Limits = {0, 1, 2}
SPECIFICATION RestSpec
CHECK_DEADLOCK FALSE
INVARIANT RestTypeOK
INVARIANT AnswersAreSnapshots
INVARIANT WalksNeverStray
PROPERTY LockIsReleased
