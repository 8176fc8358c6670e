\* One topic with two partitions, three messages, two starts of the master.
CONSTANTS
    a = a
    b = b
    c = c
    Ids <- MCIds
    Edges <- MCEdges
    Names <- MCNames
    EndMarker = EndMarker
    Malformed = Malformed
    NoValue = NoValue
    KafkaPartitions = {p0, p1}
    MaxMessages = 3
    MaxStarts = 2
SPECIFICATION Spec
INVARIANT MasterTypeOK
INVARIANT StoreIsTheRun
INVARIANT PropertiesAreOfNewEdges
INVARIANT ClosedRunIsComplete
PROPERTY RestartsSkipNothing
PROPERTY MarkerEndsTheRun
CHECK_DEADLOCK FALSE
