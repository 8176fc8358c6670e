\* Two calls of publish: a second connection while the worker is at the first.
CONSTANTS
    m1 = m1
    m2 = m2
    Messages <- MCMessages
    NoMessage = NoMessage
    MaxPublishes = 2
SPECIFICATION Spec
CHECK_DEADLOCK FALSE
INVARIANT UnitsInOrder
INVARIANT LostOnlyByFaults
PROPERTY PublishReturns
