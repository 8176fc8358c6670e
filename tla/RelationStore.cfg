\* Three IDs: every order in which five of the six edges between them
\* (loops included) can arrive, in both directions and with repetitions.
CONSTANTS
    Ids = {a, b, c}
    NoId = NoId
    MaxNodes = 3
    MaxRelations = 5
SPECIFICATION Spec
SYMMETRY IdSymmetry
INVARIANT TypeOK
INVARIANT NextLinksExact
INVARIANT PreviousInvertsNext
INVARIANT EdgesListedOnce
INVARIANT NeverThrows
INVARIANT CrashTearsOnlyNewest
