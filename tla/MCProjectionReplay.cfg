SPECIFICATION Spec
CONSTANTS
    Ledgers = {l1}
    Identities = {a, b}
    Projectors = {p1}
    MaxSequence = 4
    BatchSize = 3
    Shared = FALSE
    ScanFaults = TRUE
    GenesisPayload = GenesisPayload
SYMMETRY ProjectionSymmetry
CHECK_DEADLOCK FALSE
INVARIANTS TypeOK GraphIsProjection ReplayIsFresh StopsAtFirstMeaningless
