SPECIFICATION Spec
CONSTANTS
    Ledgers = {l1}
    Identities = {a, b}
    Projectors = {p1, p2}
    MaxSequence = 3
    BatchSize = 2
    Shared = TRUE
    ScanFaults = FALSE
    GenesisPayload = GenesisPayload
CHECK_DEADLOCK FALSE
INVARIANTS WatermarkIsHighest
