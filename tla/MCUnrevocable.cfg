SPECIFICATION Spec
CONSTANTS
    Ledgers = {l1}
    Identities = {a, b}
    Projectors = {p1}
    MaxSequence = 3
    BatchSize = 2
    Shared = FALSE
    ScanFaults = FALSE
    GenesisPayload = GenesisPayload
CHECK_DEADLOCK FALSE
INVARIANTS EveryReplaySucceeds
