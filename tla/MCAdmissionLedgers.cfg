SPECIFICATION Spec
CONSTANTS
    Ledgers = {l1, l2}
    Requests = {r1, r2, r3, r4}
    Ops = {"InitLedger", "AdmitEndorsement"}
    Payloads = {p1, p2}
    VerifiedPayloads = {p1}
    Stamps = {s1, s2}
    MaxSequence = 3
    MaxRetries = 1
    MaxRestarts = 0
    Faults = FALSE
    NoRecord = NoRecord
    GenesisPayload = GenesisPayload
SYMMETRY RequestSymmetry
CHECK_DEADLOCK FALSE
PROPERTIES ImplementsLog
INVARIANTS ReplayReachesHead ExhaustionMeansProgress
