SPECIFICATION WorkersSpec
CONSTANTS
    Ledgers = {l1}
    Requests = {r1, r2, r3, r4, r5}
    Ops = {"AdmitEndorsement"}
    Payloads = {r1, r2, r3, r4, r5}
    VerifiedPayloads = {r1, r2, r3, r4, r5}
    Stamps = {s1}
    MaxSequence = 6
    MaxRetries = 3
    MaxRestarts = 0
    Faults = FALSE
    NoRecord = NoRecord
    GenesisPayload = GenesisPayload
SYMMETRY RequestSymmetry
CHECK_DEADLOCK FALSE
INVARIANTS ContentionResolves
