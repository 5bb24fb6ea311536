SPECIFICATION Spec
CONSTANTS
    Ledgers = {l1}
    Requests = {r1, r2}
    Ops = {"InitLedger", "AdmitEndorsement"}
    Payloads = {p1}
    VerifiedPayloads = {p1}
    Stamps = {s1}
    MaxSequence = 3
    MaxRetries = 1
    MaxRestarts = 1
    Faults = FALSE
    NoRecord = NoRecord
    GenesisPayload = GenesisPayload
SYMMETRY RequestSymmetry
CHECK_DEADLOCK FALSE
INVARIANTS KeyReferenceNamesOneKey
