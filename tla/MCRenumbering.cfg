SPECIFICATION Spec
CONSTANTS
    Ledgers = {l1}
    Requests = {r1, r2, r3}
    Ops = {"InitLedger", "AdmitEndorsement"}
    Payloads = {p1}
    VerifiedPayloads = {p1}
    Stamps = {s1, s2}
    MaxSequence = 3
    MaxRetries = 1
    MaxRestarts = 0
    Faults = FALSE
    NoRecord = NoRecord
    GenesisPayload = GenesisPayload
SYMMETRY RequestSymmetry
CHECK_DEADLOCK FALSE
PROPERTIES NoServerRenumbering
