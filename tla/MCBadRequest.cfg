SPECIFICATION ApiSpec
CONSTANTS
    Ledgers = {l1}
    Requests = {r1, r2, r3}
    Ops = {"InitLedger", "AdmitEndorsement", "AdmitRevocation"}
    Payloads = {p1}
    VerifiedPayloads = {p1}
    Stamps = {s1}
    MaxSequence = 3
    MaxRetries = 1
    MaxRestarts = 0
    Faults = TRUE
    NoRecord = NoRecord
    GenesisPayload = GenesisPayload
    Endpoints = {"InitLedger", "GetLedgerHead", "GetRecord", "AcceptEndorsement", "RevokeEndorsement", "EvaluateConfidence"}
    Flaws = {"none"}
    BatchSize = 1
SYMMETRY RequestSymmetry
CHECK_DEADLOCK FALSE
INVARIANT BadRequestStoresNothing
