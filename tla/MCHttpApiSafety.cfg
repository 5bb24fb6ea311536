SPECIFICATION ApiSpec
CONSTANTS
    Ledgers = {l1}
    Requests = {r1, r2, r3}
    Ops = {"InitLedger", "AdmitRevocation"}
    Payloads = {p1}
    VerifiedPayloads = {p1}
    Stamps = {s1}
    MaxSequence = 3
    MaxRetries = 1
    MaxRestarts = 1
    Faults = TRUE
    NoRecord = NoRecord
    GenesisPayload = GenesisPayload
    Endpoints = {"InitLedger", "GetLedgerHead", "GetRecord", "RevokeEndorsement", "EvaluateConfidence", "GetHealthz"}
    Flaws = {"none", "body", "policy"}
    BatchSize = 1
CONSTRAINT OneDisturbance
SYMMETRY RequestSymmetry
CHECK_DEADLOCK FALSE
INVARIANTS ApiTypeOK CreatedMeansStored ReadYourWrites
