SPECIFICATION Spec
CONSTANTS
    Keys = {k1, k2}
    Topics = {0, 128, 129}
    Claims = {4096, 4097}
    Times = {t1, t2}
    Reasons = {256, 257}
    Targets = {d1}
    RoleCodes = {0, 1, 2, 3}
    SignatureLengths = {72}
    Malformed <- MCMalformed
    NoKey = NoKey
    MaxSigned = 3
SYMMETRY StatementSymmetry
CHECK_DEADLOCK FALSE
INVARIANTS StoredPayloadsDecode AgreementIsAdmissible BothPartiesAgreed RevokerAgreed
