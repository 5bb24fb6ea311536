SPECIFICATION Spec
CONSTANTS
    Identities = {1, 2, 3}
    MaxEdge = 4
    HopLimit = 3
    One = 4
    DecayUnit = 2
    DefaultMinConfidence = 1
    EdgeCount = 4
    Varied = 1
    Graphs <- MCGraphs
    Policies <- MCPolicies
CHECK_DEADLOCK FALSE
INVARIANTS TypeOK VisitedIsCurrentPath FindsEverySimplePath ProvenanceExact ScoreCountsAllEvidence
