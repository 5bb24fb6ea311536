SPECIFICATION Spec
CONSTANTS
    Identities = {1, 2, 3}
    MaxEdge = 3
    HopLimit = 3
    One = 4
    DecayUnit = 2
    DefaultMinConfidence = 1
    EdgeCount = 3
    Varied = 0
    Graphs <- MCGraphs
    Policies <- MCPolicies
CHECK_DEADLOCK FALSE
INVARIANTS PathsAreIndependent
