SPECIFICATION Spec
CONSTANTS
    a1 = a1
    a2 = a2
    a3 = a3
    Addr = {a1, a2, a3}
    Configured <- TwoConfigured
    ModelLen <- Limits
    Req = {r1, r2, r3}
    Lengths = {0, 1, 3}
    MaxTokens = {0, 2}
SYMMETRY ReqSymmetry
INVARIANTS LoadTypeOK CountersExact
PROPERTY LeastLoaded
