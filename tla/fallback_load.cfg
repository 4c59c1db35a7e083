SPECIFICATION FallbackSpec
CONSTANTS
    a1 = a1
    a2 = a2
    Addr = {a1, a2}
    Configured <- TwoConfigured
    ModelLen <- SameLimit
    Req = {r1, r2}
    Lengths = {0}
    MaxTokens = {1}
PROPERTY LeastLoaded
