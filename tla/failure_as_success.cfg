SPECIFICATION Spec
CONSTANTS
    p1 = p1
    d1 = d1
    d2 = d2
    Addr = {p1, d1, d2}
    InitRole <- ConfiguredPDD
    AdminInput <- RemovePrefill
    CanTrip = {d1}
    Req = {r1, r2, r3}
    Admin = {}
    NoAddr = NoAddr
    MaxDrift = 0
    NoTask = NoTask
    NoTarget = NoTarget
    SuccessThreshold = 2
    CbEnabled = TRUE
    MonitorEnabled = FALSE
    MaxActive = 2
PROPERTY FailedRequestNeverCloses
