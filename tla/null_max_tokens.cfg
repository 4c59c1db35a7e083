SPECIFICATION NullTokensSpec
CONSTANTS
    p1 = p1
    d1 = d1
    d2 = d2
    Addr = {p1, d1, d2}
    InitRole <- ConfiguredPDD
    AdminInput <- RemovePrefill
    CanTrip = {}
    Req = {r1}
    Admin = {t1}
    NoAddr = NoAddr
    MaxDrift = 0
    NoTask = NoTask
    NoTarget = NoTarget
    SuccessThreshold = 2
    CbEnabled = FALSE
    MonitorEnabled = FALSE
    MaxActive = 2
PROPERTY RetryCanSucceed
