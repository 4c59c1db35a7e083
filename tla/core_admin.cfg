SPECIFICATION FairSpec
CONSTANTS
    p1 = p1
    d1 = d1
    x1 = x1
    Addr = {p1, d1, x1}
    InitRole <- ConfiguredPD
    AdminInput <- Coming
    CanTrip = {}
    Req = {r1, r2}
    Admin = {t1, t2}
    NoAddr = NoAddr
    MaxDrift = 1
    NoTask = NoTask
    NoTarget = NoTarget
    SuccessThreshold = 1
    CbEnabled = FALSE
    MonitorEnabled = FALSE
INVARIANTS TypeOK ActiveCountExact HeldAreRegistered 
PROPERTIES DrainingIsFinal DrainSettles AdminAnswered
