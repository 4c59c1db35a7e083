SPECIFICATION Spec
CONSTANTS
    p1 = p1
    d1 = d1
    x1 = x1
    Addr = {p1, d1, x1}
    InitRole <- ConfiguredPD
    AdminInput <- Rotation
    CanTrip = {d1}
    Req = {r1, r2}
    Admin = {t1}
    NoAddr = NoAddr
    MaxDrift = 1
    NoTask = NoTask
    NoTarget = NoTarget
    SuccessThreshold = 1
    CbEnabled = TRUE
    MonitorEnabled = TRUE
SYMMETRY Symmetry
INVARIANTS ActiveCountExact MonitorCoversRegistry
PROPERTY DrainingIsFinal
