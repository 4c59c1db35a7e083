SPECIFICATION FairSpec
CONSTANTS
    p1 = p1
    d1 = d1
    Addr = {p1, d1}
    Model = {m1, m2}
    NoModel = NoModel
    InitRole <- Configured
    Loadable = {m1}
INVARIANTS DiscoveryTypeOK HealthyAreListed OneLoader
PROPERTY BecomesReady
