SPECIFICATION Spec
CONSTANTS
    a1 = a1
    a2 = a2
    b1 = b1
    m1 = m1
    m2 = m2
    Addr = {a1, a2, b1}
    Model = {m1, m2}
    NoName = NoName
    NoModel = NoModel
    NoAddr = NoAddr
    Serves <- TwoAndOne
    Order <- ConfigOrder
    Nameless = {a1}
    Schedulers <- TriedSchedulers
    Untokenized = {m1}
    Flaky = {a2}
    MaxInFlight = 1
INVARIANTS RoutingTypeOK NamedListsExact ServedIfAvailable ProbesReachLive NoStrangers
