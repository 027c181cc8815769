CONSTANTS
    c1 = c1
    c2 = c2
    a1 = a1
    a2 = a2
    refresher = refresher
    s1 = s1
    w1 = w1
    w2 = w2
    Callers = {c1, c2}
    Keys = {"overview", "all_time"}
    Inner <- MCInner
    NoKey = NoKey
    Savers = {a1, a2}
    Refresher = refresher
    MaxSaves = 2
    MaxFetches = 1
    Writers = {w1, w2}
    Transport <- MCTransport
    Streams = {s1}
    MaxWrites = 2
    Audiences <- AllHubs
SPECIFICATION Spec
INVARIANTS ReloadReachesRequests SingleFlight FailuresNeverStick SignalNeverLost
PROPERTIES PricesOnlyAdvance EveryRequestAnswered EveryWriteShown
