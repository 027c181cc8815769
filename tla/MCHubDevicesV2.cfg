SPECIFICATION SpecV2
CONSTANTS
    d1 = d1
    d2 = d2
    d3 = d3
    t1 = t1
    t2 = t2
    t3 = t3
    Ids = {d1, d2, d3}
    Machines = {d1, d2}
    Tokens = {t1, t2, t3}
    Names = {n1, n2}
    Pids = {p1, p2}
    Conns = {c1, c2}
    NoReport = NoReport
    MaxTime = 2
    Events = {e1, e2, e3}
    MaxMerges = 3
    MinPeak = 30
    BackfillWindow = 0
    PanelWindow = 0
    Worlds <- MCWorlds
    TokenOf <- MCTokenOf
SYMMETRY MCSymmetry
INVARIANT CapacityFollowsReadings
CHECK_DEADLOCK FALSE
