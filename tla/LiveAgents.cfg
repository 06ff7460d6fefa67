CONSTANTS
    t1 = t1
    t2 = t2
    k1 = k1
    k2 = k2
    r1 = r1
    p1 = p1
    p2 = p2
    s1 = s1
    c1 = c1
    Turns = {t1, t2}
    Keys = {k1, k2}
    SessionOf <- OwnSession
    Capacity = 1
    MaxEntries = 2
    NoKey = NoKey
SPECIFICATION SuiteSpec
CHECK_DEADLOCK FALSE
INVARIANT MapKept
PROPERTIES AgentsSettle
