CONSTANTS
    t1 = t1
    t2 = t2
    s1 = s1
    c1 = c1
    c2 = c2
    c3 = c3
    u1 = u1
    u2 = u2
    None = None
    Runtimes = {u1, u2}
    Autostarted = {u1}
    Clients = {c1, c2, c3}
    MaxShutdowns = 1
SPECIFICATION SuiteSpec
CHECK_DEADLOCK FALSE
INVARIANT ConditionalStopSparesOthers
PROPERTIES EveryTurnEnds EveryAskSettles ProcessesEnd
