CONSTANTS
    t1 = t1
    t2 = t2
    t3 = t3
    s1 = s1
    s2 = s2
    Turns = {t1, t2, t3}
    Sessions = {s1, s2}
    SessionOf <- MCSessionOf
    Limit <- MCLimit
    Estimates = {2}
    Costs = {1, 3}
    MaxExcess = 1
    MaxCalls <- MCMaxCalls
SPECIFICATION SuiteSpec
CHECK_DEADLOCK FALSE
INVARIANTS SpendApproved EnvelopesHeld DailyOvershootBounded PolicyKept ExtensionsKept
PROPERTIES LevelsNeverDrop
