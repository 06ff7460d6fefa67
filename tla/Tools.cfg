CONSTANTS
    c1 = c1
    c2 = c2
    s1 = s1
    s2 = s2
    a1 = a1
    a2 = a2
    d1 = d1
    d2 = d2
    shell = shell
    kid = kid
    grandkid = grandkid
    NONE = NONE
    Calls = {c1, c2}
    Sessions = {s1, s2}
    Args = {a1}
    Policies = {d1}
    CommandIds = {"bash", "write", "read", "search", "recall", "push", "cancel"}
    Routes = {"native", "sandboxed", "contained"}
    Levels = {"strict", "operator"}
    Attended = {TRUE, FALSE}
    MaxPairs = 1
    MaxTracked = 1
    MaxGrants = 1
    MaxEdits = 0
    TreeProcs = {shell, kid, grandkid}
    Leader = shell
    MaxProbes = 1
    MaxWrites = 1
    PublishSessions = {s1}
    Callers = {c1, c2}
    MaxTickets = 2
    PerSession = 1
    Total = 2
    Worktrees <- Tampered
SPECIFICATION SuiteSpec
CHECK_DEADLOCK FALSE
INVARIANTS ContainmentKept StopReportTrue PublishGated
PROPERTIES DeadStaysDead NoSignalAfterReport
