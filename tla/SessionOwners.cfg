CONSTANTS
    Turns = {t1, t2, t3}
    Identified = {t1}
    Sessions = {s1}
    Connections = {c1, c2, c3}
    MaxEvents = 2
    None = None
SPECIFICATION Spec
SYMMETRY Symm
CHECK_DEADLOCK FALSE
INVARIANTS
    ArrivalOrder
    OneOwnerPerSession
    LogNeverSplit
    CancelHonored
    CancelReachesTurn
PROPERTY SerialSpec
