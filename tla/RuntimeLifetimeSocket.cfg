CONSTANTS
    Runtimes = {r1, r2, r3}
    Autostarted = {r1}
    Clients = {c1}
    MaxShutdowns = 0
    None = None
SPECIFICATION Spec
CHECK_DEADLOCK FALSE
INVARIANT LiveSocketKept
