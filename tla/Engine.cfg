CONSTANTS
    MaxToolSteps = 3
    MaxCalls = 2
    c1 = c1
    c2 = c2
    noid = noid
SPECIFICATION SuiteSpec
CHECK_DEADLOCK FALSE
INVARIANTS TurnSound TranscriptKept AgentTurnWhole StoreKept ExternalKept
