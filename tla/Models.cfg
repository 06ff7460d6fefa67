CONSTANTS
    r1 = r1
    r2 = r2
    leader = leader
    h1 = h1
    h2 = h2
    Requests = {r1, r2}
    Prompts = 2
    Budget = 1
    MaxUpdates = 1
    MaxPermissions = 2
    Asked = TRUE
    Leader = leader
    Helpers = {h1, h2}
SPECIFICATION SuiteSpec
CHECK_DEADLOCK FALSE
INVARIANTS PromptHonest ChildReaped RepliesKept CallKept ContextKept
PROPERTY NoConsentAfterCancel
