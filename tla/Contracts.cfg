CONSTANTS
    MaxEvents = 6
    MaxGrants = 3
    MaxActs = 3
    Writers = {"w", "v"}
    MaxPhases = 4
    MaxItems = 4
    Labels <- MCLabels
SPECIFICATION SuiteSpec
CHECK_DEADLOCK FALSE
INVARIANTS HistoryKept AuthorityKept ExposureKept
