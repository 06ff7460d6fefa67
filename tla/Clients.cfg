CONSTANTS
    MaxAsks = 2
    MaxCancels = 1
    MaxAnswers = 2
SPECIFICATION SuiteSpec
CHECK_DEADLOCK FALSE
INVARIANTS ChannelHonest ReplFaithful
