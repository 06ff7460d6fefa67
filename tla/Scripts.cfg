SPECIFICATION SuiteSpec
CHECK_DEADLOCK FALSE
INVARIANT ScriptsKept
