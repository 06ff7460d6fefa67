SPECIFICATION ToolSpec
CONSTANTS
  Calls = {c1, c2}
  Sessions = {s1}
  Args = {a1}
  Policies = {d1, d2}
  CommandIds = {"bash"}
  Routes = {"contained"}
  Levels = {"strict"}
  Attended = {TRUE}
  MaxPairs = 1
  MaxTracked = 1
  MaxGrants = 1
  MaxEdits = 0
  NONE = NONE
INVARIANTS KillsOnlyItsOwn
CHECK_DEADLOCK FALSE
