SPECIFICATION FairSpec
CONSTANTS
  c1 = c1  c2 = c2  k1 = k1  k2 = k2  setBudget = setBudget
  Calls = {c1, c2}
  Clicks = {k1}
  Actions = {setBudget}
  Gated = {setBudget}
  Budgeted = {setBudget}
  HourLimit = 1  DayLimit = 2
  Hour = 1  Day = 3
  MaxRows = 2  MaxHits = 3  MaxClock = 3  MaxFaults = 1
INVARIANTS RateBound PendingBound PauseHalts ResolvedOnce
PROPERTY ApprovalsEnd
CHECK_DEADLOCK FALSE
