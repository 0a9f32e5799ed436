SPECIFICATION FairSpec
CONSTANTS
  t1 = t1  t2 = t2  t3 = t3  c1 = c1  c2 = c2  h1 = h1  h2 = h2
  Tasks = {t1, t2}
  Companies = {c1}
  CompanyOf <- CompanyOfTask
  Heartbeats = {h1}
  BeatOf <- CompanyOfBeat
  Estimate = 2
  Costs = {1, 3}
  Grant = 5
  DailyTaskCap = 1
  DailyCreditCap = 4
  MaxAttempts = 3
  OwnerRuns = FALSE
  MaxFaults = 2
  MaxRuns = 1
  MaxGrants = 1
  MaxDays = 1
INVARIANTS Billed LimitsHold
PROPERTIES DoneIsFinal BillsOnce EverythingEnds
