SPECIFICATION Spec
CONSTANTS
  t1 = t1  t2 = t2  t3 = t3  c1 = c1  c2 = c2  h1 = h1  h2 = h2
  Tasks = {t1}
  Companies = {c1}
  CompanyOf <- CompanyOfTask
  Heartbeats = {h1}
  BeatOf <- CompanyOfBeat
  Estimate = 2
  Costs = {1, 3}
  Grant = 3
  DailyTaskCap = 1
  DailyCreditCap = 4
  MaxAttempts = 3
  OwnerRuns = FALSE
  MaxFaults = 1
  MaxRuns = 1
  MaxGrants = 0
  MaxDays = 1
INVARIANT FullRefund
