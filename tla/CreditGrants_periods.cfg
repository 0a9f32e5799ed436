SPECIFICATION FairParts
CONSTANTS
  g1 = g1  p1 = p1  p2 = p2  o1 = o1  d1 = d1  e1 = e1
  ann = ann  acme = acme  brew = brew
  Conglomerates = {g1}
  Cycles = {p1}
  Owners = {o1}
  Deliveries = {d1}
  Sessions = {e1}
  MonthLengths <- ShortSecondMonth
  Plans = {"free", "builder"}
  MaxSwitches = 2  MaxFaults = 1
  Users = {ann}
  Requests = {1, 2}
  Companies = {acme, brew}
  Limit <- TwoAndOne
  Accounts = {1, 2}
  MaxHits = 3
INVARIANTS AccountsKept
PROPERTY PaidIsCredited
CHECK_DEADLOCK FALSE
