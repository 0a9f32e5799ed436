SPECIFICATION FairHalves
CONSTANTS
  a1 = a1  a2 = a2  w1 = w1  s1 = s1
  product1 = product1  ann = ann  bob = bob
  Campaigns = {a1, a2}
  Calls = {w1}
  Syncs = {s1}
  Budgets = {1}
  Caps = {0, 2}
  Levels = {"bounded"}
  Revenues = {0, 5}
  ThinDays = {2}
  MinSpend = 1  MaxBudget = 2  MinBudget = 1  TargetRoas = 2
  MonthLength = 2  MaxDay = 3  MaxFaults = 1  MaxCalls = 1
  Running = {a1}  FirstDay = 2
  Products = {product1}
  Orders = {ann, bob}
  ProductOf <- OneProduct
  Price = 3  Fee = 1
  Platform = {0, 9}
  MaxKeys = 2  MaxMishaps = 1
INVARIANTS AdSpendKept ShopKept
PROPERTIES AdSpendStops SalesArrive
CHECK_DEADLOCK FALSE
