SPECIFICATION FairHalves
CONSTANTS
  page = page  page2 = page2  chat = chat  acme = acme  zeta = zeta  price = price
  Titles = {page, page2}
  Near <- Reworded
  OldTask = page
  OldPriority = 0
  Priorities = {1}
  Chats = {chat}
  Missions = {"sell", "rent"}
  DailyCap = 1
  AgingCap = 0
  MaxPlan = 1
  MaxPlanAttempts = 2
  MaxQueue = 2
  MaxPlanFaults = 2
  Learners = {acme, zeta}
  Texts = {price}
  InitialScore = 2
  DecayNum = 1  DecayDen = 2
  Floor = 1
  Bumps <- GoodAndBadDays
  PromoteScore = 3  PromoteWins = 1
  MergeReward = 1
  MaxRows = 3  MaxBeats = 1  MaxDay = 2  MaxMishaps = 1
 
PROPERTIES LearningKept PlanningNeverBlocksHere
CHECK_DEADLOCK FALSE
