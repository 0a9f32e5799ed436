SPECIFICATION FairParts
CONSTANTS
  w1 = w1  w2 = w2  v1 = v1
  Workers = {w1, w2}
  CallsOf <- EveryTool
  MaxSteps = 2
  MaxRepeats = 2
  Recent = 3
  MaxTries = 1
  MailCap = 1
  MaxSessions = 1
  MaxResets = 1
  MaxMail = 1
  Slugs = {"acme", "api"}
  ControlPlanes = {"api"}
  Visitors = {v1}
  Submitted <- Pages
  MaxDeploys = 2
  Faults <- FaultsOf
INVARIANTS  SiteKept
PROPERTIES LoopsEnd
CHECK_DEADLOCK FALSE
