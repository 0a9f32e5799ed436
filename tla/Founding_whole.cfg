SPECIFICATION FairFounding
CONSTANTS
  bakery = bakery  cafe = cafe
  Prompts = {bakery, cafe}
  Conglomerate <- Congs
  Slugs = {"bread"}
  SlugsOf <- SameSlug
  Configured = {"mailbox"}
  Jobs = {1, 2}
  MaxAttempts = 2
  MaxEvents = 3
INVARIANTS FoundedWhole 
CHECK_DEADLOCK FALSE
PROPERTY FoundingEnds
