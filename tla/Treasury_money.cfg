SPECIFICATION FairSpec
CONSTANTS
  c1 = c1  c2 = c2  p1 = p1  p2 = p2  w1 = w1  w2 = w2
  Companies = {c1, c2}
  Heartbeats = {h1, h2}
  Payments = {p1, p2}
  SoldBy <- SellerOf
  Net <- NetOf
  Withdrawals = {w1}
  DrawnFrom <- FromC1
  Amount <- AmountOf
  Fee <- FeeOf
  Grant = 2
  Estimate = 2
  MinCents = 2
  TargetCents = 2
  CapCents = 2
  MaxAttempts = 2
  ConcurrentDeliveries = FALSE
  ReadyChanges = TRUE
  MaxCopies = 2
  MaxFaults = 1
  MaxTimeouts = 1
  MaxSpends = 1
 
PROPERTIES WithdrawalsEnd
