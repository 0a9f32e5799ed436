SPECIFICATION FairParts
CONSTANTS
  w1 = w1
  w2 = w2
  Writers = {w1, w2}
  Companies = {acme, zeta}
  Texts = {"third_party"}
  Terminals = {acme}
  Feeds = {}
  Snapshot = 2
  Keep = 2
  Chunk = 2
  Limit = 2
  MaxCalls = 2
  MaxFaults = 1
  acme = acme
  zeta = zeta
  live = live
  Setups = {"wide", "deep"}
  Setup <- WideOrDeep
  Estimate = 80
  StandardMin = 150
  FrontierMin = 500
  MaxAttempts = 2
INVARIANTS ChainVerifies ReadersSeeTheChain CallsKept
PROPERTIES  AppendsEnd CallsEnd
