\* MIT protocol: every kind of operation, and lost links, requests and replies,
\* with the threads scheduled fairly.
SPECIFICATION FairSpec
CONSTANTS
  Protocol = "MIT"
  c1 = c1
  c2 = c2
  p1 = p1
  p2 = p2
  Clients <- TwoClients
  NoClient = NoClient
  Params <- TwoParams
  RunMode = p1
  Raws = {0}
  NoValue = NoValue
  Ops = {"ping", "read", "write", "send", "disconnect"}
  OverrunLimit = 0
  Faults = {"silent", "lost", "link_down"}
  MaxCalls = 2
  MaxStray = 0
INVARIANTS
  ExpectationOwned
  ReadReturnsOwnParam
PROPERTIES
  ImplementsSlot
  EveryCallReturns
  RxExitsWhenDown
  OverrunStopsMotor
