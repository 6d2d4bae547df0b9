\* One thread enables and stops a motor that may answer after the timeout.
SPECIFICATION Spec
CONSTANTS
  Protocol = "PRIVATE"
  c1 = c1
  c2 = c2
  p1 = p1
  p2 = p2
  Clients <- OneClient
  NoClient = NoClient
  Params <- OneParam
  RunMode = p1
  Raws = {0}
  NoValue = NoValue
  Ops = {"enable", "stop"}
  OverrunLimit = 2
  Faults = {}
  MaxCalls = 2
  MaxStray = 0
INVARIANT StopMeansReset
