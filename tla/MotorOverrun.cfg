\* PRIVATE protocol: two threads send control frames while
\* replies, one of them unsolicited, come in.
SPECIFICATION Spec
CONSTANTS
  Protocol = "PRIVATE"
  c1 = c1
  c2 = c2
  p1 = p1
  p2 = p2
  Clients <- TwoClients
  NoClient = NoClient
  Params <- TwoParams
  RunMode = p1
  Raws = {0}
  NoValue = NoValue
  Ops = {"send"}
  OverrunLimit = 1
  Faults = {"write_error"}
  MaxCalls = 6
  MaxStray = 1
SYMMETRY ClientSymmetry
INVARIANTS
  TypeOK
  CounterBounds
  StreakBounded
