\* One thread writes a parameter, does not wait for the reply, and streams control frames;
\* the motor sends nothing but its answers.
SPECIFICATION Spec
CONSTANTS
  Protocol = "PRIVATE"
  c1 = c1
  c2 = c2
  p1 = p1
  p2 = p2
  Clients <- OneClient
  NoClient = NoClient
  Params <- OneParam
  RunMode = p1
  Raws = {0}
  NoValue = NoValue
  Ops = {"write", "send"}
  OverrunLimit = 2
  Faults = {}
  MaxCalls = 5
  MaxStray = 0
INVARIANT UnackedWithinLimit
