\* Two threads set up the speed mode, with different limits, of a motor that gets every write.
SPECIFICATION Spec
CONSTANTS
  Clients = {c1, c2}
  Calls <- TwoSpeeds
  Faults = {}
  MaxCalls = 2
INVARIANT SetupsNotInterleaved
