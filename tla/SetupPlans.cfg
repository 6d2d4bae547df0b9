\* Two threads, every mode, and writes that fail or get lost.
SPECIFICATION Spec
CONSTANTS
  Clients = {c1, c2}
  Calls <- EveryMode
  Faults = {"write_error", "link_down", "lost"}
  MaxCalls = 2
INVARIANTS
  TypeOK
  SuccessConfigures
  ModeBeforeLimits
