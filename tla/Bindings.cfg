\* Two Python threads make two calls each, of every kind, beside the receive thread.
SPECIFICATION Spec
CONSTANTS
  t1 = t1
  t2 = t2
  Threads <- Two
  Rx = rx
  None = none
  Calls = {"command", "setup", "write", "read", "control", "status", "close"}
  MaxCalls = 2
INVARIANTS
  TypeOK
  NoMutexWhileWaitingForGil
PROPERTIES
  EveryCallReturns
  ReceiverEnds
