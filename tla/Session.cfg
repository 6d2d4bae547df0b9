\* Every example and the benchmark, one frame lost, refused writes, a slow motor, and an
\* interface that may go down.
SPECIFICATION Spec
CONSTANTS
  Programs <- Everything
  Faults = {"refused", "down", "late"}
  Iterations = 3
  OverrunLimit = 1
  MaxLost = 1
  MaxLate = 1
INVARIANTS
  TypeOK
  RunsConfigured
  ControlFindsMotorReady
  StoppedAtExit
  
PROPERTIES
  ProgramEnds

