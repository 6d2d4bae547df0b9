\* Two motors of the same or of different protocols, every command at boundary values.
SPECIFICATION Spec
CONSTANTS
  Configurations <- Buses
  Requests <- Calls
  Reports <- Values
  Strays <- Others
  MaxRequests = 3
  MaxUnderWay = 2
INVARIANTS
  TypeOK
  RequestsUnderstood
  RepliesRecognised
  StatusIsReported
PROPERTIES
  OnlyFromSender
  ParsesAsProtocol
