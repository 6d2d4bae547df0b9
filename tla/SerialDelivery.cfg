\* Two messages, noise and a reconnection, with bursts larger than the ring.
SPECIFICATION FairSpec
CONSTANTS
  Capacity = 8
  FrameLen = 6
  Bytes = {"A", "T", "CR", "LF", "0", "2", "x"}
  Chunk = 4
  Messages <- TwoMessages
  Noise = {"x"}
  MaxBacklog = 8
  MaxNoise = 1
  MaxCloses = 1
CHECK_DEADLOCK FALSE
INVARIANTS
  TypeOK
  DeliveredInOrder
  DeliveredOneByOne
PROPERTIES
  ImplementsQueue
  EveryMessageDelivered
