\* Line noise fills the ring before the only message arrives.
SPECIFICATION FairSpec
CONSTANTS
  Capacity = 8
  FrameLen = 6
  Bytes = {"A", "T", "CR", "LF", "0", "1", "x"}
  Chunk = 4
  Messages <- OneMessage
  Noise = {"x"}
  MaxBacklog = 8
  MaxNoise = 7
  MaxCloses = 0
CHECK_DEADLOCK FALSE
PROPERTY RetriesSucceed
