\* A burst of four messages overflows the ring in the middle of a frame.
SPECIFICATION Spec
CONSTANTS
  Capacity = 16
  FrameLen = 6
  Bytes = {"A", "T", "CR", "LF", "0", "1", "2", "3", "4"}
  Chunk = 8
  Messages <- FourMessages
  Noise = {}
  MaxBacklog = 24
  MaxNoise = 0
  MaxCloses = 0
CHECK_DEADLOCK FALSE
INVARIANT NothingSpliced
