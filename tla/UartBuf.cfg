SPECIFICATION FairSpec
CONSTANTS
  Size = 5
  Byte <- const_Byte
  SOF = 3
  Frames <- const_Frames
  ReadMax = 3
  MaxFrames = 2
  MaxNoise = 1
INVARIANTS
  TypeOK
  NothingLost
PROPERTIES
  BufferIsFifo
  FramesArrive
  NeverWedged
CHECK_DEADLOCK FALSE
