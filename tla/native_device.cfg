SPECIFICATION FairSpec
CONSTANTS
  Buffers = {b1, b2, b3}
  NoBuffer = NoBuffer
  Shapes = {s1, s2}
  MaxFrames = 3
INVARIANTS
  NoWriteWhileRead
  ImageTaskFindsBuffer
  DrawnAfterFence
PROPERTIES
  ImplementsStream
CHECK_DEADLOCK FALSE
