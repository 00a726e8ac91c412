SPECIFICATION SoftwareFairSpec
CONSTANTS
  Tiles = {t1, t2}
  Sizes = {s1, s2}
  Ratios = {r1, r2}
  NoSize = NoSize
  MaxFrames = 4
INVARIANTS
  CopiesNoPaintedSurface
  AcknowledgedPictureIsWhole
PROPERTIES
  ImplementsStream
CHECK_DEADLOCK FALSE
