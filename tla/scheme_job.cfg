SPECIFICATION Spec
CONSTANTS
  MaxHops = 2
  Size = 2
  Capacity = 1
  Ranges <- MCRanges
INVARIANTS
  DeviceOutlivesUse
  
PROPERTIES
  LoaderKeepsProtocol
  EveryAnswerEnds
  JobsReleased
CHECK_DEADLOCK FALSE
