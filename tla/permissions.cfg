SPECIFICATION Spec
CONSTANTS
  Frames <- MCFrames
  OriginOf <- MCOriginOf
  PageOf <- MCPageOf
  Asked <- MCAsked
  MaxRequests = 2
  MaxDecisions = 1
INVARIANTS
  GivenWasAllowed
  NobodyStranded
PROPERTIES
  AnsweredOnce
  QueuesDrain
CHECK_DEADLOCK FALSE
