SPECIFICATION Spec
CONSTANTS
  MaxStreams = 2
  MaxNotices = 2
  MaxSteps = 4
INVARIANTS
  VisibleAsShown
  AwakeWhileHeld
  RecommendationCurrent
PROPERTIES
  FollowerSettles
