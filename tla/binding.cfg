SPECIFICATION FairSpec
CONSTANTS
  MaxBindings = 3
  MaxJobs = 2
INVARIANTS
  HandleProtects
  NoBindingLeaks
  CleanupStaysDone
PROPERTIES
  UnbindReturns
CHECK_DEADLOCK FALSE
