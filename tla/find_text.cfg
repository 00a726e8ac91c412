SPECIFICATION FairSpec
CONSTANTS
  Texts = {t1, t2}
  NoText = NoText
  MaxId = 3
  MaxAsks = 3
  MaxDepth = 1
INVARIANTS
  RepliesMatchUnlessNested
  CallbackOnce
PROPERTIES
  SearchIsReported
CHECK_DEADLOCK FALSE
