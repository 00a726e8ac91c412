SPECIFICATION Spec
CONSTANTS
  Texts = {t1, t2}
  NoText = NoText
  MaxId = 3
  MaxAsks = 3
  MaxDepth = 0
INVARIANTS
  CallbackGuaranteed
CHECK_DEADLOCK FALSE
