SPECIFICATION Spec
CONSTANTS
  MaxLinks = 1
  MaxSaves = 2
  MaxQueue = 2
INVARIANTS
  EveryCallbackAnswered
  AgreeWhenQuiet
PROPERTIES
  CompletionsArrive
CHECK_DEADLOCK FALSE
