SPECIFICATION LoadSpec
CONSTANT Full = 2
INVARIANTS
  EveryLoadFinishes
PROPERTIES
  SignalsInOrder
  SuccessIsALoadedDocument
  ErrorPageIsAFailure
