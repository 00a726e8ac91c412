SPECIFICATION Spec
CONSTANTS
  Docs = {d1, d2}
  NPages = 3
  Sizes = {1, 2}
  MaxLoads = 2
  Window = 2
  PageCacheLimit = 1
  MaxChanges = 3
INVARIANTS
  RequestsAccounted
  CacheCurrentOrOvertaken
PROPERTIES
  ViewSettles
