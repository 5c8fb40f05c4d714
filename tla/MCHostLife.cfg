SPECIFICATION Spec
CONSTANTS
  N = 2
  Lists <- MCLists
  CachePages = 1
  MaxWork = 2
  MaxTaken = 1
INVARIANTS ListsLieInPages CleanUnload HotPlugFollows
CHECK_DEADLOCK FALSE
