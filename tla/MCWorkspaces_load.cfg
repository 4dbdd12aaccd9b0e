SPECIFICATION FairSpec
CONSTANTS
  Workspaces = {w1, w2}
  Calls = {c1, c2}
  UseServiceAccount = FALSE
  CacheOn = TRUE
  Nil = Nil
  Miss = Miss
  Unreadable = Unreadable
  Free = Free
  MaxCalls = 3
  MaxFailures = 1
  MaxChanges = 1
INVARIANTS
  TypeOK
  ListedOnce
  IInv
PROPERTIES
  OnlyGrows
  UndisturbedListing
  EveryListEnds
