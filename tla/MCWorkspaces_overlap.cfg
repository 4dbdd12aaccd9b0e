SPECIFICATION Spec
CONSTANTS
  Workspaces = {w1, w2}
  Calls = {c1, c2}
  UseServiceAccount = FALSE
  CacheOn = TRUE
  Nil = Nil
  Miss = Miss
  Unreadable = Unreadable
  Free = Free
  MaxCalls = 2
  MaxFailures = 0
  MaxChanges = 0
INVARIANT CompleteListing
