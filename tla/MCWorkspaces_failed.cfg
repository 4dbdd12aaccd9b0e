SPECIFICATION Spec
CONSTANTS
  Workspaces = {w1, w2}
  Calls = {c1}
  UseServiceAccount = TRUE
  CacheOn = FALSE
  Nil = Nil
  Miss = Miss
  Unreadable = Unreadable
  Free = Free
  MaxCalls = 2
  MaxFailures = 1
  MaxChanges = 0
INVARIANT CompleteListing
