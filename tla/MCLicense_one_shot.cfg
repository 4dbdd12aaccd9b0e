SPECIFICATION FairSpec
CONSTANTS
  Users = {u1, u2}
  Slots = {s1, s2}
  AccountTypes = {"enterprise", "view only", "other"}
  Requests <- MCAllRequests
  Gone = Gone
  Miss = Miss
  NoRequest = NoRequest
  Unreadable = Unreadable
  MaxAttempts = 2
  CacheOn = TRUE
  OneShot = TRUE
  MaxTasks = 2
  MaxChanges = 0
  MaxLate = 0
PROPERTIES
  PromiseKept
  EveryTaskEnds
  OnlyViewOnlyDeprovisioned
