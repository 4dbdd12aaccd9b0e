SPECIFICATION Spec
CONSTANTS
  Users = {u1}
  Slots = {s1, s2}
  AccountTypes = {"enterprise", "view only"}
  Requests <- MCRequests
  Gone = Gone
  Miss = Miss
  NoRequest = NoRequest
  Unreadable = Unreadable
  MaxAttempts = 1
  CacheOn = FALSE
  OneShot = FALSE
  MaxTasks = 2
  MaxChanges = 0
  MaxLate = 0
PROPERTY OnlyViewOnlyDeprovisioned
