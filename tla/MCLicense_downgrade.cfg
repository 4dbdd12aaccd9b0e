SPECIFICATION Spec
CONSTANTS
  Users = {u1}
  Slots = {s1}
  AccountTypes = {"enterprise", "view only", "other"}
  Requests <- MCRequests
  Gone = Gone
  Miss = Miss
  NoRequest = NoRequest
  Unreadable = Unreadable
  MaxAttempts = 1
  CacheOn = TRUE
  OneShot = FALSE
  MaxTasks = 3
  MaxChanges = 0
  MaxLate = 0
PROPERTY GrantNeverDowngrades
