SPECIFICATION Spec
CONSTANTS
  Users = {u1}
  Slots = {s1, s2}
  AccountTypes = {"enterprise", "view only"}
  Requests <- MCRequests
  Gone = Gone
  Miss = Miss
  NoRequest = NoRequest
  Unreadable = Unreadable
  MaxAttempts = 1
  CacheOn = TRUE
  OneShot = FALSE
  MaxTasks = 2
  MaxChanges = 1
  MaxLate = 1
SYMMETRY MCSymmetry
INVARIANTS
  TypeOK
  IsolatedTaskCorrect
  IInv
PROPERTY GrantNeverDowngrades
