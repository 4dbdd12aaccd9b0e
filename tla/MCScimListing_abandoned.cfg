SPECIFICATION Spec
CONSTANTS
  Users = {u1, u2, u3}
  PageSize = 2
  CacheOn = TRUE
  OneShot = FALSE
  None = None
  Unreadable = Unreadable
  MaxSyncs = 2
  MaxFails = 1
  MaxJoins = 1
  MaxLeaves = 0
INVARIANT SteadyListed
