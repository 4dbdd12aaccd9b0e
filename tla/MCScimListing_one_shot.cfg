SPECIFICATION FairSpec
CONSTANTS
  Users = {u1, u2, u3}
  PageSize = 1
  CacheOn = TRUE
  OneShot = TRUE
  None = None
  Unreadable = Unreadable
  MaxSyncs = 1
  MaxFails = 2
  MaxJoins = 1
  MaxLeaves = 1
INVARIANTS
  TypeOK
  SteadyListed
PROPERTY ListingEnds
