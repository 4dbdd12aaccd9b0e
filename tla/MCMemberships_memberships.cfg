SPECIFICATION FairSpec
CONSTANTS
  u1 = u1
  u2 = u2
  Users = {u1, u2}
  Slots = {s1}
  InitRosters <- MCInitRosters
  EarlierGrants = {u2}
  FlagChoices <- MCFlagChoices
  PageSize = 1
  MaxAttempts = 1
  MaxChanges = 1
  UseServiceAccount = FALSE
  UseScimApi = FALSE
  DefaultWorkspaceId = ""
INVARIANTS
  TypeOK
  IsolatedTaskCorrect
  RejectedUnchanged
  SteadySynced
PROPERTIES
  ImmutableKept
  TaskEnds
  SyncEnds
