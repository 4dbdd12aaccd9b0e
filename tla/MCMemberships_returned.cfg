SPECIFICATION Spec
CONSTANTS
  u1 = u1
  u2 = u2
  Users = {u1, u2}
  Slots = {s1, s2}
  InitRosters <- MCInitRosters
  EarlierGrants = {}
  FlagChoices <- MCFlagChoices
  PageSize = 1
  MaxAttempts = 1
  MaxChanges = 1
  UseServiceAccount = FALSE
  UseScimApi = FALSE
  DefaultWorkspaceId = ""
INVARIANT RevocationsDispatched
