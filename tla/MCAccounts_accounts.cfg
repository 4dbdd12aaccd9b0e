SPECIFICATION Spec
CONSTANTS
  NewNames = {"new.hire"}
  NewTeamNames = {"Design"}
  UserBodies <- MCUserBodies
  TeamBodies <- MCTeamBodies
  UseServiceAccount = TRUE
  UseScimApi = TRUE
  DefaultWorkspaceId = ""
  MaxCreates = 2
  MaxChanges = 2
INVARIANTS
  TypeOK
  AccountsResolve
  OneAccountPerName
  MembersUnique
  RevokedOnlyDormant
PROPERTIES
  CreatedOutsideTeams
  MembersListed
