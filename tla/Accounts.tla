------------------------------- MODULE Accounts -------------------------------
(***************************************************************************)
(* Accounts as the connector creates, revokes and lists them through SCIM  *)
(* (pkg/connector/enterprise_users.go, license.go), and what the platform  *)
(* makes of it, against the mock server.  The answer to a creation may get *)
(* lost; nobody repeats it but the platform, later.  Other clients of the  *)
(* server act between the connector's calls.  Each task has a process of   *)
(* its own, so nothing is cached: what a cached answer does is the matter  *)
(* of LicenseProvisioner and ScimListing.                                  *)
(***************************************************************************)
EXTENDS ScimTestServer, ConnectorSetup

CONSTANTS
  MaxCreates,  \* bound: users created
  MaxChanges   \* bound: other changes of users and teams

ASSUME BoundsAssumption ==
  /\ UseScimApi
  /\ MaxCreates \in Nat
  /\ MaxChanges \in Nat

VARIABLES
  accounts,  \* the platform's accounts: the name it knows each id by
  licenses,  \* the license grants it knows, as pairs of license and id
  members,   \* the members it knows, of the workspace and of the teams
  file,      \* what a sync has listed of the users, as a set: {} if none goes on
  creates, changes,  \* counters for the bounds
  odd,       \* history: what has been done that the ids do not survive
  revoked,   \* history: the licenses revoked, of accounts not changed since, and
             \* who may still know better
  late       \* history: the ids created since the sync has listed the users

platform == <<accounts, licenses, members>>
counts   == <<creates, changes>>
history  == <<odd, revoked, late>>
vars     == <<server, platform, file, counts, history>>

Oddities == {"deleted", "renamed", "unknown", "doubled"}

Init ==
  /\ ServerInit
  /\ accounts = [i \in {} |-> ""]
  /\ licenses = {}
  /\ members = [workspace |-> {}, teams |-> {}]
  /\ file = {}
  /\ creates = 0
  /\ changes = 0
  /\ odd = {}
  /\ revoked = {}
  /\ late = {}

Change ==
  /\ changes < MaxChanges
  /\ changes' = changes + 1
  /\ UNCHANGED creates

-----------------------------------------------------------------------------
(* The connector. *)

\* An account the platform asks for. The form it shows (Metadata) gives the
\* license type as a list; a caller may also send a plain string.
Order == [email : {user.userName : user \in UserBodies} \cup {""}, workspaceId : {"", "1"},
          licenseForm : {"absent", "list", "string"}, licenseType : UserTypes]

\* Mutant: a list is turned into a string as it prints.
OrderedLicensePrinted(o) ==
  IF o.licenseForm = "list" THEN "[" \o o.licenseType \o "]"
  ELSE IF o.licenseForm = "string" /\ o.licenseType # "" THEN o.licenseType ELSE ViewOnly

\* The license of a new account: view-only, unless a plain string asks for
\* another.
OrderedLicense(o) ==
  IF o.licenseForm = "string" /\ o.licenseType # "" THEN o.licenseType ELSE ViewOnly

\* The platform learns the account from the answer.
CreateAccount(o) ==
  /\ creates < MaxCreates
  /\ creates' = creates + 1
  /\ Complete(o.email, o.workspaceId)
  /\ LET id == NextId(users) IN
     /\ handleCreateUser([userName |-> o.email, userType |-> OrderedLicense(o),
                          active |-> TRUE])
     /\ \/ accounts' = Put(accounts, id, o.email)
        \/ UNCHANGED accounts
     /\ revoked' = {g \in revoked : g[2] # id}
     /\ late' = late \cup {x \in {id} : file # {}}
  /\ UNCHANGED <<licenses, members, file, changes, odd>>

\* The resource a user is listed as; the rest of the profile is left out.
enterpriseUserResource(user) ==
  [login |-> user.userName, user_type |-> user.userType, enabled |-> user.active]

\* A sync, of a process that passes Validate, begins with the users: the server
\* answers with all of them, whatever page is asked for.
ListUsers ==
  /\ file = {}
  /\ \E authenticated \in BOOLEAN, answer \in ScimAnswers : Validate(authenticated, answer)
  /\ file' = {[i \in DOMAIN users |-> enterpriseUserResource(users[i])]}
  /\ UNCHANGED <<server, platform, counts, history>>

\* Grants of the users: the license of each as it was listed, active or not. A
\* type that is no license gives none.
LicenseGrants(listed) ==
  {<<listed[i].user_type, i>> : i \in DOMAIN listed} \cap ({Enterprise, ViewOnly} \X Ids)

\* Grants of the workspace and its teams, which are listed behind the users.
MemberGrants ==
  [workspace |-> WorkspaceMemberships,
   teams |-> UNION {{t} \X TeamMemberships(t) : t \in WorkspaceTeams}]

\* Who may still take a revoked license for one in force: the sync that had listed
\* its user before, then the platform that has taken over what this sync found,
\* and nobody any more after another one, or after a sync that was given up.
Stages == {"listed", "known", "gone"}
AfterEnd   == [listed |-> "known", known |-> "gone", gone |-> "gone"]
AfterAbort == [listed |-> "gone", known |-> "known", gone |-> "gone"]

Aged(after) == {<<g[1], g[2], after[g[3]]>> : g \in revoked}

\* The platform takes over what the sync has found.
EndSync ==
  /\ \E listed \in file :
       /\ accounts' = [i \in DOMAIN listed |-> listed[i].login]
       /\ licenses' = LicenseGrants(listed)
  /\ members' = MemberGrants
  /\ file' = {} /\ late' = {}
  /\ revoked' = Aged(AfterEnd)
  /\ UNCHANGED <<server, counts, odd>>

\* A request of the sync fails, and what it has listed is given up.
AbortSync ==
  /\ file # {}
  /\ file' = {} /\ late' = {}
  /\ revoked' = Aged(AfterAbort)
  /\ UNCHANGED <<server, platform, counts, odd>>

\* Mutant: whatever the license, the user is deactivated.
AfterRevokeDeactivated(l, user) ==
  IF user.userType # l THEN user ELSE [user EXCEPT !.active = FALSE]

\* What the PATCH of license.go's Revoke makes of a user: an enterprise license
\* becomes view-only, a view-only one keeps its user type and is deactivated.
AfterRevoke(l, user) ==
  IF user.userType # l THEN user
  ELSE IF l = Enterprise THEN [user EXCEPT !.userType = ViewOnly]
  ELSE [user EXCEPT !.active = FALSE]

\* The platform has a license it knows of revoked (license.go, Revoke), and
\* forgets it.
RevokeLicense(l, i) ==
  /\ <<l, i>> \in licenses
  /\ i \in DOMAIN users
  /\ handlePatchUser(i, {"userType", "active"}, AfterRevoke(l, users[i]))
  /\ licenses' = licenses \ {<<l, i>>}
  /\ revoked' = {g \in revoked : g[2] # i \/ users'[i] = users[i]}
                \cup {<<l, i, IF file = {} THEN "gone" ELSE "listed">>}
  /\ Change
  /\ UNCHANGED <<accounts, members, file, odd, late>>

-----------------------------------------------------------------------------
(* Other clients of the server. *)

CreateUser(user) ==
  /\ creates < MaxCreates
  /\ creates' = creates + 1
  /\ handleCreateUser(user)
  /\ revoked' = {g \in revoked : g[2] # NextId(users)}
  /\ late' = late \cup {x \in {NextId(users)} : file # {}}
  /\ UNCHANGED <<platform, file, changes, odd>>

Renames(id, name) == {x \in {"renamed"} : users[id].userName # name}

EditUser(id, user) ==
  /\ Change
  /\ \/ handleUpdateUser(id, user)
     \/ \E f \in {"userName", "userType", "active"} : handlePatchUser(id, {f}, user)
  /\ odd' = odd \cup Renames(id, users'[id].userName)
  /\ revoked' = {g \in revoked : g[2] # id}
  /\ UNCHANGED <<platform, file, late>>

DeleteUser(id) ==
  /\ Change
  /\ handleDeleteUser(id)
  /\ odd' = odd \cup {"deleted"}
  /\ revoked' = {g \in revoked : g[2] # id}
  /\ UNCHANGED <<platform, file, late>>

\* A list of member ids may name nobody, or somebody twice.
Slips(ids) ==
  {x \in {"unknown"} : ~(IdsIn(ids) \subseteq DOMAIN users)} \cup
  {x \in {"doubled"} : Cardinality(IdsIn(ids)) # Len(ids)}

EditTeam(team) ==
  /\ Change
  /\ \/ handleCreateTeam(team)
     \/ \E t \in DOMAIN teams :
          \/ handleUpdateTeam(t, team)
          \/ handlePatchTeam(t, "replace", team.members, team.displayName)
  /\ odd' = odd \cup Slips(team.members)
  /\ UNCHANGED <<platform, file, revoked, late>>

EditMembers(t, ids) ==
  /\ Change
  /\ \E op \in {"add", "remove"} : handlePatchTeam(t, op, ids, "")
  /\ odd' = odd \cup (Slips(ids) \ {"doubled"})
  /\ UNCHANGED <<platform, file, revoked, late>>

RenameTeam(t, name) ==
  /\ Change
  /\ handlePatchTeam(t, "rename", <<>>, name)
  /\ UNCHANGED <<platform, file, history>>

-----------------------------------------------------------------------------
Next ==
  \/ \E o \in Order : CreateAccount(o)
  \/ ListUsers \/ EndSync \/ AbortSync
  \/ \E l \in {Enterprise, ViewOnly}, i \in DOMAIN users : RevokeLicense(l, i)
  \/ \E user \in UserBodies :
       CreateUser(user) \/ \E id \in DOMAIN users : EditUser(id, user)
  \/ \E id \in DOMAIN users : DeleteUser(id)
  \/ \E team \in TeamBodies :
       \/ EditTeam(team)
       \/ \E t \in DOMAIN teams : EditMembers(t, team.members) \/ RenameTeam(t, team.displayName)

Spec == Init /\ [][Next]_vars

-----------------------------------------------------------------------------
IsMap(map, Value) == DOMAIN map \in SUBSET Ids /\ \A i \in DOMAIN map : map[i] \in Value

TypeOK ==
  /\ IsMap(users, User)
  /\ IsMap(teams, Team)
  /\ IsMap(accounts, UserNames)
  /\ licenses \subseteq UserTypes \X Ids
  /\ members.workspace \subseteq Ids /\ members.teams \subseteq Ids \X Ids
  /\ \A listed \in file : IsMap(listed, {enterpriseUserResource(user) : user \in User})
  /\ creates \in 0 .. MaxCreates
  /\ changes \in 0 .. MaxChanges
  /\ odd \subseteq Oddities
  /\ revoked \subseteq UserTypes \X Ids \X Stages
  /\ late \subseteq Ids

\* An id the platform has for an account stays that account's, through lost
\* answers, repetitions and creations by others, as long as nobody is deleted
\* or renamed: no creation gives an id away twice (main.go, "Generate a new
\* ID").
AccountsResolve ==
  odd \cap {"deleted", "renamed"} = {} =>
    \A i \in DOMAIN accounts : i \in DOMAIN users /\ users[i].userName = accounts[i]

\* However often a creation is repeated, one name has one account, as long as
\* nobody is renamed: PUT and PATCH do not compare names.
OneAccountPerName ==
  "renamed" \notin odd =>
    \A i, j \in DOMAIN users : users[i].userName = users[j].userName => i = j

\* Creating a user, by whatever client, changes no team's members as the server
\* reports them, while nobody was deleted and no request named an id nobody
\* has: no account starts with the memberships of another.
CreatedOutsideTeams ==
  [][creates' # creates /\ odd \cap {"deleted", "unknown"} = {} =>
       \A t \in DOMAIN teams :
         {users'[i].userName : i \in TeamMemberships(t)'} =
         {users[i].userName : i \in TeamMemberships(t)}]_vars

\* PATCH keeps members unique, whatever it adds, repeats and removes, as long
\* as no body lists somebody twice.
MembersUnique ==
  "doubled" \notin odd =>
    \A t \in DOMAIN teams : Cardinality(IdsIn(teams[t].members)) = Len(teams[t].members)

\* A license revoked on the platform's request is reported again by a sync that
\* begins later only if it is a view-only one, of a user who is deactivated, unless
\* somebody else changed the account: Grants goes by the user type alone. A sync
\* that was under way may bring the license back, and the next one takes it away.
RevokedOnlyDormant ==
  \A g \in revoked :
    g[3] = "gone" /\ <<g[1], g[2]>> \in licenses => g[1] = ViewOnly /\ ~users[g[2]].active

\* A sync's members are accounts of that sync, but for those created since it
\* listed the users: whoever is deleted at any moment of it, and still in a
\* team, is no member without an account.
MembersListed ==
  [][EndSync =>
       (members'.workspace \cup {g[2] : g \in members'.teams}) \subseteq DOMAIN accounts' \cup late]_vars

=============================================================================
