---------------------------- MODULE ScimTestServer ----------------------------
(***************************************************************************)
(* The mock of Asana that the connector is tested against                  *)
(* (cmd/baton-asana-scim-test).  Users and teams live in two maps under a  *)
(* RWMutex; a handler holds it from its first look at them to its last, so *)
(* each is one step.  A handler whose guard fails answers an error and     *)
(* changes nothing.                                                        *)
(*                                                                         *)
(* A user is kept to its name, user type and active flag: titles, name     *)
(* parts, e-mails and schemas are stored as they come.  The id in a record *)
(* is always its key: creation makes it so, PUT restores it, PATCH cannot  *)
(* reach it.                                                               *)
(***************************************************************************)
EXTENDS Integers, FiniteSets, Sequences

CONSTANTS
  NewNames,      \* user names beside those of the test data
  NewTeamNames,  \* ... and team names
  UserBodies,    \* the users and
  TeamBodies     \* the teams that requests carry

Enterprise == "enterprise"
ViewOnly   == "view only"

UserNames == {"john.doe", "jane.smith", "alex.johnson", ""} \cup NewNames
TeamNames == {"Engineering", "Product", "Marketing", ""} \cup NewTeamNames
UserTypes == {Enterprise, ViewOnly, "other", ""}

Ids  == Nat \ {0}
User == [userName : UserNames, userType : UserTypes, active : BOOLEAN]
Team == [displayName : TeamNames, members : Seq(Ids)]

ASSUME RequestsAssumption == UserBodies \subseteq User /\ TeamBodies \subseteq Team

VARIABLES users, teams  \* functions from the ids in use

server == <<users, teams>>

-----------------------------------------------------------------------------
\* addTestData.
TestUsers ==
  << [userName |-> "john.doe",     userType |-> Enterprise, active |-> TRUE],
     [userName |-> "jane.smith",   userType |-> ViewOnly,   active |-> TRUE],
     [userName |-> "alex.johnson", userType |-> "",         active |-> TRUE] >>

TestTeams ==
  << [displayName |-> "Engineering", members |-> <<1>>],
     [displayName |-> "Product",     members |-> <<2>>],
     [displayName |-> "Marketing",   members |-> <<>>] >>

ServerInit == users = TestUsers /\ teams = TestTeams

\* A map with an entry more, or replaced.
Put(map, id, value) ==
  [i \in DOMAIN map \cup {id} |-> IF i = id THEN value ELSE map[i]]

\* Mutant: off by one.
NextIdCounting(map) == Cardinality(DOMAIN map)

\* The id of a new entry.
NextId(map) == Cardinality(DOMAIN map) + 1

-----------------------------------------------------------------------------
(* Users. *)

\* Mutant: names are not compared.
NameTakenNever(name) == FALSE

NameTaken(name) == \E i \in DOMAIN users : users[i].userName = name

handleCreateUser(user) ==
  /\ user.userName # ""
  /\ ~NameTaken(user.userName)
  /\ users' = Put(users, NextId(users),
                  [user EXCEPT !.userType = IF @ = "" THEN Enterprise ELSE @])
  /\ UNCHANGED teams

\* The names are not compared again.
handleUpdateUser(id, user) ==
  /\ id \in DOMAIN users
  /\ users' = [users EXCEPT ![id] = user]
  /\ UNCHANGED teams

\* The operations of a PATCH replace some of the fields.
handlePatchUser(id, fields, user) ==
  /\ id \in DOMAIN users
  /\ users' = [users EXCEPT ![id] =
       [f \in DOMAIN @ |-> IF f \in fields THEN user[f] ELSE @[f]]]
  /\ UNCHANGED teams

\* Teams keep the id of a user who is deleted.
handleDeleteUser(id) ==
  /\ id \in DOMAIN users
  /\ users' = [i \in DOMAIN users \ {id} |-> users[i]]
  /\ UNCHANGED teams

-----------------------------------------------------------------------------
(* Teams. The ids in a request are not looked up among the users. *)

IdsIn(members) == {members[k] : k \in DOMAIN members}

\* The members of a request's body are kept as they are.
handleCreateTeam(team) ==
  /\ team.displayName # ""
  /\ \A t \in DOMAIN teams : teams[t].displayName # team.displayName
  /\ teams' = Put(teams, NextId(teams), team)
  /\ UNCHANGED users

handleUpdateTeam(t, team) ==
  /\ t \in DOMAIN teams
  /\ teams' = [teams EXCEPT ![t] = team]
  /\ UNCHANGED users

\* Mutant: members are added without a look at who is there.
AddedBlindly(members, ids) == members \o ids

\* Members in the order of the request, those who are there left out.
Added(members, ids) ==
  LET added[k \in 0 .. Len(ids)] ==
        IF k = 0 THEN members
        ELSE IF ids[k] \in IdsIn(added[k - 1]) THEN added[k - 1]
        ELSE Append(added[k - 1], ids[k])
  IN  added[Len(ids)]

\* The members in their order, those of the request left out.
Removed(members, ids) ==
  LET kept[k \in 0 .. Len(members)] ==
        IF k = 0 THEN <<>>
        ELSE IF members[k] \in IdsIn(ids) THEN kept[k - 1]
        ELSE Append(kept[k - 1], members[k])
  IN  kept[Len(members)]

\* A PATCH of a team, one operation.
handlePatchTeam(t, op, ids, name) ==
  /\ t \in DOMAIN teams
  /\ LET team == teams[t] IN
     teams' = [teams EXCEPT ![t] =
       CASE op = "add"     -> [team EXCEPT !.members = Added(team.members, ids)]
         [] op = "remove"  -> [team EXCEPT !.members = Removed(team.members, ids)]
         [] op = "replace" -> [team EXCEPT !.members = ids]
         [] op = "rename"  -> [team EXCEPT !.displayName = name]]
  /\ UNCHANGED users

-----------------------------------------------------------------------------
(* What the REST endpoints list, of any workspace. Of neither are there more  *)
(* than the fifty of a page.                                                 *)

\* Every user is an active member.
WorkspaceMemberships == DOMAIN users

WorkspaceTeams == DOMAIN teams

\* Mutant: members who are no users are listed too.
TeamMembershipsAll(t) == IdsIn(teams[t].members)

\* Members who are no users are skipped.
TeamMemberships(t) == IdsIn(teams[t].members) \cap DOMAIN users

=============================================================================
