---------------------------- MODULE AccountsProofs ----------------------------
(***************************************************************************)
(* Theorems about Accounts, for any names, requests and bounds: what the   *)
(* platform knows of accounts and licenses survives creations, edits and   *)
(* syncs in any order.  Teams are left to TeamsProofs.                      *)
(***************************************************************************)
EXTENDS Accounts, FiniteSetTheorems, TLAPS

-----------------------------------------------------------------------------
(* The inductive invariant. *)

UsersTyped ==
  /\ DOMAIN users \subseteq Ids
  /\ IsFiniteSet(DOMAIN users)
  /\ \A i \in DOMAIN users : users[i] \in User

\* While nobody is deleted the ids in use have no gaps, so that the next one,
\* their number and one, is free.
NoGaps == "deleted" \notin odd => DOMAIN users = 1 .. Cardinality(DOMAIN users)

IsUser(i, name) == i \in DOMAIN users /\ users[i].userName = name

\* What a sync has listed resolves as what the platform knows does.
ListedResolve ==
  odd \cap {"deleted", "renamed"} = {} =>
    \A listed \in file : \A i \in DOMAIN listed : IsUser(i, listed[i].login)

\* Who is there has been listed, or was created since.
AllListed == \A listed \in file : DOMAIN users \subseteq DOMAIN listed \cup late

Dormant(g) == g[1] = ViewOnly /\ ~users[g[2]].active

Grant(g) == <<g[1], g[2]>>

\* The sync that goes on has found a license.
Found(grant) == \E listed \in file : grant \in LicenseGrants(listed)

\* A revoked license is that of a user who has another one, or is dormant; the
\* platform knows it only if it is dormant, or was brought back; and a sync has
\* found it only if it is dormant, or was listed before.
RevokedGone ==
  \A g \in revoked :
    /\ g[3] \in Stages /\ g[2] \in DOMAIN users
    /\ g[3] = "listed" => file # {}
    /\ users[g[2]].userType = g[1] => Dormant(g)
    /\ g[3] # "known" /\ Grant(g) \in licenses => Dormant(g)
    /\ g[3] # "listed" /\ Found(Grant(g)) => Dormant(g)

IInv ==
  /\ UsersTyped /\ NoGaps
  /\ AccountsResolve /\ ListedResolve /\ OneAccountPerName
  /\ AllListed /\ RevokedGone

-----------------------------------------------------------------------------
(* Steps that change users. *)

\* The id of a new user, and the user.
LEMMA CreatedFacts ==
  ASSUME IInv, NEW user \in User, handleCreateUser(user), NEW id, id = NextId(users)
  PROVE  /\ id \in Ids
         /\ DOMAIN users' = DOMAIN users \cup {id}
         /\ users'[id] \in User
         /\ users'[id].userName = user.userName
         /\ \A i \in DOMAIN users : i # id => users'[i] = users[i]
         /\ \A i \in DOMAIN users : users[i].userName # user.userName
         /\ "deleted" \notin odd => id \notin DOMAIN users
<1> DEFINE n == Cardinality(DOMAIN users)
           new == [user EXCEPT !.userType = IF @ = "" THEN Enterprise ELSE @]
<1>1. n \in Nat
  BY FS_CardinalityType DEF IInv, UsersTyped
<1>2. id = n + 1
  BY DEF NextId
<1> HIDE DEF n
<1>3. id \in Ids
  BY <1>1, <1>2 DEF Ids
<1>4. users' = Put(users, id, new)
  BY DEF handleCreateUser
<1>5. new \in User /\ new.userName = user.userName
  BY DEF User, UserTypes, Enterprise
<1> HIDE DEF new
<1>6. /\ DOMAIN users' = DOMAIN users \cup {id}
      /\ users'[id] = new
      /\ \A i \in DOMAIN users : i # id => users'[i] = users[i]
  BY <1>4 DEF Put
<1>7. \A i \in DOMAIN users : users[i].userName # user.userName
  BY DEF handleCreateUser, NameTaken
<1>8. "deleted" \notin odd => id \notin DOMAIN users
  <2>1. id \notin 1 .. n
    BY <1>1, <1>2
  <2> QED BY <2>1 DEF IInv, NoGaps, n
<1> QED BY <1>3, <1>5, <1>6, <1>7, <1>8

\* The users there were keep their names, and what is known of them holds.
LEMMA CreateStep ==
  ASSUME IInv, NEW user \in User, handleCreateUser(user), NEW id, id = NextId(users),
         accounts' \in {accounts, Put(accounts, id, user.userName)},
         revoked' = {g \in revoked : g[2] # id},
         late' = late \cup {x \in {id} : file # {}},
         UNCHANGED <<licenses, file, odd>>
  PROVE  IInv'
<1>1. /\ id \in Ids
      /\ DOMAIN users' = DOMAIN users \cup {id}
      /\ users'[id] \in User
      /\ users'[id].userName = user.userName
      /\ \A i \in DOMAIN users : i # id => users'[i] = users[i]
      /\ \A i \in DOMAIN users : users[i].userName # user.userName
      /\ "deleted" \notin odd => id \notin DOMAIN users
  BY CreatedFacts
<1>2. UsersTyped'
  <2>1. IsFiniteSet(DOMAIN users')
    BY <1>1, FS_AddElement DEF IInv, UsersTyped
  <2> QED BY <1>1, <2>1 DEF IInv, UsersTyped
<1>3. NoGaps'
  <2> SUFFICES ASSUME "deleted" \notin odd
               PROVE  DOMAIN users' = 1 .. Cardinality(DOMAIN users')
    BY DEF NoGaps
  <2> DEFINE n == Cardinality(DOMAIN users)
  <2>1. n \in Nat /\ IsFiniteSet(DOMAIN users)
    BY FS_CardinalityType DEF IInv, UsersTyped
  <2>2. Cardinality(DOMAIN users') = n + 1
    BY <1>1, <2>1, FS_AddElement
  <2>3. id = n + 1
    BY DEF NextId
  <2>4. DOMAIN users = 1 .. n
    BY DEF IInv, NoGaps
  <2> HIDE DEF n
  <2>5. (1 .. n) \cup {n + 1} = 1 .. n + 1
    BY <2>1
  <2> QED BY <1>1, <2>2, <2>3, <2>4, <2>5
<1>4. ASSUME odd \cap {"deleted", "renamed"} = {}, NEW i, NEW name, IsUser(i, name)
      PROVE  IsUser(i, name)'
  BY <1>1, <1>4 DEF IsUser
<1>5. AccountsResolve'
  <2> SUFFICES ASSUME odd \cap {"deleted", "renamed"} = {}, NEW i \in DOMAIN accounts'
               PROVE  i \in DOMAIN users' /\ users'[i].userName = accounts'[i]
    BY DEF AccountsResolve
  <2>1. CASE i \in DOMAIN accounts /\ accounts'[i] = accounts[i]
    <3>1. IsUser(i, accounts[i])
      BY <2>1 DEF IInv, AccountsResolve, IsUser
    <3> QED BY <1>1, <2>1, <3>1 DEF IsUser
  <2>2. CASE ~(i \in DOMAIN accounts /\ accounts'[i] = accounts[i])
    <3>1. i = id /\ accounts'[i] = user.userName
      BY <2>2 DEF Put
    <3> QED BY <1>1, <3>1
  <2> QED BY <2>1, <2>2
<1>6. ListedResolve'
  BY <1>4 DEF IInv, ListedResolve
<1>7. OneAccountPerName'
  BY <1>1 DEF IInv, OneAccountPerName
<1>8. AllListed'
  BY <1>1 DEF IInv, AllListed
<1>9. RevokedGone'
  <2> SUFFICES ASSUME NEW g \in revoked, g[2] # id
               PROVE  /\ g[3] \in Stages /\ g[2] \in DOMAIN users'
                      /\ g[3] = "listed" => file # {}
                      /\ users'[g[2]].userType = g[1] => Dormant(g)'
                      /\ g[3] # "known" /\ Grant(g) \in licenses => Dormant(g)'
                      /\ g[3] # "listed" /\ Found(Grant(g)) => Dormant(g)'
    BY DEF RevokedGone, Found
  <2>1. g[2] \in DOMAIN users /\ users'[g[2]] = users[g[2]]
    BY <1>1 DEF IInv, RevokedGone
  <2> QED BY <1>1, <2>1 DEF IInv, RevokedGone, Dormant
<1> QED BY <1>2, <1>3, <1>5, <1>6, <1>7, <1>8, <1>9 DEF IInv

LEMMA CreateAccountStep ==
  ASSUME IInv, NEW o \in Order, CreateAccount(o)
  PROVE  IInv'
<1> DEFINE user == [userName |-> o.email, userType |-> OrderedLicense(o), active |-> TRUE]
<1>1. o.email \in UserNames /\ o.licenseType \in UserTypes
  BY RequestsAssumption DEF Order, User, UserNames
<1>2. OrderedLicense(o) \in UserTypes
  BY <1>1 DEF OrderedLicense, UserTypes, ViewOnly
<1>3. user \in User /\ user.userName = o.email
  BY <1>1, <1>2 DEF User
<1>4. /\ handleCreateUser(user)
      /\ accounts' \in {accounts, Put(accounts, NextId(users), o.email)}
      /\ revoked' = {g \in revoked : g[2] # NextId(users)}
      /\ late' = late \cup {x \in {NextId(users)} : file # {}}
      /\ UNCHANGED <<licenses, file, odd>>
  BY DEF CreateAccount
<1> HIDE DEF user
<1> QED BY <1>3, <1>4, CreateStep

LEMMA CreateUserStep ==
  ASSUME IInv, NEW user \in UserBodies, CreateUser(user)
  PROVE  IInv'
<1>1. user \in User
  BY RequestsAssumption
<1>2. /\ handleCreateUser(user)
      /\ revoked' = {g \in revoked : g[2] # NextId(users)}
      /\ late' = late \cup {x \in {NextId(users)} : file # {}}
      /\ UNCHANGED <<accounts, licenses, file, odd>>
  BY DEF CreateUser, platform
<1> QED BY <1>1, <1>2, CreateStep

\* A license that is remembered as revoked when a user changes: an old one of
\* somebody else, or of a user this leaves as he was, or the one revoked now.
Remembered(g, id, new) ==
  \/ g \in revoked /\ (g[2] # id \/ new = users[id])
  \/ /\ g[2] = id /\ (new.userType = g[1] => g[1] = ViewOnly /\ ~new.active)
     /\ Grant(g) \notin licenses'
     /\ g[3] \in {"listed", "gone"} /\ (g[3] = "listed" <=> file # {})

\* Who is changed keeps his id, and his name unless that is remembered; what was
\* revoked of him is forgotten, but for what this step revokes.
LEMMA ChangeStep ==
  ASSUME IInv, NEW id \in DOMAIN users, NEW new \in User,
         users' = [users EXCEPT ![id] = new],
         odd \subseteq odd', "deleted" \in odd' => "deleted" \in odd,
         "renamed" \notin odd' => new.userName = users[id].userName,
         licenses' \subseteq licenses,
         \A g \in revoked' : Remembered(g, id, new),
         UNCHANGED <<accounts, file, late>>
  PROVE  IInv'
<1>1. /\ DOMAIN users' = DOMAIN users
      /\ users'[id] = new
      /\ \A i \in DOMAIN users : i # id => users'[i] = users[i]
  OBVIOUS
<1>2. UsersTyped' /\ NoGaps'
  BY <1>1 DEF IInv, UsersTyped, NoGaps
<1>3. "renamed" \notin odd' => \A i \in DOMAIN users : users'[i].userName = users[i].userName
  BY <1>1
<1>4. AccountsResolve' /\ ListedResolve'
  BY <1>1, <1>3 DEF IInv, AccountsResolve, ListedResolve, IsUser
<1>5. OneAccountPerName'
  BY <1>1, <1>3 DEF IInv, OneAccountPerName
<1>6. AllListed'
  BY <1>1 DEF IInv, AllListed
<1>7. RevokedGone'
  <2> SUFFICES ASSUME NEW g \in revoked'
               PROVE  /\ g[3] \in Stages /\ g[2] \in DOMAIN users'
                      /\ g[3] = "listed" => file # {}
                      /\ users'[g[2]].userType = g[1] => Dormant(g)'
                      /\ g[3] # "known" /\ Grant(g) \in licenses' => Dormant(g)'
                      /\ g[3] # "listed" /\ Found(Grant(g)) => Dormant(g)'
    BY DEF RevokedGone, Found
  <2>1. CASE g \in revoked /\ (g[2] # id \/ new = users[id])
    <3>1. g[2] \in DOMAIN users /\ users'[g[2]] = users[g[2]]
      BY <1>1, <2>1 DEF IInv, RevokedGone
    <3> QED BY <1>1, <2>1, <3>1 DEF IInv, RevokedGone, Dormant
  <2>2. CASE ~(g \in revoked /\ (g[2] # id \/ new = users[id]))
    BY <1>1, <2>2 DEF Remembered, Dormant, Found, Stages
  <2> QED BY <2>1, <2>2
<1> QED BY <1>2, <1>4, <1>5, <1>6, <1>7 DEF IInv

\* A user with some of the fields of another.
Patched(old, fields, user) == [f \in DOMAIN old |-> IF f \in fields THEN user[f] ELSE old[f]]

\* A PATCH leaves a user a user, and alone what it does not name.
LEMMA PatchFacts ==
  ASSUME NEW old \in User, NEW user \in User, NEW fields
  PROVE  LET new == Patched(old, fields, user)
         IN  /\ new \in User
             /\ new.userName = IF "userName" \in fields THEN user.userName ELSE old.userName
             /\ new.userType = IF "userType" \in fields THEN user.userType ELSE old.userType
             /\ new.active = IF "active" \in fields THEN user.active ELSE old.active
<1> DEFINE new == Patched(old, fields, user)
<1>1. DOMAIN old = {"userName", "userType", "active"}
  BY DEF User
<1>2. /\ old.userName \in UserNames /\ old.userType \in UserTypes /\ old.active \in BOOLEAN
      /\ user.userName \in UserNames /\ user.userType \in UserTypes /\ user.active \in BOOLEAN
  BY DEF User
<1>3. new = [userName |-> new.userName, userType |-> new.userType, active |-> new.active]
  BY <1>1 DEF Patched
<1>4. /\ new.userName = IF "userName" \in fields THEN user.userName ELSE old.userName
      /\ new.userType = IF "userType" \in fields THEN user.userType ELSE old.userType
      /\ new.active = IF "active" \in fields THEN user.active ELSE old.active
  BY <1>1 DEF Patched
<1> HIDE DEF new
<1>5. new \in User
  BY <1>2, <1>3, <1>4 DEF User
<1> QED BY <1>4, <1>5 DEF new

LEMMA EditUserStep ==
  ASSUME IInv, NEW user \in UserBodies, NEW id \in DOMAIN users, EditUser(id, user)
  PROVE  IInv'
<1>1. user \in User /\ users[id] \in User
  BY RequestsAssumption DEF IInv, UsersTyped
<1>2. PICK new \in User : users' = [users EXCEPT ![id] = new]
  <2>1. CASE handleUpdateUser(id, user)
    BY <1>1, <2>1 DEF handleUpdateUser
  <2>2. CASE \E f \in {"userName", "userType", "active"} : handlePatchUser(id, {f}, user)
    <3>1. PICK f \in {"userName", "userType", "active"} : handlePatchUser(id, {f}, user)
      BY <2>2
    <3> DEFINE new == Patched(users[id], {f}, user)
    <3>2. users' = [users EXCEPT ![id] = new]
      BY <3>1 DEF handlePatchUser, Patched
    <3>3. new \in User
      BY <1>1, PatchFacts
    <3> QED BY <3>2, <3>3
  <2> QED BY <2>1, <2>2 DEF EditUser
<1>3. users'[id] = new
  BY <1>2
<1>4. /\ odd' = odd \cup Renames(id, users'[id].userName)
      /\ revoked' = {g \in revoked : g[2] # id}
      /\ UNCHANGED <<accounts, licenses, file, late>>
  BY DEF EditUser, platform
<1>5. /\ odd \subseteq odd'
      /\ "deleted" \in odd' => "deleted" \in odd
      /\ "renamed" \notin odd' => new.userName = users[id].userName
  BY <1>3, <1>4 DEF Renames
<1>6. \A g \in revoked' : Remembered(g, id, new)
  BY <1>4 DEF Remembered
<1> QED BY <1>2, <1>4, <1>5, <1>6, ChangeStep

LEMMA RevokeLicenseStep ==
  ASSUME IInv, NEW l \in {Enterprise, ViewOnly}, NEW i \in DOMAIN users, RevokeLicense(l, i)
  PROVE  IInv'
<1> DEFINE after == AfterRevoke(l, users[i])
           fields == {"userType", "active"}
           new == Patched(users[i], fields, after)
<1>1. users[i] \in User
  BY DEF IInv, UsersTyped
<1>2. /\ after \in User
      /\ after.userType = l => l = ViewOnly /\ ~after.active
  <2>1. CASE users[i].userType # l
    BY <1>1, <2>1 DEF AfterRevoke
  <2>2. CASE users[i].userType = l /\ l = Enterprise
    <3>1. after = [users[i] EXCEPT !.userType = ViewOnly]
      BY <2>2 DEF AfterRevoke
    <3>2. after \in User /\ after.userType = ViewOnly
      BY <1>1, <3>1 DEF User, UserTypes
    <3> QED BY <2>2, <3>2 DEF Enterprise, ViewOnly
  <2>3. CASE users[i].userType = l /\ l # Enterprise
    <3>1. after = [users[i] EXCEPT !.active = FALSE]
      BY <2>3 DEF AfterRevoke
    <3> QED BY <1>1, <2>3, <3>1 DEF User
  <2> QED BY <2>1, <2>2, <2>3
<1>3. users' = [users EXCEPT ![i] = new]
  BY DEF RevokeLicense, handlePatchUser, Patched
<1> HIDE DEF after
<1>4. /\ new \in User
      /\ new.userName = users[i].userName
      /\ new.userType = after.userType
      /\ new.active = after.active
  BY <1>1, <1>2, PatchFacts
<1> HIDE DEF new
<1>5. users'[i] = new
  BY <1>3
<1>6. /\ licenses' = licenses \ {<<l, i>>}
      /\ revoked' = {g \in revoked : g[2] # i \/ users'[i] = users[i]}
                    \cup {<<l, i, IF file = {} THEN "gone" ELSE "listed">>}
      /\ UNCHANGED <<accounts, file, odd, late>>
  BY DEF RevokeLicense
<1>7. ASSUME NEW g \in revoked'
      PROVE  Remembered(g, i, new)
  <2>1. CASE g \in revoked /\ (g[2] # i \/ users'[i] = users[i])
    BY <1>5, <2>1 DEF Remembered
  <2>2. CASE g = <<l, i, IF file = {} THEN "gone" ELSE "listed">>
    <3>1. g[1] = l /\ g[2] = i /\ g[3] = IF file = {} THEN "gone" ELSE "listed"
      BY <2>2
    <3> QED BY <1>2, <1>4, <1>6, <3>1 DEF Grant, Remembered
  <2> QED BY <1>6, <2>1, <2>2
<1>8. licenses' \subseteq licenses /\ UNCHANGED <<accounts, file, odd, late>>
  BY <1>6
<1> QED BY <1>3, <1>4, <1>7, <1>8, ChangeStep

LEMMA DeleteUserStep ==
  ASSUME IInv, NEW id \in DOMAIN users, DeleteUser(id)
  PROVE  IInv'
<1>1. /\ users' = [i \in DOMAIN users \ {id} |-> users[i]]
      /\ "deleted" \in odd'
      /\ "renamed" \in odd' <=> "renamed" \in odd
      /\ revoked' = {g \in revoked : g[2] # id}
      /\ UNCHANGED <<accounts, licenses, file, late>>
  BY DEF DeleteUser, handleDeleteUser, platform
<1>2. /\ DOMAIN users' = DOMAIN users \ {id}
      /\ \A i \in DOMAIN users' : users'[i] = users[i]
  BY <1>1
<1>3. UsersTyped'
  <2>1. IsFiniteSet(DOMAIN users')
    BY <1>2, FS_RemoveElement DEF IInv, UsersTyped
  <2> QED BY <1>2, <2>1 DEF IInv, UsersTyped
<1>4. NoGaps' /\ AccountsResolve' /\ ListedResolve'
  BY <1>1 DEF NoGaps, AccountsResolve, ListedResolve
<1>5. OneAccountPerName' /\ AllListed'
  BY <1>1, <1>2 DEF IInv, OneAccountPerName, AllListed
<1>6. RevokedGone'
  <2> SUFFICES ASSUME NEW g \in revoked, g[2] # id
               PROVE  /\ g[3] \in Stages /\ g[2] \in DOMAIN users'
                      /\ g[3] = "listed" => file # {}
                      /\ users'[g[2]].userType = g[1] => Dormant(g)'
                      /\ g[3] # "known" /\ Grant(g) \in licenses => Dormant(g)'
                      /\ g[3] # "listed" /\ Found(Grant(g)) => Dormant(g)'
    BY <1>1 DEF RevokedGone, Found
  <2>1. g[2] \in DOMAIN users' /\ users'[g[2]] = users[g[2]]
    BY <1>2 DEF IInv, RevokedGone
  <2> QED BY <1>1, <2>1 DEF IInv, RevokedGone, Dormant
<1> QED BY <1>3, <1>4, <1>5, <1>6 DEF IInv

-----------------------------------------------------------------------------
(* Steps that leave users alone. *)

\* What a sync lists, and the licenses it finds there.
LEMMA ListedFacts ==
  ASSUME UsersTyped, NEW listed, listed = [i \in DOMAIN users |-> enterpriseUserResource(users[i])]
  PROVE  /\ DOMAIN listed = DOMAIN users
         /\ \A i \in DOMAIN users : listed[i].login = users[i].userName
         /\ \A g \in LicenseGrants(listed) : users[g[2]].userType = g[1]
<1>1. /\ DOMAIN listed = DOMAIN users
      /\ \A i \in DOMAIN users : /\ listed[i].login = users[i].userName
                                 /\ listed[i].user_type = users[i].userType
  BY DEF enterpriseUserResource
<1>2. ASSUME NEW g \in LicenseGrants(listed)
      PROVE  users[g[2]].userType = g[1]
  <2>1. PICK i \in DOMAIN listed : g = <<listed[i].user_type, i>>
    BY DEF LicenseGrants
  <2> QED BY <1>1, <2>1
<1> QED BY <1>1, <1>2

LEMMA ListUsersStep ==
  ASSUME IInv, ListUsers
  PROVE  IInv'
<1> DEFINE listed == [i \in DOMAIN users |-> enterpriseUserResource(users[i])]
<1>1. /\ file = {} /\ file' = {listed}
      /\ UNCHANGED <<users, accounts, licenses, odd, revoked, late>>
  BY DEF ListUsers, server, platform, history
<1>2. /\ DOMAIN listed = DOMAIN users
      /\ \A i \in DOMAIN users : listed[i].login = users[i].userName
      /\ \A g \in LicenseGrants(listed) : users[g[2]].userType = g[1]
  BY ListedFacts DEF IInv
<1> HIDE DEF listed
<1>3. UsersTyped' /\ NoGaps' /\ AccountsResolve' /\ OneAccountPerName'
  BY <1>1 DEF IInv, UsersTyped, NoGaps, AccountsResolve, OneAccountPerName
<1>4. ListedResolve' /\ AllListed'
  BY <1>1, <1>2 DEF ListedResolve, IsUser, AllListed
<1>5. RevokedGone'
  <2> SUFFICES ASSUME NEW g \in revoked
               PROVE  /\ g[3] \in Stages /\ g[2] \in DOMAIN users
                      /\ g[3] = "listed" => file' # {}
                      /\ users[g[2]].userType = g[1] => Dormant(g)
                      /\ g[3] # "known" /\ Grant(g) \in licenses => Dormant(g)
                      /\ g[3] # "listed" /\ Grant(g) \in LicenseGrants(listed) => Dormant(g)
    BY <1>1 DEF RevokedGone, Dormant, Found
  <2>1. Grant(g) \in LicenseGrants(listed) => users[g[2]].userType = g[1]
    BY <1>2 DEF Grant
  <2> QED BY <1>1, <2>1 DEF IInv, RevokedGone
<1> QED BY <1>3, <1>4, <1>5 DEF IInv

\* The end of a sync: what is known next is what was known, or what it found.
LEMMA AgedGone ==
  ASSUME RevokedGone, NEW after \in [Stages -> Stages],
         revoked' = Aged(after), file' = {}, UNCHANGED users,
         \A x \in Stages : after[x] # "listed",
         \A g \in revoked : Grant(g) \in licenses' =>
           \/ g[3] # "known" /\ Grant(g) \in licenses
           \/ g[3] # "listed" /\ Found(Grant(g))
           \/ after[g[3]] = "known"
  PROVE  RevokedGone'
<1> SUFFICES ASSUME NEW old \in revoked, NEW g, g = <<old[1], old[2], after[old[3]]>>
             PROVE  /\ g[3] \in Stages /\ g[2] \in DOMAIN users
                    /\ g[3] # "listed"
                    /\ users[g[2]].userType = g[1] => Dormant(g)
                    /\ g[3] # "known" /\ Grant(g) \in licenses' => Dormant(g)
  BY DEF RevokedGone, Aged, Found, Dormant
<1>1. g[1] = old[1] /\ g[2] = old[2] /\ g[3] = after[old[3]]
  OBVIOUS
<1>2. (Dormant(g) <=> Dormant(old)) /\ Grant(g) = Grant(old)
  BY <1>1 DEF Dormant, Grant
<1>3. /\ old[3] \in Stages /\ old[2] \in DOMAIN users
      /\ users[old[2]].userType = old[1] => Dormant(old)
      /\ old[3] # "known" /\ Grant(old) \in licenses => Dormant(old)
      /\ old[3] # "listed" /\ Found(Grant(old)) => Dormant(old)
  BY DEF RevokedGone
<1> QED BY <1>1, <1>2, <1>3

LEMMA AfterFacts ==
  /\ AfterEnd \in [Stages -> Stages] /\ AfterAbort \in [Stages -> Stages]
  /\ \A x \in Stages : AfterEnd[x] # "listed" /\ AfterAbort[x] # "listed"
  /\ \A x \in Stages : x = "listed" => AfterEnd[x] = "known"
  /\ \A x \in Stages : x = "known" => AfterAbort[x] = "known"
BY DEF Stages, AfterEnd, AfterAbort

LEMMA EndSyncStep ==
  ASSUME IInv, EndSync
  PROVE  IInv'
<1>1. PICK listed \in file : /\ accounts' = [i \in DOMAIN listed |-> listed[i].login]
                             /\ licenses' = LicenseGrants(listed)
  BY DEF EndSync
<1>2. file' = {} /\ revoked' = Aged(AfterEnd) /\ UNCHANGED <<users, odd>>
  BY DEF EndSync, server
<1>3. UsersTyped' /\ NoGaps' /\ OneAccountPerName' /\ ListedResolve' /\ AllListed'
  BY <1>2 DEF IInv, UsersTyped, NoGaps, OneAccountPerName, ListedResolve, AllListed
<1>4. AccountsResolve'
  BY <1>1, <1>2 DEF IInv, AccountsResolve, ListedResolve, IsUser
<1>5. RevokedGone'
  <2>1. ASSUME NEW g \in revoked, Grant(g) \in licenses'
        PROVE  (g[3] # "listed" /\ Found(Grant(g))) \/ AfterEnd[g[3]] = "known"
    BY <1>1, <2>1, AfterFacts DEF IInv, RevokedGone, Found
  <2> QED BY <1>2, <2>1, AfterFacts, AgedGone DEF IInv
<1> QED BY <1>3, <1>4, <1>5 DEF IInv

LEMMA AbortSyncStep ==
  ASSUME IInv, AbortSync
  PROVE  IInv'
<1>1. file' = {} /\ revoked' = Aged(AfterAbort) /\ UNCHANGED <<users, accounts, licenses, odd>>
  BY DEF AbortSync, server, platform
<1>2. RevokedGone'
  <2>1. ASSUME NEW g \in revoked, Grant(g) \in licenses'
        PROVE  (g[3] # "known" /\ Grant(g) \in licenses) \/ AfterAbort[g[3]] = "known"
    BY <1>1, <2>1, AfterFacts DEF IInv, RevokedGone
  <2> QED BY <1>1, <2>1, AfterFacts, AgedGone DEF IInv
<1> QED BY <1>1, <1>2 DEF IInv, UsersTyped, NoGaps, AccountsResolve, OneAccountPerName,
                          ListedResolve, AllListed

\* Teams are no part of this invariant.
LEMMA TeamStep ==
  ASSUME IInv, odd \subseteq odd', "deleted" \in odd' => "deleted" \in odd,
         UNCHANGED <<users, accounts, licenses, file, revoked, late>>
  PROVE  IInv'
BY DEF IInv, UsersTyped, NoGaps, AccountsResolve, OneAccountPerName, ListedResolve, IsUser,
       AllListed, RevokedGone, Found, Dormant

LEMMA EditTeamStep ==
  ASSUME IInv, NEW team, EditTeam(team)
  PROVE  IInv'
<1>1. UNCHANGED users
  BY DEF EditTeam, handleCreateTeam, handleUpdateTeam, handlePatchTeam
<1>2. odd \subseteq odd' /\ ("deleted" \in odd' => "deleted" \in odd)
  BY DEF EditTeam, Slips
<1> QED BY <1>1, <1>2, TeamStep DEF EditTeam, platform

LEMMA EditMembersStep ==
  ASSUME IInv, NEW t, NEW ids, EditMembers(t, ids)
  PROVE  IInv'
<1>1. UNCHANGED users
  BY DEF EditMembers, handlePatchTeam
<1>2. odd \subseteq odd' /\ ("deleted" \in odd' => "deleted" \in odd)
  BY DEF EditMembers, Slips
<1> QED BY <1>1, <1>2, TeamStep DEF EditMembers, platform

-----------------------------------------------------------------------------
LEMMA InitIInv == Init => IInv
<1> SUFFICES ASSUME Init
             PROVE  IInv
  OBVIOUS
<1> DEFINE john == [userName |-> "john.doe", userType |-> Enterprise, active |-> TRUE]
           jane == [userName |-> "jane.smith", userType |-> ViewOnly, active |-> TRUE]
           alex == [userName |-> "alex.johnson", userType |-> "", active |-> TRUE]
<1>0. users = <<john, jane, alex>>
  BY DEF Init, ServerInit, TestUsers
<1>typed. john \in User /\ jane \in User /\ alex \in User
  BY DEF User, UserNames, UserTypes
<1>named. john.userName = "john.doe" /\ jane.userName = "jane.smith" /\ alex.userName = "alex.johnson"
  OBVIOUS
<1> HIDE DEF john, jane, alex
<1>1. DOMAIN users = 1 .. 3 /\ users[1] = john /\ users[2] = jane /\ users[3] = alex
  BY <1>0
<1>2. IsFiniteSet(DOMAIN users) /\ Cardinality(DOMAIN users) = 3
  <2>1. IsFiniteSet(1 .. 3) /\ Cardinality(1 .. 3) = IF 1 > 3 THEN 0 ELSE 3 - 1 + 1
    <3>1. 1 \in Int /\ 3 \in Int
      OBVIOUS
    <3> QED BY <3>1, FS_Interval, Zenon
  <2> QED BY <1>1, <2>1
<1>3. \A i \in DOMAIN users : users[i] \in User
  BY <1>1, <1>typed
<1>4. UsersTyped /\ NoGaps
  BY <1>1, <1>2, <1>3 DEF UsersTyped, NoGaps, Ids
<1>5. OneAccountPerName
  BY <1>1, <1>named DEF OneAccountPerName
<1>6. AccountsResolve /\ ListedResolve /\ AllListed /\ RevokedGone
  BY DEF Init, AccountsResolve, ListedResolve, AllListed, RevokedGone
<1> QED BY <1>4, <1>5, <1>6 DEF IInv

LEMMA NextIInv ==
  ASSUME IInv, Next
  PROVE  IInv'
<1>1. CASE \E o \in Order : CreateAccount(o)
  BY <1>1, CreateAccountStep
<1>2. CASE ListUsers \/ EndSync \/ AbortSync
  BY <1>2, ListUsersStep, EndSyncStep, AbortSyncStep
<1>3. CASE \E l \in {Enterprise, ViewOnly}, i \in DOMAIN users : RevokeLicense(l, i)
  BY <1>3, RevokeLicenseStep
<1>4. CASE \E user \in UserBodies :
             CreateUser(user) \/ \E id \in DOMAIN users : EditUser(id, user)
  BY <1>4, CreateUserStep, EditUserStep
<1>5. CASE \E id \in DOMAIN users : DeleteUser(id)
  BY <1>5, DeleteUserStep
<1>6. CASE \E team \in TeamBodies :
             \/ EditTeam(team)
             \/ \E t \in DOMAIN teams : EditMembers(t, team.members) \/ RenameTeam(t, team.displayName)
  <2>1. ASSUME NEW t, NEW name, RenameTeam(t, name)
        PROVE  IInv'
    BY <2>1, TeamStep DEF RenameTeam, handlePatchTeam, platform, history
  <2> QED BY <1>6, <2>1, EditTeamStep, EditMembersStep
<1> QED BY <1>1, <1>2, <1>3, <1>4, <1>5, <1>6 DEF Next

LEMMA IdleIInv ==
  ASSUME IInv, UNCHANGED vars
  PROVE  IInv'
BY TeamStep DEF vars, server, platform, counts, history

\* The inductive invariant holds in every behaviour.
THEOREM Invariant == Spec => []IInv
<1>1. IInv /\ [Next]_vars => IInv'
  BY NextIInv, IdleIInv
<1> QED BY <1>1, InitIInv, PTL DEF Spec

\* The ids that main.go gives to new users ("Generate a new ID") are never those
\* of others, while nobody is deleted: what the platform was told, or has listed,
\* stays the account it was told of.
THEOREM ResolveCorrect == Spec => []AccountsResolve
<1>1. IInv => AccountsResolve
  BY DEF IInv
<1> QED BY <1>1, Invariant, PTL

\* main.go's comparison of names keeps them unique through repetitions, deletions
\* and reused ids, while nobody is renamed.
THEOREM NamesCorrect == Spec => []OneAccountPerName
<1>1. IInv => OneAccountPerName
  BY DEF IInv
<1> QED BY <1>1, Invariant, PTL

\* What enterprise_users.go reports again of a license that license.go has
\* revoked is a view-only license of a user who is deactivated, once no sync is
\* left that had listed the user before.
THEOREM RevokedCorrect == Spec => []RevokedOnlyDormant
<1>1. IInv => RevokedOnlyDormant
  BY DEF IInv, RevokedGone, RevokedOnlyDormant, Dormant, Grant
<1> QED BY <1>1, Invariant, PTL

\* A sync's members are among the accounts it has listed, or were created since.
THEOREM MembersCorrect == Spec => MembersListed
<1>1. IInv /\ EndSync =>
        (members'.workspace \cup {g[2] : g \in members'.teams}) \subseteq DOMAIN accounts' \cup late
  <2> SUFFICES ASSUME IInv, EndSync
               PROVE  /\ members'.workspace \subseteq DOMAIN accounts' \cup late
                      /\ \A g \in members'.teams : g[2] \in DOMAIN accounts' \cup late
    OBVIOUS
  <2>1. PICK listed \in file : accounts' = [i \in DOMAIN listed |-> listed[i].login]
    BY DEF EndSync
  <2>2. DOMAIN users \subseteq DOMAIN accounts' \cup late
    BY <2>1 DEF IInv, AllListed
  <2>3. members' = MemberGrants
    BY DEF EndSync
  <2>4. /\ members'.workspace = DOMAIN users
        /\ members'.teams = UNION {{t} \X TeamMemberships(t) : t \in WorkspaceTeams}
    BY <2>3 DEF MemberGrants, WorkspaceMemberships
  <2>5. ASSUME NEW g \in members'.teams
        PROVE  g[2] \in DOMAIN users
    <3>1. PICK t \in WorkspaceTeams : g \in {t} \X TeamMemberships(t)
      BY <2>4, <2>5
    <3> QED BY <3>1 DEF TeamMemberships
  <2> QED BY <2>2, <2>4, <2>5
<1> QED BY <1>1, Invariant, PTL DEF Spec, MembersListed

=============================================================================
