----------------------------- MODULE Memberships ------------------------------
(***************************************************************************)
(* Who belongs to a workspace and to a team of it, in which role: grants,  *)
(* revocations and invitations as the connector carries them out over      *)
(* Asana's REST API (pkg/connector/workspace.go, team.go, user.go), and    *)
(* what a sync, which lists page by page, tells the platform.              *)
(*                                                                         *)
(* A handler sends one request and decides nothing on an answer, so an     *)
(* execution of it is one step.  Requests are refused, or lost with or     *)
(* without having been applied; the SDK then starts the handler again.     *)
(* Nothing is cached (ScimListing has what cached pages do).  Names and    *)
(* e-mails are left out: an invited address is that of a user.             *)
(***************************************************************************)
EXTENDS Integers, Sequences, FiniteSets, ConnectorSetup

CONSTANTS
  Users,        \* users of Asana, members or not
  Slots,        \* tasks of the platform, each in its slot
  InitRosters,  \* the memberships there may be at first
  EarlierGrants,  \* users granted something before, and since the last sync
  FlagChoices,  \* the flags administrators give a member
  PageSize,     \* ResourcesPageSize
  MaxAttempts,  \* repetitions of a grant or revocation, 3 in the SDK
  MaxChanges    \* bound: changes by administrators

Workspace == "workspace"
TheTeam   == "team"
Places    == {Workspace, TheTeam}

Flags == {"active", "admin", "limited", "guest"}

Membership == [user : Users, flags : SUBSET Flags]

\* Nobody is listed twice.
Distinct(seq) == \A j, k \in DOMAIN seq : seq[j].user = seq[k].user => j = k

ASSUME MembershipsAssumption ==
  /\ ~UseScimApi
  /\ "none" \notin Slots
  /\ \A r \in InitRosters : r \in [Places -> Seq(Membership)] /\ \A p \in Places : Distinct(r[p])
  /\ EarlierGrants \subseteq Users
  /\ FlagChoices \subseteq SUBSET Flags
  /\ PageSize \in Nat \ {0}
  /\ MaxAttempts \in Nat \ {0}
  /\ MaxChanges \in Nat

VARIABLES
  roster,    \* Asana: the members of each place, in the order it lists them
  ledger,    \* the platform: the grants it knows
  task,      \* what each slot is at
  at, token, stored,  \* the sync: number of the listing, offset, what it has stored
  changes,   \* counter for the bound
  isolated,  \* history: slots whose membership nobody else has changed
  steady,    \* history: memberships that have stayed as they were since the sync began
  left       \* history: how many have ended since then, by place

syncer  == <<at, token, stored>>
history == <<isolated, steady, left>>
vars    == <<roster, ledger, task, syncer, changes, history>>

-----------------------------------------------------------------------------
(* Roles. *)

teamAdmin == "Admin"
teamLimitedAccess == "Limited Access"
teamGuest == "Guest"
teamMember == "Team Member"

\* The roles that have entitlements.
Entitlements ==
  [workspace |-> {"Guest", "Admin", "Member"},
   team |-> {teamGuest, teamAdmin, teamLimitedAccess, teamMember}]

\* The flags looked at, in turn, and the role each stands for.
Cases ==
  [workspace |-> << <<"active", "Member">>, <<"admin", "Admin">>, <<"guest", "Guest">> >>,
   team |-> << <<"admin", teamAdmin>>, <<"limited", teamLimitedAccess>>, <<"guest", teamGuest>> >>]

\* A workspace membership without flags has a grant without a role.
DefaultRole == [workspace |-> "", team |-> teamMember]

\* The first case that applies decides.
Role(p, flags) ==
  LET hits == {k \in 1 .. 3 : Cases[p][k][1] \in flags}
  IN  IF hits = {} THEN DefaultRole[p]
      ELSE Cases[p][CHOOSE k \in hits : \A j \in hits : k <= j][2]

\* Mutant: one role is forgotten.
GrantImmutableForgotten(p, role) == p = TheTeam /\ role \in {teamAdmin, teamGuest}

\* getTeamGrantAnnotations: Asana's API cannot change these.
GrantImmutable(p, role) == p = TheTeam /\ role # teamMember

-----------------------------------------------------------------------------
(* Asana. *)

Members(p) == {roster[p][k].user : k \in DOMAIN roster[p]}

JoinFlags == [workspace |-> {"active"}, team |-> {}]

\* addUser adds whoever is not there yet, removeUser removes whoever is.
Joined(p, u) ==
  IF u \in Members(p) THEN roster
  ELSE [roster EXCEPT ![p] = Append(@, [user |-> u, flags |-> JoinFlags[p]])]

Without(seq, u) ==
  LET at_u == CHOOSE k \in DOMAIN seq : seq[k].user = u
  IN  [k \in 1 .. Len(seq) - 1 |-> IF k < at_u THEN seq[k] ELSE seq[k + 1]]

Parted(p, u) ==
  IF u \in Members(p) THEN [roster EXCEPT ![p] = Without(@, u)] ELSE roster

Has(r, p, m) == \E k \in DOMAIN r[p] : r[p][k] = m
UserIn(r, p, u) == \E k \in DOMAIN r[p] : r[p][k].user = u

\* The roster becomes r by a step of a slot, or of nobody's ("none"), and the
\* history keeps what that changes.
Remember(r, actor) ==
  /\ roster' = r
  /\ steady' = [p \in Places |-> {m \in steady[p] : Has(r, p, m)}]
  /\ left' = [p \in Places |->
       IF at # 0 /\ \E u \in Members(p) : ~UserIn(r, p, u) THEN left[p] + 1 ELSE left[p]]
  /\ isolated' = {s \in isolated :
       s = actor \/ \A p \in Places :
         task[s].place = p =>
           (task[s].user \in Members(p) <=> UserIn(r, p, task[s].user))}

AdminChange ==
  /\ changes < MaxChanges
  /\ changes' = changes + 1
  /\ \E p \in Places :
       \/ \E u \in Users : Remember(Joined(p, u), "none") \/ Remember(Parted(p, u), "none")
       \/ \E k \in DOMAIN roster[p], f \in FlagChoices :
            Remember([roster EXCEPT ![p][k].flags = f], "none")
  /\ UNCHANGED <<ledger, task, syncer>>

-----------------------------------------------------------------------------
(* The platform's tasks. *)

Kinds  == {"grant", "revoke", "invite"}
\* What may be wrong with a request: the principal is no user, the entitlement's
\* id has not three parts, its role cannot be granted, the form is incomplete.
Faults == {"none", "principal", "id", "role", "incomplete"}

\* A grant the platform knows: on a resource of this type, for this user.
Known == [on : Places \cup {"user"}, user : Users, immutable : BOOLEAN]

\* The grant that Grant returns: with the principal in the place of the
\* entitlement's resource.
Returned(u) == [on |-> "user", user |-> u, immutable |-> FALSE]

\* The resource types whose entitlements the process can provision: users have
\* none.
resourceProvisioners == Places

Task(kind, place, user, fault) ==
  [kind |-> kind, place |-> place, user |-> user, fault |-> fault,
   attempts |-> 0, outcome |-> "running", base |-> place \in Places /\ user \in Members(place)]

Requests ==
  {Task("grant", p, u, f) : p \in Places, u \in Users, f \in Faults \ {"incomplete"}}
  \cup {Task("revoke", g.on, g.user, "none") : g \in {k \in ledger : ~k.immutable}}
  \cup {Task("invite", Workspace, u, f) : u \in Users, f \in {"none", "incomplete"}}

NoTask == [outcome |-> "idle"]

Submit(s) ==
  /\ task[s] = NoTask
  /\ \E t \in Requests : task' = [task EXCEPT ![s] = t]
  /\ isolated' = isolated \cup {s}
  /\ UNCHANGED <<roster, ledger, syncer, changes, steady, left>>

Running(s) == task[s].outcome = "running"
Open(s)    == task[s].outcome \in {"running", "waiting"}

End(s, outcome) == task' = [task EXCEPT ![s].outcome = outcome]

\* A grant or revocation of a type without a provisioner: not dispatched at all.
Unimplemented(s) ==
  /\ Running(s)
  /\ task[s].place \notin resourceProvisioners
  /\ End(s, "unimplemented")
  /\ UNCHANGED <<roster, ledger, syncer, changes, history>>

\* The checks each handler makes ahead of its request. A workspace's Grant looks
\* at the principal only: it grants any role.
WorkspaceRejects(t) == t.fault = "principal"

\* Mutant: a team's Grant, too, looks at the entitlement behind the request.
TeamRejectsLate(t) == t.fault = "principal"

TeamRejects(t) == t.fault \in {"principal", "id", "role"}

InviteRejects(t) == t.fault = "incomplete"

RejectedBefore(t) ==
  \/ t.kind # "invite" /\ t.place = Workspace /\ WorkspaceRejects(t)
  \/ t.place = TheTeam /\ TeamRejects(t)
  \/ t.kind = "invite" /\ InviteRejects(t)

\* The check behind it: the new grant's entitlement cannot be named.
RejectedAfter(t) == t.fault = "id"

Reject(s) ==
  /\ Running(s)
  /\ RejectedBefore(task[s])
  /\ End(s, "rejected")
  /\ UNCHANGED <<roster, ledger, syncer, changes, history>>

Sends(s) == Running(s) /\ task[s].place \in Places /\ ~RejectedBefore(task[s])

\* Mutant: the team's Revoke calls for the workspace.
AppliedToWorkspace(t) ==
  IF t.kind = "revoke" THEN Parted(Workspace, t.user) ELSE Joined(t.place, t.user)

\* AddUserToWorkspace, AddUserToTeam, InviteUserToWorkspace, RemoveUserToWorkspace,
\* RemoveUserToTeam as Asana applies them.
Applied(t) ==
  IF t.kind = "revoke" THEN Parted(t.place, t.user) ELSE Joined(t.place, t.user)

\* The answer arrives.
Answered(s) ==
  /\ Sends(s)
  /\ Remember(Applied(task[s]), s)
  /\ \/ RejectedAfter(task[s]) /\ End(s, "rejected") /\ UNCHANGED ledger
     \/ /\ ~RejectedAfter(task[s])
        /\ End(s, "done")
        /\ ledger' =
             CASE task[s].kind = "grant" -> ledger \cup {Returned(task[s].user)}
               [] task[s].kind = "revoke" ->
                    {g \in ledger : ~(g.on = task[s].place /\ g.user = task[s].user)}
               [] task[s].kind = "invite" -> ledger
  /\ UNCHANGED <<syncer, changes>>

Refused(s) ==
  /\ Sends(s)
  /\ End(s, "failed")
  /\ UNCHANGED <<roster, ledger, syncer, changes, history>>

\* Mutant: once too often.
AgainOnceMore(t) == t.kind # "invite" /\ t.attempts <= MaxAttempts

\* Whether there is a repetition left; creating an account is not repeated.
Again(t) == t.kind # "invite" /\ t.attempts + 1 <= MaxAttempts

\* Mutant: repetitions are not counted.
NextAttemptFirst(t) == 0

NextAttempt(t) == t.attempts + 1

\* No answer: the request may have been applied. After a timeout, or when Asana is
\* unavailable, the task waits for its repetition; after another error, or when
\* the wait is cut short, it has failed.
Lost(s) ==
  /\ Sends(s)
  /\ \E r \in {roster, Applied(task[s])} : Remember(r, s)
  /\ \E o \in {"waiting", "failed"} : (o = "waiting" => Again(task[s])) /\ End(s, o)
  /\ UNCHANGED <<ledger, syncer, changes>>

Repeat(s) ==
  /\ task[s].outcome = "waiting"
  /\ task' = [task EXCEPT ![s].outcome = "running", ![s].attempts = NextAttempt(task[s])]
  /\ UNCHANGED <<roster, ledger, syncer, changes, history>>

-----------------------------------------------------------------------------
(* The sync. *)

\* The listings in the syncer's order; the place each is about.
Order == <<"users", "teams", "members", "teamMembers">>
About == [users |-> Workspace, members |-> Workspace, teamMembers |-> TheTeam]

\* Resources of a place: its users, its one team; and its memberships.
Collection(l) == IF l = "teams" THEN <<TheTeam>> ELSE roster[About[l]]

\* What List and Grants make of an item: a resource has no role, a membership
\* has the grant of one.
UserEntry(m) == [listing |-> "users", user |-> m.user, role |-> ""]
TeamEntry(t) == [listing |-> "teams", user |-> t, role |-> ""]
MemberEntry(m) == [listing |-> "members", user |-> m.user, role |-> Role(Workspace, m.flags)]
TeamMemberEntry(m) == [listing |-> "teamMembers", user |-> m.user, role |-> Role(TheTeam, m.flags)]

Entry(l, item) ==
  CASE l = "users"       -> UserEntry(item)
    [] l = "teams"       -> TeamEntry(item)
    [] l = "members"     -> MemberEntry(item)
    [] l = "teamMembers" -> TeamMemberEntry(item)

StartSync ==
  /\ at = 0
  /\ \E authenticated \in BOOLEAN, answer \in ScimAnswers : Validate(authenticated, answer)
  /\ at' = 1 /\ token' = 0 /\ stored' = {}
  /\ steady' = [p \in Places |-> {roster[p][k] : k \in DOMAIN roster[p]}]
  /\ left' = [p \in Places |-> 0]
  /\ UNCHANGED <<roster, ledger, task, changes, isolated>>

\* The pages Asana may answer: from the offset on, how many items.
PageLengths(l) ==
  LET rest == Len(Collection(l)) - token
  IN  IF rest <= 0 THEN {0} ELSE {n \in 1 .. PageSize : n <= rest}

\* Mutant: off by one.
NextOffsetBeyond(l, n) == IF token + n < Len(Collection(l)) THEN token + n + 1 ELSE 0

\* Mutant: there is always a page behind.
NextOffsetAlways(l, n) == token + n

\* The offset of the page behind one of n items, "" (here 0) at the end.
NextOffset(l, n) == IF token + n < Len(Collection(l)) THEN token + n ELSE 0

ListPage ==
  /\ at \in DOMAIN Order
  /\ LET l == Order[at] IN
     \E n \in PageLengths(l) :
       /\ stored' = stored \cup {Entry(l, Collection(l)[k]) : k \in token + 1 .. token + n}
       /\ token' = NextOffset(l, n)
       /\ at' = IF NextOffset(l, n) = 0 THEN at + 1 ELSE at
  /\ UNCHANGED <<roster, ledger, task, changes, history>>

Forget ==
  /\ steady' = [p \in Places |-> {}]
  /\ left' = [p \in Places |-> 0]

\* The platform takes over what the sync has stored.
EndSync ==
  /\ at = Len(Order) + 1
  /\ at' = 0
  /\ ledger' = {[on |-> About[e.listing], user |-> e.user,
                 immutable |-> GrantImmutable(About[e.listing], e.role)] :
                e \in {x \in stored : x.listing \in {"members", "teamMembers"}}}
  /\ stored' = {} /\ Forget
  /\ UNCHANGED <<roster, task, token, changes, isolated>>

\* A page fails; the sync is given up and made again from the start.
AbortSync ==
  /\ at \in DOMAIN Order
  /\ at' = 0 /\ token' = 0 /\ stored' = {} /\ Forget
  /\ UNCHANGED <<roster, ledger, task, changes, isolated>>

-----------------------------------------------------------------------------
Init ==
  /\ roster \in InitRosters
  /\ ledger = {Returned(u) : u \in EarlierGrants}
  /\ task = [s \in Slots |-> NoTask]
  /\ at = 0 /\ token = 0 /\ stored = {}
  /\ changes = 0
  /\ isolated = {}
  /\ steady = [p \in Places |-> {}]
  /\ left = [p \in Places |-> 0]

Execute(s) ==
  Unimplemented(s) \/ Reject(s) \/ Answered(s) \/ Refused(s) \/ Lost(s) \/ Repeat(s)

Next ==
  \/ \E s \in Slots : Submit(s) \/ Execute(s)
  \/ StartSync \/ ListPage \/ EndSync \/ AbortSync
  \/ AdminChange

Spec == Init /\ [][Next]_vars

\* Requests time out and waits between attempts end; the syncer goes on page
\* by page.
FairSpec ==
  /\ Spec
  /\ \A s \in Slots : WF_vars(Execute(s))
  /\ WF_vars(ListPage)
  /\ WF_vars(EndSync)

-----------------------------------------------------------------------------
Outcomes == {"running", "waiting", "done", "rejected", "failed", "unimplemented"}

Tasks ==
  [kind : Kinds, place : Places \cup {"user"}, user : Users, fault : Faults,
   attempts : 0 .. MaxAttempts, outcome : Outcomes, base : BOOLEAN]

Entries ==
  [listing : {"users"}, user : Users, role : {""}]
  \cup [listing : {"teams"}, user : {TheTeam}, role : {""}]
  \cup [listing : {"members"}, user : Users, role : Entitlements[Workspace] \cup {""}]
  \cup [listing : {"teamMembers"}, user : Users, role : Entitlements[TheTeam]]

TypeOK ==
  /\ roster \in [Places -> Seq(Membership)]
  /\ ledger \subseteq Known
  /\ task \in [Slots -> Tasks \cup {NoTask}]
  /\ at \in 0 .. Len(Order) + 1
  /\ token \in Nat
  /\ stored \subseteq Entries
  /\ changes \in 0 .. MaxChanges
  /\ isolated \in SUBSET {s \in Slots : task[s] # NoTask}
  /\ steady \in [Places -> SUBSET Membership]
  /\ left \in [Places -> Nat]

\* A task reported as done whose membership nobody else has touched has its
\* effect, however often its request was lost, applied or not, before.
IsolatedTaskCorrect ==
  \A s \in isolated :
    task[s].outcome = "done" =>
      (task[s].user \in Members(task[s].place) <=> task[s].kind # "revoke")

\* A request that the connector rejects leaves the membership as it was, lost
\* executions before it included. Workspace grants whose entitlement id cannot
\* be parsed are the exception: workspace.go parses it when the user is added.
RejectedUnchanged ==
  \A s \in isolated :
    task[s].outcome = "rejected" =>
      \/ task[s].user \in Members(task[s].place) <=> task[s].base
      \/ task[s].place = Workspace /\ task[s].fault = "id"

\* Each listing of a sync has everybody who was there throughout, but for as many
\* as have left; with one role, the first the code looks for: an active member
\* of a workspace is Member, whatever else, and a team's admin is Admin.
SteadySynced ==
  \A i \in DOMAIN Order :
    i < at /\ Order[i] # "teams" =>
      LET p == About[Order[i]]
          of(m) == {e \in stored : e.listing = Order[i] /\ e.user = m.user}
      IN  /\ Cardinality({m \in steady[p] : of(m) = {}}) <= left[p]
          /\ \A m \in steady[p] : \A e \in of(m) :
               /\ Cardinality(of(m)) = 1
               /\ Order[i] = "members" /\ "active" \in m.flags => e.role = "Member"
               /\ Order[i] = "teamMembers" /\ "admin" \in m.flags => e.role = teamAdmin

\* No task ends the membership of somebody who is more, or less, than a member of
\* the team: Asana could not give that role back, which is why syncs mark it as
\* immutable. Revoke itself does not look at the role, so this takes roles that
\* administrators have left alone.
ImmutableKept ==
  [][changes' = 0 =>
       \A k \in DOMAIN roster[TheTeam] :
         roster[TheTeam][k].user \notin Members(TheTeam)' =>
           roster[TheTeam][k].flags \cap {"admin", "limited", "guest"} = {}]_vars

\* Every task ends.
TaskEnds == \A s \in Slots : Open(s) ~> ~Open(s)

\* Every sync comes to its end, or fails.
SyncEnds == at # 0 ~> at = 0

\* Whatever the platform knows as a grant it can have revoked: NewGrant "returns
\* a new grant for the given entitlement on the resource" (types/grant/grant.go).
RevocationsDispatched == \A s \in Slots : task[s].outcome # "unimplemented"

=============================================================================
