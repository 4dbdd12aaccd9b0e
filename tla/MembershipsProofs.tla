--------------------------- MODULE MembershipsProofs ---------------------------
(***************************************************************************)
(* Theorems about Memberships: every state is well typed; a task whose     *)
(* membership nobody else touches is correct, and leaves things alone when *)
(* the connector rejects it, for any users, tasks, attempts and changes.   *)
(***************************************************************************)
EXTENDS Memberships, FiniteSetTheorems, TLAPS

\* Whether the membership that a slot's task is about is there.
There(s) == UserIn(roster, task[s].place, task[s].user)

\* Tasks have only the faults their requests can have.
WellFormed(t) ==
  /\ t.kind = "revoke" => t.fault = "none"
  /\ t.kind # "revoke" => t.place \in Places
  /\ t.kind = "invite" => t.place = Workspace

\* What an isolated task knows: until it sends a request the membership is as it
\* was submitted, and afterwards its outcome says what it is.
SlotInv(s) ==
  /\ task[s] # NoTask
  /\ WellFormed(task[s])
  /\ Open(s) /\ RejectedBefore(task[s]) => (There(s) <=> task[s].base)
  /\ task[s].outcome = "done" =>
       /\ task[s].place \in Places
       /\ There(s) <=> task[s].kind # "revoke"
  /\ task[s].outcome = "rejected" =>
       \/ task[s].place \in Places /\ (There(s) <=> task[s].base)
       \/ task[s].place = Workspace /\ task[s].fault = "id"

TaskInv == \A s \in isolated : SlotInv(s)

\* A task waits only for a further execution.
WaitInv == \A s \in Slots : task[s].outcome = "waiting" => task[s].attempts < MaxAttempts

IInv == TypeOK /\ (\A p \in Places : Distinct(roster[p])) /\ WaitInv /\ TaskInv

-----------------------------------------------------------------------------
(* Roles. *)

\* Every role a sync stores is one of the place's entitlements, or, for a
\* workspace membership without flags, none.
LEMMA RoleType ==
  ASSUME NEW p \in Places, NEW flags
  PROVE  Role(p, flags) \in Entitlements[p] \cup {DefaultRole[p]}
<1> DEFINE hits == {k \in 1 .. 3 : Cases[p][k][1] \in flags}
<1>1. CASE hits = {}
  BY <1>1 DEF Role
<1>2. CASE hits # {}
  <2>1. \E k \in hits : \A j \in hits : k <= j
    BY <1>2
  <2>2. (CHOOSE k \in hits : \A j \in hits : k <= j) \in 1 .. 3
    BY <2>1
  <2>3. \A k \in 1 .. 3 : Cases[p][k][2] \in Entitlements[p]
    <3>1. CASE p = Workspace
      BY <3>1 DEF Cases, Entitlements, Workspace
    <3>2. CASE p = TheTeam
      <4>1. /\ Cases["team"] = << <<"admin", teamAdmin>>, <<"limited", teamLimitedAccess>>,
                               <<"guest", teamGuest>> >>
            /\ Entitlements["team"] = {teamGuest, teamAdmin, teamLimitedAccess, teamMember}
        BY DEF Cases, Entitlements
      <4> QED BY <3>2, <4>1 DEF TheTeam
    <3> QED BY <3>1, <3>2 DEF Places
  <2> QED BY <1>2, <2>2, <2>3 DEF Role
<1> QED BY <1>1, <1>2

-----------------------------------------------------------------------------
(* Rosters. *)

Rosters == {r \in [Places -> Seq(Membership)] : \A p \in Places : Distinct(r[p])}

LEMMA IsSeq ==
  ASSUME NEW S, NEW n \in Nat, NEW f \in [1 .. n -> S]
  PROVE  f \in Seq(S) /\ DOMAIN f = 1 .. n
OBVIOUS

LEMMA MembersUserIn ==
  ASSUME NEW p, NEW u
  PROVE  u \in Members(p) <=> UserIn(roster, p, u)
BY DEF Members, UserIn

\* Joining makes a member, and changes no other membership.
LEMMA JoinedFacts ==
  ASSUME NEW p \in Places, NEW u \in Users, roster \in Rosters
  PROVE  /\ Joined(p, u) \in Rosters
         /\ UserIn(Joined(p, u), p, u)
<1> USE DEF Rosters, UserIn
<1>1. CASE u \in Members(p)
  BY <1>1 DEF Joined, Members
<1>2. CASE u \notin Members(p)
  <2> DEFINE m == [user |-> u, flags |-> JoinFlags[p]]
             r == [roster EXCEPT ![p] = Append(@, m)]
  <2>1. m \in Membership
    BY DEF Membership, JoinFlags, Flags, Places, Workspace, TheTeam
  <2>2. roster[p] \in Seq(Membership) /\ Append(roster[p], m) \in Seq(Membership)
    BY <2>1
  <2>3. /\ Len(Append(roster[p], m)) = Len(roster[p]) + 1
        /\ \A k \in 1 .. Len(roster[p]) : Append(roster[p], m)[k] = roster[p][k]
        /\ Append(roster[p], m)[Len(roster[p]) + 1] = m
        /\ DOMAIN Append(roster[p], m) = 1 .. Len(roster[p]) + 1
        /\ DOMAIN roster[p] = 1 .. Len(roster[p])
        /\ Len(roster[p]) \in Nat
    BY <2>1, <2>2
  <2>4. Distinct(roster[p]) /\ \A k \in DOMAIN roster[p] : roster[p][k].user # u
    BY <1>2 DEF Members
  <2>5. Distinct(Append(roster[p], m))
    BY <2>3, <2>4 DEF Distinct
  <2>6. r \in [Places -> Seq(Membership)]
    BY <2>2
  <2>7. \A q \in Places : r[q] = IF q = p THEN Append(roster[p], m) ELSE roster[q]
    OBVIOUS
  <2>8. Joined(p, u) = r
    BY <1>2 DEF Joined
  <2>9. Joined(p, u) \in Rosters
    BY <2>5, <2>6, <2>7, <2>8
  <2>10. r[p][Len(roster[p]) + 1].user = u /\ Len(roster[p]) + 1 \in DOMAIN r[p]
    BY <2>3, <2>7
  <2> QED BY <2>8, <2>9, <2>10
<1> QED BY <1>1, <1>2

\* Parting ends a membership, and changes no other.
LEMMA PartedFacts ==
  ASSUME NEW p \in Places, NEW u \in Users, roster \in Rosters
  PROVE  /\ Parted(p, u) \in Rosters
         /\ ~UserIn(Parted(p, u), p, u)
<1> USE DEF Rosters, UserIn
<1>1. CASE u \notin Members(p)
  BY <1>1 DEF Parted, Members
<1>2. CASE u \in Members(p)
  <2> DEFINE seq == roster[p]
             c == CHOOSE k \in DOMAIN seq : seq[k].user = u
             w == Without(seq, u)
  <2>1. seq \in Seq(Membership) /\ Len(seq) \in Nat /\ DOMAIN seq = 1 .. Len(seq)
    OBVIOUS
  <2>2. c \in 1 .. Len(seq) /\ seq[c].user = u
    BY <1>2, <2>1 DEF Members
  <2>3. w = [k \in 1 .. Len(seq) - 1 |-> IF k < c THEN seq[k] ELSE seq[k + 1]]
    BY DEF Without
  <2>4. Len(seq) - 1 \in Nat
    BY <2>1, <2>2
  <2>5. \A k \in 1 .. Len(seq) - 1 : w[k] \in Membership
    BY <2>1, <2>2, <2>3
  <2>6. w \in [1 .. Len(seq) - 1 -> Membership]
    BY <2>3, <2>5
  <2>7. w \in Seq(Membership) /\ DOMAIN w = 1 .. Len(seq) - 1
    BY <2>4, <2>6, IsSeq
  <2>8. Distinct(seq)
    OBVIOUS
  <2>9. Distinct(w)
    BY <2>1, <2>2, <2>3, <2>7, <2>8 DEF Distinct
  <2>10. \A k \in DOMAIN w : w[k].user # u
    BY <2>1, <2>2, <2>3, <2>7, <2>8 DEF Distinct
  <2>11. Parted(p, u) = [roster EXCEPT ![p] = w]
    BY <1>2 DEF Parted
  <2> HIDE DEF w, seq, c
  <2>12. /\ Parted(p, u) \in [Places -> Seq(Membership)]
         /\ \A q \in Places : Parted(p, u)[q] = IF q = p THEN w ELSE roster[q]
    BY <2>7, <2>11
  <2>13. Parted(p, u) \in Rosters
    BY <2>9, <2>12
  <2> QED BY <2>10, <2>12, <2>13
<1> QED BY <1>1, <1>2

LEMMA AppliedFacts ==
  ASSUME NEW t \in Tasks, t.place \in Places, roster \in Rosters
  PROVE  /\ Applied(t) \in Rosters
         /\ UserIn(Applied(t), t.place, t.user) <=> t.kind # "revoke"
<1>1. t.user \in Users
  BY DEF Tasks
<1> QED BY <1>1, JoinedFacts, PartedFacts DEF Applied

\* What a step that remembers a new roster does to everything but the tasks.
LEMMA RememberType ==
  ASSUME TypeOK, NEW r \in Rosters, NEW actor, Remember(r, actor)
  PROVE  /\ roster' \in Rosters
         /\ steady' \in [Places -> SUBSET Membership]
         /\ left' \in [Places -> Nat]
         /\ isolated' \subseteq isolated
<1>1. roster' \in Rosters
  BY DEF Remember
<1>2. steady' \in [Places -> SUBSET Membership]
  BY DEF Remember, TypeOK
<1>3. left' \in [Places -> Nat]
  <2>1. \A p \in Places : left[p] \in Nat /\ left[p] + 1 \in Nat
    BY DEF TypeOK
  <2> QED BY <2>1 DEF Remember
<1>4. isolated' \subseteq isolated
  BY DEF Remember
<1> QED BY <1>1, <1>2, <1>3, <1>4

\* Rejected requests are about a place there is.
LEMMA RejectedPlace ==
  ASSUME NEW t, WellFormed(t), RejectedBefore(t)
  PROVE  t.place \in Places
BY DEF WellFormed, RejectedBefore, TeamRejects, Places

\* A slot that stays isolated while somebody else acts keeps its invariant.
LEMMA OthersKeep ==
  ASSUME IInv, NEW r \in Rosters, NEW actor, Remember(r, actor),
         NEW s \in isolated', s # actor, task'[s] = task[s]
  PROVE  SlotInv(s)'
<1>1. s \in isolated /\ SlotInv(s)
  BY RememberType DEF IInv, TaskInv
<1>2. \A p \in Places : task[s].place = p =>
        (UserIn(roster, p, task[s].user) <=> UserIn(r, p, task[s].user))
  BY MembersUserIn DEF Remember
<1>3. roster' = r
  BY DEF Remember
<1>4. task[s].place \in Places => (There(s)' <=> There(s))
  BY <1>2, <1>3 DEF There
<1>5. RejectedBefore(task[s]) => task[s].place \in Places
  BY <1>1, RejectedPlace DEF SlotInv
<1>6. (Open(s)' <=> Open(s))
  BY DEF Open
<1>7. task[s].place = Workspace => task[s].place \in Places
  BY DEF Places
<1> QED BY <1>1, <1>4, <1>5, <1>6, <1>7 DEF SlotInv

\* A slot that neither acts nor sees its membership change keeps its invariant.
LEMMA StillKeep ==
  ASSUME TaskInv, NEW s \in isolated, roster' = roster, task'[s] = task[s]
  PROVE  SlotInv(s)'
BY DEF TaskInv, SlotInv, There, Open

-----------------------------------------------------------------------------
(* Tasks. *)

LEMMA OpenIsTask ==
  ASSUME TypeOK, NEW s \in Slots, Open(s)
  PROVE  task[s] \in Tasks
BY DEF TypeOK, Open, NoTask

\* Ending a task, or a wait, changes its outcome only.
LEMMA EndFacts ==
  ASSUME TypeOK, NEW s \in Slots, Open(s), NEW o \in Outcomes, End(s, o)
  PROVE  /\ task' \in [Slots -> Tasks \cup {NoTask}]
         /\ task'[s] = [task[s] EXCEPT !.outcome = o]
         /\ task'[s] # NoTask
         /\ \A x \in Slots \ {s} : task'[x] = task[x]
<1>1. task[s] \in Tasks
  BY OpenIsTask
<1>2. [task[s] EXCEPT !.outcome = o] \in Tasks
  BY <1>1 DEF Tasks
<1>3. task'[s] = [task[s] EXCEPT !.outcome = o]
  BY DEF End, TypeOK
<1>4. task'[s] # NoTask
  BY <1>2, <1>3 DEF Tasks, NoTask, Outcomes
<1> QED BY <1>2, <1>3, <1>4 DEF End, TypeOK

\* The slot that ends otherwise than by an answer or a rejection, or that waits
\* after a request, keeps its invariant.
LEMMA QuietEnd ==
  ASSUME IInv, NEW s \in Slots, Open(s), NEW o \in {"unimplemented", "failed", "waiting"},
         End(s, o), s \in isolated, ~RejectedBefore(task[s]) \/ o # "waiting"
  PROVE  SlotInv(s)'
<1>1. task[s] \in Tasks
  BY OpenIsTask DEF IInv
<1>2. task'[s] = [task[s] EXCEPT !.outcome = o] /\ task'[s] # NoTask
  BY EndFacts DEF IInv, Outcomes
<1>3. /\ task'[s].outcome = o
      /\ task'[s].kind = task[s].kind
      /\ task'[s].place = task[s].place
      /\ task'[s].fault = task[s].fault
  BY <1>1, <1>2 DEF Tasks
<1>4. WellFormed(task[s])
  BY DEF IInv, TaskInv, SlotInv
<1>5. WellFormed(task'[s])
  BY <1>3, <1>4 DEF WellFormed
<1>6. RejectedBefore(task'[s]) <=> RejectedBefore(task[s])
  BY <1>3 DEF RejectedBefore, WorkspaceRejects, TeamRejects, InviteRejects
<1> QED BY <1>2, <1>3, <1>5, <1>6 DEF SlotInv, Open

\* Who comes to wait has an execution left.
LEMMA WaitKept ==
  ASSUME TypeOK, WaitInv, NEW s \in Slots, Open(s), NEW o \in Outcomes, End(s, o),
         o = "waiting" => task[s].attempts < MaxAttempts
  PROVE  WaitInv'
<1>1. /\ task'[s] = [task[s] EXCEPT !.outcome = o]
      /\ \A x \in Slots \ {s} : task'[x] = task[x]
  BY EndFacts
<1>2. task[s] \in Tasks
  BY OpenIsTask
<1>3. task'[s].outcome = o /\ task'[s].attempts = task[s].attempts
  BY <1>1, <1>2 DEF Tasks
<1> QED BY <1>1, <1>3 DEF WaitInv

\* A step in which one task ends and nobody's membership changes.
LEMMA TaskStep ==
  ASSUME IInv, NEW s \in Slots, Open(s), NEW o \in Outcomes, End(s, o), o # "waiting",
         UNCHANGED <<roster, ledger, syncer, changes, history>>,
         s \in isolated => SlotInv(s)'
  PROVE  IInv'
<1> USE DEF syncer, history
<1>1. /\ task' \in [Slots -> Tasks \cup {NoTask}]
      /\ task'[s] # NoTask
      /\ \A x \in Slots \ {s} : task'[x] = task[x]
  BY EndFacts DEF IInv
<1>2. TypeOK'
  BY <1>1 DEF IInv, TypeOK
<1>3. ASSUME NEW x \in isolated
      PROVE  SlotInv(x)'
  <2>1. CASE x = s
    BY <2>1
  <2>2. CASE x # s
    BY <1>1, <2>2, StillKeep DEF IInv, TypeOK
  <2> QED BY <2>1, <2>2
<1>4. WaitInv'
  BY WaitKept DEF IInv
<1> QED BY <1>2, <1>3, <1>4 DEF IInv, TaskInv

\* A step in which one task ends, or waits, and the roster changes by it.
LEMMA RosterStep ==
  ASSUME IInv, NEW s \in Slots, Open(s), NEW o \in Outcomes, End(s, o),
         NEW r \in Rosters, Remember(r, s),
         ledger' \subseteq Known, UNCHANGED <<syncer, changes>>,
         o = "waiting" => task[s].attempts < MaxAttempts,
         s \in isolated => SlotInv(s)'
  PROVE  IInv'
<1> USE DEF syncer
<1>1. /\ task' \in [Slots -> Tasks \cup {NoTask}]
      /\ task'[s] # NoTask
      /\ \A x \in Slots \ {s} : task'[x] = task[x]
  BY EndFacts DEF IInv
<1>2. /\ roster' \in Rosters
      /\ steady' \in [Places -> SUBSET Membership]
      /\ left' \in [Places -> Nat]
      /\ isolated' \subseteq isolated
  BY RememberType DEF IInv
<1>3. isolated' \subseteq {x \in Slots : task'[x] # NoTask}
  BY <1>1, <1>2 DEF IInv, TypeOK
<1>4. TypeOK'
  <2>1. roster' \in [Places -> Seq(Membership)]
    BY <1>2 DEF Rosters
  <2> QED BY <1>1, <1>2, <1>3, <2>1 DEF IInv, TypeOK
<1>5. ASSUME NEW x \in isolated'
      PROVE  SlotInv(x)'
  <2>1. CASE x = s
    BY <1>2, <2>1
  <2>2. CASE x # s
    <3>1. task'[x] = task[x]
      BY <1>1, <1>3, <2>2
    <3> QED BY <2>2, <3>1, OthersKeep
  <2> QED BY <2>1, <2>2
<1>6. \A p \in Places : Distinct(roster[p])'
  BY <1>2 DEF Rosters, Distinct
<1>7. WaitInv'
  BY WaitKept DEF IInv
<1> QED BY <1>4, <1>5, <1>6, <1>7 DEF IInv, TaskInv

LEMMA RosterIn ==
  ASSUME IInv
  PROVE  roster \in Rosters
BY DEF IInv, TypeOK, Rosters

LEMMA RunningOpen ==
  ASSUME NEW s, Running(s)
  PROVE  Open(s)
BY DEF Running, Open

LEMMA UnimplementedStep ==
  ASSUME IInv, NEW s \in Slots, Unimplemented(s)
  PROVE  IInv'
<1>1. Open(s)
  BY RunningOpen DEF Unimplemented
<1>2. ~RejectedBefore(task[s]) \/ "unimplemented" # "waiting"
  OBVIOUS
<1>3. s \in isolated => SlotInv(s)'
  BY <1>1, <1>2, QuietEnd DEF Unimplemented
<1> QED BY <1>1, <1>3, TaskStep DEF Unimplemented, Outcomes

LEMMA RefusedStep ==
  ASSUME IInv, NEW s \in Slots, Refused(s)
  PROVE  IInv'
<1>1. Open(s)
  BY RunningOpen DEF Refused, Sends
<1>2. ~RejectedBefore(task[s]) \/ "failed" # "waiting"
  OBVIOUS
<1>3. s \in isolated => SlotInv(s)'
  BY <1>1, <1>2, QuietEnd DEF Refused
<1> QED BY <1>1, <1>3, TaskStep DEF Refused, Outcomes

\* What ending a task leaves as it was.
LEMMA EndKeeps ==
  ASSUME TypeOK, NEW s \in Slots, Open(s), NEW o \in Outcomes, End(s, o)
  PROVE  /\ task'[s] # NoTask
         /\ task'[s].outcome = o
         /\ task'[s].kind = task[s].kind
         /\ task'[s].place = task[s].place
         /\ task'[s].user = task[s].user
         /\ task'[s].fault = task[s].fault
         /\ task'[s].base = task[s].base
         /\ WellFormed(task[s]) => WellFormed(task'[s])
<1>1. task[s] \in Tasks
  BY OpenIsTask
<1>2. task'[s] = [task[s] EXCEPT !.outcome = o] /\ task'[s] # NoTask
  BY EndFacts
<1>3. /\ task'[s].outcome = o
      /\ task'[s].kind = task[s].kind
      /\ task'[s].place = task[s].place
      /\ task'[s].user = task[s].user
      /\ task'[s].fault = task[s].fault
      /\ task'[s].base = task[s].base
  BY <1>1, <1>2 DEF Tasks
<1> QED BY <1>2, <1>3 DEF WellFormed

\* A request rejected ahead of its call leaves the membership alone.
LEMMA RejectStep ==
  ASSUME IInv, NEW s \in Slots, Reject(s)
  PROVE  IInv'
<1>1. Open(s) /\ TypeOK /\ "rejected" \in Outcomes /\ End(s, "rejected")
  BY RunningOpen DEF Reject, IInv, Outcomes
<1>2. ASSUME s \in isolated
      PROVE  SlotInv(s)'
  <2>1. SlotInv(s) /\ RejectedBefore(task[s])
    BY <1>2 DEF IInv, TaskInv, Reject
  <2>2. task[s].place \in Places /\ (There(s) <=> task[s].base)
    BY <1>1, <2>1, RejectedPlace DEF SlotInv
  <2>3. There(s)' <=> There(s)
    BY <1>1, EndKeeps DEF There, Reject
  <2> QED BY <1>1, <2>1, <2>2, <2>3, EndKeeps DEF SlotInv, Open
<1> QED BY <1>1, <1>2, TaskStep DEF Reject

\* Whoever sends a request has a place, and a roster to change.
LEMMA SendsFacts ==
  ASSUME IInv, NEW s \in Slots, Sends(s)
  PROVE  /\ Open(s)
         /\ task[s] \in Tasks
         /\ task[s].place \in Places
         /\ Applied(task[s]) \in Rosters
         /\ UserIn(Applied(task[s]), task[s].place, task[s].user) <=> task[s].kind # "revoke"
<1>1. Open(s) /\ task[s].place \in Places
  BY RunningOpen DEF Sends
<1>2. task[s] \in Tasks
  BY <1>1, OpenIsTask DEF IInv
<1> QED BY <1>1, <1>2, AppliedFacts, RosterIn

\* An answered request: the membership is what the task asked for.
LEMMA AnsweredStep ==
  ASSUME IInv, NEW s \in Slots, Answered(s)
  PROVE  IInv'
<1> DEFINE r == Applied(task[s])
           o == IF RejectedAfter(task[s]) THEN "rejected" ELSE "done"
<1>1. /\ Open(s)
      /\ task[s] \in Tasks
      /\ task[s].place \in Places
      /\ r \in Rosters
      /\ UserIn(r, task[s].place, task[s].user) <=> task[s].kind # "revoke"
  BY SendsFacts DEF Answered
<1>2. o \in Outcomes /\ End(s, o) /\ Remember(r, s)
  BY DEF Answered, Outcomes
<1>3. roster' = r
  BY <1>2 DEF Remember
<1>4. ledger' \subseteq Known
  <2>1. ledger \subseteq Known /\ Returned(task[s].user) \in Known
    BY <1>1 DEF IInv, TypeOK, Returned, Known, Tasks
  <2>2. task[s].kind \in {"grant", "revoke", "invite"}
    BY <1>1 DEF Tasks, Kinds
  <2> QED BY <2>1, <2>2 DEF Answered
<1>5. ASSUME s \in isolated
      PROVE  SlotInv(s)'
  <2>1. WellFormed(task[s])
    BY <1>5 DEF IInv, TaskInv, SlotInv
  <2>2. /\ task'[s] # NoTask
        /\ task'[s].outcome = o
        /\ task'[s].kind = task[s].kind
        /\ task'[s].place = task[s].place
        /\ task'[s].user = task[s].user
        /\ task'[s].fault = task[s].fault
        /\ WellFormed(task'[s])
    BY <1>1, <1>2, <2>1, EndKeeps DEF IInv
  <2>3. There(s)' <=> task[s].kind # "revoke"
    BY <1>1, <1>3, <2>2 DEF There
  <2>4. RejectedAfter(task[s]) => task[s].place = Workspace /\ task[s].fault = "id"
    <3>1. ~RejectedBefore(task[s])
      BY DEF Answered, Sends
    <3> QED BY <1>1, <2>1, <3>1
          DEF RejectedAfter, RejectedBefore, TeamRejects, Places
  <2> QED BY <1>1, <2>2, <2>3, <2>4 DEF SlotInv, Open
<1> QED BY <1>1, <1>2, <1>4, <1>5, RosterStep DEF Answered

\* A lost request: applied or not, nothing is known of it.
LEMMA LostStep ==
  ASSUME IInv, NEW s \in Slots, Lost(s)
  PROVE  IInv'
<1>0. PICK o \in {"waiting", "failed"} : (o = "waiting" => Again(task[s])) /\ End(s, o)
  BY DEF Lost
<1>1. PICK r \in {roster, Applied(task[s])} : Remember(r, s)
  BY DEF Lost
<1>2. Open(s) /\ r \in Rosters
  BY SendsFacts, RosterIn DEF Lost
<1>3. o \in {"unimplemented", "failed", "waiting"} /\ o \in Outcomes /\ End(s, o)
  BY <1>0 DEF Outcomes
<1>4. ~RejectedBefore(task[s])
  BY DEF Lost, Sends
<1>5. s \in isolated => SlotInv(s)'
  BY <1>2, <1>3, <1>4, QuietEnd
<1>6. ledger' \subseteq Known
  BY DEF Lost, IInv, TypeOK
<1>7. o = "waiting" => task[s].attempts < MaxAttempts
  <2>1. task[s] \in Tasks
    BY <1>2, OpenIsTask DEF IInv
  <2> QED BY <1>0, <2>1, MembershipsAssumption DEF Again, Tasks
<1>8. UNCHANGED <<syncer, changes>>
  BY DEF Lost
<1> QED BY <1>1, <1>2, <1>3, <1>5, <1>6, <1>7, <1>8, RosterStep

\* The task is executed again.
LEMMA RepeatStep ==
  ASSUME IInv, NEW s \in Slots, Repeat(s)
  PROVE  IInv'
<1>1. task[s].outcome = "waiting" /\ Open(s) /\ task[s] \in Tasks
  BY OpenIsTask DEF Repeat, Open, IInv
<1>2. UNCHANGED <<roster, ledger, at, token, stored, changes, isolated, steady, left>>
  BY DEF Repeat, syncer, history
<1> DEFINE t == [task[s] EXCEPT !.outcome = "running", !.attempts = task[s].attempts + 1]
<1>3. task' = [task EXCEPT ![s] = t]
  BY DEF Repeat, NextAttempt
<1>4. task[s].attempts + 1 \in 0 .. MaxAttempts
  BY <1>1, MembershipsAssumption DEF IInv, WaitInv, Tasks
<1>5. /\ t \in Tasks
      /\ t.outcome = "running"
      /\ t.kind = task[s].kind
      /\ t.place = task[s].place
      /\ t.user = task[s].user
      /\ t.fault = task[s].fault
      /\ t.base = task[s].base
  BY <1>1, <1>4 DEF Tasks, Outcomes
<1>6. t # NoTask
  BY <1>5 DEF NoTask
<1> HIDE DEF t
<1>7. task'[s] = t /\ \A x \in Slots \ {s} : task'[x] = task[x]
  BY <1>3 DEF IInv, TypeOK
<1>8. TypeOK'
  <2>1. task' \in [Slots -> Tasks \cup {NoTask}]
    BY <1>3, <1>5 DEF IInv, TypeOK
  <2> QED BY <1>2, <1>6, <1>7, <2>1 DEF IInv, TypeOK
<1>9. WaitInv'
  BY <1>5, <1>7 DEF IInv, WaitInv
<1>10. ASSUME s \in isolated
       PROVE  SlotInv(s)'
  <2>1. SlotInv(s)
    BY <1>10 DEF IInv, TaskInv
  <2>2. WellFormed(t) /\ (RejectedBefore(t) <=> RejectedBefore(task[s]))
    BY <1>5, <2>1 DEF SlotInv, WellFormed, RejectedBefore, WorkspaceRejects,
                      TeamRejects, InviteRejects
  <2>3. There(s)' <=> There(s)
    BY <1>2, <1>5, <1>7 DEF There
  <2> QED BY <1>1, <1>5, <1>6, <1>7, <2>1, <2>2, <2>3 DEF SlotInv, Open
<1>11. TaskInv'
  BY <1>2, <1>7, <1>10, StillKeep DEF IInv, TaskInv, TypeOK
<1> QED BY <1>2, <1>8, <1>9, <1>11 DEF IInv

-----------------------------------------------------------------------------
(* The sync. *)

\* Steps that change neither rosters nor tasks.
LEMMA SyncStep ==
  ASSUME IInv, UNCHANGED <<roster, task, changes, isolated>>,
         ledger' \subseteq Known, at' \in 0 .. Len(Order) + 1, token' \in Nat,
         stored' \subseteq Entries, steady' \in [Places -> SUBSET Membership],
         left' \in [Places -> Nat]
  PROVE  IInv'
<1>1. TypeOK'
  BY DEF IInv, TypeOK
<1>2. TaskInv'
  BY StillKeep DEF IInv, TaskInv
<1>3. WaitInv'
  BY DEF IInv, WaitInv
<1> QED BY <1>1, <1>2, <1>3 DEF IInv

LEMMA OrderFacts ==
  /\ Len(Order) = 4 /\ DOMAIN Order = 1 .. 4
  /\ Order[1] = "users" /\ Order[2] = "teams" /\ Order[3] = "members"
  /\ Order[4] = "teamMembers"
  /\ About["users"] = Workspace /\ About["members"] = Workspace
  /\ About["teamMembers"] = TheTeam
BY DEF Order, About

LEMMA StartSyncStep ==
  ASSUME IInv, StartSync
  PROVE  IInv'
<1>1. steady' \in [Places -> SUBSET Membership]
  <2>1. \A p \in Places : {roster[p][k] : k \in DOMAIN roster[p]} \in SUBSET Membership
    BY DEF IInv, TypeOK
  <2> QED BY <2>1 DEF StartSync
<1>2. left' \in [Places -> Nat]
  BY DEF StartSync
<1>3. ledger' \subseteq Known
  BY DEF StartSync, IInv, TypeOK
<1> QED BY <1>1, <1>2, <1>3, OrderFacts, SyncStep DEF StartSync

LEMMA ForgetFacts ==
  ASSUME Forget
  PROVE  steady' \in [Places -> SUBSET Membership] /\ left' \in [Places -> Nat]
BY DEF Forget

LEMMA AbortSyncStep ==
  ASSUME IInv, AbortSync
  PROVE  IInv'
<1>1. ledger' \subseteq Known
  BY DEF AbortSync, IInv, TypeOK
<1> QED BY <1>1, OrderFacts, ForgetFacts, SyncStep DEF AbortSync

\* What a listing stores of each item of its collection.
LEMMA EntryType ==
  ASSUME TypeOK, NEW i \in DOMAIN Order, NEW k \in 1 .. Len(Collection(Order[i]))
  PROVE  Entry(Order[i], Collection(Order[i])[k]) \in Entries
<1> DEFINE item == Collection(Order[i])[k]
<1>1. \A p \in Places : \A j \in 1 .. Len(roster[p]) : roster[p][j] \in Membership
  BY DEF TypeOK
<1>2. Workspace \in Places /\ TheTeam \in Places
  BY DEF Places
<1>3. CASE i = 1
  <2>1. item \in Membership
    BY <1>1, <1>2, <1>3, OrderFacts DEF Collection
  <2> QED BY <1>3, <2>1, OrderFacts DEF Entry, UserEntry, Entries, Membership
<1>4. CASE i = 2
  <2>1. Collection("teams") = <<TheTeam>>
    BY DEF Collection
  <2>2. Len(<<TheTeam>>) = 1 /\ <<TheTeam>>[1] = TheTeam
    OBVIOUS
  <2>3. item = TheTeam
    BY <1>4, <2>1, <2>2, OrderFacts
  <2> QED BY <1>4, <2>3, OrderFacts DEF Entry, TeamEntry, Entries
<1>5. CASE i = 3
  <2>1. item \in Membership
    BY <1>1, <1>2, <1>5, OrderFacts DEF Collection
  <2>2. Role(Workspace, item.flags) \in Entitlements[Workspace] \cup {""}
    BY <1>2, RoleType DEF DefaultRole, Workspace
  <2> QED BY <1>5, <2>1, <2>2, OrderFacts DEF Entry, MemberEntry, Entries, Membership
<1>6. CASE i = 4
  <2>1. item \in Membership
    BY <1>1, <1>2, <1>6, OrderFacts DEF Collection
  <2>2. Role(TheTeam, item.flags) \in Entitlements[TheTeam]
    BY <1>2, RoleType DEF DefaultRole, TheTeam, Entitlements
  <2> QED BY <1>6, <2>1, <2>2, OrderFacts DEF Entry, TeamMemberEntry, Entries, Membership
<1> QED BY <1>3, <1>4, <1>5, <1>6, OrderFacts

\* A page: its items are of the collection, and the next offset is one.
LEMMA ListPageStep ==
  ASSUME IInv, ListPage
  PROVE  IInv'
<1>1. at \in DOMAIN Order /\ token \in Nat /\ stored \subseteq Entries /\ TypeOK
  BY DEF ListPage, IInv, TypeOK
<1> DEFINE l == Order[at]
<1>2. PICK n \in PageLengths(l) :
        /\ stored' = stored \cup {Entry(l, Collection(l)[k]) : k \in token + 1 .. token + n}
        /\ token' = NextOffset(l, n)
        /\ at' = IF NextOffset(l, n) = 0 THEN at + 1 ELSE at
  BY DEF ListPage
<1>3. Len(Collection(l)) \in Nat
  <2>1. \A p \in Places : Len(roster[p]) \in Nat
    BY <1>1 DEF TypeOK
  <2>2. Len(<<TheTeam>>) = 1
    OBVIOUS
  <2> QED BY <1>1, <2>1, <2>2, OrderFacts DEF Collection, Places
<1>4. n \in Nat /\ (n > 0 => token + n <= Len(Collection(l)))
  BY <1>1, <1>2, <1>3, MembershipsAssumption DEF PageLengths
<1>5. token' \in Nat
  BY <1>1, <1>2, <1>4 DEF NextOffset
<1>6. \A k \in token + 1 .. token + n : k \in 1 .. Len(Collection(l))
  BY <1>1, <1>3, <1>4
<1>7. stored' \subseteq Entries
  BY <1>1, <1>2, <1>6, EntryType
<1>8. at' \in 0 .. Len(Order) + 1
  BY <1>1, <1>2, OrderFacts
<1>9. /\ UNCHANGED <<roster, task, changes, isolated>>
      /\ ledger' \subseteq Known
      /\ steady' \in [Places -> SUBSET Membership]
      /\ left' \in [Places -> Nat]
  BY DEF ListPage, history, IInv, TypeOK
<1> QED BY <1>5, <1>7, <1>8, <1>9, SyncStep

\* The platform's grants are of the places and users that the sync has stored.
LEMMA EndSyncStep ==
  ASSUME IInv, EndSync
  PROVE  IInv'
<1>1. ASSUME NEW e \in stored, e.listing \in {"members", "teamMembers"}
      PROVE  [on |-> About[e.listing], user |-> e.user,
              immutable |-> GrantImmutable(About[e.listing], e.role)] \in Known
  <2>1. e \in Entries
    BY <1>1 DEF IInv, TypeOK
  <2>2. e.user \in Users
    BY <1>1, <2>1 DEF Entries
  <2>3. About[e.listing] \in Places
    BY <1>1, OrderFacts DEF Places
  <2>4. GrantImmutable(About[e.listing], e.role) \in BOOLEAN
    BY DEF GrantImmutable
  <2> QED BY <2>2, <2>3, <2>4 DEF Known
<1>2. ledger' \subseteq Known
  BY <1>1 DEF EndSync
<1>3. token' \in Nat
  BY DEF EndSync, IInv, TypeOK
<1> QED BY <1>2, <1>3, OrderFacts, ForgetFacts, SyncStep DEF EndSync

-----------------------------------------------------------------------------
(* Requests, administrators, and the theorems. *)

\* What the platform submits.
LEMMA RequestFacts ==
  ASSUME TypeOK, NEW t \in Requests
  PROVE  /\ t \in Tasks
         /\ WellFormed(t)
         /\ t.outcome = "running"
         /\ t.place \in Places => (UserIn(roster, t.place, t.user) <=> t.base)
<1>1. ASSUME NEW kind \in Kinds, NEW place \in Places \cup {"user"}, NEW user \in Users,
             NEW fault \in Faults, t = Task(kind, place, user, fault)
      PROVE  /\ t \in Tasks
             /\ t.outcome = "running" /\ t.kind = kind /\ t.place = place /\ t.fault = fault
             /\ t.place \in Places => (UserIn(roster, t.place, t.user) <=> t.base)
  <2> DEFINE b == place \in Places /\ user \in Members(place)
  <2>1. b \in BOOLEAN
    OBVIOUS
  <2>2. t = [kind |-> kind, place |-> place, user |-> user, fault |-> fault,
             attempts |-> 0, outcome |-> "running", base |-> b]
    BY <1>1 DEF Task
  <2>3. place \in Places => (b <=> UserIn(roster, place, user))
    BY MembersUserIn
  <2> HIDE DEF b
  <2>4. 0 \in 0 .. MaxAttempts /\ "running" \in Outcomes
    BY MembershipsAssumption DEF Outcomes
  <2>5. t \in Tasks
    BY <2>1, <2>2, <2>4 DEF Tasks
  <2> QED BY <2>2, <2>3, <2>5
<1>2. CASE \E p \in Places, u \in Users, f \in Faults \ {"incomplete"} : t = Task("grant", p, u, f)
  BY <1>1, <1>2 DEF Kinds, WellFormed
<1>3. CASE \E g \in ledger : t = Task("revoke", g.on, g.user, "none")
  <2>1. PICK g \in ledger : t = Task("revoke", g.on, g.user, "none")
    BY <1>3
  <2>2. g.on \in Places \cup {"user"} /\ g.user \in Users
    BY DEF TypeOK, Known
  <2>3. "revoke" \in Kinds /\ "none" \in Faults
    BY DEF Kinds, Faults
  <2> QED BY <1>1, <2>1, <2>2, <2>3 DEF WellFormed
<1>4. CASE \E u \in Users, f \in {"none", "incomplete"} : t = Task("invite", Workspace, u, f)
  <2>1. "invite" \in Kinds /\ {"none", "incomplete"} \subseteq Faults /\ Workspace \in Places
    BY DEF Kinds, Faults, Places
  <2> QED BY <1>1, <1>4, <2>1 DEF WellFormed
<1> QED BY <1>2, <1>3, <1>4 DEF Requests

LEMMA SubmitStep ==
  ASSUME IInv, NEW s \in Slots, Submit(s)
  PROVE  IInv'
<1>1. PICK t \in Requests : task' = [task EXCEPT ![s] = t]
  BY DEF Submit
<1>2. /\ t \in Tasks
      /\ WellFormed(t)
      /\ t.outcome = "running"
      /\ t.place \in Places => (UserIn(roster, t.place, t.user) <=> t.base)
  BY RequestFacts DEF IInv
<1>3. task'[s] = t /\ \A x \in Slots \ {s} : task'[x] = task[x]
  BY <1>1 DEF IInv, TypeOK
<1>4. t # NoTask
  BY <1>2 DEF NoTask
<1>5. /\ UNCHANGED <<roster, ledger, at, token, stored, changes, steady, left>>
      /\ isolated' = isolated \cup {s}
  BY DEF Submit, syncer
<1>6. TypeOK'
  <2>1. task' \in [Slots -> Tasks \cup {NoTask}]
    BY <1>1, <1>2 DEF IInv, TypeOK
  <2>2. isolated' \subseteq {x \in Slots : task'[x] # NoTask}
    BY <1>3, <1>4, <1>5 DEF IInv, TypeOK
  <2> QED BY <1>5, <2>1, <2>2 DEF IInv, TypeOK
<1>7. WaitInv'
  BY <1>2, <1>3 DEF IInv, WaitInv
<1>8. SlotInv(s)'
  <2>1. RejectedBefore(t) => t.place \in Places
    BY <1>2, RejectedPlace
  <2>2. There(s)' <=> UserIn(roster, t.place, t.user)
    BY <1>3, <1>5 DEF There
  <2> QED BY <1>2, <1>3, <1>4, <2>1, <2>2 DEF SlotInv, Open
<1>9. TaskInv'
  BY <1>3, <1>5, <1>8, StillKeep DEF IInv, TaskInv, TypeOK
<1> QED BY <1>5, <1>6, <1>7, <1>9 DEF IInv

\* Administrators change rosters into rosters, and take the slots whose
\* memberships they change out of the isolated ones.
LEMMA AdminChangeStep ==
  ASSUME IInv, AdminChange
  PROVE  IInv'
<1>1. \E r \in Rosters : Remember(r, "none")
  <2>1. PICK p \in Places :
          \/ \E u \in Users : Remember(Joined(p, u), "none") \/ Remember(Parted(p, u), "none")
          \/ \E k \in DOMAIN roster[p], f \in FlagChoices :
               Remember([roster EXCEPT ![p][k].flags = f], "none")
    BY DEF AdminChange
  <2>2. CASE \E u \in Users : Remember(Joined(p, u), "none") \/ Remember(Parted(p, u), "none")
    BY <2>2, JoinedFacts, PartedFacts, RosterIn
  <2>3. ASSUME NEW k \in DOMAIN roster[p], NEW f \in FlagChoices
        PROVE  [roster EXCEPT ![p][k].flags = f] \in Rosters
    <3> DEFINE m == [roster[p][k] EXCEPT !.flags = f]
               seq == [roster[p] EXCEPT ![k] = m]
    <3>1. roster[p] \in Seq(Membership) /\ Distinct(roster[p])
      BY RosterIn DEF Rosters
    <3>2. roster[p][k] \in Membership
      BY <3>1
    <3>3. m \in Membership /\ m.user = roster[p][k].user
      BY <3>2, MembershipsAssumption DEF Membership
    <3> HIDE DEF m
    <3>4. seq \in Seq(Membership) /\ DOMAIN seq = DOMAIN roster[p]
      BY <3>1, <3>3
    <3>5. \A j \in DOMAIN seq : seq[j].user = roster[p][j].user
      BY <3>3, <3>4
    <3>6. Distinct(seq)
      BY <3>1, <3>4, <3>5 DEF Distinct
    <3> HIDE DEF seq
    <3>7. [roster EXCEPT ![p] = seq] \in Rosters
      BY <3>4, <3>6, RosterIn DEF Rosters
    <3>8. [roster EXCEPT ![p][k].flags = f] = [roster EXCEPT ![p] = seq]
      BY DEF seq, m
    <3> QED BY <3>7, <3>8
  <2> QED BY <2>1, <2>2, <2>3
<1>2. PICK r \in Rosters : Remember(r, "none")
  BY <1>1
<1>3. /\ roster' \in Rosters
      /\ steady' \in [Places -> SUBSET Membership]
      /\ left' \in [Places -> Nat]
      /\ isolated' \subseteq isolated
  BY <1>2, RememberType DEF IInv
<1>4. UNCHANGED <<ledger, task, at, token, stored>> /\ changes' \in 0 .. MaxChanges
  BY MembershipsAssumption DEF AdminChange, syncer, IInv, TypeOK
<1>5. TypeOK'
  <2>1. roster' \in [Places -> Seq(Membership)]
    BY <1>3 DEF Rosters
  <2> QED BY <1>3, <1>4, <2>1 DEF IInv, TypeOK
<1>6. TaskInv'
  <2> SUFFICES ASSUME NEW s \in isolated'
               PROVE  SlotInv(s)'
    BY DEF TaskInv
  <2>1. s # "none"
    BY <1>5, MembershipsAssumption DEF TypeOK
  <2> QED BY <1>2, <1>4, <2>1, OthersKeep
<1>7. \A p \in Places : Distinct(roster[p])'
  BY <1>3 DEF Rosters, Distinct
<1>8. WaitInv'
  BY <1>4 DEF IInv, WaitInv
<1> QED BY <1>5, <1>6, <1>7, <1>8 DEF IInv

LEMMA InitIInv ==
  ASSUME Init
  PROVE  IInv
<1>1. roster \in [Places -> Seq(Membership)] /\ \A p \in Places : Distinct(roster[p])
  BY MembershipsAssumption DEF Init
<1>2. ledger \subseteq Known
  <2>1. \A u \in EarlierGrants : Returned(u) \in Known
    BY MembershipsAssumption DEF Returned, Known
  <2> QED BY <2>1 DEF Init
<1>3. task \in [Slots -> Tasks \cup {NoTask}] /\ WaitInv
  <2>1. NoTask.outcome # "waiting"
    BY DEF NoTask
  <2>2. task = [s \in Slots |-> NoTask]
    BY DEF Init
  <2>3. task \in [Slots -> Tasks \cup {NoTask}] /\ \A s \in Slots : task[s] = NoTask
    BY <2>2
  <2> QED BY <2>1, <2>3 DEF WaitInv
<1>4. at \in 0 .. Len(Order) + 1 /\ token \in Nat /\ stored \subseteq Entries
  BY OrderFacts DEF Init
<1>5. changes \in 0 .. MaxChanges
  BY MembershipsAssumption DEF Init
<1>6. /\ isolated = {}
      /\ steady \in [Places -> SUBSET Membership]
      /\ left \in [Places -> Nat]
  BY DEF Init
<1>7. TypeOK
  BY <1>1, <1>2, <1>3, <1>4, <1>5, <1>6 DEF TypeOK
<1> QED BY <1>1, <1>3, <1>6, <1>7 DEF IInv, TaskInv

LEMMA NextIInv ==
  ASSUME IInv, Next
  PROVE  IInv'
<1>1. CASE \E s \in Slots : Submit(s) \/ Execute(s)
  BY <1>1, SubmitStep, UnimplementedStep, RejectStep, AnsweredStep, RefusedStep,
     LostStep, RepeatStep DEF Execute
<1>2. CASE StartSync
  BY <1>2, StartSyncStep
<1>3. CASE ListPage
  BY <1>3, ListPageStep
<1>4. CASE EndSync
  BY <1>4, EndSyncStep
<1>5. CASE AbortSync
  BY <1>5, AbortSyncStep
<1>6. CASE AdminChange
  BY <1>6, AdminChangeStep
<1> QED BY <1>1, <1>2, <1>3, <1>4, <1>5, <1>6 DEF Next

LEMMA IdleIInv ==
  ASSUME IInv, UNCHANGED vars
  PROVE  IInv'
<1>1. UNCHANGED <<roster, ledger, task, at, token, stored, changes, isolated, steady, left>>
  BY DEF vars, syncer, history
<1>2. TypeOK'
  BY <1>1 DEF IInv, TypeOK
<1>3. TaskInv'
  BY <1>1, StillKeep DEF IInv, TaskInv
<1>4. WaitInv'
  BY <1>1 DEF IInv, WaitInv
<1> QED BY <1>1, <1>2, <1>3, <1>4 DEF IInv

\* The inductive invariant holds in every behaviour.
THEOREM Invariant == Spec => []IInv
<1>1. Init => IInv
  BY InitIInv
<1>2. IInv /\ [Next]_vars => IInv'
  BY NextIInv, IdleIInv
<1> QED BY <1>1, <1>2, PTL DEF Spec

\* Grants, revocations, invitations and syncs keep Asana's rosters, the
\* platform's ledger and every task well formed; nobody executes a task more
\* than MaxAttempts times again (retry.go, resource_provisioner.go).
THEOREM TypeCorrect == Spec => []TypeOK
<1>1. IInv => TypeOK
  BY DEF IInv
<1> QED BY <1>1, Invariant, PTL

\* What workspace.go and team.go report as done is done, however often the
\* request was lost before, as long as nobody else touches that membership.
THEOREM IsolatedCorrect == Spec => []IsolatedTaskCorrect
<1>1. IInv => IsolatedTaskCorrect
  <2> SUFFICES ASSUME IInv, NEW s \in isolated, task[s].outcome = "done"
               PROVE  task[s].user \in Members(task[s].place) <=> task[s].kind # "revoke"
    BY DEF IsolatedTaskCorrect
  <2>1. There(s) <=> task[s].kind # "revoke"
    BY DEF IInv, TaskInv, SlotInv
  <2> QED BY <2>1, MembersUserIn DEF There
<1> QED BY <1>1, Invariant, PTL

\* A rejected request has changed nothing, but for workspace grants with an
\* entitlement id that cannot be parsed (workspace.go, Grant).
THEOREM RejectedCorrect == Spec => []RejectedUnchanged
<1>1. IInv => RejectedUnchanged
  <2> SUFFICES ASSUME IInv, NEW s \in isolated, task[s].outcome = "rejected"
               PROVE  \/ task[s].user \in Members(task[s].place) <=> task[s].base
                      \/ task[s].place = Workspace /\ task[s].fault = "id"
    BY DEF RejectedUnchanged
  <2>1. \/ There(s) <=> task[s].base
        \/ task[s].place = Workspace /\ task[s].fault = "id"
    BY DEF IInv, TaskInv, SlotInv
  <2> QED BY <2>1, MembersUserIn DEF There
<1> QED BY <1>1, Invariant, PTL

-----------------------------------------------------------------------------
(* Roles that Asana's API cannot give back. *)

Lasting == {"admin", "limited", "guest"}

\* The user has at most an ordinary membership of the team.
Plain(u) ==
  \A k \in DOMAIN roster[TheTeam] :
    roster[TheTeam][k].user = u => roster[TheTeam][k].flags \cap Lasting = {}

\* Until an administrator changes something: the team grants that the platform
\* may revoke, or is about to take over, and the revocations under way, are of
\* ordinary memberships.
PlainInv ==
  changes = 0 =>
    /\ \A g \in ledger : g.on = TheTeam /\ ~g.immutable => Plain(g.user)
    /\ \A e \in stored : e.listing = "teamMembers" /\ e.role = teamMember => Plain(e.user)
    /\ \A s \in Slots :
         Open(s) /\ task[s].kind = "revoke" /\ task[s].place = TheTeam => Plain(task[s].user)

\* A member whose role is Team Member has no other.
LEMMA MemberRole ==
  ASSUME NEW flags, Role(TheTeam, flags) = teamMember
  PROVE  flags \cap Lasting = {}
<1> DEFINE hits == {k \in 1 .. 3 : Cases[TheTeam][k][1] \in flags}
<1>1. Cases[TheTeam] = << <<"admin", teamAdmin>>, <<"limited", teamLimitedAccess>>,
                          <<"guest", teamGuest>> >>
  BY DEF Cases, TheTeam
<1>2. \A k \in 1 .. 3 : Cases[TheTeam][k][2] # teamMember
  <2>1. \A k \in 1 .. 3 : Cases[TheTeam][k][2] \in {teamAdmin, teamLimitedAccess, teamGuest}
    BY <1>1
  <2>2. teamMember \notin {teamAdmin, teamLimitedAccess, teamGuest}
    BY DEF teamAdmin, teamLimitedAccess, teamGuest, teamMember
  <2> QED BY <2>1, <2>2
<1>3. CASE hits = {}
  <2>1. /\ ~(Cases[TheTeam][1][1] \in flags)
        /\ ~(Cases[TheTeam][2][1] \in flags)
        /\ ~(Cases[TheTeam][3][1] \in flags)
    BY <1>3
  <2> QED BY <1>1, <2>1 DEF Lasting
<1>4. CASE hits # {}
  <2>1. \E k \in hits : \A j \in hits : k <= j
    BY <1>4
  <2>2. (CHOOSE k \in hits : \A j \in hits : k <= j) \in 1 .. 3
    BY <2>1
  <2>3. Role(TheTeam, flags) = Cases[TheTeam][CHOOSE k \in hits : \A j \in hits : k <= j][2]
    BY <1>4 DEF Role
  <2> QED BY <1>2, <2>2, <2>3
<1> QED BY <1>3, <1>4

\* The team's memberships after a request are those before it, or ordinary.
LEMMA AppliedFrom ==
  ASSUME NEW t, t.place \in Places, t.user \in Users, roster \in Rosters,
         NEW r \in {roster, Applied(t)}, NEW k \in DOMAIN r[TheTeam]
  PROVE  \/ \E j \in DOMAIN roster[TheTeam] : r[TheTeam][k] = roster[TheTeam][j]
         \/ r[TheTeam][k].flags = {}
<1> DEFINE p == t.place
           u == t.user
           seq == roster[p]
<1>1. TheTeam \in Places /\ seq \in Seq(Membership) /\ Len(seq) \in Nat /\ DOMAIN seq = 1 .. Len(seq)
  BY DEF Places, Rosters
<1>2. CASE r = roster
  BY <1>2
<1>3. CASE r = Joined(p, u) /\ r # roster
  <2> DEFINE m == [user |-> u, flags |-> JoinFlags[p]]
  <2>1. r = [roster EXCEPT ![p] = Append(seq, m)]
    BY <1>3 DEF Joined
  <2>2. CASE p # TheTeam
    BY <2>1, <2>2, <1>1 DEF Rosters
  <2>3. CASE p = TheTeam
    <3>1. r[TheTeam] = Append(seq, m)
      BY <1>1, <2>1, <2>3 DEF Rosters
    <3>2. m.flags = {}
      BY <2>3 DEF JoinFlags, TheTeam
    <3> HIDE DEF m
    <3>3. k \in 1 .. Len(seq) + 1 /\ (k \in 1 .. Len(seq) => r[TheTeam][k] = seq[k])
          /\ (k = Len(seq) + 1 => r[TheTeam][k] = m)
      BY <1>1, <3>1
    <3> QED BY <1>1, <2>3, <3>2, <3>3
  <2> QED BY <2>2, <2>3
<1>4. CASE r = Parted(p, u) /\ r # roster
  <2> DEFINE c == CHOOSE j \in DOMAIN seq : seq[j].user = u
             w == Without(seq, u)
  <2>1. r = [roster EXCEPT ![p] = w] /\ u \in Members(p)
    BY <1>4 DEF Parted
  <2>2. CASE p # TheTeam
    BY <2>1, <2>2, <1>1 DEF Rosters
  <2>3. CASE p = TheTeam
    <3>1. c \in 1 .. Len(seq)
      BY <1>1, <2>1 DEF Members
    <3>2. w = [j \in 1 .. Len(seq) - 1 |-> IF j < c THEN seq[j] ELSE seq[j + 1]]
      BY DEF Without
    <3>3. r[TheTeam] = w
      BY <1>1, <2>1, <2>3 DEF Rosters
    <3>4. k \in 1 .. Len(seq) - 1 /\ r[TheTeam][k] = IF k < c THEN seq[k] ELSE seq[k + 1]
      BY <3>2, <3>3
    <3>5. k \in DOMAIN seq /\ k + 1 \in DOMAIN seq
      BY <1>1, <3>4
    <3> QED BY <2>3, <3>4, <3>5
  <2> QED BY <2>2, <2>3
<1> QED BY <1>2, <1>3, <1>4 DEF Applied

\* Requests add ordinary memberships and end memberships.
LEMMA PlainKept ==
  ASSUME IInv, NEW s \in Slots, Sends(s), roster' \in {roster, Applied(task[s])},
         NEW u, Plain(u)
  PROVE  Plain(u)'
<1>1. /\ task[s].place \in Places /\ task[s].user \in Users /\ roster \in Rosters
  BY SendsFacts, RosterIn DEF Tasks
<1>2. \A k \in DOMAIN roster'[TheTeam] :
        \/ \E j \in DOMAIN roster[TheTeam] : roster'[TheTeam][k] = roster[TheTeam][j]
        \/ roster'[TheTeam][k].flags = {}
  BY <1>1, AppliedFrom
<1> QED BY <1>2 DEF Plain

\* A step of an execution that keeps ordinary memberships ordinary.
LEMMA PlainExecution ==
  ASSUME IInv, PlainInv, NEW s \in Slots, Open(s), NEW o \in Outcomes, End(s, o),
         UNCHANGED <<stored, changes>>,
         \A g \in ledger' : g \in ledger \/ g.on = "user",
         \A u : Plain(u) => Plain(u)'
  PROVE  PlainInv'
<1> SUFFICES ASSUME changes = 0
             PROVE  PlainInv'
  BY DEF PlainInv
<1>1. \A g \in ledger' : g.on = TheTeam /\ ~g.immutable => Plain(g.user)'
  BY DEF PlainInv, TheTeam
<1>2. \A e \in stored' : e.listing = "teamMembers" /\ e.role = teamMember => Plain(e.user)'
  BY DEF PlainInv
<1>3. ASSUME NEW x \in Slots, NEW u, Open(x)', u = task'[x].user,
             task'[x].kind = "revoke", task'[x].place = TheTeam
      PROVE  Plain(u)'
  <2>1. CASE x = s
    <3>1. task[s].kind = "revoke" /\ task[s].place = TheTeam /\ u = task[s].user
      BY <1>3, <2>1, EndKeeps DEF IInv
    <3>2. Plain(u)
      BY <3>1 DEF PlainInv
    <3> QED BY <3>2
  <2>2. CASE x # s
    <3>1. task'[x] = task[x]
      BY <2>2, EndFacts DEF IInv
    <3>2. Plain(u)
      BY <1>3, <3>1 DEF PlainInv, Open
    <3> QED BY <3>2
  <2> QED BY <2>1, <2>2
<1> QED BY <1>1, <1>2, <1>3 DEF PlainInv, Plain

LEMMA PlainExecute ==
  ASSUME IInv, PlainInv, NEW s \in Slots, Execute(s)
  PROVE  PlainInv'
<1>1. CASE Unimplemented(s) \/ Reject(s) \/ Refused(s)
  <2>1. Open(s)
    BY <1>1, RunningOpen DEF Unimplemented, Reject, Refused, Sends
  <2>2. UNCHANGED <<roster, ledger, stored, changes>>
    BY <1>1 DEF Unimplemented, Reject, Refused, syncer
  <2>3. \E o \in Outcomes : End(s, o)
    BY <1>1 DEF Unimplemented, Reject, Refused, Outcomes
  <2>4. \A u : Plain(u) => Plain(u)'
    BY <2>2 DEF Plain
  <2> QED BY <2>1, <2>2, <2>3, <2>4, PlainExecution
<1>2. CASE Answered(s)
  <2>1. Open(s) /\ Sends(s)
    BY <1>2, SendsFacts DEF Answered
  <2>2. \E o \in Outcomes : End(s, o)
    BY <1>2 DEF Answered, Outcomes
  <2>3. roster' = Applied(task[s]) /\ UNCHANGED <<stored, changes>>
    BY <1>2 DEF Answered, Remember, syncer
  <2>4. \A u : Plain(u) => Plain(u)'
    BY <2>1, <2>3, PlainKept
  <2>5. \A g \in ledger' : g \in ledger \/ g.on = "user"
    <3>1. task[s].kind \in {"grant", "revoke", "invite"}
      BY <2>1, SendsFacts DEF Tasks, Kinds
    <3>2. Returned(task[s].user).on = "user"
      BY DEF Returned
    <3> QED BY <1>2, <3>1, <3>2 DEF Answered
  <2> QED BY <2>1, <2>2, <2>3, <2>4, <2>5, PlainExecution
<1>3. CASE Lost(s)
  <2>1. Open(s) /\ Sends(s)
    BY <1>3, SendsFacts DEF Lost
  <2>2. \E o \in Outcomes : End(s, o)
    BY <1>3 DEF Lost, Outcomes
  <2>3. roster' \in {roster, Applied(task[s])} /\ UNCHANGED <<ledger, stored, changes>>
    BY <1>3 DEF Lost, Remember, syncer
  <2>4. \A u : Plain(u) => Plain(u)'
    BY <2>1, <2>3, PlainKept
  <2> QED BY <2>1, <2>2, <2>3, <2>4, PlainExecution
<1>4. CASE Repeat(s)
  <2>1. Open(s) /\ task[s] \in Tasks /\ UNCHANGED <<roster, ledger, stored, changes>>
    BY <1>4, OpenIsTask DEF Repeat, Open, IInv, syncer
  <2>2. task'[s] = [task[s] EXCEPT !.outcome = "running", !.attempts = NextAttempt(task[s])]
    BY <1>4 DEF Repeat, IInv, TypeOK
  <2>3. /\ task'[s].kind = task[s].kind
        /\ task'[s].place = task[s].place
        /\ task'[s].user = task[s].user
    BY <2>1, <2>2 DEF Tasks
  <2>4. \A x \in Slots \ {s} : task'[x] = task[x]
    BY <1>4 DEF Repeat, IInv, TypeOK
  <2>5. \A u : Plain(u)' <=> Plain(u)
    BY <2>1 DEF Plain
  <2> QED BY <2>1, <2>3, <2>4, <2>5 DEF PlainInv, Open
<1> QED BY <1>1, <1>2, <1>3, <1>4 DEF Execute

\* Only what the ledger has as revocable is asked to be revoked.
LEMMA PlainSubmit ==
  ASSUME IInv, PlainInv, NEW s \in Slots, Submit(s)
  PROVE  PlainInv'
<1>1. PICK t \in Requests : task' = [task EXCEPT ![s] = t]
  BY DEF Submit
<1>2. UNCHANGED <<roster, ledger, stored, changes>>
  BY DEF Submit, syncer
<1>3. task'[s] = t /\ \A x \in Slots \ {s} : task'[x] = task[x]
  BY <1>1 DEF IInv, TypeOK
<1>4. \A u : Plain(u)' <=> Plain(u)
  BY <1>2 DEF Plain
<1>5. t.kind = "revoke" =>
        \E g \in ledger : ~g.immutable /\ t.place = g.on /\ t.user = g.user
  BY DEF Requests, Task
<1> QED BY <1>2, <1>3, <1>4, <1>5 DEF PlainInv, Open

\* A page of the team's memberships stores Team Member for ordinary ones only.
LEMMA PlainListPage ==
  ASSUME IInv, PlainInv, ListPage
  PROVE  PlainInv'
<1>1. UNCHANGED <<roster, ledger, task, changes>> /\ at \in DOMAIN Order /\ token \in Nat
  BY DEF ListPage, IInv, TypeOK
<1> DEFINE l == Order[at]
<1>2. PICK n \in PageLengths(l) :
        stored' = stored \cup {Entry(l, Collection(l)[k]) : k \in token + 1 .. token + n}
  BY DEF ListPage
<1>3. \A u : Plain(u)' <=> Plain(u)
  BY <1>1 DEF Plain
<1>4. ASSUME NEW k \in token + 1 .. token + n,
             Entry(l, Collection(l)[k]).listing = "teamMembers",
             Entry(l, Collection(l)[k]).role = teamMember
      PROVE  Plain(Entry(l, Collection(l)[k]).user)
  <2>1. l = "teamMembers"
    <3>1. l \in {"users", "teams", "members", "teamMembers"}
      BY <1>1, OrderFacts
    <3> HIDE DEF l
    <3>2. l = "users" => Entry(l, Collection(l)[k]).listing = "users"
      BY DEF Entry, UserEntry
    <3>3. l = "teams" => Entry(l, Collection(l)[k]).listing = "teams"
      BY DEF Entry, TeamEntry
    <3>4. l = "members" => Entry(l, Collection(l)[k]).listing = "members"
      BY DEF Entry, MemberEntry
    <3> QED BY <1>4, <3>1, <3>2, <3>3, <3>4
  <2>2. Collection(l) = roster[TheTeam] /\ Len(roster[TheTeam]) \in Nat
        /\ DOMAIN roster[TheTeam] = 1 .. Len(roster[TheTeam]) /\ Distinct(roster[TheTeam])
    BY <2>1, OrderFacts DEF Collection, IInv, TypeOK, Places
  <2>3. n \in Nat /\ (n > 0 => token + n <= Len(roster[TheTeam]))
    BY <1>1, <1>2, <2>2, MembershipsAssumption DEF PageLengths
  <2>4. k \in DOMAIN roster[TheTeam]
    BY <1>1, <2>2, <2>3
  <2>5. Entry(l, Collection(l)[k]) =
          [listing |-> "teamMembers", user |-> roster[TheTeam][k].user,
           role |-> Role(TheTeam, roster[TheTeam][k].flags)]
    BY <2>1, <2>2 DEF Entry, TeamMemberEntry
  <2>6. roster[TheTeam][k].flags \cap Lasting = {}
    BY <1>4, <2>5, MemberRole
  <2>7. Plain(roster[TheTeam][k].user)
    BY <2>2, <2>4, <2>6 DEF Plain, Distinct
  <2> QED BY <2>5, <2>7
<1> QED BY <1>1, <1>2, <1>3, <1>4 DEF PlainInv, Open

LEMMA PlainEndSync ==
  ASSUME IInv, PlainInv, EndSync
  PROVE  PlainInv'
<1>1. UNCHANGED <<roster, task, changes>> /\ stored' = {}
  BY DEF EndSync
<1>2. \A u : Plain(u)' <=> Plain(u)
  BY <1>1 DEF Plain
<1>3. ASSUME NEW e \in stored, e.listing \in {"members", "teamMembers"},
             About[e.listing] = TheTeam, ~GrantImmutable(About[e.listing], e.role), changes = 0
      PROVE  Plain(e.user)
  <2>1. e.listing = "teamMembers"
    BY <1>3, OrderFacts DEF Workspace, TheTeam
  <2>2. e.role = teamMember
    BY <1>3 DEF GrantImmutable
  <2> QED BY <1>3, <2>1, <2>2 DEF PlainInv
<1>4. ASSUME NEW g \in ledger', g.on = TheTeam, ~g.immutable, changes = 0
      PROVE  Plain(g.user)
  <2>1. PICK e \in {x \in stored : x.listing \in {"members", "teamMembers"}} :
          g = [on |-> About[e.listing], user |-> e.user,
               immutable |-> GrantImmutable(About[e.listing], e.role)]
    BY DEF EndSync
  <2>2. g.on = About[e.listing] /\ g.user = e.user
        /\ g.immutable = GrantImmutable(About[e.listing], e.role)
    BY <2>1
  <2> QED BY <1>3, <1>4, <2>2
<1> QED BY <1>1, <1>2, <1>4 DEF PlainInv, Open

LEMMA PlainNext ==
  ASSUME IInv, PlainInv, [Next]_vars
  PROVE  PlainInv'
<1>1. CASE \E s \in Slots : Submit(s) \/ Execute(s)
  BY <1>1, PlainSubmit, PlainExecute
<1>2. CASE ListPage
  BY <1>2, PlainListPage
<1>3. CASE EndSync
  BY <1>3, PlainEndSync
<1>4. CASE StartSync \/ AbortSync
  <2>1. UNCHANGED <<roster, ledger, task, changes>> /\ stored' = {}
    BY <1>4 DEF StartSync, AbortSync
  <2> QED BY <2>1 DEF PlainInv, Plain, Open
<1>5. CASE AdminChange
  BY <1>5 DEF AdminChange, PlainInv, IInv, TypeOK
<1>6. CASE UNCHANGED vars
  <2>1. UNCHANGED <<roster, ledger, task, changes, stored>>
    BY <1>6 DEF vars, syncer
  <2> QED BY <2>1 DEF PlainInv, Plain, Open
<1> QED BY <1>1, <1>2, <1>3, <1>4, <1>5, <1>6 DEF Next

\* Who is no longer a member after a request was the one to be revoked.
LEMMA OnlyParted ==
  ASSUME NEW t, t.place \in Places, t.user \in Users, roster \in Rosters,
         NEW k \in DOMAIN roster[TheTeam],
         ~UserIn(Applied(t), TheTeam, roster[TheTeam][k].user)
  PROVE  t.kind = "revoke" /\ t.place = TheTeam /\ t.user = roster[TheTeam][k].user
<1> DEFINE p == t.place
           u == t.user
           seq == roster[p]
           v == roster[TheTeam][k].user
           r == Applied(t)
<1>1. /\ TheTeam \in Places /\ seq \in Seq(Membership) /\ Len(seq) \in Nat
      /\ DOMAIN seq = 1 .. Len(seq)
  BY DEF Places, Rosters
<1>2. UserIn(roster, TheTeam, v)
  BY DEF UserIn
<1>3. r # roster
  BY <1>2
<1>4. ASSUME r = Joined(p, u)
      PROVE  FALSE
  <2> DEFINE m == [user |-> u, flags |-> JoinFlags[p]]
  <2>1. r = [roster EXCEPT ![p] = Append(seq, m)]
    BY <1>3, <1>4 DEF Joined
  <2>2. CASE p # TheTeam
    <3>1. r[TheTeam] = roster[TheTeam]
      BY <1>1, <2>1, <2>2 DEF Rosters
    <3> QED BY <1>2, <3>1 DEF UserIn
  <2>3. CASE p = TheTeam
    <3>1. r[TheTeam] = Append(seq, m)
      BY <1>1, <2>1, <2>3 DEF Rosters
    <3> HIDE DEF m
    <3>2. k \in DOMAIN Append(seq, m) /\ Append(seq, m)[k] = seq[k]
      BY <1>1, <2>3
    <3> QED BY <2>3, <3>1, <3>2 DEF UserIn
  <2> QED BY <2>2, <2>3
<1>5. r = Parted(p, u) /\ t.kind = "revoke"
  BY <1>4 DEF Applied
<1> DEFINE c == CHOOSE j \in DOMAIN seq : seq[j].user = u
           w == Without(seq, u)
<1>6. r = [roster EXCEPT ![p] = w] /\ u \in Members(p)
  BY <1>3, <1>5 DEF Parted
<1>7. p = TheTeam
  <2> SUFFICES ASSUME p # TheTeam
               PROVE  FALSE
    OBVIOUS
  <2>1. r[TheTeam] = roster[TheTeam]
    BY <1>1, <1>6 DEF Rosters
  <2> QED BY <1>2, <2>1 DEF UserIn
<1>8. c \in 1 .. Len(seq) /\ seq[c].user = u
  BY <1>1, <1>6 DEF Members
<1>9. w = [j \in 1 .. Len(seq) - 1 |-> IF j < c THEN seq[j] ELSE seq[j + 1]]
  BY DEF Without
<1>10. r[TheTeam] = w
  BY <1>1, <1>6, <1>7 DEF Rosters
<1> HIDE DEF c, w, r
<1>11. k # c => FALSE
  <2> SUFFICES ASSUME k # c
               PROVE  FALSE
    OBVIOUS
  <2>1. k \in 1 .. Len(seq)
    BY <1>1, <1>7
  <2>2. CASE k < c
    <3>1. k \in DOMAIN w /\ w[k] = seq[k]
      BY <1>1, <1>8, <1>9, <2>1, <2>2
    <3> QED BY <1>7, <1>10, <3>1 DEF UserIn, r
  <2>3. CASE k > c
    <3>1. k - 1 \in DOMAIN w /\ w[k - 1] = seq[k]
      BY <1>1, <1>8, <1>9, <2>1, <2>3
    <3> QED BY <1>7, <1>10, <3>1 DEF UserIn, r
  <2> QED BY <1>1, <1>8, <2>1, <2>2, <2>3
<1> QED BY <1>5, <1>7, <1>8, <1>11

\* Only administrators are counted, and never backwards.
LEMMA ChangesGrow ==
  ASSUME IInv, [Next]_vars, changes' = 0
  PROVE  changes = 0
<1>1. changes \in Nat
  BY DEF IInv, TypeOK
<1>2. CASE \E s \in Slots : Submit(s) \/ Execute(s)
  BY <1>2 DEF Submit, Execute, Unimplemented, Reject, Answered, Refused, Lost, Repeat
<1>3. CASE StartSync \/ ListPage \/ EndSync \/ AbortSync
  BY <1>3 DEF StartSync, ListPage, EndSync, AbortSync
<1>4. CASE AdminChange
  BY <1>1, <1>4 DEF AdminChange
<1>5. CASE UNCHANGED vars
  BY <1>5 DEF vars
<1> QED BY <1>2, <1>3, <1>4, <1>5 DEF Next

\* A membership of the team ends by a revocation, or by an administrator.
LEMMA TeamLeft ==
  ASSUME IInv, [Next]_vars, changes' = 0, NEW k \in DOMAIN roster[TheTeam],
         roster[TheTeam][k].user \notin Members(TheTeam)'
  PROVE  \E s \in Slots : /\ Open(s)
                          /\ task[s].kind = "revoke"
                          /\ task[s].place = TheTeam
                          /\ task[s].user = roster[TheTeam][k].user
<1> DEFINE u == roster[TheTeam][k].user
<1>1. u \in Members(TheTeam) /\ roster' # roster
  BY DEF Members
<1>2. ~AdminChange
  BY DEF AdminChange, IInv, TypeOK
<1>3. PICK s \in Slots : Answered(s) \/ Lost(s)
  BY <1>1, <1>2 DEF Next, Submit, Execute, Unimplemented, Reject, Refused, Repeat, StartSync,
                    ListPage, EndSync, AbortSync, vars
<1>4. Sends(s) /\ roster' = Applied(task[s])
  BY <1>1, <1>3 DEF Answered, Lost, Remember
<1>5. Open(s) /\ task[s].place \in Places /\ task[s].user \in Users /\ roster \in Rosters
  BY <1>4, SendsFacts, RosterIn DEF Tasks
<1>6. task[s].kind = "revoke" /\ task[s].place = TheTeam /\ task[s].user = u
  <2>1. ~UserIn(Applied(task[s]), TheTeam, u)
    BY <1>4 DEF Members, UserIn
  <2> QED BY <1>5, <2>1, OnlyParted
<1> QED BY <1>5, <1>6

\* While administrators change nothing, no task ends a membership of the team
\* with a role that Asana's API could not give back: syncs mark the grants of
\* those as immutable (team.go, getTeamGrantAnnotations).
THEOREM ImmutableCorrect == Spec => ImmutableKept
<1>1. Init => PlainInv
  BY DEF Init, PlainInv, Returned, NoTask, Open, TheTeam
<1>2. IInv /\ PlainInv /\ [Next]_vars => PlainInv'
  BY PlainNext
<1>3. ASSUME IInv, PlainInv, [Next]_vars, changes' = 0, NEW k \in DOMAIN roster[TheTeam],
             roster[TheTeam][k].user \notin Members(TheTeam)'
      PROVE  roster[TheTeam][k].flags \cap {"admin", "limited", "guest"} = {}
  <2>1. changes = 0
    BY <1>3, ChangesGrow
  <2>2. Plain(roster[TheTeam][k].user)
    BY <1>3, <2>1, TeamLeft DEF PlainInv
  <2> QED BY <2>2 DEF Plain, Lasting
<1>4. IInv /\ PlainInv /\ [Next]_vars =>
        [changes' = 0 =>
           \A k \in DOMAIN roster[TheTeam] :
             roster[TheTeam][k].user \notin Members(TheTeam)' =>
               roster[TheTeam][k].flags \cap {"admin", "limited", "guest"} = {}]_vars
  BY <1>3
<1> QED BY <1>1, <1>2, <1>4, Invariant, PTL DEF Spec, ImmutableKept

-----------------------------------------------------------------------------
(* How often a task is still executed, and waits.                           *)

ExecutionsLeft(s) ==
  IF Open(s) THEN 2 * (MaxAttempts - task[s].attempts) + (IF Running(s) THEN 1 ELSE 0) ELSE 0

ExecutionsLeftOK == \A s \in Slots : ExecutionsLeft(s) \in Nat

UsesUpExecutions ==
  \A s \in Slots : /\ Execute(s) => ExecutionsLeft(s)' < ExecutionsLeft(s)
                   /\ Open(s) => ExecutionsLeft(s)' <= ExecutionsLeft(s)

LEMMA AttemptsType ==
  ASSUME TypeOK, NEW s \in Slots, Open(s)
  PROVE  task[s].attempts \in 0 .. MaxAttempts /\ MaxAttempts \in Nat
BY OpenIsTask, MembershipsAssumption DEF Tasks

LEMMA ExecutionsLeftType == TypeOK => ExecutionsLeftOK
<1> SUFFICES ASSUME TypeOK, NEW s \in Slots
             PROVE  ExecutionsLeft(s) \in Nat
  BY DEF ExecutionsLeftOK
<1>1. CASE Open(s)
  <2>1. task[s].attempts \in 0 .. MaxAttempts /\ MaxAttempts \in Nat
    BY <1>1, AttemptsType
  <2> QED BY <1>1, <2>1 DEF ExecutionsLeft
<1>2. CASE ~Open(s)
  BY <1>2 DEF ExecutionsLeft
<1> QED BY <1>1, <1>2

\* An execution ends its task or makes it wait.
LEMMA EndsOrWaits ==
  ASSUME IInv, NEW s \in Slots, Execute(s), ~Repeat(s)
  PROVE  Running(s) /\ \E o \in Outcomes \ {"running"} : End(s, o)
<1>1. CASE Unimplemented(s) \/ Reject(s) \/ Refused(s)
  BY <1>1 DEF Unimplemented, Reject, Refused, Sends, Outcomes
<1>2. CASE Answered(s)
  BY <1>2 DEF Answered, Sends, Outcomes
<1>3. CASE Lost(s)
  BY <1>3 DEF Lost, Sends, Outcomes
<1> QED BY <1>1, <1>2, <1>3 DEF Execute

LEMMA ExecuteCosts ==
  ASSUME IInv, NEW s \in Slots, Execute(s)
  PROVE  ExecutionsLeft(s)' < ExecutionsLeft(s)
<1>0. TypeOK
  BY DEF IInv
<1>1. CASE Repeat(s)
  <2>1. Open(s) /\ ~Running(s)
    BY <1>1 DEF Repeat, Open, Running
  <2>2. task[s] \in Tasks /\ task[s].attempts \in 0 .. MaxAttempts /\ MaxAttempts \in Nat
    BY <1>0, <2>1, OpenIsTask, AttemptsType
  <2> DEFINE t == [task[s] EXCEPT !.outcome = "running", !.attempts = task[s].attempts + 1]
  <2>3. task'[s] = t
    BY <1>0, <1>1 DEF Repeat, NextAttempt, TypeOK
  <2>4. t.outcome = "running" /\ t.attempts = task[s].attempts + 1
    BY <2>2 DEF Tasks
  <2>5. task'[s].outcome = "running" /\ task'[s].attempts = task[s].attempts + 1
    BY <2>3, <2>4
  <2>6. ExecutionsLeft(s) = 2 * (MaxAttempts - task[s].attempts)
    BY <2>1, <2>2 DEF ExecutionsLeft
  <2>7. ExecutionsLeft(s)' = 2 * (MaxAttempts - (task[s].attempts + 1)) + 1
    BY <2>5 DEF ExecutionsLeft, Open, Running
  <2> QED BY <2>2, <2>6, <2>7
<1>2. CASE ~Repeat(s)
  <2>1. Running(s) /\ Open(s)
    BY <1>2, EndsOrWaits, RunningOpen
  <2>2. PICK o \in Outcomes \ {"running"} : End(s, o)
    BY <1>2, EndsOrWaits
  <2>3. task[s] \in Tasks /\ task[s].attempts \in 0 .. MaxAttempts /\ MaxAttempts \in Nat
    BY <1>0, <2>1, OpenIsTask, AttemptsType
  <2>4. task'[s] = [task[s] EXCEPT !.outcome = o]
    BY <1>0, <2>1, <2>2, EndFacts
  <2>5. task'[s].outcome = o /\ task'[s].attempts = task[s].attempts
    BY <2>3, <2>4 DEF Tasks
  <2>6. ExecutionsLeft(s) = 2 * (MaxAttempts - task[s].attempts) + 1
    BY <2>1 DEF ExecutionsLeft
  <2>7. ExecutionsLeft(s)' \in {2 * (MaxAttempts - task[s].attempts) + 0, 0}
    BY <2>2, <2>5 DEF ExecutionsLeft, Running
  <2> QED BY <2>3, <2>6, <2>7
<1> QED BY <1>1, <1>2

\* Each execution, and each wait, of a task is one less that it may have, and
\* nothing else gives an open task one back: however often requests are lost, a
\* grant or a revocation is executed at most once more than the SDK's count
\* (retry.go) lets it be repeated.
THEOREM ExecutionsRunOut == Spec => []ExecutionsLeftOK /\ [][UsesUpExecutions]_vars
<1>1. ASSUME IInv, ExecutionsLeftOK, ExecutionsLeftOK', [Next]_vars, NEW s \in Slots
      PROVE  /\ Execute(s) => ExecutionsLeft(s)' < ExecutionsLeft(s)
             /\ Open(s) => ExecutionsLeft(s)' <= ExecutionsLeft(s)
  <2>1. ExecutionsLeft(s) \in Nat /\ ExecutionsLeft(s)' \in Nat
    BY <1>1 DEF ExecutionsLeftOK
  <2>2. CASE Execute(s)
    <3>1. ExecutionsLeft(s)' < ExecutionsLeft(s)
      BY <1>1, <2>2, ExecuteCosts
    <3> QED BY <2>1, <3>1
  <2>3. CASE Open(s) /\ ~Execute(s)
    <3>1. task'[s] = task[s]
      <4>1. ASSUME NEW x \in Slots \ {s}, Execute(x)
            PROVE  task'[s] = task[s]
        BY <1>1, <4>1
           DEF Execute, Unimplemented, Reject, Answered, Refused, Lost, Repeat, End, IInv, TypeOK
      <4>2. ASSUME NEW x \in Slots, Submit(x)
            PROVE  task'[s] = task[s]
        BY <1>1, <2>3, <4>2 DEF Submit, IInv, TypeOK, Open, NoTask
      <4>3. CASE StartSync \/ ListPage \/ EndSync \/ AbortSync \/ AdminChange \/ UNCHANGED vars
        BY <4>3 DEF StartSync, ListPage, EndSync, AbortSync, AdminChange, vars
      <4> QED BY <1>1, <2>3, <4>1, <4>2, <4>3 DEF Next
    <3>2. ExecutionsLeft(s)' = ExecutionsLeft(s)
      BY <3>1 DEF ExecutionsLeft, Open, Running
    <3> QED BY <2>1, <2>3, <3>2
  <2> QED BY <2>2, <2>3
<1>2. IInv /\ ExecutionsLeftOK /\ ExecutionsLeftOK' /\ [Next]_vars => [UsesUpExecutions]_vars
  BY <1>1 DEF UsesUpExecutions
<1> QED BY <1>2, ExecutionsLeftType, TypeCorrect, Invariant, PTL DEF Spec

================================================================================
