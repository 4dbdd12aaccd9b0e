------------------------------ MODULE LicenseProofs ------------------------------
(* Theorems about LicenseProvisioner and LicenseRefinement and their proofs. *)
EXTENDS LicenseRefinement, FiniteSetTheorems, TLAPS

-----------------------------------------------------------------------------
(* The decisions of license.go against the meaning of a request. *)

\* A PATCH of an account is an account.
LEMMA PatchedType ==
  ASSUME NEW r \in Request, ~Rejected(r), NEW v \in Account
  PROVE  Patched(r, v) \in Account
BY DEF Patched, Account, Request, UserTypes, License, Enterprise, ViewOnly, Rejected

\* A readable answer is decided on, and it is an account.
LEMMA ReadableDecides ==
  ASSUME NEW r \in Request, NEW v \in Account
  PROVE  /\ v # Gone
         /\ Decision(r, v) = IF r.kind = "grant" THEN GrantDecision(r, v)
                             ELSE RevokeDecision(r, v)
<1>1. v # Gone /\ v # Unreadable
  BY GoneAssumption, UnreadableAssumption
<1> QED BY <1>1 DEF Decision

\* A handler that decides to send a PATCH sends one that reaches the goal.
LEMMA PatchReachesGoal ==
  ASSUME NEW r \in Request, ~Rejected(r), NEW v \in Account, Decision(r, v) = "patch"
  PROVE  Goal(r, v) = Patched(r, v)
BY ReadableDecides
   DEF Goal, Patched, GrantDecision, RevokeDecision, Rejected,
       Account, Request, UserTypes, License, Enterprise, ViewOnly

\* A handler that decides to send nothing had nothing to change.
LEMMA NoPatchNoGoal ==
  ASSUME NEW r \in Request, ~Rejected(r), NEW v \in Account, Decision(r, v) # "patch"
  PROVE  Goal(r, v) = v
<1>1. v # Gone /\ r.kind \in {"grant", "revoke"}
  BY ReadableDecides DEF Request
<1>2. CASE r.kind = "grant"
  <2>1. GrantDecision(r, v) # "patch"
    BY <1>2, ReadableDecides
  <2> QED BY <1>1, <1>2, <2>1 DEF Goal, GrantDecision, Account
<1>3. CASE r.kind = "revoke"
  <2>1. RevokeDecision(r, v) # "patch"
    BY <1>3, ReadableDecides
  <2> QED BY <1>1, <1>3, <2>1 DEF Goal, RevokeDecision
<1> QED BY <1>1, <1>2, <1>3

\* Applying a PATCH twice is applying it once: a retry of what was done.
LEMMA PatchedIdempotent ==
  ASSUME NEW r \in Request, NEW v \in Account
  PROVE  Patched(r, Patched(r, v)) = Patched(r, v)
BY DEF Patched, Account, Request

\* The goal for an account is an account.
LEMMA GoalType ==
  ASSUME NEW r \in Request, ~Rejected(r), NEW v \in Account
  PROVE  Goal(r, v) \in Account
BY PatchReachesGoal, NoPatchNoGoal, PatchedType

\* An id that does not exist has nothing to change.
LEMMA GoalGone ==
  ASSUME NEW r
  PROVE  Goal(r, Gone) = Gone
BY DEF Goal

\* A decision is a place for the task to be.
LEMMA DecisionType ==
  ASSUME NEW r, NEW v
  PROVE  Decision(r, v) \in {"done", "already", "patch", "failed"}
BY DEF Decision, GrantDecision, RevokeDecision

\* Nothing is decided on an answer that does not decode.
LEMMA UnreadableFails ==
  ASSUME NEW r
  PROVE  Decision(r, Unreadable) = "failed"
BY DEF Decision

-----------------------------------------------------------------------------
(* Type correctness and what a task knows. *)

Base == TypeOK /\ ProgressInv

LEMMA InitBase == Init => Base
BY AccountTypesAssumption, BoundsAssumption
   DEF Init, Base, TypeOK, ProgressInv, Account, UserTypes, Phases, Running

LEMMA SubmitBase ==
  ASSUME Base, NEW s \in Slots, NEW r \in Requests, Submit(s, r)
  PROVE  Base'
<1>1. r \in Request /\ r.user \in Users
  BY RequestsAssumption DEF Request
<1>2. isolated' \subseteq Slots
  BY DEF Base, TypeOK, Submit, Undisturbed
<1>3. TypeOK'
  <2>1. /\ directory' \in [Users -> Account \cup {Gone}]
        /\ cache' \in [Users -> Account \cup {Unreadable, Miss}]
        /\ late' \in SUBSET Request
        /\ changes' \in 0 .. MaxChanges
        /\ submitted' \in 0 .. MaxTasks
    BY BoundsAssumption DEF Base, TypeOK, Submit, server
  <2>2. /\ pc' \in [Slots -> Phases]
        /\ req' \in [Slots -> Request \cup {NoRequest}]
        /\ seen' \in [Slots -> Account \cup {Unreadable, Miss}]
        /\ attempts' \in [Slots -> 0 .. MaxAttempts]
    BY <1>1, BoundsAssumption DEF Base, TypeOK, Submit, Phases, Running
  <2>3. base' \in [Slots -> Account \cup {Gone}]
    BY <1>1 DEF Base, TypeOK, Submit
  <2>4. QED
    BY <1>2, <2>1, <2>2, <2>3 DEF TypeOK
<1>4. ProgressInv'
  BY <1>1 DEF Base, TypeOK, ProgressInv, Submit, server
<1>5. QED
  BY <1>3, <1>4 DEF Base

LEMMA LookupBase ==
  ASSUME Base, NEW s \in Slots, Lookup(s)
  PROVE  Base'
BY NoRequestAssumption, BoundsAssumption, MissAssumption, UnreadableAssumption
   DEF Base, TypeOK, ProgressInv, Lookup, Failed, Phases, Running, server, counts,
       history, Request

LEMMA FetchBase ==
  ASSUME Base, NEW s \in Slots, Fetch(s)
  PROVE  Base'
BY NoRequestAssumption, BoundsAssumption, MissAssumption, UnreadableAssumption
   DEF Base, TypeOK, ProgressInv, Fetch, Failed, Phases, Running, server, counts,
       history, Request

LEMMA StoreBase ==
  ASSUME Base, NEW s \in Slots, Store(s)
  PROVE  Base'
BY NoRequestAssumption, BoundsAssumption, MissAssumption, DecisionType, UnreadableFails
   DEF Base, TypeOK, ProgressInv, Store, Phases, Running, server, counts,
       history, Request

LEMMA PatchAnsweredBase ==
  ASSUME Base, NEW s \in Slots, PatchAnswered(s)
  PROVE  Base'
<1>1. req[s] \in Request /\ ~Rejected(req[s]) /\ req[s].user \in Users
  BY DEF Base, ProgressInv, PatchAnswered, Request
<1>2. directory' \in [Users -> Account \cup {Gone}]
  BY <1>1, PatchedType DEF Base, TypeOK, PatchAnswered
<1>3. isolated' \subseteq Slots
  BY DEF Base, TypeOK, PatchAnswered, Undisturbed
<1>4. QED
  BY <1>2, <1>3 DEF Base, TypeOK, ProgressInv, PatchAnswered, Phases, Running, counts

LEMMA PatchLostBase ==
  ASSUME Base, NEW s \in Slots, PatchLost(s)
  PROVE  Base'
<1>1. req[s] \in Request /\ ~Rejected(req[s]) /\ req[s].user \in Users
  BY DEF Base, ProgressInv, PatchLost, Request
<1>2. directory' \in [Users -> Account \cup {Gone}]
  BY <1>1, PatchedType DEF Base, TypeOK, PatchLost
<1>3. isolated' \subseteq Slots
  BY DEF Base, TypeOK, PatchLost, Undisturbed
<1>4. QED
  BY <1>2, <1>3, BoundsAssumption
     DEF Base, TypeOK, ProgressInv, PatchLost, Failed, Phases, Running, counts

LEMMA PatchRefusedBase ==
  ASSUME Base, NEW s \in Slots, PatchRefused(s)
  PROVE  Base'
BY BoundsAssumption
   DEF Base, TypeOK, ProgressInv, PatchRefused, Failed, Phases, Running, server, counts,
       history

LEMMA PatchTimeoutBase ==
  ASSUME Base, NEW s \in Slots, PatchTimeout(s)
  PROVE  Base'
<1>1. req[s] \in Request
  BY DEF Base, ProgressInv, PatchTimeout
<1>2. QED
  BY <1>1, BoundsAssumption
     DEF Base, TypeOK, ProgressInv, PatchTimeout, Failed, Phases, Running, counts, history

LEMMA LateArriveBase ==
  ASSUME Base, NEW r \in late, LateArrive(r)
  PROVE  Base'
<1>1. r \in Request /\ ~Rejected(r) /\ r.user \in Users
  BY DEF Base, TypeOK, ProgressInv, Request
<1>2. directory' \in [Users -> Account \cup {Gone}]
  BY <1>1, PatchedType DEF Base, TypeOK, LateArrive
<1>3. isolated' \subseteq Slots
  BY DEF Base, TypeOK, LateArrive, Undisturbed
<1>4. QED
  BY <1>2, <1>3 DEF Base, TypeOK, ProgressInv, LateArrive, task, counts

LEMMA AdminChangeBase ==
  ASSUME Base, NEW u \in Users, AdminChange(u)
  PROVE  Base'
<1>1. directory' \in [Users -> Account \cup {Gone}]
  BY AccountTypesAssumption DEF Base, TypeOK, AdminChange, Account
<1>2. isolated' \subseteq Slots
  BY DEF Base, TypeOK, AdminChange, Undisturbed
<1>3. QED
  BY <1>1, <1>2, BoundsAssumption
     DEF Base, TypeOK, ProgressInv, AdminChange, task

LEMMA CacheLossBase ==
  ASSUME Base, Cleanup \/ Restart \/ \E u \in Users : Evict(u)
  PROVE  Base'
<1>1. CASE Cleanup
  BY <1>1 DEF Base, TypeOK, ProgressInv, Cleanup, server, task, history, counts
<1>2. CASE Restart
  BY <1>2, BoundsAssumption
     DEF Base, TypeOK, ProgressInv, Restart, server, counts, Phases
<1>3. CASE \E u \in Users : Evict(u)
  BY <1>3 DEF Base, TypeOK, ProgressInv, Evict, server, task, history, counts
<1>4. QED
  BY <1>1, <1>2, <1>3

LEMMA NextBase == Base /\ [Next]_vars => Base'
<1> SUFFICES ASSUME Base, [Next]_vars PROVE Base'
  OBVIOUS
<1>1. CASE \E s \in Slots : SlotStep(s)
  BY <1>1, LookupBase, FetchBase, StoreBase, PatchAnsweredBase, PatchLostBase,
     PatchRefusedBase, PatchTimeoutBase DEF SlotStep
<1>2. CASE \E s \in Slots : \E r \in Requests : Submit(s, r)
  BY <1>2, SubmitBase
<1>3. CASE \E r \in late : LateArrive(r)
  BY <1>3, LateArriveBase
<1>4. CASE \E u \in Users : AdminChange(u)
  BY <1>4, AdminChangeBase
<1>5. CASE Cleanup \/ Restart \/ \E u \in Users : Evict(u)
  BY <1>5, CacheLossBase
<1>6. CASE UNCHANGED vars
  BY <1>6 DEF Base, TypeOK, ProgressInv, vars, server, task, history, counts
<1>7. QED
  BY <1>1, <1>2, <1>3, <1>4, <1>5, <1>6 DEF Next

\* The variables of license provisioning keep their types: in particular the
\* SDK's retry counter never passes its limit.
THEOREM TypeCorrect == Spec => []TypeOK
<1>1. Base => TypeOK
  BY DEF Base
<1>2. QED
  BY <1>1, InitBase, NextBase, PTL DEF Spec
-----------------------------------------------------------------------------
(* Isolated tasks. *)

\* An isolated task about to send its PATCH would have sent it for the account
\* it started from, and the PATCH leads to the goal from where the account is
\* now, be it before the PATCH or after an earlier try of it.
LEMMA PatchingIsolated ==
  ASSUME IInv, NEW s \in isolated, pc[s] = "patch"
  PROVE  /\ base[s] \in Account
         /\ Decision(req[s], base[s]) = "patch"
         /\ Patched(req[s], directory[req[s].user]) = Goal(req[s], base[s])
         /\ Goal(req[s], base[s]) \in Account
<1> DEFINE r == req[s]
           now == directory[r.user]
           goal == Goal(r, base[s])
<1>1. /\ s \in Slots /\ r \in Request /\ ~Rejected(r)
      /\ seen[s] \in Account /\ Decision(r, seen[s]) = "patch"
  BY DEF IInv, TypeOK, ProgressInv
<1>2. /\ now \in {base[s], goal}
      /\ seen[s] \in {base[s], now}
  BY <1>1, UnreadableAssumption DEF IInv, IsolationInv, IsolationOf
<1>3. base[s] \in Account \cup {Gone}
  BY <1>1 DEF IInv, TypeOK
<1>4. base[s] \in Account
  BY <1>1, <1>2, <1>3, GoalGone, GoneAssumption
<1>5. Decision(r, base[s]) = "patch"
  BY <1>1, <1>2, <1>4, NoPatchNoGoal
<1>6. goal = Patched(r, base[s])
  BY <1>1, <1>4, <1>5, PatchReachesGoal
<1>7. Patched(r, now) = goal
  BY <1>1, <1>2, <1>4, <1>6, PatchedIdempotent
<1>8. goal \in Account
  BY <1>1, <1>4, <1>6, PatchedType
<1>9. QED
  BY <1>4, <1>5, <1>7, <1>8

LEMMA SubmitIsolated ==
  ASSUME IInv, NEW s \in Slots, NEW r \in Requests, Submit(s, r)
  PROVE  IsolationInv'
<1> SUFFICES ASSUME NEW x \in isolated' PROVE IsolationOf(x)'
  BY DEF IsolationInv
<1>1. r \in Request /\ r.user \in Users
  BY RequestsAssumption DEF Request
<1>2. CASE x = s
  <2>1. Alone(s, r.user)
    BY <1>2 DEF Submit, Undisturbed
  <2>2. /\ req'[s] = r /\ pc'[s] = "lookup" /\ base'[s] = directory[r.user]
        /\ directory' = directory /\ cache' = cache /\ late' = late
        /\ \A y \in Slots \ {s} : pc'[y] = pc[y] /\ req'[y] = req[y]
    BY DEF Submit, server, IInv, TypeOK
  <2>3. QED
    BY <1>2, <2>1, <2>2 DEF IsolationOf, Alone, Busy, Succeeded
<1>3. CASE x # s
  <2>1. x \in isolated /\ req[x].user # r.user /\ x \in Slots
    BY <1>3 DEF Submit, Undisturbed, IInv, TypeOK
  <2>2. IsolationOf(x)
    BY <2>1 DEF IInv, IsolationInv
  <2>3. QED
    BY <1>3, <2>1, <2>2
       DEF IInv, TypeOK, Submit, server, IsolationOf, Busy, Succeeded, Running
<1>4. QED
  BY <1>2, <1>3

LEMMA LookupIsolated ==
  ASSUME IInv, NEW s \in Slots, Lookup(s)
  PROVE  IsolationInv'
<1> SUFFICES ASSUME NEW x \in isolated' PROVE IsolationOf(x)'
  BY DEF IsolationInv
<1>1. x \in isolated /\ x \in Slots /\ IsolationOf(x)
  BY DEF IInv, TypeOK, IsolationInv, Lookup, history
<1>2. QED
  BY <1>1 DEF IInv, TypeOK, Lookup, Failed, server, history, IsolationOf, Busy, Succeeded,
              Running

LEMMA FetchIsolated ==
  ASSUME IInv, NEW s \in Slots, Fetch(s)
  PROVE  IsolationInv'
<1> SUFFICES ASSUME NEW x \in isolated' PROVE IsolationOf(x)'
  BY DEF IsolationInv
<1>1. x \in isolated /\ x \in Slots /\ IsolationOf(x)
  BY DEF IInv, TypeOK, IsolationInv, Fetch, history
<1>2. QED
  BY <1>1 DEF IInv, TypeOK, Fetch, Failed, server, history, IsolationOf, Busy, Succeeded,
              Running

\* A task that decides to send nothing, on a cached copy or a fresh one, finds
\* its account at the goal.
LEMMA StoreIsolated ==
  ASSUME IInv, NEW s \in Slots, Store(s)
  PROVE  IsolationInv'
<1> SUFFICES ASSUME NEW x \in isolated' PROVE IsolationOf(x)'
  BY DEF IsolationInv
<1>1. x \in isolated /\ x \in Slots /\ IsolationOf(x)
  BY DEF IInv, TypeOK, IsolationInv, Store, history
<1>2. /\ pc[s] = "store" /\ req[s] \in Request /\ ~Rejected(req[s])
      /\ seen[s] \in Account \cup {Unreadable}
      /\ req[s].user \in Users
  BY DEF IInv, ProgressInv, Store, Request
<1>3. CASE x = s
  <2> DEFINE now == directory[req[s].user]
             goal == Goal(req[s], base[s])
  <2>1. now \in {base[s], goal} /\ seen[s] \in {Unreadable, base[s], now}
    BY <1>1, <1>2, <1>3 DEF IsolationOf
  <2>2. ASSUME Decision(req[s], seen[s]) \in {"done", "already"}
        PROVE  now = goal /\ now # Gone
    <3>1. seen[s] \in Account /\ seen[s] \in {base[s], now}
      BY <1>2, <2>1, <2>2, UnreadableFails
    <3>2. now # Gone
      BY <1>2, <2>1, <3>1, GoalType, GoneAssumption
    <3>3. now = goal
      BY <1>2, <2>1, <2>2, <3>1, NoPatchNoGoal
    <3>4. QED
      BY <3>2, <3>3
  <2>3. pc' = [pc EXCEPT ![s] = Decision(req[s], seen[s])]
    BY DEF Store
  <2>4. Succeeded(s)' => now = goal /\ now # Gone
    BY <2>2, <2>3 DEF Succeeded, IInv, TypeOK
  <2>5. cache'[req[s].user] \in {Miss, Unreadable, base[s], now}
    BY <1>1, <1>2, <1>3, <2>1 DEF Store, IsolationOf, IInv, TypeOK
  <2>6. pc'[s] # "idle" /\ \A y \in Slots \ {s} : pc'[y] = pc[y]
    BY <2>3, DecisionType DEF IInv, TypeOK
  <2>7. UNCHANGED <<directory, late, req, seen, base>>
    BY DEF Store, server, history
  <2>8. QED
    BY <1>1, <1>3, <2>1, <2>4, <2>5, <2>6, <2>7 DEF IsolationOf, Busy
<1>4. CASE x # s
  <2>1. req[s].user # req[x].user
    BY <1>1, <1>2, <1>4 DEF IsolationOf, Busy, Running
  <2>2. cache'[req[x].user] = cache[req[x].user]
    BY <2>1 DEF Store, IInv, TypeOK
  <2>3. \A y \in Slots \ {s} : pc'[y] = pc[y]
    BY DEF Store, IInv, TypeOK
  <2>4. UNCHANGED <<directory, late, req, seen, base>>
    BY DEF Store, server, history
  <2>5. QED
    BY <1>1, <1>4, <2>1, <2>2, <2>3, <2>4 DEF IsolationOf, Busy, Succeeded
<1>5. QED
  BY <1>3, <1>4

\* The PATCH of a task brings an isolated task's account to its goal, and
\* touches no other isolated task's account.
LEMMA AppliedIsolated ==
  ASSUME IInv, NEW s \in Slots, PatchAnswered(s) \/ PatchLost(s)
  PROVE  IsolationInv'
<1> SUFFICES ASSUME NEW x \in isolated' PROVE IsolationOf(x)'
  BY DEF IsolationInv
<1>1. /\ pc[s] = "patch" /\ req[s] \in Request /\ req[s].user \in Users
      /\ directory' = [directory EXCEPT ![req[s].user] = Patched(req[s], @)]
      /\ pc'[s] \in {"done", "lookup", "failed"}
      /\ \A y \in Slots \ {s} : pc'[y] = pc[y]
      /\ isolated' = Undisturbed(req[s].user) \cup (isolated \cap {s})
      /\ UNCHANGED <<late, cache, req, seen, base>>
  BY DEF IInv, TypeOK, ProgressInv, PatchAnswered, PatchLost, Failed, Request
<1>2. x \in isolated /\ x \in Slots /\ IsolationOf(x)
  BY <1>1 DEF IInv, TypeOK, IsolationInv, Undisturbed
<1>3. CASE x = s
  <2> DEFINE now == directory[req[s].user]
             goal == Goal(req[s], base[s])
  <2>1. /\ Patched(req[s], now) = goal /\ goal \in Account
        /\ Decision(req[s], base[s]) = "patch"
    BY <1>1, <1>2, <1>3, PatchingIsolated
  <2>2. directory'[req[s].user] = goal
    BY <1>1, <2>1 DEF IInv, TypeOK
  <2>3. cache[req[s].user] \in {Miss, Unreadable, base[s], goal}
    BY <1>2, <1>3 DEF IsolationOf
  <2>4. goal # Gone
    BY <2>1, GoneAssumption
  <2>5. QED
    BY <1>1, <1>2, <1>3, <2>2, <2>3, <2>4 DEF IsolationOf, Busy
<1>4. CASE x # s
  <2>1. req[s].user # req[x].user
    BY <1>1, <1>2, <1>4 DEF IsolationOf, Busy, Running
  <2>2. directory'[req[x].user] = directory[req[x].user]
    BY <1>1, <2>1 DEF IInv, TypeOK
  <2>3. QED
    BY <1>1, <1>2, <1>4, <2>1, <2>2 DEF IsolationOf, Busy, Succeeded
<1>5. QED
  BY <1>3, <1>4

LEMMA RefusedIsolated ==
  ASSUME IInv, NEW s \in Slots, PatchRefused(s)
  PROVE  IsolationInv'
<1> SUFFICES ASSUME NEW x \in isolated' PROVE IsolationOf(x)'
  BY DEF IsolationInv
<1>1. x \in isolated /\ x \in Slots /\ IsolationOf(x)
  BY DEF IInv, TypeOK, IsolationInv, PatchRefused, history
<1>2. QED
  BY <1>1 DEF IInv, TypeOK, PatchRefused, Failed, server, history, IsolationOf, Busy,
              Succeeded, Running

\* What an isolated task leaves on its way is its own PATCH.
LEMMA TimeoutIsolated ==
  ASSUME IInv, NEW s \in Slots, PatchTimeout(s)
  PROVE  IsolationInv'
<1> SUFFICES ASSUME NEW x \in isolated' PROVE IsolationOf(x)'
  BY DEF IsolationInv
<1>1. /\ pc[s] = "patch" /\ late' = late \cup {req[s]}
      /\ pc'[s] \in {"lookup", "failed"}
      /\ \A y \in Slots \ {s} : pc'[y] = pc[y]
      /\ UNCHANGED <<directory, cache, req, seen, base, isolated>>
  BY DEF IInv, TypeOK, PatchTimeout, Failed, history
<1>2. x \in isolated /\ x \in Slots /\ IsolationOf(x)
  BY <1>1 DEF IInv, TypeOK, IsolationInv
<1>3. CASE x = s
  <2>1. base[s] # Gone /\ Decision(req[s], base[s]) = "patch"
    BY <1>1, <1>2, <1>3, PatchingIsolated, GoneAssumption
  <2>2. QED
    BY <1>1, <1>2, <1>3, <2>1 DEF IsolationOf, Busy, Succeeded
<1>4. CASE x # s
  <2>1. req[s].user # req[x].user
    BY <1>1, <1>2, <1>4 DEF IsolationOf, Busy, Running
  <2>2. QED
    BY <1>1, <1>2, <1>4, <2>1 DEF IsolationOf, Busy, Succeeded
<1>5. QED
  BY <1>3, <1>4

\* A late PATCH is either the isolated task's own, and leads to its goal, or
\* one for another user.
LEMMA LateIsolated ==
  ASSUME IInv, NEW r \in late, LateArrive(r)
  PROVE  IsolationInv'
<1> SUFFICES ASSUME NEW x \in isolated' PROVE IsolationOf(x)'
  BY DEF IsolationInv
<1>1. r \in Request /\ ~Rejected(r) /\ r.user \in Users
  BY DEF IInv, TypeOK, ProgressInv, Request
<1>2. x \in isolated /\ x \in Slots /\ IsolationOf(x)
  BY DEF IInv, TypeOK, IsolationInv, LateArrive, Undisturbed
<1>3. /\ directory' = [directory EXCEPT ![r.user] = IF @ = Gone THEN @ ELSE Patched(r, @)]
      /\ late' \subseteq late
      /\ UNCHANGED <<cache, pc, req, seen, base>>
  BY DEF LateArrive, task
<1>4. CASE req[x].user = r.user
  <2> DEFINE now == directory[r.user]
             goal == Goal(r, base[x])
  <2>1. /\ r = req[x] /\ base[x] # Gone /\ Decision(r, base[x]) = "patch"
        /\ now \in {base[x], goal}
    BY <1>2, <1>4 DEF IsolationOf
  <2>2. base[x] \in Account
    BY <1>2, <2>1 DEF IInv, TypeOK
  <2>3. goal = Patched(r, base[x]) /\ goal \in Account
    BY <1>1, <2>1, <2>2, PatchReachesGoal, PatchedType
  <2>4. Patched(r, now) = goal
    BY <1>1, <2>1, <2>2, <2>3, PatchedIdempotent
  <2>5. now # Gone
    BY <2>1, <2>2, <2>3, GoneAssumption
  <2>6. directory'[r.user] = goal
    BY <1>1, <1>3, <2>4, <2>5 DEF IInv, TypeOK
  <2>7. /\ cache[r.user] \in {Miss, Unreadable, base[x], goal}
        /\ pc[x] \in {"store", "patch"} => seen[x] \in {Unreadable, base[x], goal}
    BY <1>2, <2>1 DEF IsolationOf
  <2>8. goal # Gone
    BY <2>3, GoneAssumption
  <2>9. QED
    BY <1>2, <1>3, <2>1, <2>6, <2>7, <2>8 DEF IsolationOf, Busy, Succeeded
<1>5. CASE req[x].user # r.user
  <2>1. directory'[req[x].user] = directory[req[x].user]
    BY <1>3, <1>5 DEF IInv, TypeOK
  <2>2. QED
    BY <1>2, <1>3, <2>1 DEF IsolationOf, Busy, Succeeded
<1>6. QED
  BY <1>4, <1>5

LEMMA EnvironmentIsolated ==
  ASSUME IInv,
         Cleanup \/ Restart \/ \E u \in Users : AdminChange(u) \/ Evict(u)
  PROVE  IsolationInv'
<1> SUFFICES ASSUME NEW x \in isolated' PROVE IsolationOf(x)'
  BY DEF IsolationInv
<1>1. CASE Restart
  BY <1>1 DEF Restart
<1>2. CASE Cleanup
  <2>1. x \in isolated /\ IsolationOf(x) /\ req[x] \in Request
    BY <1>2 DEF IInv, TypeOK, ProgressInv, IsolationInv, IsolationOf, Cleanup, history
  <2>2. QED
    BY <1>2, <2>1 DEF Cleanup, server, task, history, IsolationOf, Busy, Succeeded, Request
<1>3. ASSUME NEW u \in Users, Evict(u)
      PROVE  IsolationOf(x)'
  <2>1. x \in isolated /\ IsolationOf(x) /\ req[x] \in Request
    BY <1>3 DEF IInv, TypeOK, ProgressInv, IsolationInv, IsolationOf, Evict, history
  <2>2. cache'[req[x].user] \in {Miss, cache[req[x].user]}
    BY <1>3 DEF Evict, IInv, TypeOK
  <2>3. QED
    BY <1>3, <2>1, <2>2 DEF Evict, server, task, history, IsolationOf, Busy, Succeeded
<1>4. ASSUME NEW u \in Users, AdminChange(u)
      PROVE  IsolationOf(x)'
  <2>1. x \in isolated /\ IsolationOf(x) /\ req[x].user # u
    BY <1>4 DEF IInv, IsolationInv, AdminChange, Undisturbed
  <2>2. directory'[req[x].user] = directory[req[x].user]
    BY <1>4, <2>1 DEF AdminChange, IInv, TypeOK
  <2>3. QED
    BY <1>4, <2>1, <2>2 DEF AdminChange, task, IsolationOf, Busy, Succeeded
<1>5. QED
  BY <1>1, <1>2, <1>3, <1>4

LEMMA NextIInv == IInv /\ [Next]_vars => IInv'
<1> SUFFICES ASSUME IInv, [Next]_vars PROVE IInv'
  OBVIOUS
<1>1. TypeOK' /\ ProgressInv'
  BY NextBase DEF Base, IInv
<1>2. IsolationInv'
  <2>1. CASE \E s \in Slots : SlotStep(s)
    BY <2>1, LookupIsolated, FetchIsolated, StoreIsolated, AppliedIsolated, RefusedIsolated,
       TimeoutIsolated DEF SlotStep
  <2>2. CASE \E s \in Slots : \E r \in Requests : Submit(s, r)
    BY <2>2, SubmitIsolated
  <2>3. CASE \E r \in late : LateArrive(r)
    BY <2>3, LateIsolated
  <2>4. CASE Cleanup \/ Restart \/ \E u \in Users : AdminChange(u) \/ Evict(u)
    BY <2>4, EnvironmentIsolated
  <2>5. CASE UNCHANGED vars
    BY <2>5 DEF IInv, IsolationInv, IsolationOf, Busy, Succeeded, vars, server, task, history
  <2>6. QED
    BY <2>1, <2>2, <2>3, <2>4, <2>5 DEF Next
<1>3. QED
  BY <1>1, <1>2 DEF IInv

\* The inductive invariant, for every number of users, slots, retries and late
\* PATCHes, with the cache and without it.
THEOREM Inductive == Spec => []IInv
<1>1. Init => IInv
  BY InitBase DEF Base, IInv, IsolationInv, Init
<1>2. QED
  BY <1>1, NextIInv, PTL DEF Spec

\* A task that has its account to itself reports success only for an account
\* that is what the request makes of it, whatever is lost, repeated, retried or
\* evicted on the way (license.go inside the SDK's retry loop).
THEOREM Isolation == Spec => []IsolatedTaskCorrect
<1>1. IInv => IsolatedTaskCorrect
  BY DEF IInv, IsolationInv, IsolationOf, IsolatedTaskCorrect
<1>2. QED
  BY <1>1, Inductive, PTL
-----------------------------------------------------------------------------
(* An organisation in which every account has a license. *)

Licensed == [userType : License, active : BOOLEAN]

\* Nobody ever sees an account without a license, and so no grant of view-only
\* is ever on its way.
LicensedInv ==
  /\ directory \in [Users -> Licensed \cup {Gone}]
  /\ cache \in [Users -> Licensed \cup {Unreadable, Miss}]
  /\ seen \in [Slots -> Licensed \cup {Unreadable, Miss}]
  /\ \A r \in late : r.kind = "grant" => r.license # ViewOnly

LEMMA LicensedPatched ==
  ASSUME NEW r \in Request, ~Rejected(r), NEW v \in Licensed
  PROVE  /\ Patched(r, v) \in Licensed
         /\ Decision(r, v) = "patch" => ~(r.kind = "grant" /\ r.license = ViewOnly)
BY UnreadableFails
   DEF Patched, Licensed, Request, License, Rejected, Decision, GrantDecision

LEMMA InitLicensed ==
  ASSUME AccountTypes \subseteq License
  PROVE  Init => LicensedInv
BY DEF Init, LicensedInv, Licensed

LEMMA NextLicensed ==
  ASSUME AccountTypes \subseteq License, IInv, LicensedInv, [Next]_vars
  PROVE  LicensedInv'
<1>1. ASSUME NEW s \in Slots, Lookup(s) \/ Fetch(s) \/ Store(s)
      PROVE  LicensedInv'
  <2>1. CASE pc[s] = "lookup" \/ pc[s] = "fetch"
    <3>1. Lookup(s) \/ Fetch(s)
      BY <1>1, <2>1 DEF Store
    <3>2. req[s].user \in Users
      BY <2>1 DEF IInv, ProgressInv, Request
    <3>3. QED
      BY <3>1, <3>2, GoneAssumption, MissAssumption
         DEF Lookup, Fetch, LicensedInv, server
  <2>2. CASE pc[s] = "store"
    <3>1. Store(s) /\ seen[s] \in Licensed \cup {Unreadable}
      BY <1>1, <2>2, MissAssumption, UnreadableAssumption
         DEF Lookup, Fetch, IInv, ProgressInv, LicensedInv
    <3>2. QED
      BY <3>1 DEF Store, LicensedInv, server
  <2>3. QED
    BY <1>1, <2>1, <2>2 DEF Lookup, Fetch, Store
<1>2. ASSUME NEW s \in Slots,
             PatchAnswered(s) \/ PatchLost(s) \/ PatchRefused(s) \/ PatchTimeout(s)
      PROVE  LicensedInv'
  <2>1. /\ pc[s] = "patch" /\ req[s] \in Request /\ ~Rejected(req[s])
        /\ seen[s] \in Licensed /\ Decision(req[s], seen[s]) = "patch"
        /\ req[s].user \in Users
    BY <1>2, MissAssumption, UnreadableAssumption
       DEF PatchAnswered, PatchLost, PatchRefused, PatchTimeout, IInv, ProgressInv,
           LicensedInv, Request
  <2>2. directory' \in [Users -> Licensed \cup {Gone}]
    <3>1. CASE PatchAnswered(s) \/ PatchLost(s)
      <4>1. /\ directory[req[s].user] # Gone
            /\ directory' = [directory EXCEPT ![req[s].user] = Patched(req[s], @)]
        BY <3>1 DEF PatchAnswered, PatchLost
      <4>2. Patched(req[s], directory[req[s].user]) \in Licensed
        BY <2>1, <4>1, LicensedPatched DEF LicensedInv
      <4>3. QED
        BY <2>1, <4>1, <4>2 DEF LicensedInv
    <3>2. CASE PatchRefused(s) \/ PatchTimeout(s)
      BY <3>2 DEF PatchRefused, PatchTimeout, LicensedInv, server
    <3>3. QED
      BY <1>2, <3>1, <3>2
  <2>3. \A r \in late' : r.kind = "grant" => r.license # ViewOnly
    BY <1>2, <2>1, LicensedPatched
       DEF PatchAnswered, PatchLost, PatchRefused, PatchTimeout, LicensedInv, server
  <2>4. QED
    BY <1>2, <2>2, <2>3
       DEF PatchAnswered, PatchLost, PatchRefused, PatchTimeout, LicensedInv
<1>3. ASSUME NEW s \in Slots, NEW r \in Requests, Submit(s, r)
      PROVE  LicensedInv'
  BY <1>3 DEF Submit, LicensedInv, server
<1>4. ASSUME NEW r \in late, LateArrive(r)
      PROVE  LicensedInv'
  <2>1. r \in Request /\ ~Rejected(r) /\ r.user \in Users
    BY DEF IInv, TypeOK, ProgressInv, Request
  <2>2. QED
    BY <1>4, <2>1, LicensedPatched DEF LateArrive, LicensedInv, task
<1>5. ASSUME NEW u \in Users, AdminChange(u) \/ Evict(u)
      PROVE  LicensedInv'
  BY <1>5 DEF AdminChange, Evict, LicensedInv, Licensed, server, task
<1>6. CASE Cleanup \/ Restart
  BY <1>6 DEF Cleanup, Restart, LicensedInv, server, task
<1>7. CASE UNCHANGED vars
  BY <1>7 DEF vars, server, task, LicensedInv
<1>8. QED
  BY <1>1, <1>2, <1>3, <1>4, <1>5, <1>6, <1>7 DEF Next, SlotStep

\* The PATCH of a grant never turns enterprise into view-only when every
\* account has a license.
LEMMA PatchKeepsEnterprise ==
  ASSUME NEW r \in Request, ~Rejected(r), NEW v \in Licensed,
         v.userType = Enterprise, Patched(r, v).userType = ViewOnly
  PROVE  r.kind = "revoke" \/ r.license = ViewOnly
BY DEF Patched, Licensed, Request, Enterprise, ViewOnly, Rejected, License

\* When every account has a license, now and after whatever administrators do,
\* no grant ever lowers an account from enterprise to view-only, under any
\* interleaving and with any cached copies (license.go, "don't downgrade").
THEOREM NoDowngrade ==
  ASSUME AccountTypes \subseteq License
  PROVE  Spec => GrantNeverDowngrades
<1> DEFINE Lowered(u) == /\ directory[u] # Gone /\ directory'[u] # Gone
                         /\ directory[u].userType = Enterprise
                         /\ directory'[u].userType = ViewOnly
           Excused(u) ==
             \/ changes' # changes
             \/ \E s \in Slots : /\ pc[s] = "patch" /\ pc'[s] # "patch"
                                 /\ req[s].user = u /\ req[s].kind = "revoke"
             \/ \E r \in late \ late' : r.user = u /\ r.kind = "revoke"
<1>1. ASSUME IInv, LicensedInv, [Next]_vars, NEW u \in Users, Lowered(u)
      PROVE  Excused(u)
  <2>1. directory' # directory
    BY <1>1 DEF Enterprise, ViewOnly
  <2>2. CASE \E s \in Slots : SlotStep(s)
    <3>1. PICK s \in Slots : PatchAnswered(s) \/ PatchLost(s)
      BY <2>1, <2>2
         DEF SlotStep, Lookup, Fetch, Store, PatchRefused, PatchTimeout, server
    <3>2. /\ pc[s] = "patch" /\ pc'[s] # "patch"
          /\ directory' = [directory EXCEPT ![req[s].user] = Patched(req[s], @)]
      BY <3>1, <1>1 DEF PatchAnswered, PatchLost, Failed, IInv, TypeOK
    <3>3. /\ req[s] \in Request /\ ~Rejected(req[s]) /\ seen[s] \in Licensed
          /\ Decision(req[s], seen[s]) = "patch"
      BY <1>1, <3>2, MissAssumption, UnreadableAssumption DEF IInv, ProgressInv, LicensedInv
    <3>4. req[s].user = u
      BY <1>1, <3>2, <2>1 DEF IInv, TypeOK, Enterprise, ViewOnly
    <3>5. directory[u] \in Licensed /\ directory'[u] = Patched(req[s], directory[u])
      BY <1>1, <3>2, <3>4 DEF LicensedInv
    <3>6. req[s].kind = "revoke"
      BY <1>1, <3>3, <3>5, LicensedPatched, PatchKeepsEnterprise DEF Request
    <3>7. QED
      BY <3>2, <3>4, <3>6
  <2>3. CASE \E r \in late : LateArrive(r)
    <3>1. PICK r \in late : LateArrive(r)
      BY <2>3
    <3>2. /\ r \in Request /\ ~Rejected(r) /\ r \in late \ late'
          /\ r.kind = "grant" => r.license # ViewOnly
      BY <1>1, <3>1 DEF IInv, TypeOK, ProgressInv, LateArrive, LicensedInv
    <3>3. r.user = u
      BY <1>1, <3>1 DEF LateArrive, IInv, TypeOK, Enterprise, ViewOnly
    <3>4. directory[u] \in Licensed /\ directory'[u] = Patched(r, directory[u])
      BY <1>1, <3>1, <3>3 DEF LicensedInv, LateArrive
    <3>5. r.kind = "revoke"
      BY <1>1, <3>2, <3>4, PatchKeepsEnterprise DEF Request
    <3>6. QED
      BY <3>2, <3>3, <3>5
  <2>4. CASE \E v \in Users : AdminChange(v)
    BY <1>1, <2>4 DEF AdminChange, IInv, TypeOK
  <2>5. CASE \/ \E s \in Slots : \E r \in Requests : Submit(s, r)
             \/ \E v \in Users : Evict(v)
             \/ Cleanup
             \/ Restart
             \/ UNCHANGED vars
    BY <2>1, <2>5 DEF Submit, Evict, Cleanup, Restart, vars, server
  <2>6. QED
    BY <1>1, <2>2, <2>3, <2>4, <2>5 DEF Next
<1>2. Spec => []LicensedInv
  <2>1. IInv /\ LicensedInv /\ [Next]_vars => LicensedInv'
    BY NextLicensed
  <2>2. QED
    BY <2>1, InitLicensed, Inductive, PTL DEF Spec
<1>3. IInv /\ LicensedInv /\ [Next]_vars => [\A u \in Users : Lowered(u) => Excused(u)]_vars
  BY <1>1
<1>4. QED
  BY <1>2, <1>3, Inductive, PTL DEF Spec, GrantNeverDowngrades
-----------------------------------------------------------------------------
(* One task at a time, and nothing cached from an earlier one: the connector *)
(* implements LicensePromise. *)

\* A request that has been met has nothing left to ask.
LEMMA GoalIdempotent ==
  ASSUME NEW r \in Request, NEW v \in Account
  PROVE  Goal(r, Goal(r, v)) = Goal(r, v)
BY GoneAssumption
   DEF Goal, Account, Request, UserTypes, License, Enterprise, ViewOnly

\* Every task runs in a process of its own, or the runner has one slot and the
\* cache is off; no administrator acts, and no PATCH outlives its request.
Exclusive ==
  /\ OneShot \/ (~CacheOn /\ \A s, y \in Slots : s = y)
  /\ MaxLate = 0 /\ MaxChanges = 0

\* The one task of a process is isolated while it runs.
OneShotInv ==
  /\ late = {}
  /\ ~CacheOn => \A u \in Users : cache[u] = Miss
  /\ \A s \in Slots : Busy(s) => s \in isolated
  /\ \A s, y \in Slots : s # y => pc[s] = "idle" \/ pc[y] = "idle"

LEMMA NextOneShot ==
  ASSUME Exclusive, IInv, OneShotInv, [Next]_vars
  PROVE  OneShotInv'
<1>1. ASSUME NEW s \in Slots, SlotStep(s)
      PROVE  OneShotInv'
  <2>1. ~PatchTimeout(s)
    <3>1. ASSUME PatchTimeout(s)
          PROVE  FALSE
      <4>1. Cardinality({req[s]}) <= 0
        BY <3>1 DEF PatchTimeout, OneShotInv, Exclusive
      <4>2. Cardinality({req[s]}) = 1
        BY FS_Singleton
      <4>3. QED
        BY <4>1, <4>2
    <3>2. QED
      BY <3>1
  <2>2. late' = {}
    BY <1>1, <2>1
       DEF OneShotInv, SlotStep, Lookup, Fetch, Store, PatchAnswered, PatchLost,
           PatchRefused, server
  <2>3. /\ Busy(s)
        /\ \A y \in Slots \ {s} : pc'[y] = pc[y]
    BY <1>1, <2>1
       DEF SlotStep, Lookup, Fetch, Store, PatchAnswered, PatchLost, PatchRefused, Failed,
           Busy, Running, IInv, TypeOK
  <2>4. s \in isolated'
    BY <1>1, <2>1, <2>3
       DEF SlotStep, Lookup, Fetch, Store, PatchAnswered, PatchLost, PatchRefused,
           history, OneShotInv
  <2>5. \A y \in Slots \ {s} : pc[y] = "idle"
    BY <2>3 DEF OneShotInv, Busy, Running
  <2>6. ~CacheOn => cache' = cache
    BY <1>1, <2>1
       DEF SlotStep, Lookup, Fetch, Store, PatchAnswered, PatchLost, PatchRefused
  <2>7. QED
    BY <2>2, <2>3, <2>4, <2>5, <2>6 DEF OneShotInv, Busy, Running
<1>2. ASSUME NEW s \in Slots, NEW r \in Requests, Submit(s, r)
      PROVE  OneShotInv'
  <2>1. /\ \A u \in Users : cache[u] = Miss
        /\ \A y \in Slots \ {s} : pc[y] = "idle"
        /\ late' = {} /\ late = {} /\ cache' = cache
        /\ pc' = [pc EXCEPT ![s] = "lookup"]
    BY <1>2 DEF Submit, FreshProcess, Exclusive, OneShotInv, server
  <2>2. r.user \in Users
    BY RequestsAssumption DEF Request
  <2>3. Alone(s, r.user)
    BY <2>1, <2>2 DEF Alone, Busy, Running
  <2>4. s \in isolated'
    BY <1>2, <2>3 DEF Submit
  <2>5. QED
    BY <2>1, <2>4 DEF OneShotInv, Busy, Running, IInv, TypeOK
<1>3. CASE \E r \in late : LateArrive(r)
  BY <1>3 DEF OneShotInv
<1>4. CASE \E u \in Users : AdminChange(u)
  BY <1>4 DEF AdminChange, Exclusive, IInv, TypeOK
<1>5. CASE Cleanup \/ \E u \in Users : Evict(u)
  <2>1. ASSUME NEW u \in Users, cache[u] = Miss
        PROVE  cache'[u] = Miss
    BY <1>5, <2>1 DEF Cleanup, Evict, IInv, TypeOK
  <2>2. UNCHANGED <<late, pc, isolated>>
    BY <1>5 DEF Cleanup, Evict, server, task, history
  <2>3. QED
    BY <2>1, <2>2 DEF OneShotInv, Busy
<1>6. CASE Restart
  BY <1>6 DEF Restart, server, OneShotInv, Busy, Running
<1>7. CASE UNCHANGED vars
  BY <1>7 DEF vars, server, task, history, OneShotInv, Busy
<1>8. QED
  BY <1>1, <1>2, <1>3, <1>4, <1>5, <1>6, <1>7 DEF Next

\* The promise and the connector read the same meaning into a request.
LEMMA SameMeaning ==
  ASSUME NEW r, NEW v
  PROVE  /\ Promise!Goal(r, v) = Goal(r, v)
         /\ Promise!Satisfied(r, v) = Satisfied(r, v)
<1>1. Promise!Goal(r, v) = Goal(r, v)
  BY DEF Promise!Goal, Goal, Promise!License, License, Promise!Enterprise, Enterprise,
         Promise!ViewOnly, ViewOnly
<1>2. QED
  BY <1>1 DEF Promise!Satisfied, Satisfied

phaseOf == [s \in Slots |-> PhaseOf(s)]

\* A task that goes on is still the same open request.
LEMMA PhaseStays ==
  ASSUME NEW s \in Slots, Busy(s), Busy(s)',
         \A y \in Slots \ {s} : pc'[y] = pc[y]
  PROVE  phaseOf' = phaseOf
<1>1. \A y \in Slots : PhaseOf(y)' = PhaseOf(y)
  BY DEF PhaseOf, Busy, Succeeded
<1>2. QED
  BY <1>1 DEF phaseOf

\* A task that ends closes its request, and no other.
LEMMA PhaseEnds ==
  ASSUME NEW s \in Slots, Busy(s), pc'[s] \in {"done", "already", "failed"},
         \A y \in Slots \ {s} : pc'[y] = pc[y]
  PROVE  /\ phaseOf[s] = "open"
         /\ phaseOf' = [phaseOf EXCEPT ![s] =
                          IF pc'[s] = "failed" THEN "failed" ELSE "succeeded"]
<1>1. phaseOf[s] = "open"
  BY DEF phaseOf, PhaseOf
<1>2. \A y \in Slots \ {s} : PhaseOf(y)' = PhaseOf(y)
  BY DEF PhaseOf, Busy, Succeeded
<1>3. PhaseOf(s)' = IF pc'[s] = "failed" THEN "failed" ELSE "succeeded"
  BY DEF PhaseOf, Busy, Succeeded, Running
<1>4. QED
  BY <1>1, <1>2, <1>3 DEF phaseOf

\* A step that leaves the account alone is invisible or the end of the request,
\* a success only when the request is met.
LEMMA QuietStep ==
  ASSUME NEW s \in Slots, Busy(s), UNCHANGED <<directory, req>>,
         pc'[s] \in Running \cup {"done", "already", "failed"},
         \A y \in Slots \ {s} : pc'[y] = pc[y],
         pc'[s] \in {"done", "already"} => Satisfied(req[s], directory[req[s].user])
  PROVE  [Promise!Next]_(Promise!vars)
<1>1. CASE pc'[s] \in Running
  BY <1>1, PhaseStays DEF Busy, Promise!vars, phaseOf
<1>2. CASE pc'[s] = "failed"
  <2>1. phaseOf[s] = "open" /\ phaseOf' = [phaseOf EXCEPT ![s] = "failed"]
    BY <1>2, PhaseEnds
  <2>2. Promise!Fail(s)
    BY <2>1 DEF Promise!Fail, phaseOf
  <2>3. QED
    BY <2>2 DEF Promise!Next
<1>3. CASE pc'[s] \in {"done", "already"}
  <2>1. phaseOf[s] = "open" /\ phaseOf' = [phaseOf EXCEPT ![s] = "succeeded"]
    BY <1>3, PhaseEnds
  <2>2. Promise!Succeed(s)
    BY <1>3, <2>1, SameMeaning DEF Promise!Succeed, phaseOf
  <2>3. QED
    BY <2>2 DEF Promise!Next
<1>4. QED
  BY <1>1, <1>2, <1>3

\* What the PATCH of a task that has its account to itself does to it: what the
\* request asks of the account as it is, and as it was when the task began.
LEMMA PatchEffect ==
  ASSUME IInv, OneShotInv, NEW s \in Slots, PatchAnswered(s) \/ PatchLost(s),
         NEW u, u = req[s].user, NEW goal, goal = Goal(req[s], base[s])
  PROVE  /\ pc[s] = "patch" /\ Busy(s) /\ s \in isolated
         /\ req[s] \in Request /\ ~Rejected(req[s]) /\ u \in Users
         /\ base[s] \in Account /\ Decision(req[s], base[s]) = "patch"
         /\ directory[u] \in {base[s], goal}
         /\ directory' = [directory EXCEPT ![u] = Goal(req[s], @)]
         /\ directory'[u] = goal /\ goal = Patched(req[s], base[s])
         /\ Satisfied(req[s], directory'[u])
<1> DEFINE now == directory[u]
<1>1. /\ pc[s] = "patch" /\ Busy(s) /\ s \in isolated
      /\ req[s] \in Request /\ ~Rejected(req[s]) /\ u \in Users
  BY DEF PatchAnswered, PatchLost, Busy, Running, OneShotInv, IInv, ProgressInv, Request
<1>2. /\ base[s] \in Account /\ Patched(req[s], now) = goal /\ goal \in Account
      /\ Decision(req[s], base[s]) = "patch"
  BY <1>1, PatchingIsolated
<1>3. now \in {base[s], goal}
  BY <1>1 DEF IInv, IsolationInv, IsolationOf
<1>4. Goal(req[s], now) = goal /\ Goal(req[s], goal) = goal
  BY <1>1, <1>2, <1>3, GoalIdempotent
<1>5. directory' = [directory EXCEPT ![u] = Goal(req[s], @)]
  BY <1>1, <1>2, <1>4 DEF PatchAnswered, PatchLost
<1>6. directory'[u] = goal /\ Satisfied(req[s], directory'[u])
  BY <1>1, <1>2, <1>4, <1>5, GoneAssumption DEF Satisfied, IInv, TypeOK
<1>7. goal = Patched(req[s], base[s])
  BY <1>1, <1>2, PatchReachesGoal
<1>8. QED
  BY <1>1, <1>2, <1>3, <1>5, <1>6, <1>7

\* The PATCH is the moment at which the request takes effect.
LEMMA PatchStep ==
  ASSUME IInv, OneShotInv, NEW s \in Slots, PatchAnswered(s) \/ PatchLost(s)
  PROVE  Promise!Next
<1> DEFINE u == req[s].user
<1>1. pc[s] = "patch" /\ Busy(s)
  BY PatchEffect
<1>5. directory' = [directory EXCEPT ![u] = Goal(req[s], @)]
  BY PatchEffect
<1>6. Satisfied(req[s], directory'[u])
  BY PatchEffect
<1>7. /\ pc'[s] \in {"done", "lookup", "failed"}
      /\ \A y \in Slots \ {s} : pc'[y] = pc[y]
      /\ UNCHANGED req
  BY DEF PatchAnswered, PatchLost, Failed, IInv, TypeOK
<1>8. CASE pc'[s] = "done"
  <2>1. phaseOf[s] = "open" /\ phaseOf' = [phaseOf EXCEPT ![s] = "succeeded"]
    BY <1>1, <1>7, <1>8, PhaseEnds
  <2>2. Promise!Succeed(s)
    <3>1. directory' = [directory EXCEPT ![u] = Promise!Goal(req[s], @)]
      BY <1>5, SameMeaning
    <3>2. Promise!Satisfied(req[s], directory'[u])
      BY <1>6, SameMeaning
    <3>3. QED
      BY <1>7, <2>1, <3>1, <3>2 DEF Promise!Succeed, phaseOf
  <2>3. QED
    BY <2>2 DEF Promise!Next
<1>9. CASE pc'[s] = "failed"
  <2>1. phaseOf[s] = "open" /\ phaseOf' = [phaseOf EXCEPT ![s] = "failed"]
    BY <1>1, <1>7, <1>9, PhaseEnds
  <2>2. Promise!Fail(s)
    BY <1>5, <1>7, <2>1, SameMeaning DEF Promise!Fail, phaseOf
  <2>3. QED
    BY <2>2 DEF Promise!Next
<1>10. CASE pc'[s] = "lookup"
  <2>1. phaseOf' = phaseOf
    BY <1>1, <1>7, <1>10, PhaseStays DEF Busy, Running
  <2>2. phaseOf[s] = "open"
    BY <1>1 DEF phaseOf, PhaseOf
  <2>3. Promise!TakeEffect(s)
    BY <1>5, <1>7, <2>1, <2>2, SameMeaning DEF Promise!TakeEffect, phaseOf
  <2>4. QED
    BY <2>3 DEF Promise!Next
<1>11. QED
  BY <1>7, <1>8, <1>9, <1>10

\* A handler that sends nothing reports success only for a request that is met.
LEMMA StoreStep ==
  ASSUME IInv, OneShotInv, NEW s \in Slots, Store(s)
  PROVE  [Promise!Next]_(Promise!vars)
<1> DEFINE now == directory[req[s].user]
<1>1. /\ Busy(s) /\ s \in isolated /\ pc'[s] = Decision(req[s], seen[s])
      /\ \A y \in Slots \ {s} : pc'[y] = pc[y]
      /\ req[s] \in Request /\ ~Rejected(req[s])
      /\ UNCHANGED <<directory, req, base>>
  BY DEF Store, Busy, Running, OneShotInv, IInv, TypeOK, ProgressInv, server, history
<1>2. s \in isolated' /\ base[s] \in Account \cup {Gone}
  BY <1>1 DEF Store, history, IInv, TypeOK
<1>3. ASSUME pc'[s] \in {"done", "already"}
      PROVE  Satisfied(req[s], now)
  <2>1. IsolationOf(s)'
    BY <1>2, StoreIsolated DEF IsolationInv
  <2>2. now = Goal(req[s], base[s]) /\ now # Gone
    BY <1>1, <1>3, <2>1 DEF IsolationOf, Succeeded
  <2>3. base[s] \in Account
    BY <1>2, <2>2, GoalGone
  <2>4. QED
    BY <1>1, <2>2, <2>3, GoalIdempotent DEF Satisfied
<1>4. pc'[s] \in Running \cup {"done", "already", "failed"}
  BY <1>1, DecisionType DEF Running
<1>5. QED
  BY <1>1, <1>3, <1>4, QuietStep

LEMMA InitMaps == Init => Promise!Init
BY DEF Init, Promise!Init, PhaseOf, Busy, Running, Succeeded, Promise!UserTypes

LEMMA NextMaps ==
  ASSUME Exclusive, IInv, OneShotInv, [Next]_vars
  PROVE  [Promise!Next]_(Promise!vars)
<1>1. ASSUME NEW s \in Slots, Lookup(s) \/ Fetch(s) \/ PatchRefused(s) \/ PatchTimeout(s)
      PROVE  [Promise!Next]_(Promise!vars)
  <2>1. /\ Busy(s) /\ UNCHANGED <<directory, req>>
        /\ pc'[s] \in {"lookup", "fetch", "store", "failed"}
        /\ \A y \in Slots \ {s} : pc'[y] = pc[y]
    BY <1>1 DEF Lookup, Fetch, PatchRefused, PatchTimeout, Failed, Busy, Running, IInv,
                TypeOK, server
  <2>2. QED
    BY <2>1, QuietStep DEF Running
<1>2. ASSUME NEW s \in Slots, NEW r \in Requests, Submit(s, r)
      PROVE  [Promise!Next]_(Promise!vars)
  <2>1. /\ ~Busy(s) /\ UNCHANGED directory
        /\ req' = [req EXCEPT ![s] = r] /\ pc' = [pc EXCEPT ![s] = "lookup"]
    BY <1>2 DEF Submit, server
  <2>2. phaseOf[s] # "open"
    BY <2>1 DEF phaseOf, PhaseOf, Busy, Running, Succeeded, IInv, TypeOK, Phases
  <2>3. PhaseOf(s)' = "open"
    BY <2>1 DEF PhaseOf, Busy, Running, IInv, TypeOK
  <2>4. \A y \in Slots \ {s} : PhaseOf(y)' = PhaseOf(y)
    BY <2>1 DEF PhaseOf, Busy, Succeeded, IInv, TypeOK
  <2>5. phaseOf' = [phaseOf EXCEPT ![s] = "open"]
    BY <2>3, <2>4 DEF phaseOf
  <2>6. Promise!Open(s, r)
    BY <2>1, <2>2, <2>5 DEF Promise!Open, phaseOf
  <2>7. QED
    BY <2>6 DEF Promise!Next
<1>3. CASE Restart
  <2>1. \A s \in Slots : PhaseOf(s)' = "idle"
    BY <1>3 DEF Restart, PhaseOf, Busy, Running, Succeeded
  <2>2. Promise!Forget
    BY <1>3, <2>1 DEF Restart, Promise!Forget, server
  <2>3. QED
    BY <2>2 DEF Promise!Next
<1>4. CASE \/ Cleanup
           \/ \E u \in Users : Evict(u)
           \/ UNCHANGED vars
  <2>1. UNCHANGED <<directory, req, pc>>
    BY <1>4 DEF Cleanup, Evict, vars, server, task
  <2>2. \A s \in Slots : PhaseOf(s)' = PhaseOf(s)
    BY <2>1 DEF PhaseOf, Busy, Succeeded
  <2>3. QED
    BY <2>1, <2>2 DEF Promise!vars
<1>5. ~(\E r \in late : LateArrive(r))
  BY DEF OneShotInv
<1>6. ~(\E u \in Users : AdminChange(u))
  BY DEF AdminChange, Exclusive, IInv, TypeOK
<1>7. QED
  BY <1>1, <1>2, <1>3, <1>4, <1>5, <1>6, StoreStep, PatchStep DEF Next, SlotStep

\* The invariant of tasks that run alone holds in every behaviour.
LEMMA AloneAlways ==
  ASSUME Exclusive
  PROVE  Spec => []OneShotInv
<1>1. Init => OneShotInv
  BY DEF Init, OneShotInv, Busy, Running
<1>2. IInv /\ OneShotInv /\ [Next]_vars => OneShotInv'
  BY NextOneShot
<1>3. QED
  BY <1>1, <1>2, Inductive, PTL DEF Spec

\* Nothing but a task's PATCH changes an account then.
LEMMA ChangedByPatch ==
  ASSUME Exclusive, IInv, OneShotInv, [Next]_vars, NEW u \in Users, directory'[u] # directory[u]
  PROVE  \E s \in Slots : (PatchAnswered(s) \/ PatchLost(s)) /\ req[s].user = u
<1>1. directory' # directory
  OBVIOUS
<1>2. ~(\E r \in late : LateArrive(r)) /\ ~(\E v \in Users : AdminChange(v))
  BY DEF OneShotInv, AdminChange, Exclusive, IInv, TypeOK
<1>3. PICK s \in Slots : PatchAnswered(s) \/ PatchLost(s)
  BY <1>1, <1>2
     DEF Next, SlotStep, Lookup, Fetch, Store, PatchRefused, PatchTimeout, Submit, Evict,
         Cleanup, Restart, vars, server
<1>4. req[s].user = u
  BY <1>3 DEF PatchAnswered, PatchLost, IInv, TypeOK
<1>5. QED
  BY <1>3, <1>4

\* One-shot provisioning keeps the promise: every request takes effect on the
\* account as it is at that moment, and a reported success is a kept one.
THEOREM KeepsPromise ==
  ASSUME Exclusive
  PROVE  Spec => PromiseKept
<1>1. IInv /\ OneShotInv /\ [Next]_vars => [Promise!Next]_(Promise!vars)
  BY NextMaps
<1>2. QED
  BY <1>1, InitMaps, Inductive, AloneAlways, PTL DEF Spec, PromiseKept, Promise!Spec

\* A task that has its account to itself deactivates only an account with a
\* view-only license (docs/connector.mdx, "Revoke a view-only license"): it needs
\* a second task, or an outdated copy, for an enterprise account to lose its
\* license and its access at once.
THEOREM DeprovisionsViewOnly ==
  ASSUME Exclusive
  PROVE  Spec => OnlyViewOnlyDeprovisioned
<1>1. ASSUME IInv, OneShotInv, [Next]_vars, NEW u \in Users,
             directory[u] # Gone, directory'[u] # Gone,
             directory[u].active, ~directory'[u].active
      PROVE  directory[u].userType = ViewOnly
  <2>1. PICK s \in Slots : (PatchAnswered(s) \/ PatchLost(s)) /\ req[s].user = u
    BY <1>1, ChangedByPatch
  <2> DEFINE goal == Goal(req[s], base[s])
  <2>2. /\ req[s] \in Request /\ base[s] \in Account /\ Decision(req[s], base[s]) = "patch"
        /\ directory[u] \in {base[s], goal} /\ directory'[u] = goal
        /\ goal = Patched(req[s], base[s])
    BY <1>1, <2>1, PatchEffect
  <2>3. directory[u] = base[s]
    BY <1>1, <2>2
  <2>4. QED
    BY <1>1, <2>2, <2>3
       DEF Patched, Decision, RevokeDecision, Account, Request, License
<1>2. IInv /\ OneShotInv /\ [Next]_vars =>
        [\A u \in Users :
           /\ directory[u] # Gone /\ directory'[u] # Gone
           /\ directory[u].active /\ ~directory'[u].active
           => changes' # changes \/ directory[u].userType = ViewOnly]_vars
  BY <1>1
<1>3. QED
  BY <1>2, Inductive, AloneAlways, PTL DEF Spec, OnlyViewOnlyDeprovisioned

\* Whatever user types accounts have, a task that has its account to itself never
\* lowers one to grant a license (license.go, "don't downgrade"): it takes the copy
\* of an account that had no license to lower one that got enterprise since.
THEOREM NoDowngradeAlone ==
  ASSUME Exclusive
  PROVE  Spec => GrantNeverDowngrades
<1> DEFINE Lowered(u) == /\ directory[u] # Gone /\ directory'[u] # Gone
                         /\ directory[u].userType = Enterprise
                         /\ directory'[u].userType = ViewOnly
           Revoking(s, u) == /\ pc[s] = "patch" /\ pc'[s] # "patch"
                             /\ req[s].user = u /\ req[s].kind = "revoke"
<1>1. ASSUME IInv, OneShotInv, [Next]_vars, NEW u \in Users, Lowered(u)
      PROVE  \E s \in Slots : Revoking(s, u)
  <2>1. directory'[u] # directory[u]
    BY <1>1 DEF Enterprise, ViewOnly
  <2>2. PICK s \in Slots : (PatchAnswered(s) \/ PatchLost(s)) /\ req[s].user = u
    BY <1>1, <2>1, ChangedByPatch
  <2> DEFINE goal == Goal(req[s], base[s])
  <2>3. /\ pc[s] = "patch"
        /\ req[s] \in Request /\ base[s] \in Account /\ Decision(req[s], base[s]) = "patch"
        /\ directory[u] \in {base[s], goal} /\ directory'[u] = goal
        /\ goal = Patched(req[s], base[s])
    BY <1>1, <2>2, PatchEffect
  <2>4. directory[u] = base[s]
    BY <2>1, <2>3
  <2>5. req[s].kind = "revoke"
    BY <1>1, <2>3, <2>4
       DEF Patched, Decision, GrantDecision, Account, Request, Enterprise, ViewOnly
  <2>6. pc'[s] # "patch"
    BY <1>1, <2>2 DEF PatchAnswered, PatchLost, Failed, IInv, TypeOK
  <2>7. QED
    BY <2>2, <2>3, <2>5, <2>6
<1>2. IInv /\ OneShotInv /\ [Next]_vars =>
        [\A u \in Users : Lowered(u) =>
           \/ changes' # changes
           \/ \E s \in Slots : Revoking(s, u)
           \/ \E r \in late \ late' : r.user = u /\ r.kind = "revoke"]_vars
  BY <1>1
<1>3. QED
  BY <1>2, Inductive, AloneAlways, PTL DEF Spec, GrantNeverDowngrades

-----------------------------------------------------------------------------
(* Every task has finitely many steps: the part of EveryTaskEnds that needs no *)
(* fairness. *)

StepsOfRound == [lookup |-> 4, fetch |-> 3, store |-> 2, patch |-> 1]

\* The steps a task may still take: those of the retries left to it, and those of
\* this round.
StepsLeft(s) ==
  IF Busy(s) THEN 4 * (MaxAttempts - attempts[s]) + StepsOfRound[pc[s]] ELSE 0

StepsLeftOK == \A s \in Slots : StepsLeft(s) \in Nat /\ (StepsLeft(s) = 0 <=> ~Busy(s))

\* A busy task has steps left, and no other has.
LEMMA StepsLeftType == TypeOK => StepsLeftOK
<1> SUFFICES ASSUME TypeOK, NEW s \in Slots
             PROVE  StepsLeft(s) \in Nat /\ (StepsLeft(s) = 0 <=> ~Busy(s))
  BY DEF StepsLeftOK
<1>1. attempts[s] \in 0 .. MaxAttempts /\ MaxAttempts \in Nat
  BY BoundsAssumption DEF TypeOK
<1>2. ASSUME Busy(s)
      PROVE  StepsOfRound[pc[s]] \in 1 .. 4
  BY <1>2 DEF Busy, Running, StepsOfRound
<1>3. QED
  BY <1>1, <1>2 DEF StepsLeft

\* What a step costs: a failure a round, unless it is the end; anything else a
\* step of the round.
LEMMA StepCosts ==
  ASSUME TypeOK, NEW s \in Slots, SlotStep(s)
  PROVE  /\ Busy(s)
         /\ \/ pc'[s] = "lookup" /\ attempts'[s] = attempts[s] + 1 /\ attempts[s] < MaxAttempts
            \/ pc[s] = "lookup" /\ pc'[s] \in {"fetch", "store"} /\ attempts'[s] = attempts[s]
            \/ pc[s] = "fetch" /\ pc'[s] = "store" /\ attempts'[s] = attempts[s]
            \/ pc[s] = "store" /\ pc'[s] = "patch" /\ attempts'[s] = attempts[s]
            \/ pc'[s] \in {"done", "already", "failed"}
<1>1. /\ attempts[s] \in 0 .. MaxAttempts /\ MaxAttempts \in Nat
      /\ pc \in [Slots -> Phases] /\ attempts \in [Slots -> 0 .. MaxAttempts]
  BY BoundsAssumption DEF TypeOK
<1>2. ASSUME NEW retryable, Failed(s, retryable)
      PROVE  \/ /\ pc'[s] = "lookup"
                /\ attempts'[s] = attempts[s] + 1 /\ attempts[s] < MaxAttempts
             \/ pc'[s] = "failed"
  BY <1>1, <1>2 DEF Failed
<1>3. CASE Lookup(s)
  BY <1>1, <1>2, <1>3 DEF Lookup, Busy, Running
<1>4. CASE Fetch(s)
  BY <1>1, <1>2, <1>4 DEF Fetch, Busy, Running
<1>5. CASE Store(s)
  BY <1>1, <1>5, DecisionType DEF Store, Busy, Running
<1>6. CASE PatchAnswered(s) \/ PatchLost(s) \/ PatchRefused(s) \/ PatchTimeout(s)
  BY <1>1, <1>2, <1>6 DEF PatchAnswered, PatchLost, PatchRefused, PatchTimeout, Busy, Running
<1>7. QED
  BY <1>3, <1>4, <1>5, <1>6 DEF SlotStep

UsesUpSteps ==
  \A s \in Slots : /\ SlotStep(s) => StepsLeft(s)' < StepsLeft(s)
                   /\ Busy(s) => StepsLeft(s)' <= StepsLeft(s)

\* Each step of a task is one less that it may take, and nothing that others do,
\* late PATCHes, administrators and evictions included, gives it one back: the
\* SDK's count (retry.go) bounds the requests of a task whatever happens to them.
THEOREM StepsRunOut == Spec => []StepsLeftOK /\ [][UsesUpSteps]_vars
<1>1. ASSUME TypeOK, StepsLeftOK, StepsLeftOK', [Next]_vars, NEW s \in Slots
      PROVE  /\ SlotStep(s) => StepsLeft(s)' < StepsLeft(s)
             /\ Busy(s) => StepsLeft(s)' <= StepsLeft(s)
  <2>1. StepsLeft(s) \in Nat /\ StepsLeft(s)' \in Nat
    BY <1>1 DEF StepsLeftOK
  <2>2. CASE SlotStep(s)
    <3>1. StepsLeft(s)' < StepsLeft(s)
      <4>1. attempts[s] \in 0 .. MaxAttempts /\ MaxAttempts \in Nat /\ Busy(s)
        BY <1>1, <2>2, StepCosts, BoundsAssumption DEF TypeOK
      <4>2. StepsOfRound[pc[s]] \in 1 .. 4
        BY <4>1 DEF Busy, Running, StepsOfRound
      <4>3. QED
        BY <1>1, <2>2, <4>1, <4>2, StepCosts DEF StepsLeft, StepsOfRound, Busy, Running
    <3>2. QED
      BY <2>1, <3>1
  <2>3. CASE Busy(s) /\ ~SlotStep(s)
    <3>1. (pc'[s] = pc[s] /\ attempts'[s] = attempts[s]) \/ ~Busy(s)'
      <4>1. ASSUME NEW y \in Slots \ {s}, SlotStep(y)
            PROVE  pc'[s] = pc[s] /\ attempts'[s] = attempts[s]
        BY <1>1, <4>1
           DEF SlotStep, Lookup, Fetch, Store, PatchAnswered, PatchLost, PatchRefused,
               PatchTimeout, Failed, TypeOK
      <4>2. ASSUME NEW y \in Slots, NEW r \in Requests, Submit(y, r)
            PROVE  pc'[s] = pc[s] /\ attempts'[s] = attempts[s]
        BY <1>1, <2>3, <4>2 DEF Submit, TypeOK
      <4>3. CASE Restart
        BY <4>3 DEF Restart, Busy, Running
      <4>4. CASE \/ \E r \in late : LateArrive(r)
                 \/ \E u \in Users : AdminChange(u) \/ Evict(u)
                 \/ Cleanup
                 \/ UNCHANGED vars
        BY <4>4 DEF LateArrive, AdminChange, Evict, Cleanup, vars, task
      <4>5. QED
        BY <1>1, <2>3, <4>1, <4>2, <4>3, <4>4 DEF Next
    <3>2. CASE pc'[s] = pc[s] /\ attempts'[s] = attempts[s]
      <4>1. StepsLeft(s)' = StepsLeft(s)
        BY <3>2 DEF StepsLeft, Busy
      <4>2. QED
        BY <2>1, <2>3, <4>1
    <3>3. CASE ~Busy(s)'
      <4>1. StepsLeft(s)' = 0
        BY <3>3 DEF StepsLeft
      <4>2. QED
        BY <2>1, <2>3, <4>1
    <3>4. QED
      BY <3>1, <3>2, <3>3
  <2>4. QED
    BY <2>2, <2>3
<1>2. TypeOK /\ StepsLeftOK /\ StepsLeftOK' /\ [Next]_vars => [UsesUpSteps]_vars
  BY <1>1 DEF UsesUpSteps
<1>3. QED
  BY <1>2, StepsLeftType, TypeCorrect, PTL DEF Spec

=============================================================================
