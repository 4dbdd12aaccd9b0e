-------------------------- MODULE LicenseProvisioner --------------------------
(***************************************************************************)
(* License provisioning as the connector performs it.                      *)
(*                                                                         *)
(* The runner hands Grant and Revoke tasks to a bounded number of slots.   *)
(* A task runs pkg/connector/license.go inside the SDK's retry loop: read  *)
(* the user through the HTTP client's cache, decide on what was read, send *)
(* one PATCH.  PATCHes never invalidate the cache.  A request may be       *)
(* refused, its answer lost, or it may still be on its way when the client *)
(* gives up on it.  Administrators change accounts behind the connector's  *)
(* back, cache entries expire, the end of a sync clears the caches and the *)
(* process may be restarted at any point.                                  *)
(***************************************************************************)
EXTENDS LicenseData, Naturals, FiniteSets

CONSTANTS
  Slots,        \* task slots of the runner (task-concurrency, 3 by default)
  NoRequest,
  Unreadable,   \* an answer of Asana's that does not decode
  MaxAttempts,  \* retries of one task (3 in the SDK)
  CacheOn,      \* FALSE with BATON_DISABLE_HTTP_CACHE
  OneShot,      \* TRUE when every task runs in a process of its own
  MaxTasks,     \* bound: tasks submitted
  MaxChanges,   \* bound: changes made by administrators
  MaxLate       \* bound: PATCHes on their way after the client gave up

ASSUME BoundsAssumption ==
  /\ MaxAttempts \in Nat \ {0}
  /\ MaxTasks \in Nat
  /\ MaxChanges \in Nat
  /\ MaxLate \in Nat
  /\ CacheOn \in BOOLEAN
  /\ OneShot \in BOOLEAN

ASSUME NoRequestAssumption == NoRequest \notin Request
ASSUME UnreadableAssumption == Unreadable \notin Account \cup {Gone, Miss}

VARIABLES
  directory,  \* [Users -> Account or Gone]: the accounts Asana holds
  cache,      \* [Users -> Account, Unreadable or Miss]: answers of GET /Users/<id>
  pc,         \* where each slot's task is
  req,        \* its request
  seen,       \* what its last GET returned
  attempts,   \* retries it has used
  late,       \* requests whose PATCH may still arrive
  submitted, changes,      \* counters for the bounds
  base,       \* history: the account when the task was submitted
  isolated    \* history: the tasks whose account nobody else has touched since

server  == <<directory, late>>
task    == <<pc, req, seen, attempts>>
history == <<base, isolated>>
counts  == <<submitted, changes>>
vars    == <<server, cache, task, history, counts>>

Running  == {"lookup", "fetch", "store", "patch"}
Phases   == {"idle", "done", "already", "failed"} \cup Running
Busy(s)  == pc[s] \in Running

\* license.go reports success, with an annotation when there was nothing to do.
Succeeded(s) == pc[s] \in {"done", "already"}

-----------------------------------------------------------------------------
(* The decisions of license.go, on the answer a task has seen. *)

\* Mutant: the don't-downgrade check is missing.
GrantDecisionDowngrading(r, v) == IF v.userType = r.license THEN "already" ELSE "patch"

GrantDecision(r, v) ==
  IF r.license = ViewOnly /\ v.userType = Enterprise THEN "done"
  ELSE IF v.userType = r.license THEN "already"
  ELSE "patch"

\* Mutant: the license is revoked without looking at the account's.
RevokeDecisionUnchecked(r, v) == IF r.license \in License THEN "patch" ELSE "failed"

RevokeDecision(r, v) ==
  IF v.userType # r.license THEN "already"
  ELSE IF r.license \in License THEN "patch"
  ELSE "failed"

\* An answer that does not decode is an error that the SDK does not retry.
Decision(r, v) ==
  IF v = Unreadable THEN "failed"
  ELSE IF r.kind = "grant" THEN GrantDecision(r, v)
  ELSE RevokeDecision(r, v)

\* Rejected before the user is read.
Rejected(r) == ~r.typed \/ (r.kind = "grant" /\ r.license \notin License)

\* Mutant: revoking enterprise deactivates the account.
PatchedDeprovisioning(r, v) ==
  IF r.kind = "grant" THEN [v EXCEPT !.userType = r.license]
  ELSE [v EXCEPT !.active = FALSE]

\* What the PATCH of a request does to the account.
Patched(r, v) ==
  IF r.kind = "grant" THEN [v EXCEPT !.userType = r.license]
  ELSE IF r.license = Enterprise THEN [v EXCEPT !.userType = ViewOnly]
  ELSE [v EXCEPT !.active = FALSE]

-----------------------------------------------------------------------------
Init ==
  /\ directory \in [Users -> [userType : AccountTypes, active : BOOLEAN] \cup {Gone}]
  /\ cache = [u \in Users |-> Miss]
  /\ pc = [s \in Slots |-> "idle"]
  /\ req = [s \in Slots |-> NoRequest]
  /\ seen = [s \in Slots |-> Miss]
  /\ attempts = [s \in Slots |-> 0]
  /\ late = {}
  /\ submitted = 0
  /\ changes = 0
  /\ base = [s \in Slots |-> Gone]
  /\ isolated = {}

\* The isolated tasks that stay so when user u's account is touched.
Undisturbed(u) == {x \in isolated : req[x].user # u}

FreshProcess ==
  /\ \A u \in Users : cache[u] = Miss
  /\ \A s \in Slots : pc[s] = "idle"

\* No other task works on u, nothing is on its way to u, and the cache has no
\* outdated copy of it.
Alone(s, u) ==
  /\ cache[u] \in {Miss, Unreadable, directory[u]}
  /\ \A l \in late : l.user # u
  /\ \A y \in Slots \ {s} : Busy(y) => req[y].user # u

\* The runner gives a free slot its next task.
Submit(s, r) ==
  /\ ~Busy(s)
  /\ OneShot => FreshProcess
  /\ submitted < MaxTasks
  /\ submitted' = submitted + 1
  /\ pc' = [pc EXCEPT ![s] = "lookup"]
  /\ req' = [req EXCEPT ![s] = r]
  /\ seen' = [seen EXCEPT ![s] = Miss]
  /\ attempts' = [attempts EXCEPT ![s] = 0]
  /\ base' = [base EXCEPT ![s] = directory[r.user]]
  /\ isolated' = (Undisturbed(r.user) \ {s}) \cup {x \in {s} : Alone(x, r.user)}
  /\ UNCHANGED <<server, cache, changes>>

\* Mutant: one retry too many.
FailedOneTooMany(s, retryable) ==
  IF retryable /\ attempts[s] <= MaxAttempts
  THEN /\ pc' = [pc EXCEPT ![s] = "lookup"]
       /\ attempts' = [attempts EXCEPT ![s] = @ + 1]
  ELSE /\ pc' = [pc EXCEPT ![s] = "failed"]
       /\ UNCHANGED attempts

\* Mutant: retries are not counted.
FailedUncounted(s, retryable) ==
  /\ pc' = [pc EXCEPT ![s] = IF retryable THEN "lookup" ELSE "failed"]
  /\ UNCHANGED attempts

\* Grant or Revoke returned an error. The SDK starts it again when the error
\* is a timeout or an unavailable service and retries are left.
Failed(s, retryable) ==
  IF retryable /\ attempts[s] + 1 <= MaxAttempts
  THEN /\ pc' = [pc EXCEPT ![s] = "lookup"]
       /\ attempts' = [attempts EXCEPT ![s] = @ + 1]
  ELSE /\ pc' = [pc EXCEPT ![s] = "failed"]
       /\ UNCHANGED attempts

\* The first line of the handler to the cache's answer.
Lookup(s) ==
  /\ pc[s] = "lookup"
  /\ LET u == req[s].user IN
     \/ /\ Rejected(req[s])
        /\ Failed(s, FALSE)
        /\ UNCHANGED seen
     \/ /\ ~Rejected(req[s])
        /\ cache[u] = Miss
        /\ pc' = [pc EXCEPT ![s] = "fetch"]
        /\ UNCHANGED <<seen, attempts>>
     \/ /\ ~Rejected(req[s])
        /\ cache[u] # Miss
        /\ seen' = [seen EXCEPT ![s] = cache[u]]
        /\ pc' = [pc EXCEPT ![s] = "store"]
        /\ UNCHANGED attempts
  /\ UNCHANGED <<server, cache, req, history, counts>>

\* Asana answers the GET, readably or not, or the GET fails.
Fetch(s) ==
  /\ pc[s] = "fetch"
  /\ \/ /\ \E answer \in {directory[req[s].user], Unreadable} \ {Gone} :
             seen' = [seen EXCEPT ![s] = answer]
        /\ pc' = [pc EXCEPT ![s] = "store"]
        /\ UNCHANGED attempts
     \/ /\ directory[req[s].user] = Gone
        /\ Failed(s, FALSE)
        /\ UNCHANGED seen
     \/ /\ \E retryable \in BOOLEAN : Failed(s, retryable)
        /\ UNCHANGED seen
  /\ UNCHANGED <<server, cache, req, history, counts>>

\* The client writes the answer to the cache, a cached or unreadable one too,
\* and the handler decides.
Store(s) ==
  /\ pc[s] = "store"
  /\ cache' = IF CacheOn THEN [cache EXCEPT ![req[s].user] = seen[s]] ELSE cache
  /\ pc' = [pc EXCEPT ![s] = Decision(req[s], seen[s])]
  /\ UNCHANGED <<server, req, seen, attempts, history, counts>>

\* The PATCH is applied and answered.
PatchAnswered(s) ==
  /\ pc[s] = "patch"
  /\ directory[req[s].user] # Gone
  /\ directory' = [directory EXCEPT ![req[s].user] = Patched(req[s], @)]
  /\ pc' = [pc EXCEPT ![s] = "done"]
  /\ isolated' = Undisturbed(req[s].user) \cup (isolated \cap {s})
  /\ UNCHANGED <<late, cache, req, seen, attempts, base, counts>>

\* The PATCH is applied but the client sees an error: a lost or unreadable
\* answer.
PatchLost(s) ==
  /\ pc[s] = "patch"
  /\ directory[req[s].user] # Gone
  /\ directory' = [directory EXCEPT ![req[s].user] = Patched(req[s], @)]
  /\ \E retryable \in BOOLEAN : Failed(s, retryable)
  /\ isolated' = Undisturbed(req[s].user) \cup (isolated \cap {s})
  /\ UNCHANGED <<late, cache, req, seen, base, counts>>

\* The PATCH is not applied: an error answer, HTTP 404 for an unknown id, or
\* a connection that was never made.
PatchRefused(s) ==
  /\ pc[s] = "patch"
  /\ \E retryable \in BOOLEAN : Failed(s, retryable)
  /\ UNCHANGED <<server, cache, req, seen, history, counts>>

\* The client gives up on a PATCH that is still on its way: its time is over,
\* or the task is cancelled, which is not retried.
PatchTimeout(s) ==
  /\ pc[s] = "patch"
  /\ Cardinality(late \cup {req[s]}) <= MaxLate
  /\ late' = late \cup {req[s]}
  /\ \E retryable \in BOOLEAN : Failed(s, retryable)
  /\ UNCHANGED <<directory, cache, req, seen, history, counts>>

\* ... and arrives.
LateArrive(r) ==
  /\ r \in late
  /\ late' = late \ {r}
  /\ directory' = [directory EXCEPT ![r.user] = IF @ = Gone THEN @ ELSE Patched(r, @)]
  /\ isolated' = Undisturbed(r.user) \cup {x \in isolated : req[x] = r}
  /\ UNCHANGED <<cache, task, base, counts>>

-----------------------------------------------------------------------------
(* The environment. *)

\* An administrator changes, removes or adds an account.
AdminChange(u) ==
  /\ changes < MaxChanges
  /\ changes' = changes + 1
  /\ \E v \in [userType : AccountTypes, active : BOOLEAN] \cup {Gone} :
       directory' = [directory EXCEPT ![u] = v]
  /\ isolated' = Undisturbed(u)
  /\ UNCHANGED <<late, cache, task, base, submitted>>

\* An entry's hour is over, or the cache is full.
Evict(u) ==
  /\ cache[u] # Miss
  /\ cache' = [cache EXCEPT ![u] = Miss]
  /\ UNCHANGED <<server, task, history, counts>>

\* The end of a sync clears the caches.
Cleanup ==
  /\ cache' = [u \in Users |-> Miss]
  /\ UNCHANGED <<server, task, history, counts>>

\* The process ends, on purpose or not, and a new one starts.
Restart ==
  /\ cache' = [u \in Users |-> Miss]
  /\ pc' = [s \in Slots |-> "idle"]
  /\ req' = [s \in Slots |-> NoRequest]
  /\ seen' = [s \in Slots |-> Miss]
  /\ attempts' = [s \in Slots |-> 0]
  /\ isolated' = {}
  /\ UNCHANGED <<server, base, counts>>

-----------------------------------------------------------------------------
SlotStep(s) ==
  \/ Lookup(s)
  \/ Fetch(s)
  \/ Store(s)
  \/ PatchAnswered(s)
  \/ PatchLost(s)
  \/ PatchRefused(s)
  \/ PatchTimeout(s)

Next ==
  \/ \E s \in Slots : SlotStep(s) \/ \E r \in Requests : Submit(s, r)
  \/ \E r \in late : LateArrive(r)
  \/ \E u \in Users : AdminChange(u) \/ Evict(u)
  \/ Cleanup
  \/ Restart

Spec == Init /\ [][Next]_vars

\* Every step of a task ends: the HTTP client has timeouts and the waits
\* between retries are bounded.
FairSpec == Spec /\ \A s \in Slots : WF_vars(SlotStep(s))

-----------------------------------------------------------------------------
TypeOK ==
  /\ directory \in [Users -> Account \cup {Gone}]
  /\ cache \in [Users -> Account \cup {Unreadable, Miss}]
  /\ pc \in [Slots -> Phases]
  /\ req \in [Slots -> Request \cup {NoRequest}]
  /\ seen \in [Slots -> Account \cup {Unreadable, Miss}]
  /\ attempts \in [Slots -> 0 .. MaxAttempts]
  /\ late \in SUBSET Request
  /\ submitted \in 0 .. MaxTasks
  /\ changes \in 0 .. MaxChanges
  /\ base \in [Slots -> Account \cup {Gone}]
  /\ isolated \subseteq Slots

\* A task that has its account to itself, whatever is lost, repeated, retried,
\* evicted or cleared on the way, reports success only when the account is
\* exactly what the request makes of the account it started from, and leaves
\* either that or the account it started from when it fails.
IsolatedTaskCorrect ==
  \A s \in isolated :
    LET now  == directory[req[s].user]
        goal == Goal(req[s], base[s])
    IN  /\ Succeeded(s) => now = goal /\ now # Gone
        /\ now \in {base[s], goal}

\* A step lowers an account from enterprise to view-only only for a request
\* to revoke enterprise, or by an administrator's hand: never for a grant
\* (license.go, "don't downgrade").
GrantNeverDowngrades ==
  [][\A u \in Users :
       /\ directory[u] # Gone /\ directory'[u] # Gone
       /\ directory[u].userType = Enterprise
       /\ directory'[u].userType = ViewOnly
       => \/ changes' # changes
          \/ \E s \in Slots : /\ pc[s] = "patch" /\ pc'[s] # "patch"
                              /\ req[s].user = u /\ req[s].kind = "revoke"
          \/ \E r \in late \ late' : r.user = u /\ r.kind = "revoke"]_vars

\* Every task comes to an end: the retries of a task run out.
EveryTaskEnds == \A s \in Slots : Busy(s) ~> ~Busy(s)

\* Only an account with a view-only license is deprovisioned, unless an
\* administrator does it (docs/connector.mdx, "Revoke a view-only license").
OnlyViewOnlyDeprovisioned ==
  [][\A u \in Users :
       /\ directory[u] # Gone /\ directory'[u] # Gone
       /\ directory[u].active /\ ~directory'[u].active
       => changes' # changes \/ directory[u].userType = ViewOnly]_vars

-----------------------------------------------------------------------------
(* The inductive invariant behind IsolatedTaskCorrect. *)

\* What a task knows at each of its steps, and what a PATCH on its way is.
ProgressInv ==
  /\ \A s \in Slots :
       /\ pc[s] # "idle" => req[s] \in Request
       /\ pc[s] \in {"fetch", "store", "patch"} => ~Rejected(req[s])
       /\ pc[s] = "store" => seen[s] \in Account \cup {Unreadable}
       /\ pc[s] = "patch" => seen[s] \in Account
       /\ pc[s] = "patch" => Decision(req[s], seen[s]) = "patch"
  /\ \A r \in late : ~Rejected(r)

\* What is true of an isolated task's account: it, its cached copy and the
\* copy the task has seen are the account the task started from or the one it
\* is to leave, none ahead of the directory, and what may still arrive for it
\* is the task's own PATCH.
IsolationOf(s) ==
  LET u    == req[s].user
      now  == directory[u]
      goal == Goal(req[s], base[s])
  IN  /\ pc[s] # "idle"
      /\ now \in {base[s], goal}
      /\ cache[u] \in {Miss, Unreadable, base[s], now}
      /\ pc[s] \in {"store", "patch"} => seen[s] \in {Unreadable, base[s], now}
      /\ Succeeded(s) => now = goal /\ now # Gone
      /\ \A l \in late : l.user = u =>
            /\ l = req[s]
            /\ base[s] # Gone
            /\ Decision(l, base[s]) = "patch"
      /\ \A y \in Slots \ {s} : Busy(y) => req[y].user # u

IsolationInv == \A s \in isolated : IsolationOf(s)

IInv == TypeOK /\ ProgressInv /\ IsolationInv

=============================================================================
