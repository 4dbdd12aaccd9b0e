-------------------------- MODULE AllowedWorkspaces --------------------------
(***************************************************************************)
(* The workspaces the connector works on (pkg/connector/workspace.go).     *)
(*                                                                         *)
(* List loads them on its first call, under a mutex, and keeps them for    *)
(* the life of the process.  List itself reads the slice without the       *)
(* mutex, so a call may run into another one's load.  Calls come from      *)
(* sync tasks, which the runner may overlap and the syncer retries.        *)
(***************************************************************************)
EXTENDS Naturals, SequencesExt

CONSTANTS
  Workspaces,
  Calls,              \* concurrent calls of List
  UseServiceAccount,  \* all visible workspaces, or those of the token's user
  CacheOn,            \* FALSE with BATON_DISABLE_HTTP_CACHE
  Nil,                \* the slice before the first load
  Miss,               \* no entry in the HTTP cache
  Unreadable,         \* an answer of Asana's that does not decode
  Free,               \* nobody holds the mutex
  MaxCalls,           \* bound: calls of List
  MaxFailures,        \* bound: failed loads
  MaxChanges          \* bound: changes of membership in Asana

Standing == {"none", "guest", "member"}
Membership == [Workspaces -> Standing]

ASSUME ConstantsAssumption ==
  /\ Nil \notin Seq(Workspaces)
  /\ Miss \notin Membership
  /\ Unreadable \notin Membership \cup {Miss}
  /\ Free \notin Calls
  /\ UseServiceAccount \in BOOLEAN
  /\ CacheOn \in BOOLEAN
  /\ MaxCalls \in Nat
  /\ MaxFailures \in Nat
  /\ MaxChanges \in Nat

VARIABLES
  membership,  \* Asana's: how the token's owner stands to each workspace
  cached,      \* the cached answer to the membership request
  allowedWorkspaces,
  lock,        \* allowedWorkspacesMutex
  pc,          \* where each call of List is
  todo,        \* workspaces its load has still to append
  names,       \* the slice it lists
  calls, failures, changes,  \* counters for the bounds
  past         \* history: the memberships since the process started

call   == <<pc, todo, names>>
counts == <<calls, failures, changes>>
vars   == <<membership, cached, allowedWorkspaces, lock, call, counts, past>>

Active == {"check", "lock", "get", "append", "read", "info"}
Stages == Active \cup {"idle", "listed", "failed"}

\* Mutant: guests are not left out.
LoadedWithGuests(m) == {w \in Workspaces : m[w] # "none"}

\* What a load makes of an answer of Asana's.
Loaded(m) == {w \in Workspaces : m[w] = "member" \/ (UseServiceAccount /\ m[w] = "guest")}

-----------------------------------------------------------------------------
Init ==
  /\ membership \in Membership
  /\ cached = Miss
  /\ allowedWorkspaces = Nil
  /\ lock = Free
  /\ pc = [c \in Calls |-> "idle"]
  /\ todo = [c \in Calls |-> {}]
  /\ names = [c \in Calls |-> <<>>]
  /\ calls = 0
  /\ failures = 0
  /\ changes = 0
  /\ past = {membership}

Call(c) ==
  /\ pc[c] \notin Active
  /\ calls < MaxCalls
  /\ calls' = calls + 1
  /\ pc' = [pc EXCEPT ![c] = "check"]
  /\ UNCHANGED <<membership, cached, allowedWorkspaces, lock, todo, names, failures, changes, past>>

\* Mutant: List never loads.
CheckWithoutLoad(c) ==
  /\ pc[c] = "check"
  /\ pc' = [pc EXCEPT ![c] = "read"]
  /\ UNCHANGED <<membership, cached, allowedWorkspaces, lock, todo, names, counts, past>>

\* The unlocked test of List.
Check(c) ==
  /\ pc[c] = "check"
  /\ pc' = [pc EXCEPT ![c] = IF allowedWorkspaces = Nil THEN "lock" ELSE "read"]
  /\ UNCHANGED <<membership, cached, allowedWorkspaces, lock, todo, names, counts, past>>

\* Mutant: the test under the mutex is missing.
LockUnchecked(c) ==
  /\ pc[c] = "lock"
  /\ lock = Free
  /\ lock' = c
  /\ allowedWorkspaces' = <<>>
  /\ pc' = [pc EXCEPT ![c] = "get"]
  /\ UNCHANGED <<membership, cached, todo, names, counts, past>>

\* Mutant: the test under the mutex decides only whether to make the slice.
LockAppending(c) ==
  /\ pc[c] = "lock"
  /\ lock = Free
  /\ lock' = c
  /\ allowedWorkspaces' = IF allowedWorkspaces = Nil THEN <<>> ELSE allowedWorkspaces
  /\ pc' = [pc EXCEPT ![c] = "get"]
  /\ UNCHANGED <<membership, cached, todo, names, counts, past>>

\* The mutex is taken and the slice tested again; when it is still nil it is
\* made empty before Asana is asked.
Lock(c) ==
  /\ pc[c] = "lock"
  /\ lock = Free
  /\ \/ /\ allowedWorkspaces # Nil
        /\ pc' = [pc EXCEPT ![c] = "read"]
        /\ UNCHANGED <<allowedWorkspaces, lock>>
     \/ /\ allowedWorkspaces = Nil
        /\ allowedWorkspaces' = <<>>
        /\ lock' = c
        /\ pc' = [pc EXCEPT ![c] = "get"]
  /\ UNCHANGED <<membership, cached, todo, names, counts, past>>

\* The membership request, answered readably by the cache or by Asana. Reading the
\* answer and caching it is one step here: what is cached is some membership
\* since the process started either way.
Get(c) ==
  /\ pc[c] = "get"
  /\ cached # Unreadable
  /\ LET answer == IF cached # Miss THEN cached ELSE membership IN
     /\ cached' = IF CacheOn THEN answer ELSE cached
     /\ todo' = [todo EXCEPT ![c] = Loaded(answer)]
  /\ pc' = [pc EXCEPT ![c] = "append"]
  /\ UNCHANGED <<membership, allowedWorkspaces, lock, names, counts, past>>

\* The request fails. An answer that does not decode is cached all the same,
\* and fails whoever meets it there.
RequestFails ==
  \/ /\ cached = Miss
     /\ failures < MaxFailures
     /\ failures' = failures + 1
     /\ cached' \in {Miss} \cup {a \in {Unreadable} : CacheOn}
  \/ /\ cached = Unreadable
     /\ UNCHANGED <<cached, failures>>

\* Mutant: the mutex stays locked when the request fails.
GetFailedLocked(c) ==
  /\ pc[c] = "get"
  /\ RequestFails
  /\ pc' = [pc EXCEPT ![c] = "failed"]
  /\ UNCHANGED <<membership, allowedWorkspaces, lock, todo, names, calls, changes, past>>

\* It fails: the slice stays empty, and is not nil any more.
GetFailed(c) ==
  /\ pc[c] = "get"
  /\ RequestFails
  /\ lock' = Free
  /\ pc' = [pc EXCEPT ![c] = "failed"]
  /\ UNCHANGED <<membership, allowedWorkspaces, todo, names, calls, changes, past>>

AppendNext(c) ==
  /\ pc[c] = "append"
  /\ \/ /\ \E w \in todo[c] :
             /\ allowedWorkspaces' = Append(allowedWorkspaces, w)
             /\ todo' = [todo EXCEPT ![c] = @ \ {w}]
        /\ UNCHANGED <<lock, pc>>
     \/ /\ todo[c] = {}
        /\ lock' = Free
        /\ pc' = [pc EXCEPT ![c] = "read"]
        /\ UNCHANGED <<allowedWorkspaces, todo>>
  /\ UNCHANGED <<membership, cached, names, counts, past>>

Loading == \E c \in Calls : pc[c] \in {"get", "append"}

\* The unlocked read of the slice. During a load the read races with append:
\* it may see the slice at any length it has had, or a length and an array
\* that do not belong together, whose elements no lookup finds.
Read(c) ==
  /\ pc[c] = "read"
  /\ \/ /\ names' = [names EXCEPT ![c] = allowedWorkspaces]
        /\ pc' = [pc EXCEPT ![c] = "info"]
     \/ /\ Loading
        /\ \E n \in 0 .. Len(allowedWorkspaces) :
             names' = [names EXCEPT ![c] = SubSeq(allowedWorkspaces, 1, n)]
        /\ pc' = [pc EXCEPT ![c] = "info"]
     \/ /\ Loading
        /\ pc' = [pc EXCEPT ![c] = "failed"]
        /\ UNCHANGED names
  /\ UNCHANGED <<membership, cached, allowedWorkspaces, lock, todo, counts, past>>

\* GetWorkspace of each element, from the cache or from Asana.
Info(c) ==
  /\ pc[c] = "info"
  /\ pc' = [pc EXCEPT ![c] = "listed"]
  /\ UNCHANGED <<membership, cached, allowedWorkspaces, lock, todo, names, counts, past>>

\* One that fails, or is gone from Asana, fails the call.
InfoFailed(c) ==
  /\ pc[c] = "info"
  /\ names[c] # <<>>
  /\ pc' = [pc EXCEPT ![c] = "failed"]
  /\ UNCHANGED <<membership, cached, allowedWorkspaces, lock, todo, names, counts, past>>

-----------------------------------------------------------------------------
\* The syncer's Validate before a sync makes the same request.
Validate ==
  /\ CacheOn /\ cached = Miss
  /\ \/ cached' = membership /\ UNCHANGED failures
     \/ RequestFails
  /\ UNCHANGED <<membership, allowedWorkspaces, lock, call, calls, changes, past>>

\* The entry's hour is over, the cache is full, or the end of a sync clears it.
Evict ==
  /\ cached # Miss
  /\ cached' = Miss
  /\ UNCHANGED <<membership, allowedWorkspaces, lock, call, counts, past>>

\* The owner of the token joins, leaves or changes a workspace.
Change(w) ==
  /\ changes < MaxChanges
  /\ changes' = changes + 1
  /\ \E s \in Standing : membership' = [membership EXCEPT ![w] = s]
  /\ past' = past \cup {membership'}
  /\ UNCHANGED <<cached, allowedWorkspaces, lock, call, calls, failures>>

Restart ==
  /\ cached' = Miss
  /\ allowedWorkspaces' = Nil
  /\ lock' = Free
  /\ pc' = [c \in Calls |-> "idle"]
  /\ todo' = [c \in Calls |-> {}]
  /\ names' = [c \in Calls |-> <<>>]
  /\ past' = {membership}
  /\ UNCHANGED <<membership, counts>>

-----------------------------------------------------------------------------
CallStep(c) ==
  \/ Check(c)
  \/ Lock(c)
  \/ Get(c)
  \/ GetFailed(c)
  \/ AppendNext(c)
  \/ Read(c)
  \/ Info(c)
  \/ InfoFailed(c)

Next ==
  \/ \E c \in Calls : Call(c) \/ CallStep(c)
  \/ \E w \in Workspaces : Change(w)
  \/ Validate
  \/ Evict
  \/ Restart

Spec == Init /\ [][Next]_vars

\* The steps of a call end, requests time out, and a Go mutex hands itself to
\* the waiter that has waited longest.
FairSpec ==
  Spec /\ \A c \in Calls : WF_vars(CallStep(c)) /\ SF_vars(Lock(c))

-----------------------------------------------------------------------------
TypeOK ==
  /\ membership \in Membership
  /\ cached \in Membership \cup {Unreadable, Miss}
  /\ allowedWorkspaces \in Seq(Workspaces) \cup {Nil}
  /\ lock \in Calls \cup {Free}
  /\ pc \in [Calls -> Stages]
  /\ todo \in [Calls -> SUBSET Workspaces]
  /\ names \in [Calls -> Seq(Workspaces)]
  /\ calls \in 0 .. MaxCalls
  /\ failures \in 0 .. MaxFailures
  /\ changes \in 0 .. MaxChanges
  /\ past \in SUBSET Membership

\* However calls overlap, the workspaces are loaded once: none is listed twice.
ListedOnce ==
  allowedWorkspaces # Nil =>
    \A i, j \in DOMAIN allowedWorkspaces :
      allowedWorkspaces[i] = allowedWorkspaces[j] => i = j

\* The slice that calls read without the mutex only ever grows, until the
\* process ends: what a call has seen of it stays true.
OnlyGrows ==
  [][allowedWorkspaces # Nil =>
       \/ allowedWorkspaces' = Nil /\ \A c \in Calls : pc'[c] = "idle"
       \/ \A i \in DOMAIN allowedWorkspaces :
            /\ i \in DOMAIN allowedWorkspaces'
            /\ allowedWorkspaces'[i] = allowedWorkspaces[i]]_vars

\* A list that holds every workspace the token's owner was a member of at some
\* moment since the process started, none the owner had nothing to do with then,
\* and none as a guest, a service account's apart (workspace.go, "get all
\* workspaces directly", "get workspaces the user is a member of").
Whole(list) ==
  \E m \in past : \A w \in Workspaces :
    /\ m[w] = "member" => w \in ToSet(list)
    /\ m[w] = "none" => w \notin ToSet(list)
    /\ m[w] = "guest" => (w \in ToSet(list) <=> UseServiceAccount)

\* A list reported to the platform is a whole one.
CompleteListing == \A c \in Calls : pc[c] = "listed" => Whole(names[c])

\* A call that reads the slice while nobody is loading it takes away a whole list,
\* whichever calls have overlapped before, as long as no request has failed: the
\* slice stays whole once its load is over.
UndisturbedListing ==
  [][\A c \in Calls :
       pc[c] = "read" /\ pc'[c] = "info" /\ ~Loading /\ failures = 0 => Whole(names'[c])]_vars

\* Every call of List ends: the mutex is given back on every path.
EveryListEnds == \A c \in Calls : pc[c] \in Active ~> pc[c] \notin Active

-----------------------------------------------------------------------------
(* The inductive invariant. *)

\* The holder of the mutex is the one call that loads; what it has still to
\* append is not in the slice; a call that reads finds a slice.
LoadInv ==
  /\ \A c \in Calls : pc[c] \in {"get", "append"} <=> lock = c
  /\ \A c \in Calls : pc[c] \in {"get", "append", "read"} => allowedWorkspaces # Nil
  /\ \A c \in Calls : pc[c] = "get" => allowedWorkspaces = <<>>
  /\ \A c \in Calls : pc[c] = "append" =>
        \A w \in todo[c] : w \notin ToSet(allowedWorkspaces)

IInv == TypeOK /\ LoadInv /\ ListedOnce

=============================================================================
