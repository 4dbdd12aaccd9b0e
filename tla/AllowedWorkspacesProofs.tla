----------------------- MODULE AllowedWorkspacesProofs -----------------------
(***************************************************************************)
(* Proofs about AllowedWorkspaces, for any workspaces, any number of calls *)
(* and any bounds.                                                         *)
(***************************************************************************)
EXTENDS AllowedWorkspaces, TLAPS

-----------------------------------------------------------------------------
(* The invariant, one lemma per action that does more than move a call on. *)

\* Initially nothing is loaded and nobody holds the mutex.
LEMMA InitInv == Init => IInv
BY ConstantsAssumption
   DEF Init, IInv, TypeOK, LoadInv, ListedOnce, Stages, Active

\* The steps of a call that touch neither the slice nor the mutex.
LEMMA QuietInv ==
  ASSUME IInv, NEW c \in Calls,
         Call(c) \/ Check(c) \/ Info(c) \/ InfoFailed(c)
  PROVE  IInv'
<1>1. TypeOK'
  <2>1. pc' \in [Calls -> Stages]
    BY DEF IInv, TypeOK, Call, Check, Info, InfoFailed, Stages, Active
  <2>2. calls' \in 0 .. MaxCalls
    BY ConstantsAssumption DEF IInv, TypeOK, Call, Check, Info, InfoFailed, counts
  <2>3. QED
    BY <2>1, <2>2 DEF IInv, TypeOK, Call, Check, Info, InfoFailed, counts
<1>2. LoadInv'
  <2>1. \A d \in Calls : pc'[d] \in {"get", "append"} <=> pc[d] \in {"get", "append"}
    BY DEF IInv, TypeOK, Call, Check, Info, InfoFailed, Active
  <2>2. \A d \in Calls : pc'[d] \in {"get", "append"} => pc'[d] = pc[d]
    BY DEF IInv, TypeOK, Call, Check, Info, InfoFailed, Active
  <2>3. \A d \in Calls : pc'[d] = "read" => pc[d] = "read" \/ allowedWorkspaces # Nil
    BY DEF IInv, TypeOK, Call, Check, Info, InfoFailed, Active
  <2>4. UNCHANGED <<allowedWorkspaces, lock, todo>>
    BY DEF Call, Check, Info, InfoFailed
  <2>5. QED
    BY <2>1, <2>2, <2>3, <2>4 DEF IInv, LoadInv
<1>3. ListedOnce'
  BY DEF IInv, ListedOnce, Call, Check, Info, InfoFailed
<1>4. QED
  BY <1>1, <1>2, <1>3 DEF IInv

\* Taking the mutex: when nobody held it nobody was loading.
LEMMA LockInv ==
  ASSUME IInv, NEW c \in Calls, Lock(c)
  PROVE  IInv'
<1>0. <<>> \in Seq(Workspaces) /\ <<>> # Nil
  <2>1. <<>> \in Seq(Workspaces)
    OBVIOUS
  <2>2. QED
    BY <2>1, ConstantsAssumption, Zenon
<1>1. TypeOK'
  <2>1. allowedWorkspaces' \in Seq(Workspaces) \cup {Nil}
    BY <1>0 DEF IInv, TypeOK, Lock
  <2>2. pc' \in [Calls -> Stages]
    BY DEF IInv, TypeOK, Lock, Stages, Active
  <2>3. lock' \in Calls \cup {Free}
    BY DEF IInv, TypeOK, Lock
  <2>4. QED
    BY <2>1, <2>2, <2>3 DEF IInv, TypeOK, Lock, counts
<1>2. LoadInv'
  <2>1. CASE allowedWorkspaces # Nil
    BY <2>1 DEF IInv, TypeOK, LoadInv, Lock, ToSet
  <2>2. CASE allowedWorkspaces = Nil
    <3>1. lock = Free /\ lock' = c /\ allowedWorkspaces' = <<>>
          /\ pc' = [pc EXCEPT ![c] = "get"] /\ todo' = todo
      BY <2>2 DEF Lock
    <3>2. \A d \in Calls : pc[d] \notin {"get", "append", "read"}
      BY <2>2 DEF IInv, LoadInv
    <3>3. \A d \in Calls : pc'[d] = IF d = c THEN "get" ELSE pc[d]
      BY <3>1 DEF IInv, TypeOK
    <3>4. QED
      BY <1>0, <3>1, <3>2, <3>3 DEF LoadInv
  <2>3. QED
    BY <2>1, <2>2
<1>3. ListedOnce'
  BY DEF IInv, ListedOnce, Lock
<1>4. QED
  BY <1>1, <1>2, <1>3 DEF IInv

\* The answer of the membership request, or its failure.
LEMMA GetInv ==
  ASSUME IInv, NEW c \in Calls, Get(c) \/ GetFailed(c)
  PROVE  IInv'
<1>1. TypeOK'
  <2>1. CASE Get(c)
    BY <2>1 DEF IInv, TypeOK, Get, counts, Loaded, Stages, Active
  <2>2. CASE GetFailed(c)
    BY <2>2, ConstantsAssumption DEF IInv, TypeOK, GetFailed, RequestFails, Stages, Active
  <2>3. QED
    BY <2>1, <2>2
<1>2. LoadInv'
  <2>1. CASE Get(c)
    BY <2>1 DEF IInv, TypeOK, LoadInv, Get, counts, ToSet
  <2>2. CASE GetFailed(c)
    BY <2>2, ConstantsAssumption DEF IInv, TypeOK, LoadInv, GetFailed, RequestFails, ToSet
  <2>3. QED
    BY <2>1, <2>2
<1>3. ListedOnce'
  BY DEF IInv, ListedOnce, Get, GetFailed
<1>4. QED
  BY <1>1, <1>2, <1>3 DEF IInv

\* Appending: the new element was not in the slice.
LEMMA AppendInv ==
  ASSUME IInv, NEW c \in Calls, AppendNext(c)
  PROVE  IInv'
<1>1. lock = c /\ allowedWorkspaces \in Seq(Workspaces)
  BY DEF IInv, TypeOK, LoadInv, AppendNext
<1>2. CASE todo[c] = {} /\ lock' = Free /\ pc' = [pc EXCEPT ![c] = "read"]
           /\ UNCHANGED <<allowedWorkspaces, todo>>
  <2>1. TypeOK'
    BY <1>2 DEF IInv, TypeOK, AppendNext, counts, Stages, Active
  <2>2. LoadInv'
    BY <1>1, <1>2, ConstantsAssumption DEF IInv, TypeOK, LoadInv, ToSet
  <2>3. QED
    BY <1>2, <2>1, <2>2 DEF IInv, ListedOnce
<1>3. ASSUME NEW w \in todo[c],
             allowedWorkspaces' = Append(allowedWorkspaces, w),
             todo' = [todo EXCEPT ![c] = @ \ {w}],
             UNCHANGED <<lock, pc>>
      PROVE  IInv'
  <2>1. w \in Workspaces /\ w \notin ToSet(allowedWorkspaces)
    BY DEF IInv, TypeOK, LoadInv, AppendNext
  <2>2. /\ allowedWorkspaces' \in Seq(Workspaces)
        /\ DOMAIN allowedWorkspaces' = DOMAIN allowedWorkspaces \cup {Len(allowedWorkspaces) + 1}
        /\ Len(allowedWorkspaces) + 1 \notin DOMAIN allowedWorkspaces
        /\ allowedWorkspaces'[Len(allowedWorkspaces) + 1] = w
        /\ \A i \in DOMAIN allowedWorkspaces : allowedWorkspaces'[i] = allowedWorkspaces[i]
    BY <1>1, <1>3, <2>1
  <2>3. TypeOK'
    BY <1>3, <2>2 DEF IInv, TypeOK, AppendNext, counts
  <2>4. ToSet(allowedWorkspaces') \subseteq ToSet(allowedWorkspaces) \cup {w}
    BY <2>2 DEF ToSet
  <2>5. LoadInv'
    <3>1. \A d \in Calls : pc[d] = "append" => d = c
      BY <1>1 DEF IInv, LoadInv
    <3>2. \A d \in Calls : pc[d] # "get"
      BY <1>1 DEF IInv, LoadInv, AppendNext
    <3>3. \A v \in todo'[c] : v \in todo[c] /\ v # w
      BY <1>3 DEF IInv, TypeOK
    <3>4. \A v \in todo'[c] : v \notin ToSet(allowedWorkspaces')
      BY <2>4, <3>3 DEF IInv, LoadInv, AppendNext
    <3>5. allowedWorkspaces' # Nil
      BY <2>2, ConstantsAssumption
    <3>6. QED
      BY <1>3, <3>1, <3>2, <3>4, <3>5 DEF IInv, LoadInv
  <2>6. ListedOnce'
    <3>1. \A i \in DOMAIN allowedWorkspaces : allowedWorkspaces[i] # w
      BY <2>1 DEF ToSet
    <3>2. allowedWorkspaces # Nil
      BY <1>1, ConstantsAssumption
    <3>3. QED
      BY <2>2, <3>1, <3>2 DEF IInv, ListedOnce
  <2>7. QED
    BY <2>3, <2>5, <2>6 DEF IInv
<1>4. QED
  BY <1>2, <1>3 DEF AppendNext

\* The unlocked read sees a prefix of the slice, or the call fails.
LEMMA ReadInv ==
  ASSUME IInv, NEW c \in Calls, Read(c)
  PROVE  IInv'
<1>1. allowedWorkspaces \in Seq(Workspaces)
  BY DEF IInv, TypeOK, LoadInv, Read
<1>2. \A n \in 0 .. Len(allowedWorkspaces) : SubSeq(allowedWorkspaces, 1, n) \in Seq(Workspaces)
  BY <1>1
<1>3. names' \in [Calls -> Seq(Workspaces)] /\ pc' \in [Calls -> Stages]
  BY <1>1, <1>2 DEF IInv, TypeOK, Read, Stages, Active
<1>4. TypeOK'
  BY <1>3 DEF IInv, TypeOK, Read, counts
<1>5. LoadInv'
  <2>1. \A d \in Calls : pc'[d] = IF d = c THEN pc'[c] ELSE pc[d]
    BY DEF IInv, TypeOK, Read
  <2>2. pc[c] = "read" /\ pc'[c] \in {"info", "failed"}
    BY DEF IInv, TypeOK, Read
  <2>3. QED
    BY <2>1, <2>2 DEF IInv, LoadInv, Read
<1>6. QED
  BY <1>4, <1>5 DEF IInv, ListedOnce, Read

\* The environment's steps.
LEMMA EnvironmentInv ==
  ASSUME IInv, Validate \/ Evict \/ Restart \/ \E w \in Workspaces : Change(w)
  PROVE  IInv'
<1>1. CASE Validate \/ Evict
  BY <1>1, ConstantsAssumption
     DEF IInv, TypeOK, LoadInv, ListedOnce, Validate, RequestFails, Evict, call, counts, ToSet
<1>2. CASE Restart
  BY <1>2, ConstantsAssumption
     DEF IInv, TypeOK, LoadInv, ListedOnce, Restart, counts, Stages, Active
<1>3. ASSUME NEW w \in Workspaces, Change(w) PROVE IInv'
  <2>1. TypeOK'
    <3>1. membership' \in Membership
      BY <1>3 DEF IInv, TypeOK, Change, Membership
    <3>2. changes' \in 0 .. MaxChanges
      BY <1>3, ConstantsAssumption DEF IInv, TypeOK, Change
    <3>3. QED
      BY <1>3, <3>1, <3>2 DEF IInv, TypeOK, Change, call
  <2>2. QED
    BY <1>3, <2>1 DEF IInv, LoadInv, ListedOnce, Change, call, ToSet
<1>4. QED
  BY <1>1, <1>2, <1>3

LEMMA NextInv ==
  ASSUME IInv, [Next]_vars
  PROVE  IInv'
<1>1. CASE UNCHANGED vars
  BY <1>1 DEF IInv, TypeOK, LoadInv, ListedOnce, vars, call, counts, ToSet
<1>2. CASE Next
  BY <1>2, QuietInv, LockInv, GetInv, AppendInv, ReadInv, EnvironmentInv
     DEF Next, CallStep
<1>3. QED
  BY <1>1, <1>2

-----------------------------------------------------------------------------
\* The mutex admits one load at a time and no second one (allowedWorkspaces'
\* double test), in every reachable state.
THEOREM Inductive == Spec => []IInv
BY InitInv, NextInv, PTL DEF Spec

\* The state of the list of workspaces is well typed (workspaceResourceType).
THEOREM TypeCorrect == Spec => []TypeOK
<1>1. IInv => TypeOK
  BY DEF IInv
<1>2. QED
  BY Inductive, <1>1, PTL

\* No workspace is loaded twice, however many calls of List find nil at once.
THEOREM LoadedOnce == Spec => []ListedOnce
<1>1. IInv => ListedOnce
  BY DEF IInv
<1>2. QED
  BY Inductive, <1>1, PTL

\* What an unlocked read of List has seen of the slice stays true.
THEOREM Grows == Spec => OnlyGrows
<1> DEFINE Grow ==
      allowedWorkspaces # Nil =>
       \/ allowedWorkspaces' = Nil /\ \A c \in Calls : pc'[c] = "idle"
       \/ \A i \in DOMAIN allowedWorkspaces :
            /\ i \in DOMAIN allowedWorkspaces'
            /\ allowedWorkspaces'[i] = allowedWorkspaces[i]
<1>1. ASSUME IInv, [Next]_vars PROVE [Grow]_vars
  <2>1. CASE UNCHANGED allowedWorkspaces
    BY <2>1
  <2>2. ASSUME NEW c \in Calls, AppendNext(c) PROVE Grow
    <3>1. allowedWorkspaces \in Seq(Workspaces)
      BY <1>1, <2>2 DEF IInv, TypeOK, LoadInv, AppendNext
    <3>2. ASSUME NEW w \in todo[c], allowedWorkspaces' = Append(allowedWorkspaces, w)
          PROVE  Grow
      BY <3>1, <3>2
    <3>3. QED
      BY <2>1, <2>2, <3>2 DEF AppendNext
  <2>3. ASSUME NEW c \in Calls, Lock(c) PROVE Grow
    BY <2>3 DEF Lock
  <2>4. CASE Restart
    BY <2>4 DEF Restart
  <2>5. CASE Validate \/ Evict \/ (\E w \in Workspaces : Change(w)) \/ UNCHANGED vars
    BY <2>1, <2>5 DEF Validate, Evict, Change, vars
  <2>6. ASSUME NEW c \in Calls,
               \/ Call(c) \/ Check(c) \/ Get(c) \/ GetFailed(c)
               \/ Read(c) \/ Info(c) \/ InfoFailed(c)
        PROVE  Grow
    BY <2>1, <2>6 DEF Call, Check, Get, GetFailed, Read, Info, InfoFailed
  <2>7. QED
    BY <1>1, <2>2, <2>3, <2>4, <2>5, <2>6 DEF Next, CallStep
<1>2. QED
  BY Inductive, <1>1, PTL DEF Spec, OnlyGrows

-----------------------------------------------------------------------------
(* As long as no load fails, the slice is whole whenever nobody loads.      *)

Complete(S) == \E m \in past : S = Loaded(m)

\* What is cached was once true, a load has the whole answer before it, and a
\* slice that nobody loads is a whole answer.
SettledInv ==
  failures = 0 =>
    /\ membership \in past
    /\ cached # Miss => cached \in past
    /\ \A c \in Calls : pc[c] = "append" => Complete(ToSet(allowedWorkspaces) \cup todo[c])
    /\ lock = Free /\ allowedWorkspaces # Nil => Complete(ToSet(allowedWorkspaces))

LEMMA InitSettled == Init => SettledInv
BY DEF Init, SettledInv

\* Whoever loads holds the mutex, so nobody else does.
LEMMA OneLoads ==
  ASSUME IInv, NEW c \in Calls, pc[c] \in {"get", "append"}
  PROVE  /\ lock = c /\ c # Free
         /\ \A d \in Calls \ {c} : pc[d] \notin {"get", "append"}
BY ConstantsAssumption DEF IInv, LoadInv

LEMMA NextSettled ==
  ASSUME IInv, IInv', SettledInv, [Next]_vars
  PROVE  SettledInv'
<1> SUFFICES ASSUME failures = 0, failures' = 0
             PROVE  SettledInv'
  <2>1. failures' = 0 => failures = 0
    <3>1. failures \in Nat /\ (failures' = failures \/ failures' = failures + 1)
      BY ConstantsAssumption DEF IInv, TypeOK, Next, CallStep, Call, Check, Lock, Get, GetFailed,
         RequestFails, AppendNext, Read, Info, InfoFailed, Validate, Evict, Change, Restart,
         vars, counts
    <3> QED BY <3>1
  <2> QED BY <2>1 DEF SettledInv
<1>1. CASE UNCHANGED vars
  BY <1>1 DEF SettledInv, Complete, vars, call, counts
<1>2. ASSUME NEW c \in Calls, Call(c) \/ Check(c) \/ Read(c) \/ Info(c) \/ InfoFailed(c)
      PROVE  SettledInv'
  <2>1. \A d \in Calls : pc'[d] = "append" => pc[d] = "append"
    BY <1>2 DEF IInv, TypeOK, Call, Check, Read, Info, InfoFailed
  <2>2. UNCHANGED <<membership, cached, allowedWorkspaces, lock, todo, past>>
    BY <1>2 DEF Call, Check, Read, Info, InfoFailed
  <2>3. QED
    BY <2>1, <2>2 DEF SettledInv, Complete
<1>3. ASSUME NEW c \in Calls, Lock(c) PROVE SettledInv'
  <2>1. \A d \in Calls : pc'[d] = "append" => pc[d] = "append"
    BY <1>3 DEF IInv, TypeOK, Lock
  <2>2. UNCHANGED <<membership, cached, todo, past>>
    BY <1>3 DEF Lock
  <2>3. \A d \in Calls : pc[d] # "append"
    BY <1>3, ConstantsAssumption DEF IInv, LoadInv, Lock
  <2>4. \/ allowedWorkspaces' = allowedWorkspaces /\ lock' = lock
        \/ lock' = c
    BY <1>3 DEF Lock
  <2>5. c # Free
    BY ConstantsAssumption
  <2>6. QED
    BY <2>1, <2>2, <2>3, <2>4, <2>5 DEF SettledInv, Complete
<1>4. ASSUME NEW c \in Calls, Get(c) PROVE SettledInv'
  <2> DEFINE answer == IF cached # Miss THEN cached ELSE membership
  <2>1. answer \in past
    BY DEF SettledInv
  <2>2. todo'[c] = Loaded(answer) /\ allowedWorkspaces' = <<>> /\ past' = past
    BY <1>4 DEF IInv, TypeOK, LoadInv, Get
  <2>3. ToSet(<<>>) = {}
    BY DEF ToSet
  <2>4. Complete(ToSet(allowedWorkspaces) \cup todo[c])'
    BY <2>1, <2>2, <2>3 DEF Complete
  <2>5. /\ lock' = c /\ c # Free
        /\ \A d \in Calls \ {c} : pc'[d] # "append"
    BY <1>4, OneLoads DEF IInv, TypeOK, Get
  <2>6. cached' # Miss => cached' \in past'
    BY <1>4, <2>1, <2>2 DEF SettledInv, Get
  <2>7. membership' \in past'
    BY <1>4 DEF SettledInv, Get
  <2>8. QED
    BY <2>4, <2>5, <2>6, <2>7 DEF SettledInv
<1>5. ASSUME NEW c \in Calls, GetFailed(c) PROVE SettledInv'
  BY <1>5, ConstantsAssumption DEF IInv, TypeOK, SettledInv, GetFailed, RequestFails
<1>6. ASSUME NEW c \in Calls, AppendNext(c) PROVE SettledInv'
  <2>1. /\ lock = c /\ c # Free /\ allowedWorkspaces \in Seq(Workspaces)
        /\ \A d \in Calls \ {c} : pc[d] # "append"
    BY <1>6, OneLoads DEF IInv, TypeOK, LoadInv, AppendNext
  <2>2. Complete(ToSet(allowedWorkspaces) \cup todo[c])
    BY <1>6 DEF SettledInv, AppendNext
  <2>3. UNCHANGED <<membership, cached, past>>
    BY <1>6 DEF AppendNext
  <2>4. ASSUME NEW w \in todo[c],
               allowedWorkspaces' = Append(allowedWorkspaces, w),
               todo' = [todo EXCEPT ![c] = @ \ {w}],
               UNCHANGED <<lock, pc>>
        PROVE  SettledInv'
    <3>1. ToSet(allowedWorkspaces') = ToSet(allowedWorkspaces) \cup {w}
      <4>1. w \in Workspaces
        BY DEF IInv, TypeOK
      <4>2. /\ DOMAIN allowedWorkspaces' = DOMAIN allowedWorkspaces \cup {Len(allowedWorkspaces) + 1}
            /\ allowedWorkspaces'[Len(allowedWorkspaces) + 1] = w
            /\ \A i \in DOMAIN allowedWorkspaces : allowedWorkspaces'[i] = allowedWorkspaces[i]
        BY <2>1, <2>4, <4>1
      <4>3. QED
        BY <4>2 DEF ToSet
    <3>2. todo'[c] = todo[c] \ {w}
      BY <2>4 DEF IInv, TypeOK
    <3>3. ToSet(allowedWorkspaces') \cup todo'[c] = ToSet(allowedWorkspaces) \cup todo[c]
      BY <3>1, <3>2
    <3>4. Complete(ToSet(allowedWorkspaces) \cup todo[c])'
      BY <2>2, <2>3, <3>3 DEF Complete
    <3>5. QED
      BY <2>1, <2>3, <2>4, <3>4 DEF SettledInv
  <2>5. CASE todo[c] = {} /\ lock' = Free /\ pc' = [pc EXCEPT ![c] = "read"]
             /\ UNCHANGED <<allowedWorkspaces, todo>>
    <3>1. Complete(ToSet(allowedWorkspaces))'
      BY <2>2, <2>3, <2>5 DEF Complete
    <3>2. \A d \in Calls : pc'[d] # "append"
      BY <2>1, <2>5 DEF IInv, TypeOK
    <3>3. QED
      BY <2>3, <3>1, <3>2 DEF SettledInv
  <2>6. QED
    BY <1>6, <2>4, <2>5 DEF AppendNext
<1>7. CASE Validate \/ Evict
  <2>1. UNCHANGED <<membership, allowedWorkspaces, lock, pc, todo, past>>
    BY <1>7 DEF Validate, Evict, call
  <2>2. cached' \in {Miss, membership}
    BY <1>7, ConstantsAssumption DEF IInv, TypeOK, Validate, RequestFails, Evict
  <2> QED BY <2>1, <2>2 DEF SettledInv, Complete
<1>8. ASSUME NEW w \in Workspaces, Change(w) PROVE SettledInv'
  <2>1. past \subseteq past' /\ membership' \in past'
    BY <1>8 DEF Change
  <2>2. QED
    BY <1>8, <2>1 DEF SettledInv, Complete, Change, call
<1>9. CASE Restart
  BY <1>9 DEF SettledInv, Restart
<1>10. QED
  BY <1>1, <1>2, <1>3, <1>4, <1>5, <1>6, <1>7, <1>8, <1>9 DEF Next, CallStep

\* The slice a call finds while nobody loads it is a whole answer.
LEMMA ReadWhole ==
  ASSUME IInv, SettledInv, failures = 0, NEW c \in Calls, Read(c), pc'[c] = "info", ~Loading
  PROVE  /\ Complete(ToSet(names'[c]))
         /\ past' = past
<1>1. lock = Free /\ allowedWorkspaces # Nil
  BY DEF IInv, TypeOK, LoadInv, Read, Loading
<1>2. names'[c] = allowedWorkspaces /\ past' = past
  BY DEF IInv, TypeOK, Read
<1>3. QED
  BY <1>1, <1>2 DEF SettledInv

\* Once a load is over, and while none has failed, what the unlocked read of List
\* takes away is a whole answer of Asana's, whatever overlapped before.
THEOREM ReadsWhole == Spec => UndisturbedListing
<1> DEFINE Taken ==
      \A c \in Calls :
        pc[c] = "read" /\ pc'[c] = "info" /\ ~Loading /\ failures = 0 => Whole(names'[c])
<1>1. ASSUME IInv, SettledInv, [Next]_vars
      PROVE  [Taken]_vars
  <2> SUFFICES ASSUME Next, NEW c \in Calls, pc[c] = "read", pc'[c] = "info", ~Loading, failures = 0
               PROVE  Whole(names'[c])
    BY <1>1
  <2>1. Read(c)
    <3>1. CASE \E d \in Calls : Call(d) \/ CallStep(d)
      <4>1. PICK d \in Calls : Call(d) \/ CallStep(d)
        BY <3>1
      <4>2. d = c
        BY <1>1, <4>1 DEF IInv, TypeOK, CallStep, Call, Check, Lock, Get, GetFailed, AppendNext,
           Read, Info, InfoFailed
      <4>3. QED
        BY <4>1, <4>2 DEF CallStep, Call, Check, Lock, Get, GetFailed, AppendNext, Info, InfoFailed,
           Active
    <3>2. CASE (\E w \in Workspaces : Change(w)) \/ Validate \/ Evict
      BY <3>2 DEF Change, Validate, Evict, call
    <3>3. CASE Restart
      BY <3>3 DEF Restart
    <3>4. QED
      BY <3>1, <3>2, <3>3 DEF Next
  <2>2. Complete(ToSet(names'[c])) /\ past' = past
    BY <1>1, <2>1, ReadWhole
  <2>3. QED
    BY <2>2 DEF Complete, Whole, Loaded
<1>2. QED
  BY Inductive, InitSettled, NextSettled, <1>1, PTL DEF Spec, UndisturbedListing

-----------------------------------------------------------------------------
(* Without overlapping calls and without a failed load, lists are complete. *)

Calm == MaxFailures = 0 /\ \A c, d \in Calls : c = d

CalmInv == \A c \in Calls : pc[c] \in {"info", "listed"} => Complete(ToSet(names[c]))

LEMMA NextCalm ==
  ASSUME Calm, IInv, SettledInv, CalmInv, [Next]_vars
  PROVE  CalmInv'
<1>1. CASE UNCHANGED vars
  BY <1>1 DEF CalmInv, Complete, vars, call
<1>2. ASSUME NEW c \in Calls, Call(c) \/ CallStep(c), ~Read(c)
      PROVE  CalmInv'
  <2>1. \A d \in Calls : pc'[d] \in {"info", "listed"} => pc[d] \in {"info", "listed"}
    BY <1>2 DEF IInv, TypeOK, CallStep, Call, Check, Lock, Get, GetFailed, AppendNext, Info,
       InfoFailed
  <2>2. UNCHANGED <<names, past>>
    BY <1>2 DEF CallStep, Call, Check, Lock, Get, GetFailed, AppendNext, Info, InfoFailed
  <2>3. QED
    BY <2>1, <2>2 DEF CalmInv, Complete
<1>3. ASSUME NEW c \in Calls, Read(c) PROVE CalmInv'
  <2>1. \A d \in Calls : d = c
    BY DEF Calm
  <2>2. ~Loading /\ failures = 0
    BY <1>3, <2>1 DEF Calm, IInv, TypeOK, Read, Loading
  <2>3. pc'[c] = "info"
    BY <1>3, <2>2 DEF IInv, TypeOK, Read
  <2>4. Complete(ToSet(names'[c])) /\ past' = past
    BY <1>3, <2>2, <2>3, ReadWhole
  <2>5. QED
    BY <2>1, <2>4 DEF CalmInv, Complete
<1>4. CASE Validate \/ Evict \/ Restart
  BY <1>4 DEF CalmInv, Complete, Validate, Evict, Restart, call
<1>5. ASSUME NEW w \in Workspaces, Change(w) PROVE CalmInv'
  <2>1. past \subseteq past' /\ UNCHANGED <<pc, names>>
    BY <1>5 DEF Change, call
  <2>2. QED
    BY <2>1 DEF CalmInv, Complete
<1>6. QED
  BY <1>1, <1>2, <1>3, <1>4, <1>5 DEF Next, CallStep

\* When calls do not overlap and no load fails, every list List reports is a
\* whole answer of Asana's, through changes of membership, cached answers,
\* failed lookups and restarts.
THEOREM ListsComplete == ASSUME Calm PROVE Spec => []CompleteListing
<1>1. Init => CalmInv
  BY DEF Init, CalmInv
<1>2. ASSUME CalmInv PROVE CompleteListing
  BY <1>2 DEF CalmInv, Complete, CompleteListing, Whole, Loaded
<1>3. QED
  BY Inductive, InitSettled, NextSettled, NextCalm, <1>1, <1>2, PTL DEF Spec

-----------------------------------------------------------------------------
(* Every call of List comes to its end where those that can go on do: who    *)
(* waits for the mutex waits for a call that needs nobody, and no call does  *)
(* anything twice.                                                           *)

\* How far a call is from its end.
RankOf ==
  [check |-> 5, lock |-> 4, get |-> 3, append |-> 2, read |-> 1, info |-> 0,
   idle |-> 0, listed |-> 0, failed |-> 0]

\* The mutex is free, or held by a call that needs no mutex.
Waits == lock # Free => lock \in Calls /\ pc[lock] \in {"get", "append"}

CallsGoOn ==
  \A c \in Calls :
    /\ CallStep(c) =>
         \/ pc'[c] \notin Active
         \/ RankOf[pc'[c]] < RankOf[pc[c]]
         \/ pc'[c] = pc[c] /\ \E w \in todo[c] : todo'[c] = todo[c] \ {w}
    /\ pc[c] \in Active /\ ~CallStep(c) =>
         \/ pc'[c] \notin Active
         \/ pc'[c] = pc[c] /\ todo'[c] = todo[c]

LEMMA OthersLeave ==
  ASSUME IInv, NEW c \in Calls, NEW d \in Calls \ {c}, CallStep(d)
  PROVE  pc'[c] = pc[c] /\ todo'[c] = todo[c]
<1>1. pc \in [Calls -> Stages] /\ todo \in [Calls -> SUBSET Workspaces]
  BY DEF IInv, TypeOK
<1>2. CASE Check(d)
  BY <1>1, <1>2 DEF Check
<1>3. CASE Lock(d)
  BY <1>1, <1>3 DEF Lock
<1>4. CASE Get(d) \/ GetFailed(d)
  BY <1>1, <1>4 DEF Get, GetFailed
<1>5. CASE AppendNext(d)
  BY <1>1, <1>5 DEF AppendNext
<1>6. CASE Read(d) \/ Info(d) \/ InfoFailed(d)
  BY <1>1, <1>6 DEF Read, Info, InfoFailed
<1> QED BY <1>2, <1>3, <1>4, <1>5, <1>6 DEF CallStep

LEMMA StepAhead ==
  ASSUME IInv, NEW c \in Calls, CallStep(c)
  PROVE  \/ pc'[c] \notin Active
         \/ RankOf[pc'[c]] < RankOf[pc[c]]
         \/ pc'[c] = pc[c] /\ \E w \in todo[c] : todo'[c] = todo[c] \ {w}
<1>1. pc \in [Calls -> Stages] /\ todo \in [Calls -> SUBSET Workspaces]
  BY DEF IInv, TypeOK
<1>2. CASE Check(c)
  BY <1>1, <1>2 DEF Check, RankOf
<1>3. CASE Lock(c)
  BY <1>1, <1>3 DEF Lock, RankOf
<1>4. CASE Get(c)
  BY <1>1, <1>4 DEF Get, RankOf
<1>5. CASE AppendNext(c)
  BY <1>1, <1>5 DEF AppendNext, RankOf
<1>6. CASE Read(c)
  BY <1>1, <1>6 DEF Read, RankOf, Active
<1>7. CASE GetFailed(c) \/ Info(c) \/ InfoFailed(c)
  BY <1>1, <1>7 DEF GetFailed, Info, InfoFailed, Active
<1> QED BY <1>2, <1>3, <1>4, <1>5, <1>6, <1>7 DEF CallStep

\* The mutex of workspaceResourceType is only ever held by a call that is about to
\* ask Asana or to append, so nobody waits for somebody who waits; each step of a
\* call brings it closer to its end, and nobody else's sets it back.
THEOREM NobodyStuck == Spec => []Waits /\ [][CallsGoOn]_vars
<1>1. IInv => Waits
  BY DEF IInv, TypeOK, LoadInv, Waits
<1>2. ASSUME IInv, [Next]_vars, NEW c \in Calls, pc[c] \in Active, ~CallStep(c)
      PROVE  pc'[c] \notin Active \/ (pc'[c] = pc[c] /\ todo'[c] = todo[c])
  <2>1. ASSUME NEW d \in Calls, Call(d)
        PROVE  pc'[c] = pc[c] /\ todo'[c] = todo[c]
    BY <1>2, <2>1 DEF Call, IInv, TypeOK
  <2>2. CASE Validate \/ Evict \/ UNCHANGED vars
    BY <2>2 DEF Validate, Evict, vars, call
  <2>3. ASSUME NEW w \in Workspaces, Change(w)
        PROVE  pc'[c] = pc[c] /\ todo'[c] = todo[c]
    BY <2>3 DEF Change, call
  <2>4. CASE Restart
    BY <2>4 DEF Restart, Active
  <2> QED BY <1>2, <2>1, <2>2, <2>3, <2>4, OthersLeave DEF Next
<1>3. IInv /\ [Next]_vars => [CallsGoOn]_vars
  BY <1>2, StepAhead DEF CallsGoOn
<1> QED BY <1>1, <1>3, Inductive, PTL DEF Spec

=============================================================================
