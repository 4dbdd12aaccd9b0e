-------------------------- MODULE ScimListingProofs --------------------------
(***************************************************************************)
(* Proofs about ScimListing, for any users, any page size and any bounds.  *)
(***************************************************************************)
EXTENDS ScimListing, FiniteSetTheorems, SequenceTheorems, TLAPS

-----------------------------------------------------------------------------
(* The invariant for types: nobody is listed twice, so nothing is longer   *)
(* than the users are many, and no page token lies beyond them.            *)

SizeInv ==
  /\ IsInjective(users)
  /\ \A i \in Positions : cache[i] \notin {Unreadable, None} => cache[i].total <= Cardinality(Users)

IInv == TypeOK /\ SizeInv

\* An organisation has no more users than there are.
LEMMA UsersFit ==
  ASSUME NEW s \in Seq(Users), IsInjective(s)
  PROVE  Len(s) <= Cardinality(Users)
<1>1. s \in Injection(1 .. Len(s), Users)
  BY DEF Injection, IsInjective
<1>2. Cardinality(1 .. Len(s)) = Len(s)
  <2>1. Len(s) \in Nat /\ Len(s) \in Int /\ 1 \in Int
    OBVIOUS
  <2>2. Cardinality(1 .. Len(s)) = IF 1 > Len(s) THEN 0 ELSE Len(s) - 1 + 1
    BY <2>1, FS_Interval, Zenon
  <2>3. QED
    BY <2>1, <2>2
<1>3. QED
  BY <1>1, <1>2, FS_Injection, ConstantsAssumption

\* Who is behind the one who leaves moves one position down.
LEMMA Removed ==
  ASSUME NEW s \in Seq(Users), NEW i \in 1 .. Len(s)
  PROVE  /\ RemoveAt(s, i) \in Seq(Users)
         /\ Len(RemoveAt(s, i)) = Len(s) - 1
         /\ \A k \in 1 .. Len(s) - 1 : RemoveAt(s, i)[k] = IF k < i THEN s[k] ELSE s[k + 1]
<1> DEFINE a == SubSeq(s, 1, i - 1)
           b == SubSeq(s, i + 1, Len(s))
<1>1. a \in Seq(Users) /\ Len(a) = i - 1 /\ \A k \in 1 .. i - 1 : a[k] = s[k]
  OBVIOUS
<1>2. b \in Seq(Users) /\ Len(b) = Len(s) - i /\ \A k \in 1 .. Len(s) - i : b[k] = s[i + k]
  OBVIOUS
<1>3. RemoveAt(s, i) = a \o b
  BY DEF RemoveAt
<1> HIDE DEF a, b
<1>4. /\ a \o b \in Seq(Users)
      /\ Len(a \o b) = Len(s) - 1
      /\ \A k \in 1 .. Len(s) - 1 : (a \o b)[k] = IF k <= i - 1 THEN a[k] ELSE b[k - (i - 1)]
  <2>1. /\ a \o b \in Seq(Users)
        /\ Len(a \o b) = Len(a) + Len(b)
        /\ \A k \in 1 .. Len(a) + Len(b) :
             (a \o b)[k] = IF k <= Len(a) THEN a[k] ELSE b[k - Len(a)]
    BY <1>1, <1>2, ConcatProperties, Zenon
  <2>2. Len(a) + Len(b) = Len(s) - 1
    BY <1>1, <1>2
  <2>3. QED
    BY <1>1, <2>1, <2>2
<1>5. ASSUME NEW k \in 1 .. Len(s) - 1
      PROVE  (a \o b)[k] = IF k < i THEN s[k] ELSE s[k + 1]
  <2>1. CASE k < i
    BY <2>1, <1>1, <1>4
  <2>2. CASE ~(k < i)
    <3>1. k - (i - 1) \in 1 .. Len(s) - i /\ i + (k - (i - 1)) = k + 1
      BY <2>2
    <3>2. b[k - (i - 1)] = s[k + 1]
      BY <3>1, <1>2
    <3>3. QED
      BY <2>2, <3>2, <1>4
  <2>3. QED
    BY <2>1, <2>2
<1>6. QED
  BY <1>3, <1>4, <1>5

\* A position is one of a user or the one behind them all.
LEMMA PositionsType == Cardinality(Users) \in Nat /\ 1 \in Positions /\ Positions \subseteq Nat \ {0}
BY FS_CardinalityType, ConstantsAssumption DEF Positions

\* A page is no larger than what is left of the users.
LEMMA AnswersType ==
  ASSUME users \in Seq(Users), NEW from \in Positions, NEW page \in Answers(from)
  PROVE  /\ page \in Page
         /\ page.total = Len(users)
         /\ \A k \in 1 .. Len(page.users) :
              from + k - 1 <= Len(users) /\ page.users[k] = users[from + k - 1]
         /\ page.users = <<>> => page.total < from
<1>1. from \in Nat \ {0}
  BY PositionsType
<1>2. CASE from > Len(users)
  <2>1. page = [users |-> <<>>, total |-> Len(users)]
    BY <1>2 DEF Answers
  <2>2. <<>> \in Seq(Users) /\ Len(users) \in Nat /\ Len(<<>>) = 0
    OBVIOUS
  <2>3. QED
    BY <1>1, <1>2, <2>1, <2>2 DEF Page
<1>3. CASE ~(from > Len(users))
  <2>1. PICK to \in from .. Len(users) :
          page = [users |-> SubSeq(users, from, to), total |-> Len(users)]
    BY <1>1, <1>3 DEF Answers
  <2>2. /\ SubSeq(users, from, to) \in Seq(Users)
        /\ Len(SubSeq(users, from, to)) = to - from + 1
        /\ \A k \in 1 .. to - from + 1 : SubSeq(users, from, to)[k] = users[from + k - 1]
    <3>1. from \in 1 .. Len(users) /\ to \in 1 .. Len(users) /\ from <= to
      BY <1>1, <2>1
    <3>2. Len(SubSeq(users, from, to)) = to - from + 1
      BY <3>1
    <3>3. \A k \in 1 .. to - from + 1 : SubSeq(users, from, to)[k] = users[from + k - 1]
      BY <3>1
    <3>4. SubSeq(users, from, to) \in Seq(Users)
      BY <3>1
    <3>5. QED
      BY <3>2, <3>3, <3>4
  <2>3. QED
    BY <1>1, <2>1, <2>2 DEF Page
<1>4. QED
  BY <1>2, <1>3

\* Initially there are some users, and nothing of them is cached.
LEMMA InitInv == Init => IInv
<1> SUFFICES ASSUME Init PROVE IInv
  OBVIOUS
<1>1. users \in Seq(Users)
  BY FS_CardinalityType, ConstantsAssumption DEF Init
<1>2. TypeOK
  BY <1>1, PositionsType, ConstantsAssumption DEF Init, TypeOK, Empty, Phases
<1>3. SizeInv
  BY DEF Init, SizeInv, Empty
<1>4. QED
  BY <1>2, <1>3 DEF IInv

\* A page of the cache or of SCIM, and the token that follows from it.
LEMMA PageNext ==
  ASSUME IInv, cache[start] # Unreadable,
         NEW page \in IF cache[start] # None THEN {cache[start]} ELSE Answers(start)
  PROVE  /\ page \in Page
         /\ page \notin {Unreadable, None}
         /\ page.total <= Cardinality(Users)
         /\ NextStart(start, page) \in Positions \cup {0}
<1>1. page \in Page /\ page.total <= Cardinality(Users)
  BY UsersFit, AnswersType DEF IInv, TypeOK, SizeInv
<1>2. page \notin {Unreadable, None}
  BY <1>1, ConstantsAssumption
<1>3. NextStart(start, page) \in Positions \cup {0}
  <2>1. /\ start \in Nat \ {0}
        /\ Cardinality(Users) \in Nat
        /\ page.total \in Nat
        /\ Len(page.users) \in Nat
    BY <1>1, PositionsType DEF IInv, TypeOK, Page
  <2>2. QED
    BY <1>1, <2>1 DEF NextStart, Positions
<1>4. QED
  BY <1>1, <1>2, <1>3

\* A page is kept in the cache and listed.
LEMMA ListPageInv == IInv /\ ListPage => IInv'
<1> SUFFICES ASSUME IInv, ListPage PROVE IInv'
  OBVIOUS
<1>1. PICK page \in IF cache[start] # None THEN {cache[start]} ELSE Answers(start) :
        /\ cache' = IF CacheOn THEN [cache EXCEPT ![start] = page] ELSE cache
        /\ listed' = listed \cup ToSet(page.users)
        /\ LET next == NextStart(start, page) IN
           \/ /\ next # 0
              /\ start' = next
              /\ UNCHANGED phase
           \/ /\ next = 0
              /\ phase' = "listed"
              /\ UNCHANGED start
  BY DEF ListPage
<1>2. UNCHANGED <<users, saved, file, counts, history>>
  BY DEF ListPage
<1>3. /\ page \in Page
      /\ page \notin {Unreadable, None}
      /\ page.total <= Cardinality(Users)
      /\ NextStart(start, page) \in Positions \cup {0}
  BY PageNext DEF ListPage
<1>4. cache' \in [Positions -> Page \cup {Unreadable, None}]
  BY <1>1, <1>3 DEF IInv, TypeOK
<1>5. listed' \in SUBSET Users
  <2>1. ToSet(page.users) \subseteq Users
    BY <1>3 DEF ToSet, Page
  <2>2. QED
    BY <1>1, <2>1 DEF IInv, TypeOK
<1>6. start' \in Positions /\ phase' \in Phases
  BY <1>1, <1>3 DEF IInv, TypeOK, Phases
<1>7. SizeInv'
  BY <1>1, <1>2, <1>3 DEF IInv, TypeOK, SizeInv
<1>8. QED
  BY <1>2, <1>4, <1>5, <1>6, <1>7 DEF IInv, TypeOK, counts, history

\* The steps of the sync that neither ask nor store.
LEMMA SyncInv ==
  ASSUME IInv,
         StartSync \/ Checkpoint \/ EndSync \/ FailSync \/ FailPage \/ ResumeSync \/ Restart
  PROVE  IInv'
<1>1. TypeOK'
  <2>1. CASE StartSync
    BY <2>1, PositionsType, ConstantsAssumption
       DEF IInv, TypeOK, StartSync, Phases, ToSet
  <2>2. CASE Checkpoint
    BY <2>2 DEF IInv, TypeOK, Checkpoint, counts, history
  <2>3. CASE EndSync
    BY <2>3 DEF IInv, TypeOK, EndSync, Phases, Empty, counts, history
  <2>4. CASE FailSync \/ FailPage
    <3>1. fails' \in 0 .. MaxFails
      BY <2>4, ConstantsAssumption DEF IInv, TypeOK, FailSync, FailPage
    <3>2. ASSUME NEW cached \in [Positions -> Page \cup {Unreadable, None}], Abandon(cached)
          PROVE  TypeOK'
      BY <3>1, <3>2 DEF IInv, TypeOK, Abandon, Phases, Empty, Unfinished, history
    <3>3. QED
      BY <2>4, <3>2 DEF FailSync, FailPage, IInv, TypeOK
  <2>5. CASE ResumeSync
    BY <2>5 DEF IInv, TypeOK, ResumeSync, Phases, Unfinished, counts, history
  <2>6. CASE Restart
    BY <2>6 DEF IInv, TypeOK, Restart, Phases, Empty, counts, history
  <2>7. QED
    BY <2>1, <2>2, <2>3, <2>4, <2>5, <2>6
<1>2. SizeInv'
  <2>1. UNCHANGED users
    BY DEF StartSync, Checkpoint, EndSync, FailSync, FailPage, Abandon, ResumeSync, Restart
  <2>2. \A i \in Positions : cache'[i] \in {cache[i], Unreadable, None}
    BY DEF IInv, TypeOK, StartSync, Checkpoint, EndSync, FailSync, FailPage, Abandon, ResumeSync,
       Restart, Empty
  <2>3. QED
    BY <2>1, <2>2 DEF IInv, SizeInv
<1>3. QED
  BY <1>1, <1>2 DEF IInv

\* Users come and go, and answers leave the cache.
LEMMA EnvironmentInv ==
  ASSUME IInv,
         \/ \E u \in Users : Join(u)
         \/ \E i \in DOMAIN users : Leave(i)
         \/ \E i \in Positions : Evict(i)
  PROVE  IInv'
<1>1. ASSUME NEW u \in Users, Join(u) PROVE IInv'
  <2>1. users' = Append(users, u) /\ u \notin ToSet(users)
    BY <1>1 DEF Join
  <2>2. IsInjective(users')
    <3>1. /\ users \in Seq(Users)
          /\ \A k \in 1 .. Len(users) : users[k] # u
      BY <2>1 DEF IInv, TypeOK, ToSet
    <3>2. /\ DOMAIN users' = 1 .. Len(users) + 1
          /\ \A k \in 1 .. Len(users) : users'[k] = users[k]
          /\ users'[Len(users) + 1] = u
      BY <2>1, <3>1
    <3>3. ASSUME NEW k \in DOMAIN users', NEW l \in DOMAIN users', users'[k] = users'[l]
          PROVE  k = l
      BY <3>1, <3>2, <3>3 DEF IInv, SizeInv, IsInjective
    <3>4. QED
      BY <3>3 DEF IsInjective
  <2>3. TypeOK'
    BY <1>1, <2>1, ConstantsAssumption DEF IInv, TypeOK, Join, sync, history
  <2>4. QED
    BY <1>1, <2>2, <2>3 DEF IInv, SizeInv, Join
<1>2. ASSUME NEW i \in DOMAIN users, Leave(i) PROVE IInv'
  <2>1. /\ users' = RemoveAt(users, i)
        /\ i \in 1 .. Len(users)
        /\ users \in Seq(Users)
    BY <1>2 DEF Leave, IInv, TypeOK
  <2>2. /\ users' \in Seq(Users)
        /\ Len(users') = Len(users) - 1
        /\ \A k \in 1 .. Len(users) - 1 : users'[k] = IF k < i THEN users[k] ELSE users[k + 1]
    BY <2>1, Removed
  <2>3. IsInjective(users')
    <3>1. /\ DOMAIN users = 1 .. Len(users)
          /\ DOMAIN users' = 1 .. Len(users) - 1
          /\ Len(users) \in Nat
          /\ i \in Nat
      BY <2>1, <2>2
    <3>2. \A k, l \in 1 .. Len(users) : users[k] = users[l] => k = l
      BY <3>1 DEF IInv, SizeInv, IsInjective
    <3>3. ASSUME NEW k \in 1 .. Len(users) - 1, NEW l \in 1 .. Len(users) - 1,
                 users'[k] = users'[l]
          PROVE  k = l
      BY <2>2, <3>1, <3>2, <3>3
    <3>4. QED
      BY <3>1, <3>3 DEF IsInjective
  <2>4. TypeOK'
    BY <1>2, <2>2, ConstantsAssumption DEF IInv, TypeOK, Leave, sync
  <2>5. QED
    BY <1>2, <2>3, <2>4 DEF IInv, SizeInv, Leave
<1>3. ASSUME NEW i \in Positions, Evict(i) PROVE IInv'
  BY <1>3 DEF IInv, TypeOK, SizeInv, Evict, sync, counts, history
<1>4. QED
  BY <1>1, <1>2, <1>3

LEMMA NextInv == IInv /\ [Next]_vars => IInv'
<1> SUFFICES ASSUME IInv, [Next]_vars PROVE IInv'
  OBVIOUS
<1>1. CASE UNCHANGED vars
  BY <1>1 DEF IInv, TypeOK, SizeInv, vars, sync, counts, history
<1>2. CASE Next
  BY <1>2, ListPageInv, SyncInv, EnvironmentInv DEF Next
<1>3. QED
  BY <1>1, <1>2

\* Nobody is listed twice and no answer is longer than the organisation.
THEOREM Inductive == Spec => []IInv
BY InitInv, NextInv, PTL DEF Spec

\* Every reachable state is a state of the types: page tokens stay positions
\* of users, or the one behind them, however users come and go between pages.
THEOREM TypeCorrect == Spec => []TypeOK
<1>1. IInv => TypeOK
  BY DEF IInv
<1>2. QED
  BY <1>1, Inductive, PTL

-----------------------------------------------------------------------------
(* Where no sync begins on the cached pages of a failed one, every page is  *)
(* fresh: what is cached lies before the page token. Then whoever has been  *)
(* there all along and is neither listed nor at the token or behind it was  *)
(* moved across it by somebody who left, and everybody who leaves moves one. *)

\* The cache is off, every sync has its own process, or none fails.
Cleared == ~CacheOn \/ OneShot \/ MaxFails = 0

\* Those of these users that a sync at a position, with some users listed, will
\* not come to in an organisation.
MissedOf(these, organisation, position, some) ==
  {u \in these \ some :
     \A k \in DOMAIN organisation : organisation[k] = u => k < position}

FewOf(these, organisation, n, position, some) ==
  Cardinality(MissedOf(these, organisation, position, some)) <= n

Missed(position, some) == MissedOf(steady, users, position, some)
Few(position, some)    == FewOf(steady, users, left, position, some)

CleanInv == ~CacheOn \/ phase \in {"idle", "ended", "failed"} => cache = Empty
AheadInv == phase = "listing" => \A i \in Positions : i >= start => cache[i] = None
FileInv  == file # None => Few(file.saved, file.listed)

SkipInv ==
  /\ CleanInv /\ AheadInv
  /\ Few(start, listed) /\ Few(saved, listed) /\ FileInv
  /\ SteadyListed
  /\ left <= leaves

\* Fewer than few are few.
LEMMA Fewer ==
  ASSUME NEW few, IsFiniteSet(few), NEW less, less \subseteq few,
         NEW n \in Nat, NEW m \in Nat, Cardinality(few) <= n, n <= m
  PROVE  Cardinality(less) <= m
BY FS_Subset, FS_CardinalityType

\* One more, with one more allowed.
LEMMA OneMore ==
  ASSUME NEW few, IsFiniteSet(few), NEW x, NEW more, more \subseteq few \cup {x},
         NEW n \in Nat, Cardinality(few) <= n
  PROVE  Cardinality(more) <= n + 1
<1>1. Cardinality(few) \in Nat
  BY FS_CardinalityType
<1>2. /\ IsFiniteSet(few \cup {x})
      /\ Cardinality(few \cup {x}) \in {Cardinality(few), Cardinality(few) + 1}
  BY FS_AddElement
<1>3. /\ Cardinality(few \cup {x}) \in Nat
      /\ Cardinality(few \cup {x}) <= n + 1
  BY <1>1, <1>2
<1>4. Cardinality(more) \in Nat /\ Cardinality(more) <= Cardinality(few \cup {x})
  BY <1>2, FS_Subset, FS_CardinalityType
<1> QED BY <1>3, <1>4

LEMMA SteadyFinite ==
  ASSUME TypeOK
  PROVE  /\ left \in Nat
         /\ \A some : IsFiniteSet(steady \ some)
         /\ \A position, some : IsFiniteSet(Missed(position, some))
<1>1. \A set : set \subseteq Users => IsFiniteSet(set)
  BY FS_Subset, ConstantsAssumption
<1> QED BY <1>1 DEF TypeOK, Missed, MissedOf

LEMMA InitSkip == Init => SkipInv
<1> SUFFICES ASSUME Init
             PROVE  SkipInv
  OBVIOUS
<1>1. \A position, some : MissedOf(steady, users, position, some) = {}
  BY DEF Init, MissedOf
<1>2. \A position, some : FewOf(steady, users, left, position, some)
  <2>1. Cardinality({}) = 0 /\ left = 0
    BY FS_EmptySet DEF Init
  <2> QED BY <1>1, <2>1 DEF FewOf
<1>3. \A i \in Positions : cache[i] = None
  BY DEF Init, Empty
<1> QED BY <1>2, <1>3 DEF Init, SkipInv, CleanInv, AheadInv, FileInv, SteadyListed, Few

\* A page: the cache has none ahead of the token, so SCIM answers, from the token
\* up to the next.
LEMMA FreshPage ==
  ASSUME TypeOK, SkipInv, phase = "listing", cache[start] # Unreadable,
         NEW page \in IF cache[start] # None THEN {cache[start]} ELSE Answers(start)
  PROVE  /\ page \in Page
         /\ \A k \in DOMAIN users :
              k >= start /\ (NextStart(start, page) = 0 \/ k < NextStart(start, page))
                => users[k] \in ToSet(page.users)
         /\ NextStart(start, page) = 0 \/ NextStart(start, page) > start
<1>1. start \in Positions /\ start \in Nat \ {0} /\ users \in Seq(Users)
  BY PositionsType DEF TypeOK
<1>2. page \in Answers(start)
  BY <1>1 DEF SkipInv, AheadInv
<1>3. /\ page \in Page /\ page.total = Len(users)
      /\ \A k \in 1 .. Len(page.users) : page.users[k] = users[start + k - 1]
      /\ page.users = <<>> => page.total < start
  BY <1>1, <1>2, AnswersType
<1>4. page.users \in Seq(Users) /\ Len(page.users) \in Nat /\ Len(users) \in Nat
  BY <1>1, <1>3 DEF Page
<1>5. ASSUME NEW k \in DOMAIN users, k >= start,
             NextStart(start, page) = 0 \/ k < NextStart(start, page)
      PROVE  users[k] \in ToSet(page.users)
  <2>1. k \in 1 .. Len(users)
    BY <1>1
  <2>2. k < start + Len(page.users)
    <3>1. CASE NextStart(start, page) = 0
      BY <1>1, <1>3, <1>4, <1>5, <2>1, <3>1 DEF NextStart
    <3>2. CASE NextStart(start, page) # 0
      BY <1>5, <3>2 DEF NextStart
    <3> QED BY <3>1, <3>2
  <2>3. k - start + 1 \in 1 .. Len(page.users) /\ start + (k - start + 1) - 1 = k
    BY <1>1, <1>4, <1>5, <2>1, <2>2
  <2> QED BY <1>3, <1>4, <2>3 DEF ToSet
<1>6. NextStart(start, page) = 0 \/ NextStart(start, page) > start
  BY <1>1, <1>4 DEF NextStart
<1> QED BY <1>3, <1>5, <1>6

\* The page's users are listed, and nobody else is left behind.
LEMMA ListPageSkip ==
  ASSUME IInv, SkipInv, ListPage
  PROVE  SkipInv'
<1>1. PICK page \in IF cache[start] # None THEN {cache[start]} ELSE Answers(start) :
        /\ cache' = IF CacheOn THEN [cache EXCEPT ![start] = page] ELSE cache
        /\ listed' = listed \cup ToSet(page.users)
        /\ LET next == NextStart(start, page) IN
           \/ /\ next # 0
              /\ start' = next
              /\ UNCHANGED phase
           \/ /\ next = 0
              /\ phase' = "listed"
              /\ UNCHANGED start
  BY DEF ListPage
<1>2. /\ UNCHANGED <<users, saved, file, steady, left, leaves>>
      /\ phase = "listing"
  BY DEF ListPage, history, counts
<1> DEFINE next == NextStart(start, page)
<1>3. /\ \A k \in DOMAIN users :
            k >= start /\ (next = 0 \/ k < next) => users[k] \in ToSet(page.users)
      /\ next = 0 \/ next > start
  BY <1>1, <1>2, FreshPage DEF IInv, ListPage
<1>4. /\ \/ next # 0 /\ start' = next /\ phase' = "listing"
         \/ next = 0 /\ start' = start /\ phase' = "listed"
  BY <1>1, <1>2
<1> HIDE DEF next
<1>5. /\ left \in Nat
      /\ start \in Nat /\ start' \in Nat
      /\ \A i \in Positions : i \in Nat
      /\ \A k \in DOMAIN users : k \in Nat
      /\ IsFiniteSet(Missed(start, listed)) /\ IsFiniteSet(Missed(saved, listed))
  <2>1. TypeOK /\ TypeOK'
    BY ListPageInv DEF IInv
  <2>2. start \in Nat /\ start' \in Nat /\ \A i \in Positions : i \in Nat
    BY <2>1, PositionsType DEF TypeOK
  <2>3. \A k \in DOMAIN users : k \in Nat
    BY <2>1 DEF TypeOK
  <2> QED BY <2>1, <2>2, <2>3, SteadyFinite
<1>6. Few(start, listed)'
  <2>1. Missed(start, listed)' \subseteq Missed(start, listed)
    BY <1>1, <1>2, <1>3, <1>4, <1>5 DEF Missed, MissedOf
  <2> QED BY <1>2, <1>5, <2>1, Fewer DEF SkipInv, Few, FewOf, Missed
<1>7. Few(saved, listed)'
  <2>1. Missed(saved, listed)' \subseteq Missed(saved, listed)
    BY <1>1, <1>2 DEF Missed, MissedOf
  <2> QED BY <1>2, <1>5, <2>1, Fewer DEF SkipInv, Few, FewOf, Missed
<1>8. FileInv'
  BY <1>2 DEF SkipInv, FileInv, Few
<1>9. SteadyListed'
  <2> SUFFICES ASSUME phase' \in {"listed", "ended"}
               PROVE  Cardinality(steady \ listed') <= left
    BY <1>2 DEF SteadyListed
  <2>1. next = 0
    BY <1>4
  <2>2. steady \ listed' \subseteq Missed(start, listed)
    BY <1>1, <1>3, <1>5, <2>1 DEF Missed, MissedOf
  <2> QED BY <1>5, <2>2, Fewer DEF SkipInv, Few, FewOf, Missed
<1>10. CleanInv'
  BY <1>1, <1>2, <1>4 DEF SkipInv, CleanInv
<1>11. AheadInv'
  <2> SUFFICES ASSUME phase' = "listing", NEW i \in Positions, i >= start'
               PROVE  cache'[i] = None
    BY DEF AheadInv
  <2>1. i > start
    BY <1>3, <1>4, <1>5
  <2>2. cache'[i] = cache[i]
    BY <1>1, <1>5, <2>1 DEF IInv, TypeOK
  <2> QED BY <1>2, <1>5, <2>1, <2>2 DEF SkipInv, AheadInv
<1> QED BY <1>2, <1>6, <1>7, <1>8, <1>9, <1>10, <1>11 DEF SkipInv

\* A sync starts with nothing cached and everybody who is there still to list.
LEMMA StartSyncSkip ==
  ASSUME Cleared, TypeOK, SkipInv, StartSync
  PROVE  SkipInv'
<1>1. /\ phase' = "listing" /\ start' = 1 /\ saved' = 1 /\ listed' = {}
      /\ steady' = ToSet(users) /\ left' = 0 /\ file = None
      /\ UNCHANGED <<users, cache, file, leaves>>
  BY DEF StartSync
<1>2. cache = Empty /\ \A i \in Positions : cache[i] = None
  BY DEF SkipInv, CleanInv, StartSync, Empty
<1>3. Missed(1, {})' = {}
  <2>1. DOMAIN users = 1 .. Len(users) /\ Len(users) \in Nat
    BY DEF TypeOK
  <2> QED BY <1>1, <2>1 DEF Missed, MissedOf, ToSet
<1>4. Few(start, listed)' /\ Few(saved, listed)'
  BY <1>1, <1>3, FS_EmptySet DEF Few, FewOf, Missed
<1>5. left' <= leaves'
  BY <1>1 DEF TypeOK
<1> QED BY <1>1, <1>2, <1>4, <1>5 DEF SkipInv, CleanInv, AheadInv, FileInv, SteadyListed

\* The other steps of the sync move the token back to where few are missed.
LEMMA SyncSkip ==
  ASSUME Cleared, TypeOK, SkipInv,
         Checkpoint \/ EndSync \/ FailSync \/ FailPage \/ ResumeSync \/ Restart
  PROVE  SkipInv'
<1>1. UNCHANGED <<users, steady, left, leaves>>
  BY DEF Checkpoint, EndSync, FailSync, FailPage, Abandon, ResumeSync, Restart, counts, history
<1>3. Few(start, listed)' /\ Few(saved, listed)' /\ FileInv'
  BY <1>1
     DEF SkipInv, FileInv, Few, Checkpoint, EndSync, FailSync, FailPage, Abandon, ResumeSync,
         Restart
<1>4. SteadyListed'
  BY <1>1
     DEF SkipInv, SteadyListed, Checkpoint, EndSync, FailSync, FailPage, Abandon, ResumeSync,
         Restart
<1>5. \A i \in Positions : Empty[i] = None
  BY DEF Empty
<1>6. CleanInv' /\ AheadInv'
  <2>1. CASE Checkpoint
    BY <2>1 DEF SkipInv, CleanInv, AheadInv, Checkpoint
  <2>2. CASE EndSync \/ Restart
    BY <1>5, <2>2 DEF CleanInv, AheadInv, EndSync, Restart
  <2>3. CASE FailSync \/ FailPage
    <3>1. OneShot \/ ~CacheOn
      BY <2>3, <1>5, ConstantsAssumption, PositionsType
         DEF Cleared, TypeOK, SkipInv, AheadInv, FailSync, FailPage
    <3>2. phase' = "failed" /\ (cache' = Empty \/ (~CacheOn /\ cache' = cache))
      BY <2>3, <3>1 DEF FailSync, FailPage, Abandon
    <3>3. QED
      BY <3>2 DEF SkipInv, CleanInv, AheadInv
  <2>4. CASE ResumeSync
    BY <2>4, <1>5 DEF SkipInv, CleanInv, AheadInv, ResumeSync
  <2> QED BY <2>1, <2>2, <2>3, <2>4
<1> QED BY <1>1, <1>3, <1>4, <1>6 DEF SkipInv

\* Who joins is behind all the others.
LEMMA JoinSkip ==
  ASSUME TypeOK, SkipInv, NEW u \in Users, Join(u)
  PROVE  SkipInv'
<1>1. /\ users' = Append(users, u) /\ users \in Seq(Users)
      /\ UNCHANGED <<cache, sync, leaves, history>>
  BY DEF Join, TypeOK
<1>2. \A k \in DOMAIN users : k \in DOMAIN users' /\ users'[k] = users[k]
  BY <1>1
<1>3. ASSUME NEW position, NEW some, Few(position, some)
      PROVE  FewOf(steady, users', left, position, some)
  <2>1. MissedOf(steady, users', position, some) \subseteq Missed(position, some)
    BY <1>2 DEF Missed, MissedOf
  <2>2. IsFiniteSet(Missed(position, some)) /\ left \in Nat
    BY SteadyFinite
  <2>3. Cardinality(Missed(position, some)) <= left
    BY <1>3 DEF Few, FewOf, Missed
  <2> QED BY <2>1, <2>2, <2>3, Fewer DEF FewOf
<1>4. Few(start, listed)' /\ Few(saved, listed)' /\ FileInv'
  BY <1>1, <1>3 DEF SkipInv, FileInv, Few, sync, history
<1> QED BY <1>1, <1>4 DEF SkipInv, CleanInv, AheadInv, SteadyListed, sync, history

\* Who leaves is not steady, and moves at most one user across a position.
LEMMA LeaveSkip ==
  ASSUME TypeOK, SkipInv, NEW i \in DOMAIN users, Leave(i)
  PROVE  SkipInv'
<1>1. /\ users' = RemoveAt(users, i) /\ users \in Seq(Users) /\ i \in 1 .. Len(users)
      /\ steady' = steady \ {users[i]} /\ left' = left + 1 /\ leaves' = leaves + 1
      /\ left \in Nat /\ leaves \in Nat
      /\ UNCHANGED <<cache, phase, start, saved, listed, file>>
  BY ConstantsAssumption DEF Leave, TypeOK, sync
<1>2. /\ Len(users) \in Nat /\ i \in Nat
      /\ DOMAIN users = 1 .. Len(users) /\ DOMAIN users' = 1 .. Len(users) - 1
      /\ \A k \in 1 .. Len(users) - 1 : users'[k] = IF k < i THEN users[k] ELSE users[k + 1]
  <2>1. Len(users) \in Nat /\ DOMAIN users = 1 .. Len(users)
    BY <1>1
  <2>2. /\ users' \in Seq(Users) /\ Len(users') = Len(users) - 1
        /\ \A k \in 1 .. Len(users) - 1 : users'[k] = IF k < i THEN users[k] ELSE users[k + 1]
    BY <1>1, Removed
  <2>3. DOMAIN users' = 1 .. Len(users) - 1
    BY <2>2
  <2> QED BY <1>1, <2>1, <2>2, <2>3
<1>3. ASSUME NEW position \in Positions, NEW some, Few(position, some)
      PROVE  FewOf(steady', users', left', position, some)
  <2> DEFINE missed == MissedOf(steady', users', position, some)
  <2>1. ASSUME NEW u \in missed, u \notin Missed(position, some)
        PROVE  u = users[position]
    <3>1. PICK k \in 1 .. Len(users) : users[k] = u /\ ~(k < position)
      BY <1>1, <1>2, <2>1 DEF Missed, MissedOf
    <3>2. k # i /\ position \in Nat
      BY <1>1, <2>1, <3>1, PositionsType DEF MissedOf
    <3>3. CASE k < i
      <4>1. k \in 1 .. Len(users) - 1 /\ users'[k] = u
        BY <1>2, <3>1, <3>3
      <4> QED BY <1>2, <2>1, <3>1, <4>1 DEF MissedOf
    <3>4. CASE k > i
      <4>1. k - 1 \in 1 .. Len(users) - 1 /\ ~(k - 1 < i) /\ (k - 1) + 1 = k
        BY <1>2, <3>4
      <4>2. users'[k - 1] = u
        BY <1>2, <3>1, <4>1
      <4>3. k - 1 < position
        BY <1>2, <2>1, <4>1, <4>2 DEF MissedOf
      <4>4. k = position
        BY <3>1, <3>2, <4>3
      <4> QED BY <3>1, <4>4
    <3> QED BY <1>2, <3>2, <3>3, <3>4
  <2>2. missed \subseteq Missed(position, some) \cup {users[position]}
    BY <2>1
  <2>3. IsFiniteSet(Missed(position, some)) /\ Cardinality(Missed(position, some)) <= left
    BY <1>3, SteadyFinite DEF Few, FewOf, Missed
  <2> HIDE DEF missed
  <2>4. Cardinality(missed) <= left + 1
    BY <1>1, <2>2, <2>3, OneMore
  <2> QED BY <1>1, <2>4 DEF missed, FewOf
<1>4. start \in Positions /\ saved \in Positions /\ (file # None => file.saved \in Positions)
  BY DEF TypeOK, Unfinished
<1>5. Few(start, listed)' /\ Few(saved, listed)' /\ FileInv'
  BY <1>1, <1>3, <1>4 DEF SkipInv, FileInv, Few
<1>6. SteadyListed'
  <2> SUFFICES ASSUME phase \in {"listed", "ended"}
               PROVE  Cardinality(steady' \ listed) <= left + 1
    BY <1>1 DEF SteadyListed
  <2>1. Cardinality(steady \ listed) <= left /\ IsFiniteSet(steady \ listed)
    BY SteadyFinite DEF SkipInv, SteadyListed
  <2>2. steady' \ listed \subseteq steady \ listed
    BY <1>1
  <2>3. left + 1 \in Nat /\ left <= left + 1
    BY <1>1
  <2> QED BY <1>1, <2>1, <2>2, <2>3, Fewer
<1>7. left' <= leaves'
  BY <1>1 DEF SkipInv
<1> QED BY <1>1, <1>5, <1>6, <1>7 DEF SkipInv, CleanInv, AheadInv

LEMMA NextSkip ==
  ASSUME Cleared, IInv, SkipInv, [Next]_vars
  PROVE  SkipInv'
<1>1. TypeOK
  BY DEF IInv
<1>2. CASE UNCHANGED vars
  BY <1>2
     DEF SkipInv, CleanInv, AheadInv, FileInv, SteadyListed, Few, vars, sync,
         counts, history
<1>3. ASSUME NEW i \in Positions, Evict(i) PROVE SkipInv'
  BY <1>1, <1>3
     DEF TypeOK, SkipInv, CleanInv, AheadInv, FileInv, SteadyListed, Few, Evict,
         Empty, sync, counts, history
<1>4. CASE Next
  BY <1>1, <1>3, <1>4, ListPageSkip, StartSyncSkip, SyncSkip, JoinSkip, LeaveSkip DEF Next
<1> QED BY <1>2, <1>4

\* Where no sync begins on the cached pages of a failed one, enterprise_users.go
\* and the syncer list every user who has been there since the sync started, but
\* for as many as have left meanwhile, although others join, pages are short, and
\* the sync may fail, be killed and be resumed anywhere.
THEOREM FewSkipped ==
  ASSUME Cleared
  PROVE  Spec => []SteadyListed
<1>1. IInv /\ SkipInv /\ [Next]_vars => SkipInv'
  BY NextSkip
<1>2. SkipInv => SteadyListed
  BY DEF SkipInv
<1> QED BY <1>1, <1>2, InitSkip, Inductive, PTL DEF Spec

\* And nobody is skipped where nobody leaves.
THEOREM NobodySkipped ==
  ASSUME Cleared, MaxLeaves = 0
  PROVE  Spec => [](phase \in {"listed", "ended"} => steady \subseteq listed)
<1>1. IInv /\ SkipInv /\ [Next]_vars => SkipInv'
  BY NextSkip
<1>2. IInv /\ SkipInv => (phase \in {"listed", "ended"} => steady \subseteq listed)
  <2> SUFFICES ASSUME IInv, SkipInv, phase \in {"listed", "ended"}
               PROVE  steady \ listed = {}
    OBVIOUS
  <2>1. left = 0
    BY DEF IInv, TypeOK, SkipInv
  <2>2. IsFiniteSet(steady \ listed) /\ Cardinality(steady \ listed) <= 0
    BY <2>1, SteadyFinite DEF IInv, SkipInv, SteadyListed
  <2> QED BY <2>2, FS_CardinalityType, FS_EmptySet
<1> QED BY <1>1, <1>2, InitSkip, Inductive, PTL DEF Spec

-----------------------------------------------------------------------------
(* A sync that lists asks for no more pages than there are users, and one.  *)

PagesLeft == IF phase = "listing" THEN Cardinality(Users) + 2 - start ELSE 0

PagesLeftOK == PagesLeft \in Nat

UsesUpPages ==
  phase = "listing" => /\ PagesLeft' <= PagesLeft
                       /\ ListPage => PagesLeft' < PagesLeft

\* The page token never exceeds the position behind the last user.
LEMMA PagesLeftType == TypeOK => PagesLeftOK
BY PositionsType DEF TypeOK, PagesLeftOK, PagesLeft, Positions

\* The token of a page that is not the last is beyond its own.
LEMMA ListPageForward ==
  ASSUME IInv, ListPage
  PROVE  phase' = "listing" => start < start'
<1>1. PICK page \in IF cache[start] # None THEN {cache[start]} ELSE Answers(start) :
        LET next == NextStart(start, page) IN
        \/ /\ next # 0
           /\ start' = next
           /\ UNCHANGED phase
        \/ /\ next = 0
           /\ phase' = "listed"
           /\ UNCHANGED start
  BY DEF ListPage
<1>2. page \in Page /\ start \in Nat \ {0}
  BY PageNext, PositionsType DEF IInv, TypeOK, ListPage
<1>3. ASSUME NextStart(start, page) # 0 PROVE start < NextStart(start, page)
  <2>1. page.users \in Seq(Users) /\ page.users # <<>>
    BY <1>2, <1>3 DEF NextStart, Page
  <2>2. Len(page.users) \in Nat \ {0}
    BY <2>1
  <2> QED BY <1>2, <1>3, <2>2 DEF NextStart
<1> QED BY <1>1, <1>3

\* Every page that List answers moves the page token forward, and nothing that
\* happens between two pages moves it back while the sync goes on: neither who
\* joins or leaves, nor checkpoints, nor what the cache keeps. The pages of one
\* listing are bounded by the users, whatever SCIM answers.
THEOREM PagesRunOut == Spec => []PagesLeftOK /\ [][UsesUpPages]_vars
<1>1. ASSUME IInv, PagesLeftOK, PagesLeftOK', [Next]_vars, phase = "listing"
      PROVE  /\ PagesLeft' <= PagesLeft
             /\ ListPage => PagesLeft' < PagesLeft
  <2>1. /\ PagesLeft \in Nat /\ PagesLeft' \in Nat
        /\ start \in Nat /\ Cardinality(Users) \in Nat
        /\ PagesLeft = Cardinality(Users) + 2 - start
        /\ start <= Cardinality(Users) + 1
    BY <1>1, PositionsType DEF PagesLeftOK, PagesLeft, IInv, TypeOK, Positions
  <2>2. CASE ListPage
    <3>1. PagesLeft' < PagesLeft
      <4>1. CASE phase' = "listing"
        <5>1. start' \in Nat /\ start < start'
          BY <1>1, <2>2, <4>1, ListPageForward, ListPageInv, PositionsType DEF IInv, TypeOK
        <5>2. PagesLeft' = Cardinality(Users) + 2 - start'
          BY <4>1 DEF PagesLeft
        <5> QED BY <2>1, <5>1, <5>2
      <4>2. CASE phase' # "listing"
        BY <2>1, <4>2 DEF PagesLeft
      <4> QED BY <4>1, <4>2
    <3> QED BY <2>1, <3>1
  <2>3. CASE ~ListPage
    <3>1. phase' # "listing" \/ UNCHANGED <<phase, start>>
      BY <1>1, <2>3
         DEF Next, StartSync, Checkpoint, EndSync, FailSync, FailPage, Abandon, ResumeSync,
             Restart, Join, Leave, Evict, vars, sync
    <3>2. PagesLeft' <= PagesLeft
      BY <2>1, <3>1 DEF PagesLeft
    <3> QED BY <2>3, <3>2
  <2> QED BY <2>2, <2>3
<1>2. IInv /\ PagesLeftOK /\ PagesLeftOK' /\ [Next]_vars => [UsesUpPages]_vars
  BY <1>1 DEF UsesUpPages
<1> QED BY <1>2, PagesLeftType, TypeCorrect, Inductive, PTL DEF Spec

=============================================================================
