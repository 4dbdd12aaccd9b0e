------------------------------ MODULE TeamsProofs ------------------------------
(***************************************************************************)
(* Theorems about the teams of Accounts, and the types of all of it: what  *)
(* the mock server's PATCH makes of lists of members of any length, that   *)
(* it keeps them unique, and that no account starts in a team.             *)
(***************************************************************************)
EXTENDS AccountsProofs, WellFoundedInduction

-----------------------------------------------------------------------------
(* Recursion over the positions of a sequence.                               *)

\* Induction, over sets of numbers.
LEMMA SetInduction ==
  ASSUME NEW S \in SUBSET Nat, 0 \in S, \A n \in S : n + 1 \in S
  PROVE  S = Nat
<1> DEFINE T == Nat \ S
<1> SUFFICES ASSUME T # {}
             PROVE  FALSE
  OBVIOUS
<1>1. PICK x \in T : \A y \in T : ~(<<y, x>> \in OpToRel(<, Nat))
  BY NatLessThanWellFounded, WFMin
<1>2. x # 0 /\ x \in Nat /\ x - 1 \in Nat /\ x - 1 < x
  OBVIOUS
<1>3. x - 1 \notin T
  BY <1>1, <1>2 DEF OpToRel
<1> QED BY <1>2, <1>3

\* What is so at 0, and wherever it is so one position before, is so up to n.
LEMMA UpTo ==
  ASSUME NEW n \in Nat, NEW S, 0 \in S, \A k \in 1 .. n : k - 1 \in S => k \in S
  PROVE  \A k \in 0 .. n : k \in S
<1> DEFINE T == {m \in Nat : m <= n => m \in S}
<1>1. ASSUME NEW m \in T
      PROVE  m + 1 \in T
  <2> SUFFICES ASSUME m + 1 <= n
               PROVE  m + 1 \in S
    OBVIOUS
  <2>1. m + 1 \in 1 .. n /\ (m + 1) - 1 = m /\ m <= n
    OBVIOUS
  <2> QED BY <2>1
<1>2. 0 \in T /\ T \in SUBSET Nat
  OBVIOUS
<1> HIDE DEF T
<1>3. T = Nat
  BY <1>1, <1>2, SetInduction
<1> QED BY <1>3 DEF T

\* The values of f from a on, each made of the one before.
Iterates(f, a, n, Step) == f[0] = a /\ \A k \in 1 .. n : f[k] = Step[k][f[k - 1]]

\* A function whose values are given one after the other exists.
LEMMA Recursion ==
  ASSUME NEW X, NEW a \in X, NEW n \in Nat, NEW Step \in [1 .. n -> [X -> X]]
  PROVE  \E f \in [0 .. n -> X] : Iterates(f, a, n, Step)
<1> DEFINE Good(m, f) == f[0] = a /\ \A k \in 1 .. m : f[k] = Step[k][f[k - 1]]
           S == {m \in Nat : m <= n => \E f \in [0 .. m -> X] : Good(m, f)}
<1>1. 0 \in S
  <2> DEFINE f == [k \in 0 .. 0 |-> a]
  <2>1. f \in [0 .. 0 -> X] /\ f[0] = a
    OBVIOUS
  <2>2. Good(0, f)
    BY <2>1
  <2> QED BY <2>1, <2>2
<1>2. ASSUME NEW m \in S
      PROVE  m + 1 \in S
  <2>0. m + 1 \in Nat
    OBVIOUS
  <2> HIDE DEF Good
  <2> SUFFICES ASSUME m + 1 <= n
               PROVE  \E f \in [0 .. m + 1 -> X] : Good(m + 1, f)
    BY <2>0
  <2> USE DEF Good
  <2>1. m \in Nat /\ m <= n
    OBVIOUS
  <2>2. PICK f \in [0 .. m -> X] : Good(m, f)
    BY <2>1
  <2> DEFINE v == Step[m + 1][f[m]]
             g == [k \in 0 .. m + 1 |-> IF k = m + 1 THEN v ELSE f[k]]
  <2>3. v \in X
    <3>1. f[m] \in X /\ m + 1 \in 1 .. n
      BY <2>1
    <3>2. Step[m + 1] \in [X -> X]
      BY <3>1
    <3> QED BY <3>1, <3>2
  <2>4. \A k \in 0 .. m : k \in 0 .. m + 1 /\ k # m + 1 /\ g[k] = f[k]
    BY <2>1
  <2>5. g[m + 1] = v
    BY <2>1
  <2>6. g \in [0 .. m + 1 -> X]
    <3>1. \A k \in 0 .. m + 1 : k = m + 1 \/ k \in 0 .. m
      BY <2>1
    <3>2. \A k \in 0 .. m + 1 : g[k] \in X
      BY <2>2, <2>3, <2>4, <2>5, <3>1
    <3> QED BY <3>2
  <2> HIDE DEF g, v
  <2>7. g[0] = a
    BY <2>1, <2>2, <2>4
  <2>8. ASSUME NEW k \in 1 .. m + 1
        PROVE  g[k] = Step[k][g[k - 1]]
    <3>1. k - 1 \in 0 .. m /\ g[k - 1] = f[k - 1]
      BY <2>1, <2>4
    <3>2. CASE k = m + 1
      BY <2>1, <2>5, <3>1, <3>2 DEF v
    <3>3. CASE k # m + 1
      <4>1. k \in 1 .. m /\ k \in 0 .. m
        BY <2>1, <3>3
      <4> QED BY <2>2, <2>4, <3>1, <4>1
    <3> QED BY <3>2, <3>3
  <2> QED BY <2>6, <2>7, <2>8
<1> HIDE DEF S
<1>3. S = Nat
  <2>1. S \in SUBSET Nat
    BY DEF S
  <2> QED BY <1>1, <1>2, <2>1, SetInduction
<1>4. n \in S /\ n <= n
  BY <1>3
<1> QED BY <1>4 DEF S, Iterates

-----------------------------------------------------------------------------
(* Lists of members.                                                         *)

Unique(seq) == \A j, k \in DOMAIN seq : seq[j] = seq[k] => j = k

\* The ids in front of a position.
Before(seq, k) == {seq[j] : j \in 1 .. k}

LEMMA AppendFacts ==
  ASSUME NEW seq \in Seq(Ids), NEW x \in Ids
  PROVE  /\ Append(seq, x) \in Seq(Ids)
         /\ IdsIn(Append(seq, x)) = IdsIn(seq) \cup {x}
         /\ Unique(seq) /\ x \notin IdsIn(seq) => Unique(Append(seq, x))
<1>1. /\ Append(seq, x) \in Seq(Ids)
      /\ Len(seq) \in Nat /\ DOMAIN seq = 1 .. Len(seq)
      /\ DOMAIN Append(seq, x) = 1 .. Len(seq) + 1
      /\ \A k \in 1 .. Len(seq) : Append(seq, x)[k] = seq[k]
      /\ Append(seq, x)[Len(seq) + 1] = x
  OBVIOUS
<1>2. \A k \in 1 .. Len(seq) + 1 : k \in 1 .. Len(seq) \/ k = Len(seq) + 1
  BY <1>1
<1>3. \A k \in 1 .. Len(seq) : k \in 1 .. Len(seq) + 1
  BY <1>1
<1>4. Len(seq) + 1 \in 1 .. Len(seq) + 1
  BY <1>1
<1>5. IdsIn(Append(seq, x)) = IdsIn(seq) \cup {x}
  BY <1>1, <1>2, <1>3, <1>4 DEF IdsIn
<1>6. Unique(seq) /\ x \notin IdsIn(seq) => Unique(Append(seq, x))
  BY <1>1, <1>2 DEF Unique, IdsIn
<1> QED BY <1>1, <1>5, <1>6

LEMMA BeforeFacts ==
  ASSUME NEW seq \in Seq(Ids)
  PROVE  /\ Before(seq, 0) = {}
         /\ Before(seq, Len(seq)) = IdsIn(seq)
         /\ \A k \in 1 .. Len(seq) :
              Before(seq, k) = Before(seq, k - 1) \cup {seq[k]} /\ seq[k] \in Ids
<1>1. DOMAIN seq = 1 .. Len(seq) /\ Len(seq) \in Nat
  OBVIOUS
<1>2. ASSUME NEW k \in 1 .. Len(seq)
      PROVE  Before(seq, k) = Before(seq, k - 1) \cup {seq[k]}
  <2>1. \A j \in 1 .. k : j \in 1 .. k - 1 \/ j = k
    BY <1>1
  <2>2. k \in 1 .. k /\ \A j \in 1 .. k - 1 : j \in 1 .. k
    BY <1>1
  <2> QED BY <2>1, <2>2 DEF Before
<1>3. Before(seq, 0) = {}
  <2>1. 1 .. 0 = {}
    OBVIOUS
  <2> QED BY <2>1 DEF Before
<1> QED BY <1>1, <1>2, <1>3 DEF Before, IdsIn

\* A list without repetitions has as many ids as positions.
LEMMA UniqueCardinality ==
  ASSUME NEW seq \in Seq(Ids)
  PROVE  Cardinality(IdsIn(seq)) = Len(seq) <=> Unique(seq)
<1> DEFINE D == 1 .. Len(seq)
           T == IdsIn(seq)
<1>1. DOMAIN seq = D /\ Len(seq) \in Nat
  OBVIOUS
<1>2. IsFiniteSet(D) /\ Cardinality(D) = Len(seq)
  <2>1. 1 \in Int /\ Len(seq) \in Int
    BY <1>1
  <2>2. IsFiniteSet(D) /\ Cardinality(D) = IF 1 > Len(seq) THEN 0 ELSE Len(seq) - 1 + 1
    BY <2>1, FS_Interval, Zenon
  <2> QED BY <1>1, <2>2
<1>3. seq \in Surjection(D, T)
  <2>1. seq \in [D -> T]
    BY <1>1 DEF IdsIn
  <2>2. \A t \in T : \E k \in D : seq[k] = t
    BY <1>1 DEF IdsIn
  <2> QED BY <2>1, <2>2 DEF Surjection
<1> HIDE DEF D, T
<1>4. Cardinality(T) = Cardinality(D) <=> seq \in Injection(D, T)
  BY <1>2, <1>3, FS_Surjection
<1>5. seq \in Injection(D, T) <=> Unique(seq)
  <2>1. seq \in [D -> T]
    BY <1>3 DEF Surjection
  <2> QED BY <1>1, <2>1 DEF Injection, IsInjective, Unique
<1> QED BY <1>2, <1>4, <1>5 DEF D, T

\* What the server's loop over the ids of a request to add makes of the members,
\* one id at a time.
LEMMA AddedUnfolded ==
  ASSUME NEW list \in Seq(Ids), NEW ids \in Seq(Ids)
  PROVE  \E f \in [0 .. Len(ids) -> Seq(Ids)] :
           /\ f[0] = list
           /\ \A k \in 1 .. Len(ids) :
                f[k] = IF ids[k] \in IdsIn(f[k - 1]) THEN f[k - 1] ELSE Append(f[k - 1], ids[k])
           /\ Added(list, ids) = f[Len(ids)]
<1> DEFINE n == Len(ids)
           X == Seq(Ids)
           Longer(k, s) == IF ids[k] \in IdsIn(s) THEN s ELSE Append(s, ids[k])
           Step == [k \in 1 .. n |-> [s \in X |-> Longer(k, s)]]
           Is(f) == f = [k \in 0 .. Len(ids) |->
                      IF k = 0 THEN list
                      ELSE IF ids[k] \in IdsIn(f[k - 1]) THEN f[k - 1]
                      ELSE Append(f[k - 1], ids[k])]
           added == CHOOSE f : Is(f)
<1>1. n \in Nat /\ DOMAIN ids = 1 .. n /\ \A k \in 1 .. n : ids[k] \in Ids
  OBVIOUS
<1>2. Step \in [1 .. n -> [X -> X]]
  <2>1. ASSUME NEW k \in 1 .. n, NEW s \in X
        PROVE  Longer(k, s) \in X
    <3>1. Append(s, ids[k]) \in Seq(Ids)
      BY <1>1, AppendFacts
    <3> QED BY <3>1
  <2> HIDE DEF Longer
  <2> QED BY <2>1
<1>3. \A k \in 1 .. n, s \in X : Step[k][s] = Longer(k, s)
  <2> HIDE DEF Longer
  <2> QED OBVIOUS
<1>4. list \in X
  OBVIOUS
<1>5. n \in Nat
  OBVIOUS
<1> HIDE DEF Step, X, n
<1>6. PICK f \in [0 .. n -> X] : Iterates(f, list, n, Step)
  BY <1>4, <1>5, <1>2, Recursion
<1>7. ASSUME NEW k \in 1 .. n
      PROVE  k - 1 \in 0 .. n /\ f[k - 1] \in X
  <2>1. k - 1 \in 0 .. n
    BY <1>5
  <2> QED BY <1>6, <2>1
<1>8. \A k \in 1 .. n :
        f[k] = IF ids[k] \in IdsIn(f[k - 1]) THEN f[k - 1] ELSE Append(f[k - 1], ids[k])
  <2> HIDE DEF Longer
  <2>1. \A k \in 1 .. n : f[k] = Longer(k, f[k - 1])
    BY <1>3, <1>6, <1>7 DEF Iterates
  <2> QED BY <2>1 DEF Longer
<1>9. Is(f)
  <2>1. \A k \in 0 .. n : k = 0 \/ k \in 1 .. n
    BY <1>1
  <2> QED BY <1>6, <1>8, <2>1 DEF n, Iterates
<1>10. Is(added)
  BY <1>9
<1>11. Added(list, ids) = added[Len(ids)]
  BY DEF Added
<1> HIDE DEF added
<1>12. added[0] = list /\ \A k \in 1 .. n :
         added[k] = IF ids[k] \in IdsIn(added[k - 1]) THEN added[k - 1] ELSE Append(added[k - 1], ids[k])
  <2>1. 0 \in 0 .. n /\ \A k \in 1 .. n : k \in 0 .. n /\ k # 0
    BY <1>1
  <2> QED BY <1>10, <2>1 DEF n
<1>13. added \in [0 .. n -> X]
  <2> DEFINE S == {k \in 0 .. n : added[k] \in X}
  <2>1. 0 \in S
    BY <1>5, <1>4, <1>12
  <2>2. ASSUME NEW k \in 1 .. n, k - 1 \in S
        PROVE  k \in S
    <3>1. added[k - 1] \in Seq(Ids) /\ ids[k] \in Ids /\ k \in 0 .. n
      BY <1>1, <1>5, <2>2 DEF X
    <3>2. Append(added[k - 1], ids[k]) \in Seq(Ids)
      BY <3>1, AppendFacts
    <3> QED BY <1>12, <3>1, <3>2 DEF X
  <2> HIDE DEF S
  <2>3. \A k \in 0 .. n : k \in S
    BY <1>5, <2>1, <2>2, UpTo
  <2>4. \A k \in 0 .. n : added[k] \in X
    BY <2>3 DEF S
  <2>5. added = [k \in 0 .. n |-> added[k]]
    BY <1>10 DEF n
  <2> QED BY <2>4, <2>5
<1> QED BY <1>11, <1>12, <1>13 DEF n, X

\* ... and the loop over the members that leaves out the ids of a request to remove.
LEMMA RemovedUnfolded ==
  ASSUME NEW list \in Seq(Ids), NEW ids \in Seq(Ids)
  PROVE  \E f \in [0 .. Len(list) -> Seq(Ids)] :
           /\ f[0] = <<>>
           /\ \A k \in 1 .. Len(list) :
                f[k] = IF list[k] \in IdsIn(ids) THEN f[k - 1] ELSE Append(f[k - 1], list[k])
           /\ Removed(list, ids) = f[Len(list)]
<1> DEFINE n == Len(list)
           X == Seq(Ids)
           Longer(k, s) == IF list[k] \in IdsIn(ids) THEN s ELSE Append(s, list[k])
           Step == [k \in 1 .. n |-> [s \in X |-> Longer(k, s)]]
           Is(f) == f = [k \in 0 .. Len(list) |->
                      IF k = 0 THEN <<>>
                      ELSE IF list[k] \in IdsIn(ids) THEN f[k - 1]
                      ELSE Append(f[k - 1], list[k])]
           kept == CHOOSE f : Is(f)
<1>1. n \in Nat /\ DOMAIN list = 1 .. n /\ \A k \in 1 .. n : list[k] \in Ids
  OBVIOUS
<1>2. Step \in [1 .. n -> [X -> X]]
  <2>1. ASSUME NEW k \in 1 .. n, NEW s \in X
        PROVE  Longer(k, s) \in X
    <3>1. Append(s, list[k]) \in Seq(Ids)
      BY <1>1, AppendFacts
    <3> QED BY <3>1
  <2> HIDE DEF Longer
  <2> QED BY <2>1
<1>3. \A k \in 1 .. n, s \in X : Step[k][s] = Longer(k, s)
  <2> HIDE DEF Longer
  <2> QED OBVIOUS
<1>4. <<>> \in X
  OBVIOUS
<1>5. n \in Nat
  OBVIOUS
<1> HIDE DEF Step, X, n
<1>6. PICK f \in [0 .. n -> X] : Iterates(f, <<>>, n, Step)
  BY <1>4, <1>5, <1>2, Recursion
<1>7. ASSUME NEW k \in 1 .. n
      PROVE  k - 1 \in 0 .. n /\ f[k - 1] \in X
  <2>1. k - 1 \in 0 .. n
    BY <1>5
  <2> QED BY <1>6, <2>1
<1>8. \A k \in 1 .. n :
        f[k] = IF list[k] \in IdsIn(ids) THEN f[k - 1] ELSE Append(f[k - 1], list[k])
  <2> HIDE DEF Longer
  <2>1. \A k \in 1 .. n : f[k] = Longer(k, f[k - 1])
    BY <1>3, <1>6, <1>7 DEF Iterates
  <2> QED BY <2>1 DEF Longer
<1>9. Is(f)
  <2>1. \A k \in 0 .. n : k = 0 \/ k \in 1 .. n
    BY <1>1
  <2> QED BY <1>6, <1>8, <2>1 DEF n, Iterates
<1>10. Is(kept)
  BY <1>9
<1>11. Removed(list, ids) = kept[Len(list)]
  BY DEF Removed
<1> HIDE DEF kept
<1>12. kept[0] = <<>> /\ \A k \in 1 .. n :
         kept[k] = IF list[k] \in IdsIn(ids) THEN kept[k - 1] ELSE Append(kept[k - 1], list[k])
  <2>1. 0 \in 0 .. n /\ \A k \in 1 .. n : k \in 0 .. n /\ k # 0
    BY <1>1
  <2> QED BY <1>10, <2>1 DEF n
<1>13. kept \in [0 .. n -> X]
  <2> DEFINE S == {k \in 0 .. n : kept[k] \in X}
  <2>1. 0 \in S
    BY <1>5, <1>4, <1>12
  <2>2. ASSUME NEW k \in 1 .. n, k - 1 \in S
        PROVE  k \in S
    <3>1. kept[k - 1] \in Seq(Ids) /\ list[k] \in Ids /\ k \in 0 .. n
      BY <1>1, <1>5, <2>2 DEF X
    <3>2. Append(kept[k - 1], list[k]) \in Seq(Ids)
      BY <3>1, AppendFacts
    <3> QED BY <1>12, <3>1, <3>2 DEF X
  <2> HIDE DEF S
  <2>3. \A k \in 0 .. n : k \in S
    BY <1>5, <2>1, <2>2, UpTo
  <2>4. \A k \in 0 .. n : kept[k] \in X
    BY <2>3 DEF S
  <2>5. kept = [k \in 0 .. n |-> kept[k]]
    BY <1>10 DEF n
  <2> QED BY <2>4, <2>5
<1> QED BY <1>11, <1>12, <1>13 DEF n, X

\* Adding makes members of all of a request's ids, and of nobody else, nobody twice.
LEMMA AddedFacts ==
  ASSUME NEW list \in Seq(Ids), NEW ids \in Seq(Ids)
  PROVE  /\ Added(list, ids) \in Seq(Ids)
         /\ IdsIn(Added(list, ids)) = IdsIn(list) \cup IdsIn(ids)
         /\ Unique(list) => Unique(Added(list, ids))
<1> DEFINE n == Len(ids)
<1>1. PICK f \in [0 .. n -> Seq(Ids)] :
        /\ f[0] = list
        /\ \A k \in 1 .. n :
             f[k] = IF ids[k] \in IdsIn(f[k - 1]) THEN f[k - 1] ELSE Append(f[k - 1], ids[k])
        /\ Added(list, ids) = f[n]
  BY AddedUnfolded
<1>2. n \in Nat
  OBVIOUS
<1> DEFINE Right(k) == /\ f[k] \in Seq(Ids)
                       /\ IdsIn(f[k]) = IdsIn(list) \cup Before(ids, k)
                       /\ Unique(list) => Unique(f[k])
           S == {k \in 0 .. n : Right(k)}
<1> HIDE DEF Right
<1>3. 0 \in S
  <2>1. Right(0)
    BY <1>1, BeforeFacts DEF Right
  <2> QED BY <1>2, <2>1
<1>4. ASSUME NEW k \in 1 .. n, k - 1 \in S
      PROVE  k \in S
  <2> DEFINE g == f[k - 1]
  <2>1. /\ g \in Seq(Ids)
        /\ IdsIn(g) = IdsIn(list) \cup Before(ids, k - 1)
        /\ Unique(list) => Unique(g)
    <3>1. Right(k - 1)
      BY <1>4
    <3> QED BY <3>1 DEF Right
  <2>2. f[k] = IF ids[k] \in IdsIn(g) THEN g ELSE Append(g, ids[k])
    BY <1>1
  <2>3. k \in 0 .. n /\ ids[k] \in Ids /\ Before(ids, k) = Before(ids, k - 1) \cup {ids[k]}
    BY <1>2, BeforeFacts
  <2> HIDE DEF g
  <2>4. Right(k)
    <3>1. CASE ids[k] \in IdsIn(g)
      BY <2>1, <2>2, <2>3, <3>1 DEF Right
    <3>2. CASE ids[k] \notin IdsIn(g)
      <4>1. /\ Append(g, ids[k]) \in Seq(Ids)
            /\ IdsIn(Append(g, ids[k])) = IdsIn(g) \cup {ids[k]}
            /\ Unique(g) => Unique(Append(g, ids[k]))
        BY <2>1, <2>3, <3>2, AppendFacts
      <4> QED BY <2>1, <2>2, <2>3, <3>2, <4>1 DEF Right
    <3> QED BY <3>1, <3>2
  <2> QED BY <2>3, <2>4
<1> HIDE DEF S
<1>5. n \in S
  <2>1. \A k \in 0 .. n : k \in S
    BY <1>2, <1>3, <1>4, UpTo
  <2> QED BY <1>2, <2>1
<1>6. /\ f[n] \in Seq(Ids)
      /\ IdsIn(f[n]) = IdsIn(list) \cup Before(ids, n)
      /\ Unique(list) => Unique(f[n])
  <2>1. Right(n)
    BY <1>5 DEF S
  <2> QED BY <2>1 DEF Right
<1>7. Before(ids, n) = IdsIn(ids)
  BY BeforeFacts
<1> QED BY <1>1, <1>6, <1>7

\* Removing leaves the members that a request does not name, nobody twice.
LEMMA RemovedFacts ==
  ASSUME NEW list \in Seq(Ids), NEW ids \in Seq(Ids)
  PROVE  /\ Removed(list, ids) \in Seq(Ids)
         /\ IdsIn(Removed(list, ids)) = IdsIn(list) \ IdsIn(ids)
         /\ Unique(list) => Unique(Removed(list, ids))
<1> DEFINE n == Len(list)
<1>1. PICK f \in [0 .. n -> Seq(Ids)] :
        /\ f[0] = <<>>
        /\ \A k \in 1 .. n :
             f[k] = IF list[k] \in IdsIn(ids) THEN f[k - 1] ELSE Append(f[k - 1], list[k])
        /\ Removed(list, ids) = f[n]
  BY RemovedUnfolded
<1>2. n \in Nat /\ DOMAIN list = 1 .. n
  OBVIOUS
<1> DEFINE Right(k) == /\ f[k] \in Seq(Ids)
                       /\ IdsIn(f[k]) = Before(list, k) \ IdsIn(ids)
                       /\ Unique(list) => Unique(f[k])
           S == {k \in 0 .. n : Right(k)}
<1> HIDE DEF Right
<1>3. 0 \in S
  <2>1. IdsIn(<<>>) = {} /\ Unique(<<>>)
    BY DEF IdsIn, Unique
  <2>2. Right(0)
    BY <1>1, <2>1, BeforeFacts DEF Right
  <2> QED BY <1>2, <2>2
<1>4. ASSUME NEW k \in 1 .. n, k - 1 \in S
      PROVE  k \in S
  <2> DEFINE g == f[k - 1]
  <2>1. /\ g \in Seq(Ids)
        /\ IdsIn(g) = Before(list, k - 1) \ IdsIn(ids)
        /\ Unique(list) => Unique(g)
    <3>1. Right(k - 1)
      BY <1>4
    <3> QED BY <3>1 DEF Right
  <2>2. f[k] = IF list[k] \in IdsIn(ids) THEN g ELSE Append(g, list[k])
    BY <1>1
  <2>3. k \in 0 .. n /\ list[k] \in Ids /\ Before(list, k) = Before(list, k - 1) \cup {list[k]}
    BY <1>2, BeforeFacts
  <2> HIDE DEF g
  <2>4. Unique(list) => list[k] \notin IdsIn(g)
    <3>1. \A j \in 1 .. k - 1 : j \in DOMAIN list /\ j # k
      BY <1>2
    <3> QED BY <1>2, <2>1, <3>1 DEF Unique, Before
  <2>5. Right(k)
    <3>1. CASE list[k] \in IdsIn(ids)
      BY <2>1, <2>2, <2>3, <3>1 DEF Right
    <3>2. CASE list[k] \notin IdsIn(ids)
      <4>1. /\ Append(g, list[k]) \in Seq(Ids)
            /\ IdsIn(Append(g, list[k])) = IdsIn(g) \cup {list[k]}
            /\ Unique(list) /\ Unique(g) => Unique(Append(g, list[k]))
        BY <2>1, <2>3, <2>4, AppendFacts
      <4> QED BY <2>1, <2>2, <2>3, <3>2, <4>1 DEF Right
    <3> QED BY <3>1, <3>2
  <2> QED BY <2>3, <2>5
<1> HIDE DEF S
<1>5. n \in S
  <2>1. \A k \in 0 .. n : k \in S
    BY <1>2, <1>3, <1>4, UpTo
  <2> QED BY <1>2, <2>1
<1>6. /\ f[n] \in Seq(Ids)
      /\ IdsIn(f[n]) = Before(list, n) \ IdsIn(ids)
      /\ Unique(list) => Unique(f[n])
  <2>1. Right(n)
    BY <1>5 DEF S
  <2> QED BY <2>1 DEF Right
<1>7. Before(list, n) = IdsIn(list)
  BY BeforeFacts
<1> QED BY <1>1, <1>6, <1>7

-----------------------------------------------------------------------------
(* The inductive invariant of the teams.                                     *)

TeamsTyped ==
  /\ DOMAIN teams \subseteq Ids
  /\ IsFiniteSet(DOMAIN teams)
  /\ \A t \in DOMAIN teams : teams[t] \in Team

\* What is so of a team's members, unless a request had one of the oddities.
Proper(list, slips, known) ==
  /\ "doubled" \notin slips => Unique(list)
  /\ slips \cap {"deleted", "unknown"} = {} => IdsIn(list) \subseteq known

TeamsProper == \A t \in DOMAIN teams : Proper(teams[t].members, odd, DOMAIN users)

TeamsInv == TeamsTyped /\ TeamsProper

\* A team takes the place of another, or a new one's, in a step that leaves users
\* alone.
LEMMA TeamPut ==
  ASSUME TeamsInv, NEW id \in Ids, NEW team \in Team,
         DOMAIN teams' = DOMAIN teams \cup {id}, teams'[id] = team,
         \A t \in DOMAIN teams : t # id => teams'[t] = teams[t],
         UNCHANGED users, odd \subseteq odd', Proper(team.members, odd', DOMAIN users')
  PROVE  TeamsInv'
<1>1. TeamsTyped'
  <2>1. IsFiniteSet(DOMAIN teams')
    BY FS_AddElement DEF TeamsInv, TeamsTyped
  <2> QED BY <2>1 DEF TeamsInv, TeamsTyped
<1>2. ASSUME NEW t \in DOMAIN teams'
      PROVE  Proper(teams'[t].members, odd', DOMAIN users')
  <2>1. CASE t = id
    BY <2>1
  <2>2. CASE t # id
    <3>1. t \in DOMAIN teams /\ teams'[t] = teams[t]
      BY <2>2
    <3>2. Proper(teams[t].members, odd, DOMAIN users)
      BY <3>1 DEF TeamsInv, TeamsProper
    <3> QED BY <3>1, <3>2 DEF Proper
  <2> QED BY <2>1, <2>2
<1> QED BY <1>1, <1>2 DEF TeamsInv, TeamsProper

\* Replacing a field of a team.
LEMMA TeamFields ==
  ASSUME NEW team \in Team, NEW list \in Seq(Ids), NEW name \in TeamNames
  PROVE  /\ team.members \in Seq(Ids)
         /\ [team EXCEPT !.members = list] \in Team
         /\ [team EXCEPT !.members = list].members = list
         /\ [team EXCEPT !.displayName = name] \in Team
         /\ [team EXCEPT !.displayName = name].members = team.members
BY DEF Team

\* A list of a request that is free of slips is proper.
LEMMA SlipsFacts ==
  ASSUME NEW list \in Seq(Ids), UNCHANGED users, odd' = odd \cup Slips(list)
  PROVE  Proper(list, odd', DOMAIN users')
<1>1. "doubled" \notin odd' => Unique(list)
  <2>1. "doubled" \notin odd' => Cardinality(IdsIn(list)) = Len(list)
    BY DEF Slips
  <2> QED BY <2>1, UniqueCardinality
<1>2. odd' \cap {"deleted", "unknown"} = {} => IdsIn(list) \subseteq DOMAIN users
  BY DEF Slips
<1> QED BY <1>1, <1>2 DEF Proper

LEMMA EditTeamProper ==
  ASSUME TeamsInv, NEW team \in TeamBodies, EditTeam(team)
  PROVE  TeamsInv'
<1>1. /\ team \in Team /\ team.members \in Seq(Ids) /\ team.displayName \in TeamNames
      /\ odd' = odd \cup Slips(team.members)
  BY RequestsAssumption DEF EditTeam, Team
<1>2. UNCHANGED users
  BY DEF EditTeam, handleCreateTeam, handleUpdateTeam, handlePatchTeam
<1>3. Proper(team.members, odd', DOMAIN users') /\ odd \subseteq odd'
  BY <1>1, <1>2, SlipsFacts
<1>4. CASE handleCreateTeam(team)
  <2> DEFINE n == Cardinality(DOMAIN teams)
             id == NextId(teams)
  <2>1. id \in Ids
    <3>1. n \in Nat
      BY FS_CardinalityType DEF TeamsInv, TeamsTyped
    <3>2. n + 1 \in Ids
      BY <3>1 DEF Ids
    <3> QED BY <3>2 DEF NextId
  <2>2. teams' = Put(teams, id, team)
    BY <1>4 DEF handleCreateTeam
  <2> HIDE DEF id
  <2>3. /\ DOMAIN teams' = DOMAIN teams \cup {id} /\ teams'[id] = team
        /\ \A t \in DOMAIN teams : t # id => teams'[t] = teams[t]
    BY <2>2 DEF Put
  <2> QED BY <1>1, <1>2, <1>3, <2>1, <2>3, TeamPut
<1>5. ASSUME NEW t \in DOMAIN teams, handleUpdateTeam(t, team)
      PROVE  TeamsInv'
  <2>1. teams' = [teams EXCEPT ![t] = team] /\ t \in Ids
    BY <1>5 DEF handleUpdateTeam, TeamsInv, TeamsTyped
  <2>2. /\ DOMAIN teams' = DOMAIN teams \cup {t} /\ teams'[t] = team
        /\ \A x \in DOMAIN teams : x # t => teams'[x] = teams[x]
    BY <2>1
  <2> QED BY <1>1, <1>2, <1>3, <2>1, <2>2, TeamPut
<1>6. ASSUME NEW t \in DOMAIN teams,
             handlePatchTeam(t, "replace", team.members, team.displayName)
      PROVE  TeamsInv'
  <2> DEFINE new == [teams[t] EXCEPT !.members = team.members]
  <2>1. teams' = [teams EXCEPT ![t] = new] /\ t \in Ids /\ teams[t] \in Team
    BY <1>6 DEF handlePatchTeam, TeamsInv, TeamsTyped
  <2>2. new \in Team /\ new.members = team.members
    BY <1>1, <2>1, TeamFields
  <2> HIDE DEF new
  <2>3. /\ DOMAIN teams' = DOMAIN teams \cup {t} /\ teams'[t] = new
        /\ \A x \in DOMAIN teams : x # t => teams'[x] = teams[x]
    BY <2>1
  <2>4. Proper(new.members, odd', DOMAIN users')
    BY <1>3, <2>2 DEF Proper
  <2> QED BY <1>2, <1>3, <2>1, <2>2, <2>3, <2>4, TeamPut
<1> QED BY <1>4, <1>5, <1>6 DEF EditTeam

\* PATCH keeps members unique by itself, and users if the request names users.
LEMMA EditMembersProper ==
  ASSUME TeamsInv, NEW t \in DOMAIN teams, NEW ids \in Seq(Ids), EditMembers(t, ids)
  PROVE  TeamsInv'
<1> DEFINE list == teams[t].members
<1>1. t \in Ids /\ teams[t] \in Team /\ list \in Seq(Ids)
  BY DEF TeamsInv, TeamsTyped, Team
<1>2. odd' = odd \cup (Slips(ids) \ {"doubled"}) /\ UNCHANGED users /\ odd \subseteq odd'
  BY DEF EditMembers, handlePatchTeam
<1>3. /\ odd' \cap {"deleted", "unknown"} = {} => IdsIn(ids) \subseteq DOMAIN users
      /\ "doubled" \notin odd' => "doubled" \notin odd
  BY <1>2 DEF Slips
<1>4. Proper(list, odd, DOMAIN users)
  BY DEF TeamsInv, TeamsProper
<1>5. PICK new \in Team : teams' = [teams EXCEPT ![t] = new] 
                            /\ Proper(new.members, odd', DOMAIN users')
  <2>1. CASE handlePatchTeam(t, "add", ids, "")
    <3> DEFINE new == [teams[t] EXCEPT !.members = Added(list, ids)]
    <3>1. teams' = [teams EXCEPT ![t] = new]
      BY <2>1 DEF handlePatchTeam
    <3>2. /\ Added(list, ids) \in Seq(Ids)
          /\ IdsIn(Added(list, ids)) = IdsIn(list) \cup IdsIn(ids)
          /\ Unique(list) => Unique(Added(list, ids))
      BY <1>1, AddedFacts
    <3>3. new \in Team /\ new.members = Added(list, ids)
      BY <1>1, <3>2, TeamFields DEF TeamNames
    <3> HIDE DEF new
    <3>4. Proper(new.members, odd', DOMAIN users')
      BY <1>2, <1>3, <1>4, <3>2, <3>3 DEF Proper
    <3> QED BY <3>1, <3>3, <3>4
  <2>2. CASE handlePatchTeam(t, "remove", ids, "")
    <3> DEFINE new == [teams[t] EXCEPT !.members = Removed(list, ids)]
    <3>1. teams' = [teams EXCEPT ![t] = new]
      BY <2>2 DEF handlePatchTeam
    <3>2. /\ Removed(list, ids) \in Seq(Ids)
          /\ IdsIn(Removed(list, ids)) = IdsIn(list) \ IdsIn(ids)
          /\ Unique(list) => Unique(Removed(list, ids))
      BY <1>1, RemovedFacts
    <3>3. new \in Team /\ new.members = Removed(list, ids)
      BY <1>1, <3>2, TeamFields DEF TeamNames
    <3> HIDE DEF new
    <3>4. Proper(new.members, odd', DOMAIN users')
      BY <1>2, <1>3, <1>4, <3>2, <3>3 DEF Proper
    <3> QED BY <3>1, <3>3, <3>4
  <2> QED BY <2>1, <2>2 DEF EditMembers
<1>6. /\ DOMAIN teams' = DOMAIN teams \cup {t} /\ teams'[t] = new
      /\ \A x \in DOMAIN teams : x # t => teams'[x] = teams[x]
  BY <1>5
<1> QED BY <1>1, <1>2, <1>5, <1>6, TeamPut

LEMMA RenameTeamProper ==
  ASSUME TeamsInv, NEW t \in DOMAIN teams, NEW name \in TeamNames, RenameTeam(t, name)
  PROVE  TeamsInv'
<1> DEFINE new == [teams[t] EXCEPT !.displayName = name]
<1>1. /\ teams' = [teams EXCEPT ![t] = new] /\ t \in Ids /\ teams[t] \in Team
      /\ UNCHANGED <<users, odd>>
  BY DEF RenameTeam, handlePatchTeam, history, TeamsInv, TeamsTyped
<1>2. new \in Team /\ new.members = teams[t].members
  <2>1. teams[t].members \in Seq(Ids)
    BY <1>1 DEF Team
  <2> QED BY <1>1, <2>1, TeamFields
<1> HIDE DEF new
<1>3. /\ DOMAIN teams' = DOMAIN teams \cup {t} /\ teams'[t] = new
      /\ \A x \in DOMAIN teams : x # t => teams'[x] = teams[x]
  BY <1>1
<1>4. Proper(new.members, odd', DOMAIN users')
  BY <1>1, <1>2 DEF Proper, TeamsInv, TeamsProper
<1> QED BY <1>1, <1>2, <1>3, <1>4, TeamPut

\* Users come, and go when that is remembered; teams stay.
LEMMA UsersProper ==
  ASSUME TeamsInv, UNCHANGED teams, odd \subseteq odd',
         "deleted" \notin odd' => DOMAIN users \subseteq DOMAIN users'
  PROVE  TeamsInv'
<1>1. TeamsTyped'
  BY DEF TeamsInv, TeamsTyped
<1>2. \A t \in DOMAIN teams' : Proper(teams'[t].members, odd', DOMAIN users')
  BY DEF TeamsInv, TeamsProper, Proper
<1> QED BY <1>1, <1>2 DEF TeamsInv, TeamsProper

LEMMA InitTeams == Init => TeamsInv
<1> SUFFICES ASSUME Init
             PROVE  TeamsInv
  OBVIOUS
<1> DEFINE engineering == [displayName |-> "Engineering", members |-> <<1>>]
           product     == [displayName |-> "Product", members |-> <<2>>]
           marketing   == [displayName |-> "Marketing", members |-> <<>>]
<1>1. teams = <<engineering, product, marketing>> /\ DOMAIN users = 1 .. 3
  <2>1. teams = <<engineering, product, marketing>>
    BY DEF Init, ServerInit, TestTeams
  <2>2. users = TestUsers
    BY DEF Init, ServerInit
  <2>3. DOMAIN TestUsers = 1 .. 3
    BY DEF TestUsers
  <2> QED BY <2>1, <2>2, <2>3
<1>2. engineering \in Team /\ product \in Team /\ marketing \in Team
  BY DEF Team, TeamNames, Ids
<1>3. /\ Proper(engineering.members, odd, DOMAIN users)
      /\ Proper(product.members, odd, DOMAIN users)
      /\ Proper(marketing.members, odd, DOMAIN users)
  BY <1>1 DEF Proper, Unique, IdsIn
<1> HIDE DEF engineering, product, marketing
<1>4. /\ DOMAIN teams = 1 .. 3
      /\ teams[1] = engineering /\ teams[2] = product /\ teams[3] = marketing
  BY <1>1
<1>5. IsFiniteSet(1 .. 3)
  <2>1. 1 \in Int /\ 3 \in Int
    OBVIOUS
  <2> QED BY <2>1, FS_Interval, Zenon
<1>6. \A t \in 1 .. 3 : t \in Ids /\ t \in {1, 2, 3}
  BY DEF Ids
<1>7. TeamsTyped
  BY <1>2, <1>4, <1>5, <1>6 DEF TeamsTyped
<1>8. TeamsProper
  BY <1>3, <1>4, <1>6 DEF TeamsProper
<1> QED BY <1>7, <1>8 DEF TeamsInv

LEMMA NextTeams ==
  ASSUME IInv, TeamsInv, [Next]_vars
  PROVE  TeamsInv'
<1>1. ASSUME NEW user \in User, handleCreateUser(user), UNCHANGED odd
      PROVE  TeamsInv'
  <2>1. DOMAIN users' = DOMAIN users \cup {NextId(users)}
    BY <1>1, CreatedFacts
  <2>2. UNCHANGED teams
    BY <1>1 DEF handleCreateUser
  <2> QED BY <1>1, <2>1, <2>2, UsersProper
<1>2. ASSUME NEW o \in Order, CreateAccount(o)
      PROVE  TeamsInv'
  <2> DEFINE user == [userName |-> o.email, userType |-> OrderedLicense(o), active |-> TRUE]
  <2>1. user \in User
    BY RequestsAssumption
       DEF Order, User, UserNames, OrderedLicense, UserTypes, ViewOnly
  <2>2. handleCreateUser(user) /\ UNCHANGED odd
    BY <1>2 DEF CreateAccount
  <2> HIDE DEF user
  <2> QED BY <1>1, <2>1, <2>2
<1>3. ASSUME NEW user \in UserBodies, CreateUser(user)
      PROVE  TeamsInv'
  BY <1>1, <1>3, RequestsAssumption DEF CreateUser
<1>4. ASSUME NEW id \in DOMAIN users, NEW new, users' = [users EXCEPT ![id] = new],
             UNCHANGED teams, odd \subseteq odd'
      PROVE  TeamsInv'
  BY <1>4, UsersProper
<1>5. ASSUME NEW user \in UserBodies, NEW id \in DOMAIN users, EditUser(id, user)
      PROVE  TeamsInv'
  <2>1. odd \subseteq odd'
    BY <1>5 DEF EditUser
  <2> QED BY <1>4, <1>5, <2>1 DEF EditUser, handleUpdateUser, handlePatchUser
<1>6. ASSUME NEW l, NEW i \in DOMAIN users, RevokeLicense(l, i)
      PROVE  TeamsInv'
  BY <1>4, <1>6 DEF RevokeLicense, handlePatchUser
<1>7. ASSUME NEW id \in DOMAIN users, DeleteUser(id)
      PROVE  TeamsInv'
  BY <1>7, UsersProper DEF DeleteUser, handleDeleteUser
<1>8. ASSUME UNCHANGED <<server, odd>>
      PROVE  TeamsInv'
  BY <1>8, UsersProper DEF server
<1>9. CASE ListUsers \/ EndSync \/ AbortSync \/ UNCHANGED vars
  BY <1>8, <1>9 DEF ListUsers, EndSync, AbortSync, vars, history
<1>10. ASSUME NEW team \in TeamBodies,
              \/ EditTeam(team)
              \/ \E t \in DOMAIN teams :
                   EditMembers(t, team.members) \/ RenameTeam(t, team.displayName)
       PROVE  TeamsInv'
  <2>1. team.members \in Seq(Ids) /\ team.displayName \in TeamNames
    BY RequestsAssumption DEF Team
  <2> QED BY <1>10, <2>1, EditTeamProper, EditMembersProper, RenameTeamProper
<1> QED BY <1>2, <1>3, <1>5, <1>6, <1>7, <1>9, <1>10 DEF Next

\* The members of the teams, beside what is known of users, in every behaviour.
THEOREM TeamsInvariant == Spec => [](IInv /\ TeamsInv)
<1>1. IInv /\ TeamsInv /\ [Next]_vars => (IInv /\ TeamsInv)'
  BY NextTeams, NextIInv, IdleIInv
<1> QED BY <1>1, InitIInv, InitTeams, PTL DEF Spec

\* main.go's PATCH of a team keeps its members unique, whatever it adds, repeats
\* and removes: each id to add is compared with the members there are and with
\* those added before it, and removing keeps the others in their order.
THEOREM UniqueCorrect == Spec => []MembersUnique
<1>1. IInv /\ TeamsInv => MembersUnique
  <2> SUFFICES ASSUME TeamsInv, "doubled" \notin odd, NEW t \in DOMAIN teams
               PROVE  Cardinality(IdsIn(teams[t].members)) = Len(teams[t].members)
    BY DEF MembersUnique
  <2>1. teams[t].members \in Seq(Ids) /\ Unique(teams[t].members)
    BY DEF TeamsInv, TeamsTyped, TeamsProper, Proper, Team
  <2> QED BY <2>1, UniqueCardinality
<1> QED BY <1>1, TeamsInvariant, PTL

\* What the platform and a sync under way hold, the counters and the history.
OthersTyped ==
  /\ IsMap(accounts, UserNames)
  /\ licenses \subseteq UserTypes \X Ids
  /\ members.workspace \subseteq Ids /\ members.teams \subseteq Ids \X Ids
  /\ \A listed \in file : IsMap(listed, {enterpriseUserResource(user) : user \in User})
  /\ creates \in 0 .. MaxCreates
  /\ changes \in 0 .. MaxChanges
  /\ odd \subseteq Oddities
  /\ revoked \subseteq UserTypes \X Ids \X Stages
  /\ late \subseteq Ids

LEMMA TypedParts ==
  ASSUME IInv, TeamsInv
  PROVE  TypeOK <=> OthersTyped
<1>1. IsMap(users, User)
  BY DEF IInv, UsersTyped, IsMap
<1>2. IsMap(teams, Team)
  BY DEF TeamsInv, TeamsTyped, IsMap
<1> QED BY <1>1, <1>2 DEF TypeOK, OthersTyped

LEMMA AgedTyped ==
  ASSUME OthersTyped, NEW after \in [Stages -> Stages]
  PROVE  Aged(after) \subseteq UserTypes \X Ids \X Stages
<1> SUFFICES ASSUME NEW g \in revoked
             PROVE  <<g[1], g[2], after[g[3]]>> \in UserTypes \X Ids \X Stages
  BY DEF Aged
<1>1. g \in UserTypes \X Ids \X Stages
  BY DEF OthersTyped
<1>2. g[1] \in UserTypes /\ g[2] \in Ids /\ g[3] \in Stages
  BY <1>1
<1>3. after[g[3]] \in Stages
  BY <1>2
<1> QED BY <1>2, <1>3

LEMMA NextTyped ==
  ASSUME IInv, TeamsInv, OthersTyped, [Next]_vars
  PROVE  OthersTyped'
<1>1. ASSUME NEW user \in User, handleCreateUser(user),
             creates < MaxCreates, creates' = creates + 1,
             accounts' \in {accounts, Put(accounts, NextId(users), user.userName)},
             revoked' = {g \in revoked : g[2] # NextId(users)},
             late' = late \cup {x \in {NextId(users)} : file # {}},
             UNCHANGED <<licenses, members, file, changes, odd>>
      PROVE  OthersTyped'
  <2> DEFINE id == NextId(users)
  <2>1. id \in Ids
    BY <1>1, CreatedFacts
  <2>2. user.userName \in UserNames
    BY DEF User
  <2> HIDE DEF id
  <2>3. IsMap(accounts', UserNames)
    <3>1. CASE accounts' = accounts
      BY <3>1 DEF OthersTyped
    <3>2. CASE accounts' = Put(accounts, id, user.userName)
      BY <2>1, <2>2, <3>2 DEF OthersTyped, IsMap, Put
    <3> QED BY <1>1, <3>1, <3>2 DEF id
  <2>4. creates' \in 0 .. MaxCreates
    BY <1>1, BoundsAssumption DEF OthersTyped
  <2>5. late' \subseteq Ids
    BY <1>1, <2>1 DEF OthersTyped, id
  <2>6. revoked' \subseteq UserTypes \X Ids \X Stages
    BY <1>1 DEF OthersTyped
  <2> QED BY <1>1, <2>3, <2>4, <2>5, <2>6 DEF OthersTyped
<1>2. ASSUME NEW o \in Order, CreateAccount(o)
      PROVE  OthersTyped'
  <2> DEFINE user == [userName |-> o.email, userType |-> OrderedLicense(o), active |-> TRUE]
  <2>1. user \in User /\ user.userName = o.email
    BY RequestsAssumption
       DEF Order, User, UserNames, OrderedLicense, UserTypes, ViewOnly
  <2>2. /\ handleCreateUser(user)
        /\ creates < MaxCreates /\ creates' = creates + 1
        /\ accounts' \in {accounts, Put(accounts, NextId(users), o.email)}
        /\ revoked' = {g \in revoked : g[2] # NextId(users)}
        /\ late' = late \cup {x \in {NextId(users)} : file # {}}
        /\ UNCHANGED <<licenses, members, file, changes, odd>>
    BY <1>2 DEF CreateAccount
  <2> HIDE DEF user
  <2> QED BY <1>1, <2>1, <2>2
<1>3. ASSUME NEW user \in UserBodies, CreateUser(user)
      PROVE  OthersTyped'
  <2>1. user \in User
    BY RequestsAssumption
  <2>2. /\ handleCreateUser(user)
        /\ creates < MaxCreates /\ creates' = creates + 1
        /\ revoked' = {g \in revoked : g[2] # NextId(users)}
        /\ late' = late \cup {x \in {NextId(users)} : file # {}}
        /\ UNCHANGED <<accounts, licenses, members, file, changes, odd>>
    BY <1>3 DEF CreateUser, platform
  <2> QED BY <1>1, <2>1, <2>2
<1>4. CASE ListUsers
  <2> DEFINE listed == [i \in DOMAIN users |-> enterpriseUserResource(users[i])]
  <2>1. file' = {listed} /\ UNCHANGED <<platform, counts, history>>
    BY <1>4 DEF ListUsers
  <2>2. IsMap(listed, {enterpriseUserResource(user) : user \in User})
    BY DEF IsMap, IInv, UsersTyped
  <2> HIDE DEF listed
  <2> QED BY <2>1, <2>2 DEF OthersTyped, platform, counts, history
<1>5. CASE EndSync
  <2>1. PICK listed \in file : /\ accounts' = [i \in DOMAIN listed |-> listed[i].login]
                               /\ licenses' = LicenseGrants(listed)
    BY <1>5 DEF EndSync
  <2>2. /\ members' = MemberGrants /\ file' = {} /\ late' = {}
        /\ UNCHANGED <<counts, odd>> /\ revoked' = Aged(AfterEnd)
    BY <1>5 DEF EndSync
  <2>3. DOMAIN listed \subseteq Ids
    BY DEF OthersTyped, IsMap
  <2>4. \A i \in DOMAIN listed : listed[i].login \in UserNames
    <3> SUFFICES ASSUME NEW i \in DOMAIN listed
                 PROVE  listed[i].login \in UserNames
      OBVIOUS
    <3>1. PICK user \in User : listed[i] = enterpriseUserResource(user)
      BY DEF OthersTyped, IsMap
    <3> QED BY <3>1 DEF enterpriseUserResource, User
  <2>5. IsMap(accounts', UserNames)
    BY <2>1, <2>3, <2>4 DEF IsMap
  <2>6. licenses' \subseteq UserTypes \X Ids
    <3>1. {Enterprise, ViewOnly} \subseteq UserTypes
      BY DEF UserTypes
    <3> QED BY <2>1, <3>1 DEF LicenseGrants
  <2>7. /\ members'.workspace = DOMAIN users
        /\ members'.teams = UNION {{t} \X TeamMemberships(t) : t \in WorkspaceTeams}
    BY <2>2 DEF MemberGrants, WorkspaceMemberships
  <2>8. DOMAIN users \subseteq Ids /\ DOMAIN teams \subseteq Ids
    BY DEF IInv, UsersTyped, TeamsInv, TeamsTyped
  <2>9. members'.teams \subseteq Ids \X Ids
    <3> SUFFICES ASSUME NEW g \in members'.teams
                 PROVE  g \in Ids \X Ids
      OBVIOUS
    <3>1. PICK t \in WorkspaceTeams : g \in {t} \X TeamMemberships(t)
      BY <2>7
    <3> QED BY <2>8, <3>1 DEF WorkspaceTeams, TeamMemberships
  <2>10. revoked' \subseteq UserTypes \X Ids \X Stages
    BY <2>2, AfterFacts, AgedTyped
  <2> QED BY <2>2, <2>5, <2>6, <2>7, <2>8, <2>9, <2>10 DEF OthersTyped, counts
<1>6. CASE AbortSync
  <2>1. revoked' \subseteq UserTypes \X Ids \X Stages
    BY <1>6, AfterFacts, AgedTyped DEF AbortSync
  <2> QED BY <1>6, <2>1 DEF AbortSync, OthersTyped, platform, counts
<1>7. ASSUME Change
      PROVE  creates' = creates /\ changes' \in 0 .. MaxChanges
  BY <1>7, BoundsAssumption DEF Change, OthersTyped
<1>8. ASSUME NEW l \in {Enterprise, ViewOnly}, NEW i \in DOMAIN users, RevokeLicense(l, i)
      PROVE  OthersTyped'
  <2>1. l \in UserTypes /\ i \in Ids
    BY DEF UserTypes, IInv, UsersTyped
  <2>2. /\ licenses' \subseteq licenses
        /\ revoked' \subseteq revoked \cup {<<l, i, IF file = {} THEN "gone" ELSE "listed">>}
        /\ UNCHANGED <<accounts, members, file, odd, late>>
        /\ Change
    BY <1>8 DEF RevokeLicense
  <2>3. revoked' \subseteq UserTypes \X Ids \X Stages
    BY <2>1, <2>2 DEF OthersTyped, Stages
  <2> QED BY <1>7, <2>1, <2>2, <2>3 DEF OthersTyped
<1>9. ASSUME Change, UNCHANGED <<platform, file, late>>,
             odd' \subseteq odd \cup Oddities, revoked' \subseteq revoked
      PROVE  OthersTyped'
  BY <1>7, <1>9 DEF OthersTyped, platform
<1>10. ASSUME NEW user \in UserBodies, NEW id \in DOMAIN users, EditUser(id, user)
       PROVE  OthersTyped'
  BY <1>9, <1>10 DEF EditUser, Renames, Oddities
<1>11. ASSUME NEW id \in DOMAIN users, DeleteUser(id)
       PROVE  OthersTyped'
  BY <1>9, <1>11 DEF DeleteUser, Oddities
<1>12. ASSUME NEW team, EditTeam(team)
       PROVE  OthersTyped'
  BY <1>9, <1>12 DEF EditTeam, Slips, Oddities
<1>13. ASSUME NEW t, NEW ids, EditMembers(t, ids)
       PROVE  OthersTyped'
  BY <1>9, <1>13 DEF EditMembers, Slips, Oddities
<1>14. ASSUME NEW t, NEW name, RenameTeam(t, name)
       PROVE  OthersTyped'
  BY <1>9, <1>14 DEF RenameTeam, history
<1>15. CASE UNCHANGED vars
  BY <1>15 DEF vars, platform, counts, history, OthersTyped
<1> QED BY <1>2, <1>3, <1>4, <1>5, <1>6, <1>8, <1>10, <1>11, <1>12, <1>13, <1>14, <1>15 DEF Next

\* The connector, the platform and the server stay within their types: every id
\* given or listed is one of main.go's, which count from one, and the license
\* grants that enterprise_users.go derives name licenses.
THEOREM TypeCorrect == Spec => []TypeOK
<1>1. Init => OthersTyped
  <2> SUFFICES ASSUME Init
               PROVE  OthersTyped
    OBVIOUS
  <2>1. IsMap(accounts, UserNames)
    BY DEF Init, IsMap
  <2> QED BY <2>1, BoundsAssumption DEF Init, OthersTyped
<1>2. IInv /\ TeamsInv /\ OthersTyped /\ [Next]_vars => OthersTyped'
  BY NextTyped
<1>3. IInv /\ TeamsInv /\ OthersTyped => TypeOK
  BY TypedParts
<1> QED BY <1>1, <1>2, <1>3, TeamsInvariant, PTL DEF Spec

\* A user main.go creates is in nobody's team: his id is that of no user there
\* is, and the teams hold ids of users only, unless somebody was deleted or a
\* request named an id nobody has.
THEOREM OutsideTeamsCorrect == Spec => CreatedOutsideTeams
<1>1. ASSUME IInv, TeamsInv, NEW user \in User, handleCreateUser(user),
             odd \cap {"deleted", "unknown"} = {}, NEW t \in DOMAIN teams
      PROVE  {users'[i].userName : i \in TeamMemberships(t)'} =
             {users[i].userName : i \in TeamMemberships(t)}
  <2> DEFINE id == NextId(users)
  <2>1. /\ DOMAIN users' = DOMAIN users \cup {id} /\ id \notin DOMAIN users
        /\ \A i \in DOMAIN users : i # id => users'[i] = users[i]
    BY <1>1, CreatedFacts
  <2>2. IdsIn(teams[t].members) \subseteq DOMAIN users /\ UNCHANGED teams
    BY <1>1 DEF TeamsInv, TeamsProper, Proper, handleCreateUser
  <2> HIDE DEF id
  <2>3. TeamMemberships(t)' = TeamMemberships(t) /\ TeamMemberships(t) \subseteq DOMAIN users
    BY <2>1, <2>2 DEF TeamMemberships, IdsIn
  <2>4. \A i \in TeamMemberships(t) : users'[i] = users[i]
    BY <2>1, <2>3
  <2> QED BY <2>3, <2>4
<1>2. ASSUME Next, creates' # creates
      PROVE  \E user \in User : handleCreateUser(user)
  <2>1. CASE \E o \in Order : CreateAccount(o)
    <3>1. PICK o \in Order : CreateAccount(o)
      BY <2>1
    <3>2. [userName |-> o.email, userType |-> OrderedLicense(o), active |-> TRUE] \in User
      BY RequestsAssumption
         DEF Order, User, UserNames, OrderedLicense, UserTypes, ViewOnly
    <3> QED BY <3>1, <3>2 DEF CreateAccount
  <2>2. CASE \E user \in UserBodies : CreateUser(user)
    BY <2>2, RequestsAssumption DEF CreateUser
  <2> QED BY <1>2, <2>1, <2>2 DEF Next, ListUsers, EndSync, AbortSync, counts, RevokeLicense,
              Change, EditUser, DeleteUser, EditTeam, EditMembers, RenameTeam
<1>3. IInv /\ TeamsInv /\ [Next]_vars =>
        [creates' # creates /\ odd \cap {"deleted", "unknown"} = {} =>
           \A t \in DOMAIN teams :
             {users'[i].userName : i \in TeamMemberships(t)'} =
             {users[i].userName : i \in TeamMemberships(t)}]_vars
  BY <1>1, <1>2
<1> QED BY <1>3, TeamsInvariant, PTL DEF Spec, CreatedOutsideTeams

=============================================================================
