------------------------------ MODULE SyncProofs -------------------------------
(***************************************************************************)
(* Theorems about the sync of Memberships: whatever joins, leaves and      *)
(* changes of role happen between its pages, a listing misses no more of   *)
(* those who stay than have left, has each of them once, in the right      *)
(* role, and asks for a bounded number of pages.                           *)
(***************************************************************************)
EXTENDS MembershipsProofs

\* What a listing has stored of a member.
Of(l, m) == {e \in stored : e.listing = l /\ e.user = m.user}

\* The listings of places.
Listings == {i \in DOMAIN Order : Order[i] # "teams"}

Place(i) == About[Order[i]]

\* Who stays and should have been stored by listing i: all, once it is over; those
\* at offsets before the token, while it lasts.
Due(i) ==
  {m \in steady[Place(i)] :
     \/ i < at
     \/ i = at /\ \E k \in DOMAIN roster[Place(i)] : k <= token /\ roster[Place(i)][k] = m}

Missed(i) == {m \in Due(i) : Of(Order[i], m) = {}}

\* Who is steady is still there, and there are finitely many.
SteadyThere ==
  \A p \in Places : IsFiniteSet(steady[p]) /\ \A m \in steady[p] : Has(roster, p, m)

\* Everybody who leaves moves at most one of those behind in front of the token.
FewMissed == \A i \in Listings : Cardinality(Missed(i)) <= left[Place(i)]

\* Listings to come have nothing stored.
NothingYet == \A i \in Listings : i > at => \A e \in stored : e.listing # Order[i]

\* What is stored of somebody steady is true, and the same each time.
TrueEntries ==
  \A i \in Listings : \A m \in steady[Place(i)] : \A e \in Of(Order[i], m) : e = Entry(Order[i], m)

SyncInv == SteadyThere /\ FewMissed /\ NothingYet /\ TrueEntries

-----------------------------------------------------------------------------
(* Cardinalities. *)

LEMMA ListingPlace ==
  ASSUME NEW i \in Listings
  PROVE  /\ Place(i) \in Places /\ i \in 1 .. 4
         /\ Collection(Order[i]) = roster[Place(i)]
<1>1. i \in {1, 3, 4}
  BY OrderFacts DEF Listings
<1>2. Place(i) \in Places
  BY <1>1, OrderFacts DEF Place, Places
<1> QED BY <1>1, <1>2, OrderFacts DEF Collection, Place, Listings

LEMMA MissedFinite ==
  ASSUME SteadyThere, NEW i \in Listings
  PROVE  IsFiniteSet(Missed(i)) /\ Cardinality(Missed(i)) \in Nat
<1>1. IsFiniteSet(steady[Place(i)])
  BY ListingPlace DEF SteadyThere
<1>2. Missed(i) \in SUBSET steady[Place(i)]
  BY DEF Missed, Due
<1>3. IsFiniteSet(Missed(i))
  BY <1>1, <1>2, FS_Subset
<1> QED BY <1>3, FS_CardinalityType

\* A set that is within another is no larger; nor is it by more than one, if
\* within another but for one element.
LEMMA NoLarger ==
  ASSUME NEW S, NEW T, IsFiniteSet(T), S \subseteq T
  PROVE  IsFiniteSet(S) /\ Cardinality(S) \in Nat /\ Cardinality(S) <= Cardinality(T)
<1>1. S \in SUBSET T
  OBVIOUS
<1>2. IsFiniteSet(S) /\ Cardinality(S) <= Cardinality(T)
  BY <1>1, FS_Subset
<1> QED BY <1>2, FS_CardinalityType

LEMMA LargerByOne ==
  ASSUME NEW S, NEW T, NEW x, IsFiniteSet(T), S \subseteq T \cup {x}
  PROVE  Cardinality(S) \in Nat /\ Cardinality(S) <= Cardinality(T) + 1
<1>1. /\ IsFiniteSet(T \cup {x}) /\ Cardinality(T) \in Nat
      /\ Cardinality(T \cup {x}) = Cardinality(T) \/ Cardinality(T \cup {x}) = Cardinality(T) + 1
  BY FS_AddElement, FS_CardinalityType
<1>2. Cardinality(S) \in Nat /\ Cardinality(S) <= Cardinality(T \cup {x})
  BY <1>1, NoLarger
<1>3. Cardinality(T) + 1 \in Nat
  BY <1>1
<1> QED BY <1>1, <1>2, <1>3

LEMMA RangeFinite ==
  ASSUME NEW S, NEW seq \in Seq(S)
  PROVE  IsFiniteSet({seq[k] : k \in DOMAIN seq})
<1> DEFINE T == {seq[k] : k \in DOMAIN seq}
<1>1. DOMAIN seq = 1 .. Len(seq) /\ Len(seq) \in Nat
  OBVIOUS
<1>2. IsFiniteSet(DOMAIN seq)
  <2>1. 1 \in Int /\ Len(seq) \in Int
    BY <1>1
  <2> QED BY <1>1, <2>1, FS_Interval
<1>3. seq \in Surjection(DOMAIN seq, T)
  <2>1. seq \in [DOMAIN seq -> T]
    OBVIOUS
  <2> QED BY <2>1 DEF Surjection
<1> QED BY <1>2, <1>3, FS_Surjection

-----------------------------------------------------------------------------
(* How rosters change: whoever was there before is where they were, or one   *)
(* place further to the front, and then somebody has left.                   *)

SomebodyLeft(r, p) == \E u \in Members(p) : ~UserIn(r, p, u)

Shifts(r) ==
  \A p \in Places : \A k \in DOMAIN r[p] :
    Has(roster, p, r[p][k]) =>
      \/ k \in DOMAIN roster[p] /\ roster[p][k] = r[p][k]
      \/ k + 1 \in DOMAIN roster[p] /\ roster[p][k + 1] = r[p][k] /\ SomebodyLeft(r, p)

LEMMA JoinedShifts ==
  ASSUME NEW p \in Places, NEW u \in Users, roster \in Rosters
  PROVE  Shifts(Joined(p, u))
<1>1. CASE u \in Members(p)
  BY <1>1 DEF Joined, Shifts
<1>2. CASE u \notin Members(p)
  <2> DEFINE m == [user |-> u, flags |-> JoinFlags[p]]
             seq == roster[p]
  <2>1. seq \in Seq(Membership) /\ Len(seq) \in Nat /\ DOMAIN seq = 1 .. Len(seq)
    BY DEF Rosters
  <2>2. m.user = u
    OBVIOUS
  <2>3. ~Has(roster, p, m)
    BY <1>2, <2>2 DEF Has, Members
  <2> HIDE DEF m
  <2>4. /\ \A k \in 1 .. Len(seq) : Append(seq, m)[k] = seq[k]
        /\ Append(seq, m)[Len(seq) + 1] = m
        /\ DOMAIN Append(seq, m) = 1 .. Len(seq) + 1
    BY <2>1
  <2>5. Joined(p, u) = [roster EXCEPT ![p] = Append(seq, m)]
    BY <1>2 DEF Joined, m
  <2>6. \A q \in Places : Joined(p, u)[q] = IF q = p THEN Append(seq, m) ELSE roster[q]
    BY <2>5 DEF Rosters
  <2>7. ASSUME NEW k \in DOMAIN Append(seq, m), Has(roster, p, Append(seq, m)[k])
        PROVE  k \in DOMAIN seq /\ seq[k] = Append(seq, m)[k]
    BY <2>1, <2>3, <2>4, <2>7
  <2> QED BY <2>6, <2>7 DEF Shifts
<1> QED BY <1>1, <1>2

LEMMA PartedShifts ==
  ASSUME NEW p \in Places, NEW u \in Users, roster \in Rosters
  PROVE  Shifts(Parted(p, u))
<1>1. CASE u \notin Members(p)
  BY <1>1 DEF Parted, Shifts
<1>2. CASE u \in Members(p)
  <2> DEFINE seq == roster[p]
             c == CHOOSE k \in DOMAIN seq : seq[k].user = u
             w == Without(seq, u)
  <2>1. seq \in Seq(Membership) /\ Len(seq) \in Nat /\ DOMAIN seq = 1 .. Len(seq)
    BY DEF Rosters
  <2>2. c \in 1 .. Len(seq)
    BY <1>2, <2>1 DEF Members
  <2>3. w = [k \in 1 .. Len(seq) - 1 |-> IF k < c THEN seq[k] ELSE seq[k + 1]]
    BY DEF Without
  <2>4. Parted(p, u) = [roster EXCEPT ![p] = w]
    BY <1>2 DEF Parted
  <2>5. SomebodyLeft(Parted(p, u), p)
    BY <1>2, PartedFacts DEF SomebodyLeft
  <2> HIDE DEF w, c
  <2>6. \A q \in Places : Parted(p, u)[q] = IF q = p THEN w ELSE roster[q]
    BY <2>4 DEF Rosters
  <2>7. ASSUME NEW k \in DOMAIN w
        PROVE  \/ k \in DOMAIN seq /\ seq[k] = w[k]
               \/ k + 1 \in DOMAIN seq /\ seq[k + 1] = w[k]
    BY <2>1, <2>2, <2>3
  <2> QED BY <2>5, <2>6, <2>7 DEF Shifts
<1> QED BY <1>1, <1>2

\* Other flags make another membership, at the same place.
LEMMA FlagsShifts ==
  ASSUME NEW p \in Places, NEW k \in DOMAIN roster[p], NEW f, roster \in Rosters
  PROVE  Shifts([roster EXCEPT ![p][k].flags = f])
<1> DEFINE m == [roster[p][k] EXCEPT !.flags = f]
           seq == [roster[p] EXCEPT ![k] = m]
           r == [roster EXCEPT ![p][k].flags = f]
<1>1. roster[p][k] \in Membership /\ Distinct(roster[p])
  BY DEF Rosters
<1>2. m.user = roster[p][k].user
  BY <1>1 DEF Membership
<1> HIDE DEF m
<1>3. DOMAIN seq = DOMAIN roster[p] /\ \A j \in DOMAIN seq : seq[j].user = roster[p][j].user
  BY <1>2
<1>4. \A j \in DOMAIN seq : Has(roster, p, seq[j]) => seq[j] = roster[p][j]
  BY <1>1, <1>3 DEF Has, Distinct
<1> HIDE DEF seq
<1>5. r = [roster EXCEPT ![p] = seq]
  BY DEF seq, m
<1> HIDE DEF r
<1>6. \A q \in Places : r[q] = IF q = p THEN seq ELSE roster[q]
  BY <1>5 DEF Rosters
<1>7. Shifts(r)
  BY <1>3, <1>4, <1>6 DEF Shifts
<1> QED BY <1>7 DEF r

\* A step that remembers a shifted roster and leaves the sync alone keeps its
\* invariant: somebody who leaves is counted.
LEMMA RememberSync ==
  ASSUME TypeOK, SyncInv, NEW r \in Rosters, NEW actor, Remember(r, actor), Shifts(r), UNCHANGED syncer
  PROVE  SyncInv'
<1>1. /\ roster' = r /\ UNCHANGED <<at, token, stored>>
      /\ \A p \in Places : steady'[p] = {m \in steady[p] : Has(r, p, m)}
      /\ \A p \in Places :
           left'[p] = IF at # 0 /\ SomebodyLeft(r, p) THEN left[p] + 1 ELSE left[p]
      /\ \A p \in Places : left[p] \in Nat
  BY DEF Remember, syncer, SomebodyLeft, TypeOK
<1>2. SteadyThere'
  <2> SUFFICES ASSUME NEW p \in Places
               PROVE  IsFiniteSet(steady'[p]) /\ \A m \in steady'[p] : Has(roster', p, m)
    BY DEF SteadyThere
  <2>1. IsFiniteSet(steady[p]) /\ steady'[p] \subseteq steady[p]
    BY <1>1 DEF SyncInv, SteadyThere
  <2> QED BY <1>1, <2>1, NoLarger
<1>3. ASSUME NEW i \in Listings
      PROVE  Cardinality(Missed(i)') <= left'[Place(i)]
  <2> DEFINE p == Place(i)
             x == roster[p][token + 1]
  <2>1. p \in Places /\ IsFiniteSet(Missed(i)) /\ i \in 1 .. 4
    BY ListingPlace, MissedFinite DEF SyncInv
  <2>2. Cardinality(Missed(i)) \in Nat /\ Cardinality(Missed(i)) <= left[p]
    BY MissedFinite DEF SyncInv, FewMissed
  <2>3. \A m : Of(Order[i], m)' = Of(Order[i], m)
    BY <1>1 DEF Of
  <2>4. ASSUME NEW m \in Missed(i)', m \notin Missed(i)
        PROVE  m = x /\ i = at /\ SomebodyLeft(r, p)
    <3>1. /\ m \in steady[p] /\ Has(roster, p, m) /\ m \notin Due(i)
          /\ \/ i < at
             \/ i = at /\ \E k \in DOMAIN r[p] : k <= token /\ r[p][k] = m
      BY <1>1, <2>1, <2>3, <2>4 DEF Missed, Due, SyncInv, SteadyThere
    <3>2. PICK k \in DOMAIN r[p] : k <= token /\ r[p][k] = m /\ i = at
      BY <3>1 DEF Due
    <3>3. ~(k \in DOMAIN roster[p] /\ roster[p][k] = m)
      BY <3>1, <3>2 DEF Due
    <3>4. k + 1 \in DOMAIN roster[p] /\ roster[p][k + 1] = m /\ SomebodyLeft(r, p)
      BY <2>1, <3>1, <3>2, <3>3 DEF Shifts
    <3>5. ~(k + 1 <= token)
      BY <3>1, <3>2, <3>4 DEF Due
    <3>6. k + 1 \in Nat /\ token \in Nat /\ k \in Int
      <4>1. r[p] \in Seq(Membership)
        BY <2>1 DEF Rosters
      <4>2. k \in Nat
        BY <3>2, <4>1
      <4> QED BY <4>2 DEF TypeOK
    <3>7. k = token
      BY <3>2, <3>5, <3>6
    <3> QED BY <3>2, <3>4, <3>7
  <2>5. CASE Missed(i)' \subseteq Missed(i)
    <3>1. Cardinality(Missed(i)') \in Nat /\ Cardinality(Missed(i)') <= Cardinality(Missed(i))
      BY <2>1, <2>5, NoLarger
    <3>2. left'[p] >= left[p] /\ left'[p] \in Nat /\ left[p] \in Nat
      BY <1>1, <2>1
    <3> QED BY <2>2, <3>1, <3>2
  <2>6. CASE ~(Missed(i)' \subseteq Missed(i))
    <3>1. Missed(i)' \subseteq Missed(i) \cup {x}
      BY <2>4
    <3>2. i = at /\ SomebodyLeft(r, p)
      BY <2>4, <2>6
    <3>3. left'[p] = left[p] + 1 /\ left[p] \in Nat
      BY <1>1, <2>1, <3>2
    <3>4. /\ Cardinality(Missed(i)') \in Nat
          /\ Cardinality(Missed(i)') <= Cardinality(Missed(i)) + 1
      BY <2>1, <3>1, LargerByOne
    <3> QED BY <2>2, <3>3, <3>4
  <2> QED BY <2>5, <2>6
<1>4. FewMissed'
  BY <1>3 DEF FewMissed, Listings, Place
<1>5. NothingYet'
  BY <1>1 DEF SyncInv, NothingYet, Listings
<1>6. TrueEntries'
  <2>1. \A i \in Listings : steady'[Place(i)] \subseteq steady[Place(i)]
    BY <1>1, ListingPlace
  <2> QED BY <1>1, <2>1 DEF SyncInv, TrueEntries, Of, Listings, Place
<1> QED BY <1>2, <1>4, <1>5, <1>6 DEF SyncInv

\* Steps that the sync and the rosters have no part in.
LEMMA ElsewhereSync ==
  ASSUME SyncInv, UNCHANGED <<roster, at, token, stored, steady, left>>
  PROVE  SyncInv'
<1>1. \A i \in Listings : Missed(i)' = Missed(i)
  BY DEF Missed, Due, Of, Place
<1> QED BY <1>1 DEF SyncInv, SteadyThere, FewMissed, NothingYet, TrueEntries, Of, Listings,
                    Place, Has

LEMMA ExecuteSync ==
  ASSUME IInv, SyncInv, NEW s \in Slots, Execute(s)
  PROVE  SyncInv'
<1>1. CASE Unimplemented(s) \/ Reject(s) \/ Refused(s) \/ Repeat(s)
  BY <1>1, ElsewhereSync DEF Unimplemented, Reject, Refused, Repeat, syncer, history
<1>2. CASE Answered(s) \/ Lost(s)
  <2>1. Sends(s) /\ UNCHANGED syncer
    BY <1>2 DEF Answered, Lost, syncer
  <2>2. \/ Remember(Applied(task[s]), s)
        \/ Remember(roster, s)
    BY <1>2 DEF Answered, Lost
  <2>3. /\ Applied(task[s]) \in Rosters /\ roster \in Rosters
        /\ task[s].place \in Places /\ task[s].user \in Users
    BY <2>1, SendsFacts, RosterIn DEF Tasks
  <2>4. Shifts(roster)
    BY DEF Shifts
  <2>5. Shifts(Applied(task[s]))
    BY <2>3, JoinedShifts, PartedShifts DEF Applied
  <2> QED BY <2>1, <2>2, <2>3, <2>4, <2>5, RememberSync DEF IInv
<1> QED BY <1>1, <1>2 DEF Execute

LEMMA AdminSync ==
  ASSUME IInv, SyncInv, AdminChange
  PROVE  SyncInv'
<1>1. IInv' /\ roster \in Rosters /\ UNCHANGED syncer
  BY AdminChangeStep, RosterIn DEF AdminChange
<1>2. \E r : Remember(r, "none") /\ Shifts(r)
  BY <1>1, JoinedShifts, PartedShifts, FlagsShifts DEF AdminChange
<1>3. PICK r : Remember(r, "none") /\ Shifts(r)
  BY <1>2
<1>4. r \in Rosters
  BY <1>1, <1>3 DEF Remember, IInv, TypeOK, Rosters, Distinct
<1> QED BY <1>1, <1>3, <1>4, RememberSync DEF IInv

-----------------------------------------------------------------------------
(* The sync's own steps. *)

\* Nobody is missed in a sync that begins, or that is not under way.
LEMMA NothingMissed ==
  ASSUME SteadyThere', stored' = {}, left' = [p \in Places |-> 0],
         \A i \in Listings : Due(i)' = {}
  PROVE  SyncInv'
<1>1. ASSUME NEW i \in Listings
      PROVE  Cardinality(Missed(i)') <= left'[Place(i)]
  <2>1. Missed(i)' = {}
    BY DEF Missed
  <2>2. left'[Place(i)] = 0
    BY ListingPlace
  <2> QED BY <2>1, <2>2, FS_EmptySet
<1>2. FewMissed'
  BY <1>1 DEF FewMissed, Listings, Place
<1> QED BY <1>2 DEF SyncInv, NothingYet, TrueEntries, Of

LEMMA BeginSync ==
  ASSUME IInv, StartSync
  PROVE  SyncInv'
<1>1. roster' = roster /\ at' = 1 /\ token' = 0
  BY DEF StartSync
<1>2. \A p \in Places : steady'[p] = {roster[p][k] : k \in DOMAIN roster[p]}
  BY DEF StartSync
<1>3. SteadyThere'
  <2>1. \A p \in Places : roster[p] \in Seq(Membership)
    BY DEF IInv, TypeOK
  <2>2. \A p \in Places : IsFiniteSet(steady'[p])
    BY <1>2, <2>1, RangeFinite
  <2> QED BY <1>1, <1>2, <2>2 DEF SteadyThere, Has
<1>4. ASSUME NEW i \in Listings
      PROVE  Due(i)' = {}
  <2>1. /\ i \in 1 .. 4 /\ Place(i) \in Places
        /\ \A k \in DOMAIN roster[Place(i)] : ~(k <= 0)
    <3>1. roster[Place(i)] \in Seq(Membership)
      BY ListingPlace DEF IInv, TypeOK
    <3> QED BY <3>1, ListingPlace
  <2> QED BY <1>1, <2>1 DEF Due, Place
<1> QED BY <1>3, <1>4, NothingMissed DEF StartSync

LEMMA StopSync ==
  ASSUME EndSync \/ AbortSync
  PROVE  SyncInv'
<1>1. /\ stored' = {} /\ left' = [p \in Places |-> 0]
      /\ \A p \in Places : steady'[p] = {}
  BY DEF EndSync, AbortSync, Forget
<1>2. SteadyThere'
  BY <1>1, FS_EmptySet DEF SteadyThere
<1>3. \A i \in Listings : Due(i)' = {}
  BY <1>1, ListingPlace DEF Due, Place
<1> QED BY <1>1, <1>2, <1>3, NothingMissed

\* What a listing of memberships makes of one names the listing and the member.
LEMMA EntryFacts ==
  ASSUME NEW i \in Listings, NEW m
  PROVE  Entry(Order[i], m).listing = Order[i] /\ Entry(Order[i], m).user = m.user
<1>1. i \in {1, 3, 4}
  BY OrderFacts DEF Listings
<1> QED BY <1>1, OrderFacts DEF Entry, UserEntry, MemberEntry, TeamMemberEntry

\* A page of a listing of memberships: what it stores, and up to where.
LEMMA PageFacts ==
  ASSUME IInv, ListPage, at \in Listings
  PROVE  \E n \in Nat :
           LET seq == roster[Place(at)] IN
           /\ stored' = stored \cup {Entry(Order[at], seq[k]) : k \in token + 1 .. token + n}
           /\ \A k \in token + 1 .. token + n : k \in DOMAIN seq
           /\ \/ at' = at /\ token' = token + n
              \/ at' = at + 1 /\ token' = 0 /\ \A k \in DOMAIN seq : k <= token + n
<1> DEFINE l == Order[at]
           seq == roster[Place(at)]
<1>1. Collection(l) = seq /\ Place(at) \in Places
  BY ListingPlace
<1>2. PICK n \in PageLengths(l) :
        /\ stored' = stored \cup {Entry(l, Collection(l)[k]) : k \in token + 1 .. token + n}
        /\ token' = NextOffset(l, n)
        /\ at' = IF NextOffset(l, n) = 0 THEN at + 1 ELSE at
  BY DEF ListPage
<1>3. /\ token \in Nat /\ at \in Nat /\ seq \in Seq(Membership)
      /\ Len(seq) \in Nat /\ DOMAIN seq = 1 .. Len(seq)
  BY <1>1, ListingPlace DEF IInv, TypeOK
<1> HIDE DEF seq
<1>4. n \in Nat /\ (n > 0 => token + n <= Len(seq))
  BY <1>1, <1>2, <1>3, MembershipsAssumption DEF PageLengths
<1>5. \A k \in token + 1 .. token + n : k \in DOMAIN seq
  BY <1>3, <1>4
<1>6. \/ at' = at /\ token' = token + n
      \/ at' = at + 1 /\ token' = 0 /\ \A k \in DOMAIN seq : k <= token + n
  <2>1. CASE token + n < Len(seq) /\ token + n # 0
    BY <1>1, <1>2, <2>1 DEF NextOffset
  <2>2. CASE token + n < Len(seq) /\ token + n = 0
    <3>1. n = 0 /\ token = 0
      BY <1>3, <1>4, <2>2
    <3>2. Len(seq) - token > 0
      BY <1>3, <2>2, <3>1
    <3>3. n \in 1 .. PageSize
      BY <1>1, <1>2, <1>3, <3>2 DEF PageLengths
    <3> QED BY <3>1, <3>3
  <2>3. CASE ~(token + n < Len(seq))
    BY <1>1, <1>2, <1>3, <1>4, <2>3 DEF NextOffset
  <2> QED BY <2>1, <2>2, <2>3
<1> QED BY <1>1, <1>2, <1>4, <1>5, <1>6 DEF seq

\* A page of a place's memberships: those on it are no longer missed, and those in
\* front of it are as they were.
LEMMA PlacePage ==
  ASSUME IInv, SyncInv, ListPage, at \in Listings
  PROVE  SyncInv'
<1> DEFINE l == Order[at]
           seq == roster[Place(at)]
<1>1. PICK n \in Nat :
           /\ stored' = stored \cup {Entry(l, seq[k]) : k \in token + 1 .. token + n}
           /\ \A k \in token + 1 .. token + n : k \in DOMAIN seq
           /\ \/ at' = at /\ token' = token + n
              \/ at' = at + 1 /\ token' = 0 /\ \A k \in DOMAIN seq : k <= token + n
  BY PageFacts
<1>2. /\ UNCHANGED <<roster, steady, left>>
      /\ token \in Nat /\ at \in 1 .. 4 /\ Place(at) \in Places
      /\ seq \in Seq(Membership) /\ Distinct(seq)
  BY ListingPlace DEF ListPage, history, IInv, TypeOK
<1>3. \A k \in DOMAIN seq : k \in Nat /\ k > 0
  BY <1>2
<1>4. \A e \in stored' : e \in stored \/ e.listing = l
  <2>1. \A k : Entry(l, seq[k]).listing = l
    BY EntryFacts
  <2> QED BY <1>1, <2>1
<1>5. \A i, j \in DOMAIN Order : Order[i] = Order[j] => i = j
  BY OrderFacts
<1>6. SteadyThere'
  BY <1>2 DEF SyncInv, SteadyThere, Has
<1>7. \A m \in steady[Place(at)] : \E k \in DOMAIN seq : seq[k] = m
  BY <1>2 DEF SyncInv, SteadyThere, Has
<1> HIDE DEF seq
<1>8. ASSUME NEW i \in Listings
      PROVE  Missed(i)' \subseteq Missed(i)
  <2> SUFFICES ASSUME NEW m \in Missed(i)'
               PROVE  m \in Missed(i)
    OBVIOUS
  <2>1. Of(Order[i], m) \subseteq Of(Order[i], m)' /\ Of(Order[i], m)' = {} /\ i \in 1 .. 4
    BY <1>1, ListingPlace DEF Of, Missed
  <2>2. /\ m \in steady[Place(i)]
        /\ \/ i < at'
           \/ i = at' /\ \E k \in DOMAIN roster[Place(i)] : k <= token' /\ roster[Place(i)][k] = m
    BY <1>2 DEF Missed, Due, Place
  <2>3. CASE i < at
    BY <2>1, <2>2, <2>3 DEF Missed, Due
  <2>4. CASE i = at
    <3>1. PICK k \in DOMAIN seq : seq[k] = m /\ (at' = at => k <= token + n)
      BY <1>1, <1>2, <1>7, <2>2, <2>4 DEF seq
    <3>2. k <= token + n
      BY <1>1, <3>1
    <3>3. CASE k <= token
      <4>1. m \in Due(i)
        BY <2>2, <2>4, <3>1, <3>3 DEF Due, seq
      <4> QED BY <2>1, <4>1 DEF Missed
    <3>4. CASE ~(k <= token)
      <4>1. k \in token + 1 .. token + n
        BY <1>2, <1>3, <3>2, <3>4
      <4>2. Entry(l, m) \in Of(Order[i], m)'
        <5>1. Entry(l, m) \in stored'
          BY <1>1, <3>1, <4>1
        <5> QED BY <2>4, <5>1, EntryFacts DEF Of
      <4> QED BY <2>1, <4>2
    <3> QED BY <3>3, <3>4
  <2>5. CASE i > at
    <3>1. at' = i /\ token' = 0
      BY <1>1, <1>2, <2>1, <2>2, <2>5
    <3>2. roster[Place(i)] \in Seq(Membership)
      BY ListingPlace DEF IInv, TypeOK
    <3>3. \A k \in DOMAIN roster[Place(i)] : ~(k <= 0)
      BY <3>2
    <3> QED BY <1>2, <2>2, <3>1, <3>3
  <2> QED BY <1>2, <2>1, <2>3, <2>4, <2>5
<1>9. FewMissed'
  <2> SUFFICES ASSUME NEW i \in Listings
               PROVE  Cardinality(Missed(i)') <= left[Place(i)]
    BY <1>2 DEF FewMissed, Listings, Place
  <2>1. Cardinality(Missed(i)') \in Nat /\ Cardinality(Missed(i)') <= Cardinality(Missed(i))
    BY <1>8, MissedFinite, NoLarger DEF SyncInv
  <2>2. Cardinality(Missed(i)) \in Nat /\ Cardinality(Missed(i)) <= left[Place(i)]
    BY MissedFinite DEF SyncInv, FewMissed
  <2>3. left[Place(i)] \in Nat
    BY ListingPlace DEF IInv, TypeOK
  <2> QED BY <2>1, <2>2, <2>3
<1>10. NothingYet'
  <2> SUFFICES ASSUME NEW i \in Listings, i > at', NEW e \in stored'
               PROVE  e.listing # Order[i]
    BY DEF NothingYet, Listings
  <2>1. i > at /\ i \in DOMAIN Order /\ at \in DOMAIN Order
    BY <1>1, <1>2, ListingPlace, OrderFacts
  <2>2. e \in stored => e.listing # Order[i]
    BY <2>1 DEF SyncInv, NothingYet
  <2>3. l # Order[i]
    BY <1>2, <1>5, <2>1
  <2> QED BY <1>4, <2>2, <2>3
<1>11. TrueEntries'
  <2> SUFFICES ASSUME NEW i \in Listings, NEW m \in steady[Place(i)],
                      NEW e \in stored', e.listing = Order[i], e.user = m.user
               PROVE  e = Entry(Order[i], m)
    BY <1>2 DEF TrueEntries, Listings, Place, Of
  <2>1. CASE e \in stored
    BY <2>1 DEF SyncInv, TrueEntries, Of
  <2>2. CASE e \notin stored
    <3>1. PICK k \in token + 1 .. token + n : e = Entry(l, seq[k])
      BY <1>1, <2>2
    <3>2. i = at /\ seq[k].user = m.user /\ k \in DOMAIN seq
      <4>1. e.listing = l /\ e.user = seq[k].user
        BY <3>1, EntryFacts
      <4> QED BY <1>1, <1>5, <4>1 DEF Listings
    <3>3. PICK j \in DOMAIN seq : seq[j] = m
      BY <1>7, <3>2
    <3>4. seq[k] = m
      BY <1>2, <3>2, <3>3 DEF Distinct
    <3> QED BY <3>1, <3>2, <3>4
  <2> QED BY <2>1, <2>2
<1> QED BY <1>6, <1>9, <1>10, <1>11 DEF SyncInv

\* The page of teams says nothing of members; the listing behind it starts anew.
LEMMA TeamsPage ==
  ASSUME IInv, SyncInv, ListPage, at \notin Listings
  PROVE  SyncInv'
<1>1. Order[at] = "teams" /\ at = 2 /\ token \in Nat
  BY OrderFacts DEF ListPage, Listings, IInv, TypeOK
<1>2. PICK n \in PageLengths("teams") :
        /\ stored' = stored \cup {Entry("teams", Collection("teams")[k]) : k \in token + 1 .. token + n}
        /\ token' = NextOffset("teams", n)
        /\ at' = IF NextOffset("teams", n) = 0 THEN at + 1 ELSE at
  BY <1>1 DEF ListPage
<1>3. UNCHANGED <<roster, steady, left>>
  BY DEF ListPage, history
<1>4. \A e \in stored' : e \in stored \/ e.listing = "teams"
  <2>1. \A t : Entry("teams", t).listing = "teams"
    BY DEF Entry, TeamEntry
  <2> QED BY <1>2, <2>1
<1>5. Len(Collection("teams")) = 1
  <2>1. Len(<<TheTeam>>) = 1
    OBVIOUS
  <2> QED BY <2>1 DEF Collection
<1>6. n \in Nat /\ token + n >= 1
  <2>1. CASE token = 0
    BY <1>2, <1>5, <2>1, MembershipsAssumption DEF PageLengths
  <2>2. CASE token # 0
    <3>1. 1 - token <= 0
      BY <1>1, <2>2
    <3>2. n = 0
      BY <1>2, <1>5, <3>1 DEF PageLengths
    <3> QED BY <1>1, <2>2, <3>2
  <2> QED BY <2>1, <2>2
<1>7. NextOffset("teams", n) = 0
  <2>1. ~(token + n < 1)
    BY <1>1, <1>6
  <2> QED BY <1>5, <2>1 DEF NextOffset
<1>8. at' = 3 /\ token' = 0
  BY <1>1, <1>2, <1>7
<1>9. \A i \in Listings : \A m : Of(Order[i], m)' = Of(Order[i], m)
  BY <1>2, <1>4 DEF Listings, Of
<1>10. ASSUME NEW i \in Listings
       PROVE  Due(i)' = Due(i)
  <2>1. i \in {1, 3, 4} /\ roster[Place(i)] \in Seq(Membership)
    BY ListingPlace, OrderFacts DEF Listings, IInv, TypeOK
  <2>2. \A k \in DOMAIN roster[Place(i)] : ~(k <= 0)
    BY <2>1
  <2> QED BY <1>1, <1>3, <1>8, <2>1, <2>2 DEF Due, Place
<1>11. \A i \in Listings : Missed(i)' = Missed(i)
  BY <1>9, <1>10 DEF Missed
<1>12. FewMissed' /\ SteadyThere'
  BY <1>3, <1>11 DEF SyncInv, FewMissed, SteadyThere, Has, Listings, Place
<1>13. NothingYet'
  <2> SUFFICES ASSUME NEW i \in Listings, i > 3, NEW e \in stored'
               PROVE  e.listing # Order[i]
    BY <1>8 DEF NothingYet, Listings
  <2>1. i > at
    BY <1>1, ListingPlace
  <2> QED BY <1>4, <2>1 DEF SyncInv, NothingYet, Listings
<1>14. TrueEntries'
  BY <1>3, <1>9 DEF SyncInv, TrueEntries, Listings, Place
<1> QED BY <1>12, <1>13, <1>14 DEF SyncInv

-----------------------------------------------------------------------------
(* The theorem. *)

LEMMA SyncNext ==
  ASSUME IInv, SyncInv, [Next]_vars
  PROVE  SyncInv'
<1>1. CASE UNCHANGED vars
  BY <1>1, ElsewhereSync DEF vars, syncer, history
<1>2. ASSUME NEW s \in Slots, Submit(s)
      PROVE  SyncInv'
  BY <1>2, ElsewhereSync DEF Submit, syncer
<1>3. CASE ListPage
  BY <1>3, PlacePage, TeamsPage
<1> QED BY <1>1, <1>2, <1>3, ExecuteSync, AdminSync, BeginSync, StopSync DEF Next

LEMMA SyncInit ==
  ASSUME Init
  PROVE  SyncInv
<1>1. \A p \in Places : steady[p] = {} /\ left[p] = 0
  BY DEF Init
<1>2. SteadyThere
  BY <1>1, FS_EmptySet DEF SteadyThere
<1>3. ASSUME NEW i \in Listings
      PROVE  Cardinality(Missed(i)) <= left[Place(i)]
  <2>1. Missed(i) = {}
    BY <1>1, ListingPlace DEF Missed, Due
  <2> QED BY <1>1, <2>1, ListingPlace, FS_EmptySet
<1> QED BY <1>2, <1>3 DEF SyncInv, FewMissed, NothingYet, TrueEntries, Of, Init

\* The role of whoever has the flag looked at first is that flag's.
LEMMA FirstRole ==
  ASSUME NEW flags
  PROVE  /\ "active" \in flags => Role(Workspace, flags) = "Member"
         /\ "admin" \in flags => Role(TheTeam, flags) = teamAdmin
<1>1. ASSUME NEW p \in Places, Cases[p][1][1] \in flags
      PROVE  Role(p, flags) = Cases[p][1][2]
  <2> DEFINE hits == {k \in 1 .. 3 : Cases[p][k][1] \in flags}
  <2>1. 1 \in hits /\ \A j \in hits : 1 <= j
    BY <1>1
  <2>2. (CHOOSE k \in hits : \A j \in hits : k <= j) \in hits
        /\ \A j \in hits : (CHOOSE k \in hits : \A j1 \in hits : k <= j1) <= j
    BY <2>1
  <2>3. (CHOOSE k \in hits : \A j \in hits : k <= j) = 1
    BY <2>1, <2>2
  <2> QED BY <2>1, <2>3 DEF Role
<1>2. /\ Cases[Workspace][1] = <<"active", "Member">>
      /\ Cases[TheTeam][1] = <<"admin", teamAdmin>>
  BY DEF Cases, Workspace, TheTeam
<1> QED BY <1>1, <1>2 DEF Places

\* Every listing that a sync has finished has everybody who was a member
\* throughout, but for as many as have left; each of them once, as what the
\* sync's first case makes of its flags (user.go, workspace.go and team.go, List
\* and Grants with offsets as page tokens).
THEOREM SyncCorrect == Spec => []SteadySynced
<1>1. ASSUME IInv, SyncInv
      PROVE  SteadySynced
  <2> SUFFICES ASSUME NEW i \in Listings, i < at
               PROVE  LET p == Place(i)
                      IN  /\ Cardinality({m \in steady[p] : Of(Order[i], m) = {}}) <= left[p]
                          /\ \A m \in steady[p] : \A e \in Of(Order[i], m) :
                               /\ Cardinality(Of(Order[i], m)) = 1
                               /\ Order[i] = "members" /\ "active" \in m.flags => e.role = "Member"
                               /\ Order[i] = "teamMembers" /\ "admin" \in m.flags => e.role = teamAdmin
    BY DEF SteadySynced, Listings, Place, Of
  <2>1. {m \in steady[Place(i)] : Of(Order[i], m) = {}} = Missed(i)
    BY DEF Missed, Due
  <2>2. ASSUME NEW m \in steady[Place(i)], NEW e \in Of(Order[i], m)
        PROVE  /\ Cardinality(Of(Order[i], m)) = 1
               /\ Order[i] = "members" /\ "active" \in m.flags => e.role = "Member"
               /\ Order[i] = "teamMembers" /\ "admin" \in m.flags => e.role = teamAdmin
    <3>1. e = Entry(Order[i], m) /\ Of(Order[i], m) = {Entry(Order[i], m)}
      BY <1>1, <2>2 DEF SyncInv, TrueEntries
    <3>2. Cardinality(Of(Order[i], m)) = 1
      BY <3>1, FS_Singleton
    <3>3. /\ Order[i] = "members" => e.role = Role(Workspace, m.flags)
          /\ Order[i] = "teamMembers" => e.role = Role(TheTeam, m.flags)
      BY <3>1 DEF Entry, MemberEntry, TeamMemberEntry
    <3> QED BY <3>2, <3>3, FirstRole
  <2> QED BY <1>1, <2>1, <2>2 DEF SyncInv, FewMissed
<1>2. Init => SyncInv
  BY SyncInit
<1>3. IInv /\ SyncInv /\ [Next]_vars => SyncInv'
  BY SyncNext
<1> QED BY <1>1, <1>2, <1>3, Invariant, PTL DEF Spec

-----------------------------------------------------------------------------
(* How many pages a sync may still ask for, at most.                         *)

\* No offset lies beyond the users; no listing, no offset.
OffsetInv ==
  /\ token <= Cardinality(Users)
  /\ at \notin DOMAIN Order => token = 0

PagesLeft == IF at = 0 THEN 0 ELSE (6 - at) * (Cardinality(Users) + 1) - token

PagesLeftOK == PagesLeft \in Nat

UsesUpPages ==
  at # 0 => /\ PagesLeft' <= PagesLeft
            /\ ListPage \/ EndSync => PagesLeft' < PagesLeft

\* Nobody is listed twice, so a place has no more members than there are users.
LEMMA RosterFits ==
  ASSUME IInv, IsFiniteSet(Users), NEW p \in Places
  PROVE  Len(roster[p]) \in Nat /\ Len(roster[p]) <= Cardinality(Users)
<1> DEFINE seq == roster[p]
           user == [k \in 1 .. Len(seq) |-> seq[k].user]
<1>1. /\ seq \in Seq(Membership) /\ Len(seq) \in Nat /\ DOMAIN seq = 1 .. Len(seq)
      /\ Distinct(seq)
  BY DEF IInv, TypeOK
<1>2. \A k \in 1 .. Len(seq) : seq[k].user \in Users
  <2>1. \A k \in 1 .. Len(seq) : seq[k] \in Membership
    BY <1>1
  <2> QED BY <2>1 DEF Membership
<1>3. user \in Injection(1 .. Len(seq), Users)
  BY <1>1, <1>2 DEF Distinct, Injection, IsInjective
<1>4. Cardinality(1 .. Len(seq)) <= Cardinality(Users)
  BY <1>3, FS_Injection
<1>5. Cardinality(1 .. Len(seq)) = Len(seq)
  <2>1. 1 \in Int /\ Len(seq) \in Int
    BY <1>1
  <2>2. Cardinality(1 .. Len(seq)) = IF 1 > Len(seq) THEN 0 ELSE Len(seq) - 1 + 1
    BY <2>1, FS_Interval, Zenon
  <2> QED BY <1>1, <2>2
<1> QED BY <1>1, <1>4, <1>5

\* A page moves the offset on, by what is in it, or is the last of its listing.
LEMMA PageForward ==
  ASSUME IInv, IsFiniteSet(Users), ListPage
  PROVE  /\ at \in 1 .. 4
         /\ \/ at' = at /\ token' \in Nat /\ token < token' /\ token' <= Cardinality(Users)
            \/ at' = at + 1 /\ token' = 0
<1>1. at \in 1 .. 4 /\ token \in Nat
  BY OrderFacts DEF ListPage, IInv, TypeOK
<1> DEFINE l == Order[at]
<1>2. PICK n \in PageLengths(l) :
        /\ token' = NextOffset(l, n)
        /\ at' = IF NextOffset(l, n) = 0 THEN at + 1 ELSE at
  BY DEF ListPage
<1>3. CASE at = 2
  <2>1. l = "teams" /\ Len(Collection(l)) = 1
    BY <1>3, OrderFacts DEF Collection
  <2> HIDE DEF l
  <2>2. token + n >= 1 /\ n \in Nat
    <3>1. CASE token = 0
      BY <1>1, <2>1, <3>1, MembershipsAssumption DEF PageLengths
    <3>2. CASE token # 0
      <4>0. Len(Collection(l)) - token <= 0
        BY <1>1, <2>1, <3>2
      <4>1. n \in {0}
        BY <4>0, Zenon DEF PageLengths
      <4> QED BY <1>1, <3>2, <4>1
    <3> QED BY <3>1, <3>2
  <2>3. NextOffset(l, n) = 0
    <3>0. Len(Collection(l)) = 1
      BY <2>1
    <3>1. token + n < Len(Collection(l)) => FALSE
      <4>1. ~(token + n < 1)
        BY <1>1, <2>2
      <4> QED BY <3>0, <4>1, Zenon
    <3> QED BY <3>1, Zenon DEF NextOffset
  <2> QED BY <1>1, <1>2, <2>3
<1>4. CASE at # 2
  <2>1. at \in Listings
    BY <1>1, <1>4, OrderFacts DEF Listings
  <2>2. Place(at) \in Places /\ Collection(l) = roster[Place(at)]
    BY <2>1, ListingPlace
  <2>3. Len(Collection(l)) \in Nat /\ Len(Collection(l)) <= Cardinality(Users)
    BY <2>2, RosterFits
  <2>4. Cardinality(Users) \in Nat
    BY FS_CardinalityType
  <2> HIDE DEF l
  <2>5. CASE token + n < Len(Collection(l))
    <3>1. n \in 1 .. PageSize /\ PageSize \in Nat
      <4>1. ~(Len(Collection(l)) - token <= 0)
        <5>1. CASE Len(Collection(l)) - token <= 0
          BY <1>1, <2>3, <2>5, <5>1 DEF PageLengths
        <5> QED BY <5>1
      <4> QED BY <4>1, MembershipsAssumption DEF PageLengths
    <3>2. NextOffset(l, n) = token + n /\ token + n # 0
      BY <1>1, <2>5, <3>1 DEF NextOffset
    <3> QED BY <1>1, <1>2, <2>3, <2>4, <2>5, <3>1, <3>2
  <2>6. CASE ~(token + n < Len(Collection(l)))
    BY <1>1, <1>2, <2>6 DEF NextOffset
  <2> QED BY <2>5, <2>6
<1> QED BY <1>3, <1>4

\* What else happens leaves the sync where it is.
LEMMA SyncAlone ==
  ASSUME [Next]_vars
  PROVE  ListPage \/ EndSync \/ AbortSync \/ StartSync \/ UNCHANGED <<at, token>>
BY DEF Next, Submit, Execute, Unimplemented, Reject, Answered, Refused, Lost, Repeat,
       AdminChange, vars, syncer

LEMMA OffsetNext ==
  ASSUME IInv, OffsetInv, IsFiniteSet(Users), [Next]_vars
  PROVE  OffsetInv'
<1>1. Cardinality(Users) \in Nat /\ DOMAIN Order = 1 .. 4 /\ Len(Order) = 4
  BY FS_CardinalityType, OrderFacts
<1>2. CASE ListPage
  BY <1>1, <1>2, PageForward DEF OffsetInv
<1>3. CASE StartSync \/ AbortSync
  BY <1>1, <1>3 DEF OffsetInv, StartSync, AbortSync
<1>4. CASE EndSync
  BY <1>1, <1>4 DEF OffsetInv, EndSync
<1>5. CASE UNCHANGED <<at, token>>
  BY <1>5 DEF OffsetInv
<1> QED BY <1>2, <1>3, <1>4, <1>5, SyncAlone

LEMMA SyncPagesType ==
  ASSUME IsFiniteSet(Users), IInv, OffsetInv
  PROVE  PagesLeftOK
<1>1. /\ Cardinality(Users) \in Nat /\ at \in 0 .. 5 /\ token \in Nat
      /\ token <= Cardinality(Users)
  BY FS_CardinalityType, OrderFacts DEF IInv, TypeOK, OffsetInv
<1>2. ASSUME at \in 1 .. 5
      PROVE  (6 - at) * (Cardinality(Users) + 1) \in Nat
             /\ (6 - at) * (Cardinality(Users) + 1) >= Cardinality(Users) + 1
  <2>1. CASE at = 1
    BY <1>1, <2>1
  <2>2. CASE at = 2
    BY <1>1, <2>2
  <2>3. CASE at = 3
    BY <1>1, <2>3
  <2>4. CASE at = 4
    BY <1>1, <2>4
  <2>5. CASE at = 5
    BY <1>1, <2>5
  <2> QED BY <1>2, <2>1, <2>2, <2>3, <2>4, <2>5
<1> QED BY <1>1, <1>2 DEF PagesLeftOK, PagesLeft

LEMMA SyncPagesCost ==
  ASSUME IsFiniteSet(Users), IInv, OffsetInv, ListPage \/ EndSync
  PROVE  PagesLeft' < PagesLeft
<1>1. /\ Cardinality(Users) \in Nat /\ token \in Nat
      /\ token <= Cardinality(Users)
  BY FS_CardinalityType DEF IInv, TypeOK, OffsetInv
<1>2. CASE EndSync
  BY <1>1, <1>2, OrderFacts DEF EndSync, PagesLeft
<1>3. CASE ListPage
  <2>1. /\ at \in 1 .. 4
        /\ \/ at' = at /\ token' \in Nat /\ token < token'
           \/ at' = at + 1 /\ token' = 0
    BY <1>3, PageForward
  <2>2. PagesLeft = (6 - at) * (Cardinality(Users) + 1) - token
    BY <2>1 DEF PagesLeft
  <2>3. PagesLeft' = (6 - at') * (Cardinality(Users) + 1) - token'
    BY <2>1 DEF PagesLeft
  <2>4. CASE at = 1
    BY <1>1, <2>1, <2>2, <2>3, <2>4
  <2>5. CASE at = 2
    BY <1>1, <2>1, <2>2, <2>3, <2>5
  <2>6. CASE at = 3
    BY <1>1, <2>1, <2>2, <2>3, <2>6
  <2>7. CASE at = 4
    BY <1>1, <2>1, <2>2, <2>3, <2>7
  <2> QED BY <2>1, <2>4, <2>5, <2>6, <2>7
<1> QED BY <1>2, <1>3

\* Each page of a sync, and its end, is one less that it may ask for, and nothing
\* that happens in between, in Asana or by the platform's tasks, gives it one back
\* while the sync goes on: the offsets that the connector takes from Asana's
\* answers move on although members leave in front of them, and behind the last
\* item is the next listing.
THEOREM PagesRunOut ==
  ASSUME IsFiniteSet(Users)
  PROVE  Spec => []PagesLeftOK /\ [][UsesUpPages]_vars
<1>1. Init => OffsetInv
  BY FS_CardinalityType DEF Init, OffsetInv
<1>2. IInv /\ OffsetInv /\ [Next]_vars => OffsetInv'
  BY OffsetNext
<1>3. IInv /\ OffsetInv => PagesLeftOK
  BY SyncPagesType
<1>4. ASSUME IInv, OffsetInv, PagesLeftOK, PagesLeftOK', [Next]_vars, at # 0
      PROVE  /\ PagesLeft' <= PagesLeft
             /\ ListPage \/ EndSync => PagesLeft' < PagesLeft
  <2>1. PagesLeft \in Nat /\ PagesLeft' \in Nat
    BY <1>4 DEF PagesLeftOK
  <2>2. CASE ListPage \/ EndSync
    <3>1. PagesLeft' < PagesLeft
      BY <1>4, <2>2, SyncPagesCost
    <3> QED BY <2>1, <3>1
  <2>3. CASE ~(ListPage \/ EndSync)
    <3>1. at' = 0 \/ UNCHANGED <<at, token>>
      BY <1>4, <2>3, SyncAlone DEF StartSync, AbortSync
    <3>2. PagesLeft' <= PagesLeft
      BY <2>1, <3>1 DEF PagesLeft
    <3> QED BY <2>3, <3>2
  <2> QED BY <2>2, <2>3
<1>5. IInv /\ OffsetInv /\ PagesLeftOK /\ PagesLeftOK' /\ [Next]_vars => [UsesUpPages]_vars
  BY <1>4 DEF UsesUpPages
<1> QED BY <1>1, <1>2, <1>3, <1>5, Invariant, PTL DEF Spec

================================================================================
