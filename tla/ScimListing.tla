------------------------------ MODULE ScimListing ------------------------------
(***************************************************************************)
(* Listing the users of an organisation through SCIM, page by page         *)
(* (pkg/connector/enterprise_users.go, List), as the SDK's syncer drives   *)
(* it: the page token is a position in the organisation's users, pages are *)
(* answered through the HTTP cache, a sync keeps what it has listed and is *)
(* continued from its last checkpoint when it is interrupted, and the      *)
(* caches are cleared when a sync has come to its end.  Users join and     *)
(* leave meanwhile.                                                        *)
(***************************************************************************)
EXTENDS Naturals, FiniteSets, SequencesExt

CONSTANTS
  Users,
  PageSize,     \* ResourcesPageSize, 100 in the code
  CacheOn,      \* FALSE with BATON_DISABLE_HTTP_CACHE
  OneShot,      \* one process per sync, which resumes; else one for all of them
  None,         \* no page in the cache, no unfinished sync in the file
  Unreadable,   \* an answer of SCIM's that does not decode
  MaxSyncs,     \* bound: syncs started
  MaxFails,     \* bound: syncs that fail
  MaxJoins,     \* bound: users that join
  MaxLeaves     \* bound: users that leave

Positions == 1 .. Cardinality(Users) + 1

\* An answer of GET /Users?startIndex=...&count=...
Page == [users : Seq(Users), total : Nat]

Unfinished == [saved : Positions, listed : SUBSET Users]

ASSUME ConstantsAssumption ==
  /\ IsFiniteSet(Users)
  /\ PageSize \in Nat \ {0}
  /\ CacheOn \in BOOLEAN
  /\ OneShot \in BOOLEAN
  /\ None \notin Page \cup Unfinished
  /\ Unreadable \notin Page \cup {None}
  /\ MaxSyncs \in Nat
  /\ MaxFails \in Nat
  /\ MaxJoins \in Nat
  /\ MaxLeaves \in Nat

VARIABLES
  users,    \* Asana's: the organisation's users in the order SCIM lists them
  cache,    \* the cached page at each position
  phase,    \* where the sync is
  start,    \* its page token
  saved,    \* the page token of its last checkpoint
  listed,   \* the users it has stored
  file,     \* what the file of a process per sync holds: an unfinished sync
  syncs, fails, joins, leaves,  \* counters for the bounds
  steady,   \* history: the users who have been there since the sync started
  left      \* history: how many have left since then

sync    == <<phase, start, saved, listed, file>>
counts  == <<syncs, fails, joins, leaves>>
history == <<steady, left>>
vars    == <<users, cache, sync, counts, history>>

Phases == {"idle", "listing", "listed", "failed", "ended"}

Empty == [i \in Positions |-> None]

-----------------------------------------------------------------------------
Init ==
  /\ users \in UNION {[1 .. n -> Users] : n \in 0 .. Cardinality(Users)}
  /\ IsInjective(users)
  /\ cache = Empty
  /\ phase = "idle"
  /\ start = 1
  /\ saved = 1
  /\ listed = {}
  /\ file = None
  /\ syncs = 0
  /\ fails = 0
  /\ joins = 0
  /\ leaves = 0
  /\ steady = {}
  /\ left = 0

\* A new sync starts from nothing, unless the file holds one to resume. A
\* service has no file: it discards a sync that failed.
StartSync ==
  /\ phase \in {"idle", "ended", "failed"}
  /\ file = None
  /\ syncs < MaxSyncs
  /\ syncs' = syncs + 1
  /\ phase' = "listing"
  /\ start' = 1
  /\ saved' = 1
  /\ listed' = {}
  /\ steady' = ToSet(users)
  /\ left' = 0
  /\ UNCHANGED <<users, cache, file, fails, joins, leaves>>

\* What SCIM answers at a position: as many users as asked for or fewer, none
\* only behind the last, and how many there are.
Answers(from) ==
  IF from > Len(users)
  THEN {[users |-> <<>>, total |-> Len(users)]}
  ELSE {[users |-> SubSeq(users, from, to), total |-> Len(users)] :
          to \in {n \in from .. Len(users) : n < from + PageSize}}

\* Mutant: one too far, up to an empty page.
NextStartBeyond(from, page) ==
  IF page.users # <<>> THEN from + Len(page.users) + 1 ELSE 0

\* Mutant: the last user of the collection gets no page of his own.
NextStartShort(from, page) ==
  IF page.users # <<>> /\ from + Len(page.users) < page.total
  THEN from + Len(page.users)
  ELSE 0

\* Mutant: the token of a page is its own.
NextStartSame(from, page) ==
  IF page.users # <<>> /\ from + Len(page.users) <= page.total THEN from ELSE 0

\* The token of the next page, 0 behind the last.
NextStart(from, page) ==
  IF page.users # <<>> /\ from + Len(page.users) <= page.total
  THEN from + Len(page.users)
  ELSE 0

\* One page is asked for, from the cache or from SCIM, stored, and the token
\* moved on.
ListPage ==
  /\ phase = "listing"
  /\ cache[start] # Unreadable
  /\ \E page \in IF cache[start] # None THEN {cache[start]} ELSE Answers(start) :
       /\ cache' = IF CacheOn THEN [cache EXCEPT ![start] = page] ELSE cache
       /\ listed' = listed \cup ToSet(page.users)
       /\ LET next == NextStart(start, page) IN
          \/ /\ next # 0
             /\ start' = next
             /\ UNCHANGED phase
          \/ /\ next = 0
             /\ phase' = "listed"
             /\ UNCHANGED start
  /\ UNCHANGED <<users, saved, file, counts, history>>

\* The syncer saves its position now and then.
Checkpoint ==
  /\ phase = "listing"
  /\ saved # start
  /\ saved' = start
  /\ UNCHANGED <<users, cache, phase, start, listed, file, counts, history>>

\* Everything after the users went well too: the sync is sealed, and Cleanup
\* clears the caches.
EndSync ==
  /\ phase = "listed"
  /\ phase' = "ended"
  /\ file' = None
  /\ cache' = Empty
  /\ UNCHANGED <<users, start, saved, listed, counts, history>>

\* Sync returns early. A service keeps what is cached; a process of its own
\* saves the file and ends.
Abandon(cached) ==
  /\ phase' = "failed"
  /\ IF OneShot
     THEN cache' = Empty /\ file' = [saved |-> saved, listed |-> listed]
     ELSE cache' = cached /\ UNCHANGED file
  /\ UNCHANGED <<users, start, saved, listed, syncs, joins, leaves, history>>

\* A page or something after the users fails for good.
FailSync ==
  /\ phase \in {"listing", "listed"}
  /\ fails < MaxFails
  /\ fails' = fails + 1
  /\ Abandon(cache)

\* A page does not decode, which fails the sync. It is cached all the same, and
\* fails every sync that meets it there.
FailPage ==
  /\ phase = "listing"
  /\ cache[start] \in {None, Unreadable}
  /\ cache[start] = None => fails < MaxFails
  /\ fails' = IF cache[start] = None THEN fails + 1 ELSE fails
  /\ Abandon(IF CacheOn THEN [cache EXCEPT ![start] = Unreadable] ELSE cache)

\* The next process continues the file's sync from its last checkpoint.
ResumeSync ==
  /\ phase = "failed"
  /\ file # None
  /\ phase' = "listing"
  /\ start' = file.saved
  /\ saved' = file.saved
  /\ listed' = file.listed
  /\ UNCHANGED <<users, cache, file, counts, history>>

\* The process is killed, with its cache and with all it has not saved to the
\* file.
Restart ==
  /\ cache' = Empty
  /\ phase' = IF phase \in {"listing", "listed"} THEN "failed" ELSE phase
  /\ UNCHANGED <<users, start, saved, listed, file, counts, history>>

-----------------------------------------------------------------------------
(* Users come and go. SCIM lists new ones last. *)

Join(u) ==
  /\ joins < MaxJoins
  /\ u \notin ToSet(users)
  /\ joins' = joins + 1
  /\ users' = Append(users, u)
  /\ UNCHANGED <<cache, sync, syncs, fails, leaves, history>>

Leave(i) ==
  /\ leaves < MaxLeaves
  /\ leaves' = leaves + 1
  /\ users' = RemoveAt(users, i)
  /\ steady' = steady \ {users[i]}
  /\ left' = left + 1
  /\ UNCHANGED <<cache, sync, syncs, fails, joins>>

\* An entry's hour is over, or the cache is full.
Evict(i) ==
  /\ cache[i] # None
  /\ cache' = [cache EXCEPT ![i] = None]
  /\ UNCHANGED <<users, sync, counts, history>>

-----------------------------------------------------------------------------
Next ==
  \/ StartSync
  \/ ListPage
  \/ Checkpoint
  \/ EndSync
  \/ FailSync
  \/ FailPage
  \/ ResumeSync
  \/ Restart
  \/ \E u \in Users : Join(u)
  \/ \E i \in DOMAIN users : Leave(i)
  \/ \E i \in Positions : Evict(i)

Spec == Init /\ [][Next]_vars

\* Requests end: a sync that is listing gets its page, or one that fails it.
FairSpec == Spec /\ WF_vars(ListPage \/ FailPage)

-----------------------------------------------------------------------------
TypeOK ==
  /\ users \in Seq(Users)
  /\ cache \in [Positions -> Page \cup {Unreadable, None}]
  /\ phase \in Phases
  /\ start \in Positions
  /\ saved \in Positions
  /\ listed \in SUBSET Users
  /\ file \in Unfinished \cup {None}
  /\ syncs \in 0 .. MaxSyncs
  /\ fails \in 0 .. MaxFails
  /\ joins \in 0 .. MaxJoins
  /\ leaves \in 0 .. MaxLeaves
  /\ steady \in SUBSET Users
  /\ left \in Nat

\* A sync that has listed the users has every user who was there all along,
\* but for as many as left meanwhile: each one who leaves moves those behind
\* him one position down, and at most one of them across the page token.
SteadyListed ==
  phase \in {"listed", "ended"} => Cardinality(steady \ listed) <= left

\* Listing comes to an end, unless the sync is interrupted: the token moves
\* forward and the users are finitely many.
ListingEnds == phase = "listing" ~> phase # "listing"

=============================================================================
