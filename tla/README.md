# Formal model of baton-asana

TLA+ specifications of the Baton connector for Asana, checked with TLC and, for
the results listed below, proved with TLAPS. Paths are relative to `src/`.

## 1. The system

baton-asana runs as a child process of the Baton runner. The runner hands it
tasks (sync, grant, revoke, account creation); the connector answers them with
calls of Asana's REST and SCIM APIs through the SDK's HTTP client.

| Component | Code | State it keeps | Operations |
|---|---|---|---|
| License provisioning | `pkg/connector/license.go`, `pkg/asana/scim.go` | none of its own; the accounts are Asana's | Grant, Revoke; the SCIM read and PATCH under them |
| HTTP client and cache | vendored `uhttp` | responses of GETs, one hour or 5 MB, per process | Do, ClearCaches |
| Task runner, retries | vendored `connectorrunner`, `connectorbuilder`, `retry` | running tasks (3 at once, or one per process in one-shot mode), attempts | run, Grant and Revoke loops |
| Syncer | vendored `sync`, `tasks` | page tokens, checkpoint, the file of an unfinished sync | start, list, checkpoint, fail, resume, end, Cleanup |
| Allowed workspaces | `pkg/connector/workspace.go` | `allowedWorkspaces`, its mutex | loadAllowedWorkspaces, List |
| Workspace membership | `pkg/connector/workspace.go` | none | Entitlements, Grants, Grant, Revoke |
| Teams | `pkg/connector/team.go` | none | List, Entitlements, Grants, Grant, Revoke |
| Enterprise users | `pkg/connector/enterprise_users.go` | none; page tokens travel with the syncer | List (SCIM index paging), Grants, CreateAccount |
| Users | `pkg/connector/user.go` | none; page tokens | List (offset paging), CreateAccount |
| Set-up and validation | `pkg/connector/connector.go`, `cmd/baton-asana`, `pkg/config` | options | New, ResourceSyncers, Validate |
| REST client | `pkg/asana/client.go`, `helpers.go` | token, base URL | one method per endpoint |
| Mock server | `cmd/baton-asana-scim-test` | users and teams in memory under an RWMutex | SCIM and REST handlers |

How they interact: every component reads and writes Asana through the HTTP
client, so all of them share one response cache. A PATCH, POST or DELETE does
not invalidate it. The runner overlaps tasks; the components of one process are
shared between them. The SDK repeats a handler from its start when it fails
with a timeout or an unavailable service, three times at most.

What is hard:

* A task reads, decides and writes in separate requests, on a cached copy, with
  other tasks and administrators working on the same account.
* A request that failed for the client may have been applied, or be applied
  later; the handler then starts again.
* The process may die anywhere. Nothing is persisted.
* Lazily loaded state is shared between overlapping calls and kept for ever.
* Pages are listed while the collection changes.

What makes each component correct:

* License provisioning: a success means that the account is as requested; a
  task that has its account to itself is correct through retries and losses; no
  grant lowers an account; only view-only accounts are deprovisioned; "already"
  is said only of what is so; every task ends.
* Cache: a task sees only answers that were once true.
* Allowed workspaces: one load, complete lists, the mutex always given back.
* Membership and teams: a reported success is a membership; roles survive the
  round trip through entitlement ids.
* Listing: nobody who is there throughout a sync is skipped; listings end.
* Accounts: a repeated creation does not make a second account.
* Mock server: ids identify, user names are unique, members exist.

## 2. Modules

| Module | Role |
|---|---|
| `LicenseData` | accounts, requests, and what a request asks for (`Goal`, `Satisfied`), stated independently of the handler |
| `LicensePromise` | abstract specification: a request takes effect at one moment on the account as it is then; success means it is satisfied |
| `LicenseProvisioner` | the detailed model: slots, cache, retries, directory, PATCHes on their way, administrators, restarts |
| `LicenseRefinement` | the refinement mapping and `PromiseKept` |
| `MCLicense` | TLC instances of the above |
| `LicenseProofs` | theorems about the above |
| `AllowedWorkspaces` | the lazily loaded workspaces: mutex, unlocked reads, failing loads |
| `MCWorkspaces`, `AllowedWorkspacesProofs` | its TLC instances and theorems |
| `ScimListing` | listing the organisation's users by SCIM index, as the syncer drives it |
| `MCScimListing`, `ScimListingProofs` | its TLC instances and theorems |
| `ConnectorSetup` | the options of a process, its syncers, what Validate accepts; used by the two below |
| `ScimTestServer` | the mock server: users and teams, one operator per handler |
| `Accounts` | the connector's creation, listing and revocation of SCIM accounts against `ScimTestServer`, other clients beside it |
| `MCAccounts`, `AccountsProofs`, `TeamsProofs` | its TLC instance and theorems: accounts, licenses and syncs; the teams and the types |
| `Memberships` | grants, revocations, invitations and syncs of a workspace and a team over REST |
| `MCMemberships`, `MembershipsProofs`, `SyncProofs` | its TLC instances and theorems: tasks; the sync |

### LicenseProvisioner and the code

`directory` is Asana's state, `cache` the client's copy of `GET /Users/<id>`.
A slot's `pc` follows one execution of Grant or Revoke:

| Action | Code |
|---|---|
| `Submit` | the runner gets a task and a slot (`connectorrunner/runner.go`, `run`) |
| `Lookup` | the checks at the head of `license.go` Grant and Revoke, then the cache lookup in `BaseHttpClient.Do` |
| `Fetch` | the GET answered by Asana, readably or not, refused or failed (`GetScimUser`) |
| `Store` | `Do` writes the answer to the cache, hits included; the handler decides on it (`GrantDecision`, `RevokeDecision`), or fails without a retry on one that does not decode |
| `PatchAnswered`, `PatchLost`, `PatchRefused`, `PatchTimeout` | the outcomes of `UpdateScimUserLicense` and `DeactivateScimUser` for the client and for Asana |
| `LateArrive` | a PATCH that was given up on is applied after all |
| `Failed` | the SDK's retry loop: again, or an error for the platform |
| `AdminChange`, `Evict`, `Cleanup`, `Restart` | the environment |

The read is split in three because other tasks may act between the cache's
miss, Asana's answer and the cache's fill. `seen` is the local `scimUser`.
Account data is reduced to the user type and the active flag, the only fields
the handlers read or write; error kinds to whether the SDK retries them. A
`"other"` user type stands for none and for every license the connector does
not know. The directory's PATCH is external: it is modelled from the operations
the client sends (replace `userType`, replace `active`).

`Do` caches every 200 answer before it returns the error of decoding it
(`uhttp/wrapper.go`). So an answer that does not decode, `Unreadable`, stays for
its hour and fails every task that reads it. A PATCH that is refused may be
retried whatever the account's state, since a connection never made is a refusal
as well; one that is cut off is retried after a timeout and not after the task
was cancelled.

`base` and `isolated` are history: `isolated` holds the slots whose account
nobody else has touched since the task was submitted, and whose cached copy was
true then. They restrict nothing.

### AllowedWorkspaces and the code

`Check` is the unlocked test of List, `Lock` the entry of
`loadAllowedWorkspaces` up to the empty slice, `Get` and `GetFailed` the request
(`AuthCheck` or `ListAllWorkspaces`, through the cache), `AppendNext` one
iteration of a loop of appends and the deferred unlock after the last, `Read`
the unlocked range over the slice, `Info` and `InfoFailed` the `GetWorkspace`
calls. The race of `Read` with an append is undefined in Go's memory model:
`Read` sees any length the slice has had, or a header whose parts do not belong
together, which no lookup survives. `Validate` is the syncer's call before each
sync; it makes the same request and so fills the cache entry of the load.
Consequently a load fails only with the cache disabled or the entry gone, the
former in the run that shows what a failure does, or on an entry that does not
decode: that one is cached too (`RequestFails`), and until it expires every
`Validate` and every load fails on it.

### ScimListing and the code

`users` is Asana's list in SCIM's order, `cache` the client's copies of
`GET /Users?startIndex=..`. `ListPage` is one call of `List`: the page at the
token, from the cache or from SCIM (`Answers`: a page may be shorter than asked
for), stored by the syncer, and the token moved on (`NextStart`). `Checkpoint`,
`EndSync`, `FailSync`, `FailPage`, `ResumeSync` and `Restart` are the syncer's. With
`OneShot` a process makes one sync: one that fails leaves its checkpoint and
users in `file` for the next process, one that is killed leaves what was there
before it. Otherwise a service makes them all and discards one that fails. The
syncer's other store, a ledger, commits the token with every page; it is the
case in which `Checkpoint` follows every page. `steady` and `left` are history:
the users who have been there since the sync started, and how many have left.

`List` is called for every workspace with the same answer, the organisation's
users; the model has one workspace. A SCIM answer that does not decode fails the
sync (`FailPage`) and is cached all the same: in a service it fails every sync
that meets it, until it expires; a process per sync takes it along when it ends
(`Abandon`).

### ConnectorSetup and the code

Operators without state: `Config` is the constraint on the fields
(`pkg/config/config.go`), `ResourceSyncers` which resource types have a syncer
and so a provisioner, `Validate` what a sync begins with, `Complete` the fields
both implementations of `CreateAccount` ask for. `Accounts` takes it with the SCIM
option, `Memberships` without.

### ScimTestServer, Accounts and the code

A handler of the mock server holds the RWMutex from its first look at the maps
to its last, so it is one step; the handlers are operators with their guard and
effect, `handleCreateUser` and so on, and `Accounts` says who calls them.
`CreateAccount` is the connector's, from the checks of the form through the POST:
the platform learns the id, or the answer is lost. `ListUsers` and `EndSync` are
the two requests of a sync that matter here, users first and memberships later;
others act in between, and `AbortSync` gives a sync up. `RevokeLicense` is the
whole of `license.go`'s Revoke, read and PATCH in one step: what happens between
them is `LicenseProvisioner`'s matter. `CreateUser`, `EditUser`, `DeleteUser`,
`EditTeam`, `EditMembers`, `RenameTeam` are other clients of the server.

`odd` is history: deletions, renamings, ids that name nobody or somebody twice.
Each property names the oddities that it does not survive, so the run also says
that it survives the others. `revoked` and `late` are history too, and restrict
nothing. A license in `revoked` has a stage: `listed` while the sync under way has
listed it from before the revocation, `known` while the platform has it back from
that sync, `gone` otherwise. `RevokedOnlyDormant` is about those that are gone:
one that a sync was about to report comes back, and the next sync takes it away.

The server answers `GET /Users` with everybody, whatever `startIndex` and
`count` ask for, and `GET` of memberships by pages of fifty, more than the model
has. `Order` has the license type in the three forms in which it may come: the
account form declares a list (`connector.go`), `CreateAccount` reads a string,
and what is neither a string nor there becomes view-only.

### Memberships and the code

`roster` is Asana's, a list per place, because syncs page through it by offset.
`ledger` is what the platform knows: the grants of its last sync, and those that
Grant has handed back since.

| Action | Code |
|---|---|
| `Submit` | the runner gets a task: a grant with a right or wrong request, the revocation of a grant in the ledger that is not immutable, an invitation |
| `Unimplemented` | Revoke of a resource type without a provisioner (`connectorbuilder/resource_provisioner.go`) |
| `Reject` | the checks ahead of the request in `workspace.go`, `team.go`, `user.go` |
| `Answered`, `Refused`, `Lost` | the outcomes of `addUser` and `removeUser` for the client and for Asana |
| `Repeat` | the SDK's retry loop; account creation has none |
| `StartSync`, `ListPage`, `EndSync`, `AbortSync` | the syncer over `List` and `Grants` of users, teams, workspace and team memberships |
| `AdminChange` | administrators add, remove, and set flags |

`Role` is the switch in the two `Grants`; the order of its cases decides. A
workspace's Grant parses the entitlement id behind its request (`RejectedAfter`),
a team's ahead of it (`TeamRejects`). `Returned` is the grant Grant hands back.
`EarlierGrants` starts the ledger with such grants, so that a revocation of one
needs no sync before it. `isolated`, `steady` and `left` are history. The two
places are independent but for the users: Asana's own rules that tie a team to
its workspace are not in the connector.

A request whose answer is lost has been applied or not when the SDK repeats it;
one that arrives later still is not modelled here, since a late `addUser` or
`removeUser` is what an administrator's change does (`LicenseProvisioner` has late
PATCHes, where they carry more).

## 3. Runs

| Run | Checks | Instance |
|---|---|---|
| `service` | `TypeOK`, `IsolatedTaskCorrect`, `IInv`, `GrantNeverDowngrades` | 1 user, 2 slots, 2 tasks, 1 retry, 1 late PATCH, 1 administrator's change, the two licenses |
| `one_shot` | `PromiseKept`, `EveryTaskEnds`, `OnlyViewOnlyDeprovisioned` | 2 users, 2 slots, 2 tasks one at a time, 2 retries, malformed requests too, fairness |
| `downgrade` | finds `GrantNeverDowngrades` violated | 1 user, 1 slot, 3 tasks, nobody else acting |
| `deprovision` | finds `OnlyViewOnlyDeprovisioned` violated | 1 user, 2 slots, cache off |
| `workspaces_load` | `TypeOK`, `ListedOnce`, `IInv`, `OnlyGrows`, `UndisturbedListing`, `EveryListEnds` | 2 workspaces, 2 concurrent calls, 3 calls in all, 1 failure, 1 change, fairness |
| `workspaces_failed` | finds `CompleteListing` violated | 1 caller, cache off, 1 failed load |
| `workspaces_overlap` | finds `CompleteListing` violated | 2 overlapping calls, no failure |
| `listing_one_shot` | `TypeOK`, `SteadyListed`, `ListingEnds` | 3 users, pages of 1, 1 sync that fails twice and is killed and resumed, 1 joins, 1 leaves, fairness |
| `listing_abandoned` | finds `SteadyListed` violated | 3 users, service, 2 syncs, 1 failure, 1 joins, nobody leaves |
| `accounts` | `TypeOK`, `AccountsResolve`, `OneAccountPerName`, `MembersUnique`, `RevokedOnlyDormant`, `CreatedOutsideTeams`, `MembersListed` | the server's test data, 2 creations and 2 other changes in any order, any number of syncs |
| `memberships` | `TypeOK`, `IsolatedTaskCorrect`, `RejectedUnchanged`, `SteadySynced`, `ImmutableKept`, `TaskEnds`, `SyncEnds` | 2 users, 1 task, 1 repetition, 1 administrator's change, pages of 1, any number of syncs, fairness |
| `memberships_returned` | finds `RevocationsDispatched` violated | 2 users, 2 slots, no grant beforehand |

Bounds: `MaxTasks`, `MaxChanges`, `MaxLate`, `MaxCalls`, `MaxFailures`,
`MaxSyncs`, `MaxFails`, `MaxJoins`, `MaxLeaves` cap
counters that the code does not have; `MaxAttempts` is the code's limit of 3 set
lower, and never 0, which `retry.go` takes for no limit at all. Two tasks on one account are enough for any pair of them to
interleave, and every license property is about one account; one retry and one
late PATCH give the round that repeats and the PATCH that overtakes it.
`one_shot` has two users and two retries, which the bounded concurrency there
affords. Three calls of List are the loader, one that overlaps it and one
afterwards. Pages may be short, so three or four users make three pages and more,
one of which has one before it and one behind; `PageSize` is 100 in the code. Users are told apart
by their positions only, so runs of the listing without liveness use their
symmetry. `MaxCreates` and `MaxChanges` of the accounts: two creations are a lost answer and
its repetition, or the connector's and somebody else's; a deletion and an edit
of a team fit beside them, and ids one below, at and above the next one occur in
the teams' bodies. `memberships` has one slot: to a task, what other tasks do to
its membership is what an administrator does, which the run has, and
`MembershipsProofs` has any number of them. One repetition there gives every
combination of applied and lost; the roster of two users and pages of one give a
page before, at and behind whoever leaves. The theorems lift these bounds for
the safety properties they state (section 5).

Deadlock is checked everywhere: a restart is always possible, so the check
says nothing about tasks that wait; `EveryTaskEnds` and `EveryListEnds` do.

### What the violations show

* `downgrade`: the connector's own PATCH leaves the cached read from
  before it. For an hour, or until the end of a sync clears the cache, later
  tasks on that account decide on a state that is gone: a view-only grant
  replaces an enterprise license. By the same staleness a revocation reports
  "already revoked" for a license that stays; no run of its own shows that. One
  slot and no other actor suffice.
* `deprovision`: the deactivation is not tied to the license that was read.
  With the cache off it needs two overlapping tasks; with the cache on a grant
  of enterprise followed by a revocation of view-only, one after the other, does
  the same.
* `workspaces_failed`, `workspaces_overlap`: a failed or unfinished load looks
  like an empty list of workspaces, and is reported as one.
* `listing_abandoned`: only a sync that succeeds clears the caches. In a service
  the sync after a failed one is served pages, and totals, from before it
  started.

* `memberships_returned`: Grant hands back a grant made out for the principal's
  resource. Asana has the membership and the platform a grant that it cannot have
  revoked, until the next sync replaces it.

That a user may be skipped for each one who leaves between two pages is no
violation: paging by index promises no more, and `SteadyListed` says so.

## 4. Fairness

`FairSpec` of the provisioner: weak fairness of each slot's own steps. Requests
have timeouts and the waits between retries are bounded by a minute
(`retry.go`), so a task that can go on does. Nothing is assumed of Asana,
administrators, the cache or late PATCHes. `FairSpec` of the workspaces: weak
fairness of each call's steps, and strong fairness of taking the mutex, since a
Go mutex in starvation mode goes to the waiter that has waited longest.
`FairSpec` of the listing: weak fairness of `ListPage` or `FailPage`, that is of the
request being answered one way or the other; nothing is assumed of other failures, resumption or users. `ListingEnds` holds because the token moves
forward and joining is bounded. `FairSpec` of the memberships: weak fairness of each
task's steps, for the same reason as the provisioner's, of `ListPage` and of
`EndSync`; none of failures, submission or administrators. `TaskEnds` rests on the count
of attempts, `SyncEnds` on the offset.

## 5. Theorems

Proved for all values of the constants under the named assumptions of
`LicenseData`, `LicenseProvisioner`, `AllowedWorkspaces`, `ScimListing`, `Memberships`,
`ConnectorSetup`, `ScimTestServer` and `Accounts`
(user types are known ones, distinguished values are none of the data, bounds are naturals).

`LicenseProofs`:

* `TypeCorrect`: `Spec => []TypeOK`.
* `Inductive`: `Spec => []IInv`. `IInv` adds to `TypeOK` what a task knows at
  each step (`ProgressInv`: a task about to PATCH has seen an account for which
  the decision is to PATCH) and, for an isolated task (`IsolationInv`), that
  the account, its cached copy, the copy the task has seen and what is still on
  its way are all either the account the task started from or the one it is to
  leave, none ahead of the directory; a copy may also be unreadable. `IsolatedTaskCorrect` alone is not
  inductive: it says nothing of a task that has decided and not yet sent.
* `Isolation`: `Spec => []IsolatedTaskCorrect`.
* `NoDowngrade`: if `AccountTypes` has only the two licenses,
  `Spec => GrantNeverDowngrades`: a view-only grant then never sends a PATCH
  at all, so neither staleness nor concurrency matters.
* `KeepsPromise`: under `Exclusive`, which is one process per task, or one slot
  with the cache off, and no administrator and no late PATCH,
  `Spec => PromiseKept`. Each step maps to a step of `LicensePromise` or to a
  stutter; `PatchLost` is `TakeEffect` (retried) or `Fail`, a lost PATCH that
  is repeated finds the account satisfied. The invariant behind it, `OneShotInv`,
  says that only one task is at work, that it has its account to itself, and that no
  PATCH is on its way.
* `DeprovisionsViewOnly`, `NoDowngradeAlone`: under `Exclusive`,
  `Spec => OnlyViewOnlyDeprovisioned` and, for any user types,
  `Spec => GrantNeverDowngrades`. Together with the runs `deprovision` and
  `downgrade` they say what those two violations take: a second task, or a copy
  in the cache.
* `StepsRunOut`: `StepsLeft` counts down with every step of a task, and nothing
  else raises it.

`AllowedWorkspacesProofs`:

* `Inductive`, `TypeCorrect`: the lock holder is the call that loads
  (`LoadInv`), everything is typed.
* `LoadedOnce`, `Grows`: one load, and a slice that only grows.
* `ReadsWhole`: `Spec => UndisturbedListing`, for any overlap of calls. Its invariant
  `SettledInv` follows the answer from the cache through the load to the slice,
  while no load has failed.
* `ListsComplete`: without overlapping calls and failed loads every reported
  list is a whole answer, by the same invariant and what each reader took away.
* `NobodyStuck`: the mutex is held only by a call that needs no mutex to go on; each
  step of a call lowers its rank, or what it has to append; no step of another sets
  it back.

`ScimListingProofs`:

* `Inductive`, `TypeCorrect`: no user is listed twice in the organisation, so no
  total and no page token is beyond its size (`SizeInv`).
* `FewSkipped`: where no sync begins on the cached pages of a failed one
  (`Cleared`: cache off, or a process per sync, or no failure),
  `Spec => []SteadyListed`. Its invariant `SkipInv`: nothing is cached at the page
  token or behind it, so every page is fresh; and those steady users who are
  neither stored nor at the token or behind it are at most as many as have left,
  for the token, the last checkpoint and the checkpoint in the file. Somebody who
  leaves moves at most one across each of them.
* `NobodySkipped`: where nobody leaves, every steady user is listed.
* `PagesRunOut`: the page token of a listing only moves forward.

`MembershipsProofs`:

* `Invariant`: `Spec => []IInv`. `IInv` is `TypeOK`, nobody is listed twice
  (`Distinct`), a waiting task has an attempt left (`WaitInv`, without which
  `TypeOK` is not inductive: a repetition could pass the limit), and `TaskInv`:
  the membership of an isolated task is the one it started from, or the one its
  request leaves, according to how far it has come. A lost request leaves either,
  and a repetition goes from either to the second.
* `TypeCorrect`, `IsolatedCorrect`, `RejectedCorrect`: what follows from it.
* `ImmutableCorrect`: `Spec => ImmutableKept`. Its invariant `PlainInv` follows a role
  from the roster through the sync's store and the platform's ledger to the
  revocation: while administrators change nothing, each of them is about
  somebody who is a plain member, or marked. Memberships can only become plain
  on this way, since whoever is added anew is.
* `ExecutionsRunOut`: executions and waits of a task count down, by `WaitInv`.

`SyncProofs`:

* `SyncCorrect`: `Spec => []SteadySynced`. Its invariant `SyncInv`: whoever is steady is
  still in the roster, once; for each listing the steady members in front of the
  offset, or all of them once it is over, that have no entry are at most as many as
  have left the place (`FewMissed`): rosters change by an append, or by moving those
  behind one who leaves one place forward (`Shifts`); listings to come have stored
  nothing; and what is stored of somebody steady is what his flags give
  (`TrueEntries`).
* `PagesRunOut`: for finitely many users. No offset is beyond the users
  (`OffsetInv`), so pages and listings count down.

`AccountsProofs`:

* `Invariant`: `Spec => []IInv`. While nobody is deleted the ids in use are `1 .. n`
  (`NoGaps`), so the next id, their number and one, is free; what a sync has listed
  resolves as what the platform knows does (`ListedResolve`), because the platform
  takes it over; a sync's list misses only users created since (`AllListed`); and a
  revoked license is that of a user who has another one or is deactivated, in the
  platform's records and in the list that is still to be taken over, according to
  its stage (`RevokedGone`).
* `ResolveCorrect`, `NamesCorrect`, `RevokedCorrect`, `MembersCorrect`: `AccountsResolve`,
  `OneAccountPerName`, `RevokedOnlyDormant` and `MembersListed` from it.

`TeamsProofs`:

* `TeamsInvariant`: beside `IInv`, nobody is in a team twice, unless a request had
  somebody twice, and every member's id is that of a user, unless somebody was deleted
  or a request named an id nobody has (`TeamsInv`). PATCH works through lists of ids, so the proofs about it
  (`Added`, `Removed`) are inductions over their length; the induction is one over
  sets of numbers, by the least number that is not in one, and recursive functions
  are given by `Recursion`.
* `TypeCorrect`, `UniqueCorrect`, `OutsideTeamsCorrect`: `TypeOK`, `MembersUnique` and
  `CreatedOutsideTeams`, for lists of any length.

Only model-checked: liveness (`EveryTaskEnds`, `EveryListEnds`, `ListingEnds`,
`TaskEnds`, `SyncEnds`), since the prover has neither fairness nor `ENABLED`, and the
violations. Of each liveness property the half that needs no fairness is proved
(`StepsRunOut`, `NobodyStuck`, `ExecutionsRunOut` and the two `PagesRunOut`): what goes
on comes to its end. What TLC adds is that it goes on.

## 6. Not modelled, and the plan

Not modelled on purpose: request building, JSON, error texts, telemetry, rate
limiting, the lengths of waits, protobuf plumbing, vendored code other than the
SDK parts above. Of the mock server, the REST handlers of `addUser`, `removeUser` and
their like, which take the word `teams` or `workspaces` of the path for the id, or refuse the
method, and so answer every call of the client with an error and change nothing;
its static meta endpoints; its paging beyond fifty entries. Of the REST and SCIM
client, the calls nothing makes: SCIM teams, `ActivateScimUser`. Hazards without a
property are listed with their reason in `PROJECT.json`.

Still to be done, in this order:

1. An abstract specification of what a grant or revocation of a membership promises,
   as `LicensePromise` is for licenses, and the refinement proved.
2. A composition of `AllowedWorkspaces` and `Memberships` under one sync: what a list of
   workspaces that is too short does to the memberships the platform knows.
3. Membership tasks with late requests and a cache, as in `LicenseProvisioner`.
