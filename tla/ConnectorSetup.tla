---------------------------- MODULE ConnectorSetup ----------------------------
(***************************************************************************)
(* The options a connector process runs with (pkg/connector/connector.go), *)
(* what follows from them, and the check every sync begins with.           *)
(***************************************************************************)
EXTENDS TLC

CONSTANTS
  UseServiceAccount,   \* the token is a service account's
  UseScimApi,          \* users through SCIM, and licenses
  DefaultWorkspaceId   \* "" when the option is not given

\* What the fields' constraint lets a process start with (pkg/config).
Config == UseScimApi => UseServiceAccount

ASSUME OptionsAssumption ==
  /\ UseServiceAccount \in BOOLEAN
  /\ UseScimApi \in BOOLEAN
  /\ Config

\* The resource types the process syncs and provisions, and by which code.
ResourceSyncers ==
  [workspace |-> "workspace", team |-> "team"] @@
  (IF UseScimApi THEN [license |-> "license", user |-> "enterprise_users"]
                 ELSE [user |-> "user"])

\* An answer to the query that tries SCIM: an error, something else, or a list.
ScimAnswers == {"error", "unexpected", "list"}

CheckScimAccess(answer) == answer = "list"

\* Validate: what the token can do, as Asana answers, is enough.
Validate(authenticated, answer) ==
  /\ UseScimApi => UseServiceAccount
  /\ authenticated
  /\ UseScimApi => CheckScimAccess(answer)

\* The workspace of a new account: the request's, or the option's.
WorkspaceOf(requested) == IF requested # "" THEN requested ELSE DefaultWorkspaceId

\* The fields without which no account is created, by either implementation.
Complete(email, requested) == email # "" /\ WorkspaceOf(requested) # ""

=============================================================================
