----------------------------- MODULE LicenseData -----------------------------
(***************************************************************************)
(* The accounts of an Asana organisation as the SCIM API shows them to the *)
(* connector, and the license requests the Baton runner hands to it.       *)
(* A request's meaning (Goal, Satisfied) is stated here independently of   *)
(* how pkg/connector/license.go decides what to do.                        *)
(***************************************************************************)

CONSTANTS
  Users,          \* SCIM user ids
  AccountTypes,   \* the user types accounts have in this organisation
  Requests,       \* the requests the platform may submit
  Gone,           \* an id the directory does not know (HTTP 404)
  Miss            \* no entry in the HTTP cache

Enterprise == "enterprise"
ViewOnly   == "view only"
License    == {Enterprise, ViewOnly}

\* "other" stands for an empty user type and for any license the connector
\* does not know.
UserTypes == License \cup {"other"}

Account == [userType : UserTypes, active : BOOLEAN]

\* typed is FALSE when the principal is not a user or the entitlement is not
\* an entitlement of a license resource.
Request == [kind : {"grant", "revoke"}, user : Users, license : UserTypes,
            typed : BOOLEAN]

ASSUME AccountTypesAssumption == AccountTypes \subseteq UserTypes
ASSUME RequestsAssumption == Requests \subseteq Request
ASSUME GoneAssumption == Gone \notin Account
ASSUME MissAssumption == Miss \notin Account /\ Miss # Gone

-----------------------------------------------------------------------------
(* What a request asks for, for an account in a given state. *)

\* The account a request should leave behind when nobody else touches it:
\* a grant gives the license and never lowers one, revoking enterprise leaves
\* view-only, revoking view-only deprovisions the account. An account without
\* the license that is revoked, and one that does not exist, stay as they are.
Goal(r, v) ==
  IF v = Gone \/ ~r.typed \/ r.license \notin License THEN v
  ELSE IF r.kind = "grant"
       THEN IF r.license = ViewOnly /\ v.userType = Enterprise THEN v
            ELSE [v EXCEPT !.userType = r.license]
       ELSE IF v.userType # r.license THEN v
            ELSE IF r.license = Enterprise
                 THEN [v EXCEPT !.userType = ViewOnly]
                 ELSE [v EXCEPT !.active = FALSE]

\* The account is one the request has nothing left to change on.
Satisfied(r, v) == v # Gone /\ Goal(r, v) = v

=============================================================================
