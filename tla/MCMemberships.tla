---------------------------- MODULE MCMemberships -----------------------------
(* Instances of Memberships for TLC. *)
EXTENDS Memberships

CONSTANTS u1, u2

M(u, flags) == [user |-> u, flags |-> flags]

\* Everybody in the workspace; the team with an admin who is a guest, and
\* with somebody of limited access.
MCInitRosters ==
  {[workspace |-> <<M(u1, {"active", "admin"}), M(u2, {"guest"})>>,
    team |-> <<M(u1, {"admin", "guest"}), M(u2, {"limited"})>>],
   [workspace |-> <<M(u1, {})>>,
    team |-> <<M(u1, {})>>]}

MCFlagChoices == {{"active"}, {}}

=============================================================================
