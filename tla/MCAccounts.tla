------------------------------ MODULE MCAccounts ------------------------------
(* Instances of Accounts for TLC. *)
EXTENDS Accounts

\* Somebody new, and somebody whose name there is, without a license or active.
MCUserBodies ==
  {[userName |-> "new.hire", userType |-> "", active |-> TRUE],
   [userName |-> "john.doe", userType |-> ViewOnly, active |-> FALSE]}

\* Members who are there, the id the next user gets, and somebody twice.
MCTeamBodies ==
  {[displayName |-> "Design",  members |-> <<1, 4>>],
   [displayName |-> "Product", members |-> <<3, 3>>]}

=============================================================================
