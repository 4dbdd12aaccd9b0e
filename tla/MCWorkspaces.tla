----------------------------- MODULE MCWorkspaces -----------------------------
(* Instances of AllowedWorkspaces for TLC. *)
EXTENDS AllowedWorkspaces

=============================================================================
