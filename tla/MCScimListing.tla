---------------------------- MODULE MCScimListing ----------------------------
(* Instances of ScimListing for TLC. *)
EXTENDS ScimListing

=============================================================================
