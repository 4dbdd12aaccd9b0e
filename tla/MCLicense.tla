------------------------------- MODULE MCLicense -------------------------------
(* Instances of LicenseProvisioner for TLC. *)
EXTENDS LicenseRefinement, TLC

\* The requests the platform submits: every license of every user, granted and
\* revoked.
MCRequests == {r \in Request : r.typed /\ r.license \in License}

\* ... and the malformed ones.
MCAllRequests ==
  MCRequests \cup {r \in Request : ~r.typed /\ r.license = Enterprise}
             \cup {r \in Request : r.typed /\ r.license = "other"}

MCSymmetry == Permutations(Slots) \cup Permutations(Users)

=============================================================================
