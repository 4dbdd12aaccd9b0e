--------------------------- MODULE LicenseRefinement ---------------------------
(***************************************************************************)
(* When every task runs in a process of its own, no administrator acts and *)
(* no PATCH outlives its request, the connector keeps LicensePromise.      *)
(***************************************************************************)
EXTENDS LicenseProvisioner

\* A running task is an open request; the annotations of a success and the
\* steps of a task are not visible to the platform.
PhaseOf(s) ==
  IF Busy(s) THEN "open"
  ELSE IF Succeeded(s) THEN "succeeded"
  ELSE pc[s]

Promise == INSTANCE LicensePromise
             WITH asked <- req, phase <- [s \in Slots |-> PhaseOf(s)]

\* License tasks implement the promise: each takes effect once, on the
\* account as it is then, and a reported success is a kept one.
PromiseKept == Promise!Spec

=============================================================================
