---------------------------- MODULE LicensePromise ----------------------------
(***************************************************************************)
(* What license provisioning promises the platform: a request takes effect *)
(* at one moment, on the account as it is at that moment, and is reported  *)
(* as a success only when the account is in the state it asks for. A       *)
(* failed request may or may not have taken effect.                        *)
(***************************************************************************)
EXTENDS LicenseData

CONSTANTS Slots, NoRequest

VARIABLES
  directory,   \* [Users -> Account or Gone]
  asked,       \* the request each slot of the runner works on
  phase        \* how far it is: idle, open, succeeded, failed

vars == <<directory, asked, phase>>

Init ==
  /\ directory \in [Users -> [userType : AccountTypes, active : BOOLEAN] \cup {Gone}]
  /\ asked = [s \in Slots |-> NoRequest]
  /\ phase = [s \in Slots |-> "idle"]

Open(s, r) ==
  /\ phase[s] # "open"
  /\ asked' = [asked EXCEPT ![s] = r]
  /\ phase' = [phase EXCEPT ![s] = "open"]
  /\ UNCHANGED directory

\* The one moment at which an open request changes the account.
TakeEffect(s) ==
  /\ phase[s] = "open"
  /\ directory' = [directory EXCEPT ![asked[s].user] = Goal(asked[s], @)]
  /\ UNCHANGED <<asked, phase>>

\* The moment of effect and the answer may coincide.
Succeed(s) ==
  /\ phase[s] = "open"
  /\ \/ UNCHANGED directory
     \/ directory' = [directory EXCEPT ![asked[s].user] = Goal(asked[s], @)]
  /\ Satisfied(asked[s], directory'[asked[s].user])
  /\ phase' = [phase EXCEPT ![s] = "succeeded"]
  /\ UNCHANGED asked

Fail(s) ==
  /\ phase[s] = "open"
  /\ \/ UNCHANGED directory
     \/ directory' = [directory EXCEPT ![asked[s].user] = Goal(asked[s], @)]
  /\ phase' = [phase EXCEPT ![s] = "failed"]
  /\ UNCHANGED asked

\* The connector process ends and its slots are empty again.
Forget ==
  /\ phase' = [s \in Slots |-> "idle"]
  /\ asked' = [s \in Slots |-> NoRequest]
  /\ UNCHANGED directory

Next ==
  \/ \E s \in Slots :
       \/ \E r \in Requests : Open(s, r)
       \/ TakeEffect(s)
       \/ Succeed(s)
       \/ Fail(s)
  \/ Forget

Spec == Init /\ [][Next]_vars

=============================================================================
