---------------------------- MODULE AgentRunSlot ----------------------------
(***************************************************************************)
(* What the run scheduler of one AIAgent Durable Object promises, without  *)
(* Threads, mailboxes, wakes, queues or model calls: a Run is queued, then *)
(* active, then parked or ended; at most one Run is active at a time; an   *)
(* ended Run never comes back.                                             *)
(***************************************************************************)
CONSTANTS
  Runs   \* Identities of the AgentRuns.

VARIABLES
  phase  \* Where each Run is on its way from "none" to "ended".

Phases == {"none", "queued", "active", "parked", "ended"}

Init == phase = [r \in Runs |-> "none"]

\* The slot is free when no Run is active.
SlotFree == \A r \in Runs : phase[r] # "active"

\* An accepted Event creates the pending Run r.
Admit(r) ==
  /\ phase[r] = "none"
  /\ phase' = [phase EXCEPT ![r] = "queued"]

\* The scheduler gives the slot to the pending Run r.
Acquire(r) ==
  /\ phase[r] = "queued"
  /\ SlotFree
  /\ phase' = [phase EXCEPT ![r] = "active"]

\* The active Run r gives the slot back, to wait for an external result or for
\* good.
Release(r) ==
  /\ phase[r] = "active"
  /\ \E to \in {"parked", "ended"} : phase' = [phase EXCEPT ![r] = to]

\* The active Run r gives the slot back and its decision admits the Run q.
ReleaseAndAdmit(r, q) ==
  /\ phase[r] = "active"
  /\ phase[q] = "none"
  /\ \E to \in {"parked", "ended"} :
       phase' = [phase EXCEPT ![r] = to, ![q] = "queued"]

\* An external result makes the parked Run r pending again.
Resume(r) ==
  /\ phase[r] = "parked"
  /\ phase' = [phase EXCEPT ![r] = "queued"]

\* A Run that does not hold the slot ends: it is cancelled, its external
\* result is a failure, or it fails before its first model call.
Withdraw(r) ==
  /\ phase[r] \in {"queued", "parked"}
  /\ phase' = [phase EXCEPT ![r] = "ended"]

Next ==
  \E r \in Runs :
    \/ Admit(r)
    \/ Acquire(r)
    \/ Release(r)
    \/ \E q \in Runs : ReleaseAndAdmit(r, q)
    \/ Resume(r)
    \/ Withdraw(r)

Spec == Init /\ [][Next]_phase
=============================================================================
