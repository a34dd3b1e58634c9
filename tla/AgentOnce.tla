----------------------------- MODULE AgentOnce -----------------------------
(***************************************************************************)
(* What an AIAgent Durable Object promises of the requests it records by a *)
(* key, without signatures, blobs, Providers, alarms or Runs: a request is *)
(* decided once, with an effect or without one, and its decision stays.    *)
(* The request of a key may come many times, at once, late or never.       *)
(***************************************************************************)
EXTENDS Naturals

CONSTANTS
  Keys      \* What a request is recorded by.

VARIABLES
  outcome,  \* The recorded decision of each key: "open", "done" or "refused".
  effects   \* How many times the effect of each key was written.

Init ==
  /\ outcome = [k \in Keys |-> "open"]
  /\ effects = [k \in Keys |-> 0]

\* The effect of k and the decision are written in one transaction.
Perform(k) ==
  /\ outcome[k] = "open"
  /\ outcome' = [outcome EXCEPT ![k] = "done"]
  /\ effects' = [effects EXCEPT ![k] = @ + 1]

\* It is decided that k has no effect.
Refuse(k) ==
  /\ outcome[k] = "open"
  /\ outcome' = [outcome EXCEPT ![k] = "refused"]
  /\ UNCHANGED effects

Next == \E k \in Keys : Perform(k) \/ Refuse(k)

Spec == Init /\ [][Next]_<<outcome, effects>>
=============================================================================
