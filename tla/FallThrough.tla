---------------------------- MODULE FallThrough ----------------------------
(***************************************************************************)
(* What EngineRouter.route promises its caller: the ordered candidates are *)
(* tried one after the other, each once, until one gives a result; only    *)
(* when the last has failed does the call fail.  EngineRouter implements   *)
(* this with timers and late answers; every request of TryOnPipeline that  *)
(* misses the cache behaves like this.                                     *)
(***************************************************************************)
EXTENDS Naturals

VARIABLES
  length,                \* how many candidates the call has; 0 before it
  attempt,               \* the candidate being tried; 0 before the call
  outcome                \* "none", "ok" or "failed"

TypeOK == length \in Nat /\ attempt \in 0..length + 1 /\ outcome \in {"none", "ok", "failed"}

Init == length = 0 /\ attempt = 0 /\ outcome = "none"

Start ==
  /\ attempt = 0
  /\ attempt' = 1
  /\ length' \in Nat
  /\ UNCHANGED outcome

Succeed ==
  /\ outcome = "none"
  /\ attempt \in 1..length
  /\ outcome' = "ok"
  /\ UNCHANGED <<length, attempt>>

FallOn ==
  /\ outcome = "none"
  /\ attempt \in 1..length
  /\ attempt' = attempt + 1
  /\ UNCHANGED <<length, outcome>>

Exhaust ==
  /\ outcome = "none"
  /\ attempt = length + 1
  /\ outcome' = "failed"
  /\ UNCHANGED <<length, attempt>>

Next == Start \/ Succeed \/ FallOn \/ Exhaust

Spec == Init /\ [][Next]_<<length, attempt, outcome>>
=============================================================================
