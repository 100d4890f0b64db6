------------------------------ MODULE Bouncer ------------------------------
(***************************************************************************)
(* What the front door of the on-device provider promises its callers: no  *)
(* more than Capacity requests inside, one of them at the worker, and a    *)
(* caller turned away as busy only when the house is full.  How a request  *)
(* waits for the worker, and in which order they get it, is left out.      *)
(***************************************************************************)
EXTENDS Naturals, FiniteSets

CONSTANTS Requests, Capacity

VARIABLES
  inside,   \* requests admitted and not yet answered
  working,  \* those of them the worker is busy with: at most one
  answer    \* what each caller was last told

Init ==
  /\ inside = {} /\ working = {}
  /\ answer = [r \in Requests |-> "none"]

Admit(r) ==
  /\ r \notin inside /\ Cardinality(inside) < Capacity
  /\ inside' = inside \cup {r}
  /\ working' \in {working} \cup (IF working = {} THEN {{r}} ELSE {})
  /\ UNCHANGED answer

TurnAway(r) ==
  /\ r \notin inside
  /\ \/ Cardinality(inside) >= Capacity /\ answer' = [answer EXCEPT ![r] = "busy"]
     \/ answer' = [answer EXCEPT ![r] = "unavailable"]
  /\ UNCHANGED <<inside, working>>

Begin(r) ==
  /\ r \in inside /\ working = {}
  /\ working' = {r}
  /\ UNCHANGED <<inside, answer>>

Finish(r) ==
  /\ working = {r}
  /\ \E a \in {"ok", "failed"} : answer' = [answer EXCEPT ![r] = a]
  /\ inside' = inside \ {r} /\ working' = {}

Next == \E r \in Requests : Admit(r) \/ TurnAway(r) \/ Begin(r) \/ Finish(r)

Spec == Init /\ [][Next]_<<inside, working, answer>>

=============================================================================
