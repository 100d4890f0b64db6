------------------------------ MODULE Arbiter ------------------------------
(***************************************************************************)
(* The arbiter of the on-device provider (Swift actor Arbiter, behind      *)
(* Router.invoke): bounded admission and a single worker.                  *)
(*                                                                         *)
(* An actor runs one job at a time, and a call gives it up at each await:  *)
(* every action below is the stretch of submit between two awaits, done by *)
(* one call, and the stretches of different calls interleave in any order. *)
(* In particular a call that has just arrived may get the actor before one *)
(* whose continuation was resumed.                                         *)
(***************************************************************************)
EXTENDS Naturals, Sequences, FiniteSets

CONSTANTS
  Tasks,     \* the callers; each makes one call of invoke after another
  Capacity   \* the admission bound: running and parked

ASSUME ArbiterAssumption == IsFiniteSet(Tasks) /\ Capacity \in Nat

VARIABLES
  admitted,  \* calls let in and not yet returned
  running,   \* whether the worker is taken
  waiters,   \* the calls parked on a continuation
  at,        \* where each call is
  outcome    \* what each call last returned

vars == <<admitted, running, waiters, at, outcome>>

-----------------------------------------------------------------------------

\* A call is outside submit, parked, resumed but not yet back on the actor, in
\* its work, or done with its work and not yet back on the actor.
Places == {"outside", "parked", "resumed", "work", "worked"}
Outcomes == {"none", "unavailable", "busy", "ok", "failed"}

TypeOK ==
  /\ admitted \in Nat
  /\ running \in BOOLEAN
  /\ waiters \in Seq(Tasks)
  /\ at \in [Tasks -> Places]
  /\ outcome \in [Tasks -> Outcomes]

Init ==
  /\ admitted = 0 /\ running = FALSE /\ waiters = <<>>
  /\ at = [t \in Tasks |-> "outside"]
  /\ outcome = [t \in Tasks |-> "none"]

\* The while loop: park while the worker is taken, else take it.
TakeTurn(t) ==
  IF running
    THEN /\ waiters' = Append(waiters, t) /\ at' = [at EXCEPT ![t] = "parked"]
         /\ UNCHANGED running
    ELSE /\ running' = TRUE /\ at' = [at EXCEPT ![t] = "work"]
         /\ UNCHANGED waiters

\* Router.invoke: no capability for the role, or one that is not available.
Unavailable(t) ==
  /\ at[t] = "outside"
  /\ outcome' = [outcome EXCEPT ![t] = "unavailable"]
  /\ UNCHANGED <<admitted, running, waiters, at>>

\* (off by one)
BusyEarly(t) ==
  /\ at[t] = "outside" /\ admitted + 1 >= Capacity
  /\ outcome' = [outcome EXCEPT ![t] = "busy"]
  /\ UNCHANGED <<admitted, running, waiters, at>>

\* submit is refused: the admission bound is reached.
Busy(t) ==
  /\ at[t] = "outside" /\ admitted >= Capacity
  /\ outcome' = [outcome EXCEPT ![t] = "busy"]
  /\ UNCHANGED <<admitted, running, waiters, at>>

\* submit is admitted, and takes the worker or parks.
Admit(t) ==
  /\ at[t] = "outside" /\ admitted < Capacity
  /\ admitted' = admitted + 1
  /\ TakeTurn(t)
  /\ UNCHANGED outcome

\* A resumed call is back on the actor and looks at the worker again.
Recheck(t) ==
  /\ at[t] = "resumed"
  /\ TakeTurn(t)
  /\ UNCHANGED <<admitted, outcome>>

\* The capability's work returns a result or throws.
WorkEnds(t) ==
  /\ at[t] = "work"
  /\ at' = [at EXCEPT ![t] = "worked"]
  /\ UNCHANGED <<admitted, running, waiters, outcome>>

\* What the run of a capability comes to: it returns a result, or it throws.
Results == {"ok", "failed"}

\* (the waiter is not woken when the work threw)
ReleaseOnSuccess(t) ==
  /\ at[t] = "worked"
  /\ running' = FALSE /\ admitted' = admitted - 1
  /\ \E o \in Results :
       /\ outcome' = [outcome EXCEPT ![t] = o]
       /\ IF waiters # <<>> /\ o = "ok"
            THEN /\ at' = [at EXCEPT ![t] = "outside", ![Head(waiters)] = "resumed"]
                 /\ waiters' = Tail(waiters)
            ELSE at' = [at EXCEPT ![t] = "outside"] /\ UNCHANGED waiters

\* The deferred block: the worker is free, the call is no longer admitted, and
\* the first waiter, if any, is resumed; then submit returns.
Release(t) ==
  /\ at[t] = "worked"
  /\ running' = FALSE /\ admitted' = admitted - 1
  /\ IF waiters # <<>>
       THEN /\ at' = [at EXCEPT ![t] = "outside", ![Head(waiters)] = "resumed"]
            /\ waiters' = Tail(waiters)
       ELSE at' = [at EXCEPT ![t] = "outside"] /\ UNCHANGED waiters
  /\ \E o \in Results : outcome' = [outcome EXCEPT ![t] = o]

Continue(t) == Recheck(t) \/ WorkEnds(t) \/ Release(t)
Next == \E t \in Tasks : Unavailable(t) \/ Busy(t) \/ Admit(t) \/ Continue(t)

Spec == Init /\ [][Next]_vars

-----------------------------------------------------------------------------
(* Properties                                                              *)

Inside == {t \in Tasks : at[t] # "outside"}
Working == {t \in Tasks : at[t] \in {"work", "worked"}}

\* The single worker: no two calls are ever at their work, and the worker is
\* free exactly when none is ("so RUN events never overlap").
OneWorker ==
  /\ \A t, u \in Working : t = u
  /\ running <=> Working # {}

\* The admission count is the number of calls inside, through every parking,
\* failure and return; so it never leaks a place and never exceeds the bound.
AdmittedIsInside == admitted = Cardinality(Inside) /\ admitted <= Capacity

\* Each parked call is in the queue once, and nothing else is: a continuation
\* is resumed exactly once.
QueueIsParked ==
  /\ \A t \in Tasks : at[t] = "parked" <=> \E i \in DOMAIN waiters : waiters[i] = t
  /\ \A i, j \in DOMAIN waiters : waiters[i] = waiters[j] => i = j

\* No wakeup is lost: while a call is parked, the worker is taken or a call that
\* was resumed is on its way to it.
NoLostWakeup ==
  waiters # <<>> => running \/ \E t \in Tasks : at[t] = "resumed"

\* The arbiter keeps the promise of the front door.
Promise == INSTANCE Bouncer WITH
  Requests <- Tasks, inside <- Inside, working <- Working, answer <- outcome

KeepsPromise == Promise!Spec

=============================================================================
