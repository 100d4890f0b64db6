------------------------------- MODULE Intake -------------------------------
(***************************************************************************)
(* What a Provider and its consumer promise about a source, with the inbox *)
(* the walk and the process left out: a fact taken from the inbox may be   *)
(* answered, any number of times (duplicates over loss), and the log of    *)
(* facts never to be taken again only ever gains facts already answered.   *)
(* A log may be lost, never invented.                                      *)
(***************************************************************************)
CONSTANT Facts

VARIABLES
  taken,     \* facts some consumer has begun to work on
  answered,  \* facts with a terminal manifest and its notification
  recorded   \* facts the durable log holds

Init == taken = {} /\ answered = {} /\ recorded = {}

Take(f) ==
  /\ taken' = taken \cup {f}
  /\ UNCHANGED <<answered, recorded>>

Answer(f) ==
  /\ f \in taken
  /\ answered' = answered \cup {f}
  /\ UNCHANGED <<taken, recorded>>

Record(S) ==
  /\ S \subseteq answered
  /\ recorded' = recorded \cup S
  /\ UNCHANGED <<taken, answered>>

LoseLog ==
  /\ recorded' = {}
  /\ UNCHANGED <<taken, answered>>

Next == (\E f \in Facts : Take(f) \/ Answer(f))
          \/ (\E S \in SUBSET answered : Record(S)) \/ LoseLog

Spec == Init /\ [][Next]_<<taken, answered, recorded>>

=============================================================================
