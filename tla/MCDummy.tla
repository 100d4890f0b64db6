------------------------------ MODULE MCDummy ------------------------------
(* Instances of Dummy for TLC.  On a new bus, which is what the heartbeat  *)
(* and provision-topics are about, one file is enough; on an old bus, whose *)
(* topics are there, files come and go.                                    *)
EXTENDS Dummy

MCInit == Init /\ (boots => drops = 0 /\ inbox \subseteq {1})
MCFairSpec == MCInit /\ [][Next]_vars /\ Fairness

OldBusSpec == (Init /\ ~boots) /\ [][Next]_vars

=============================================================================
