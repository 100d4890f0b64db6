------------------------------ MODULE BentoFsm ------------------------------
(***************************************************************************)
(* The bento lifecycle shared by every service of the mesh: the states the *)
(* generated machines (Go and Python) accept, and the states a walk stops  *)
(* at.  The machines declare no adjacency: any active state may follow any *)
(* active state, and only a state outside the set is rejected.             *)
(***************************************************************************)

\* The states with a handler; entering any other state is an error.
ActiveStates == {"NOTICED", "COOK", "PARTIAL", "DONE", "FAILED"}

\* The states the local step-loop (_walk) stops at.
Terminal == {"DONE", "FAILED"}

\* The states a cook may return: a clean result, a degraded one, a failure
\* (a raised exception and a run without an artifact are both failures).
CookOutcomes == {"DONE", "PARTIAL", "FAILED"}

=============================================================================
