----------------------------- MODULE MCBackends -----------------------------
(* How work finds who does it: a call of dispatch over a birb's backends, or *)
(* the calls of two model clients over delightd's sources.  The two share    *)
(* nothing, so an instance has one of them, and the other is at rest.        *)
EXTENDS Dispatch, ModelClient

MCInit ==
  \/ Init /\ ClientInit /\ sources = <<>>
  \/ Call(<<>>, NoName) /\ ClientInit /\ sources # <<>>

MCNext ==
  \/ sources = <<>> /\ Next /\ UNCHANGED clientVars
  \/ sources # <<>> /\ ClientNext /\ UNCHANGED vars

MCSpec == MCInit /\ [][MCNext]_<<vars, clientVars>>

=============================================================================
