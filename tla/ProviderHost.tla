---------------------------- MODULE ProviderHost ----------------------------
(***************************************************************************)
(* The on-device provider as its clients see it: the HTTP server, its      *)
(* routes and the wire adapter (ProviderService), in front of the Arbiter. *)
(*                                                                         *)
(* A connection carries one request.  Each has a task of its own, so that  *)
(* reading, routing and answering interleave freely; what they share is    *)
(* the arbiter, and they are its callers.  When a connection is closed, a  *)
(* new one, on which nothing has arrived, takes its place in Tasks.        *)
(***************************************************************************)
EXTENDS Arbiter

CONSTANT Asked  \* the kinds of request that clients send (bound)

\* GET /health; POST /invoke for a role the adapter maps, or for one it does not
\* (unserved), or with a body that is no InvokeRequest (undecodable); a route that
\* does not exist; a head that is no HTTP (malformed).
Kinds == {"health", "invoke", "unserved", "undecodable", "notFound", "malformed"}

ASSUME HostAssumption == Asked \subseteq Kinds

VARIABLES
  stage,     \* where the task of each connection is
  asks,      \* the request parsed on each connection
  received,  \* how much of it the server has in its buffer
  status,    \* the status code it is about to answer (0: none yet)
  worked     \* the connections whose request a capability has been run for

connections == <<stage, asks, received, status, worked>>
hostvars == <<vars, connections>>

-----------------------------------------------------------------------------

\* Reading the request, at the router's door with a parsed one, awaiting the router,
\* or writing the response.
Stages == {"reading", "parsed", "called", "answering"}

\* How much of a request is there: its head ends with the empty line, and says how
\* long the body is.
Amounts == {"nothing", "head", "all"}

HostTypeOK ==
  /\ TypeOK
  /\ stage \in [Tasks -> Stages]
  /\ asks \in [Tasks -> Asked \cup {"none"}]
  /\ received \in [Tasks -> Amounts]
  /\ status \in [Tasks -> {0, 200, 400, 404, 500, 503}]
  /\ worked \subseteq Tasks

HostInit ==
  /\ Init
  /\ stage = [c \in Tasks |-> "reading"]
  /\ asks = [c \in Tasks |-> "none"]
  /\ received = [c \in Tasks |-> "nothing"]
  /\ status = [c \in Tasks |-> 0]
  /\ worked = {}

-----------------------------------------------------------------------------
(* The connection's task                                                   *)

\* A chunk that does not complete the request.
Receive(c) ==
  /\ stage[c] = "reading" /\ received[c] = "nothing"
  /\ received' = [received EXCEPT ![c] = "head"]
  /\ UNCHANGED <<vars, stage, asks, status, worked>>

\* parse finds the request in the buffer, or throws: once the head is there if it
\* is malformed, else once the body is.
Parses(k, amount) == amount = "all" \/ (amount = "head" /\ k = "malformed")

\* What is answered without the router: serve's catch, the routes, the decoding and
\* the roles of the adapter; 0 for what goes to the router.
StatusUnrouted(k) == CASE k = "health" -> 200 [] k = "notFound" -> 404 [] k = "unserved" -> 503
                       [] k \in {"undecodable", "malformed"} -> 400 [] OTHER -> 0

\* The chunk that completes a request: it is answered, or goes to the router.
Parse(c) ==
  /\ stage[c] = "reading"
  /\ \E k \in Asked, amount \in {"head", "all"} :
       /\ Parses(k, amount)
       /\ received' = [received EXCEPT ![c] = amount]
       /\ asks' = [asks EXCEPT ![c] = k]
       /\ status' = [status EXCEPT ![c] = StatusUnrouted(k)]
       /\ stage' = [stage EXCEPT ![c] = IF StatusUnrouted(k) = 0 THEN "parsed" ELSE "answering"]
  /\ UNCHANGED <<vars, worked>>

\* The task goes on to write a response.
Respond(c, code) ==
  /\ stage' = [stage EXCEPT ![c] = "answering"]
  /\ status' = [status EXCEPT ![c] = code]
  /\ UNCHANGED <<vars, asks, received, worked>>

\* The input ends or fails before the request is whole.
EndOfInput(c) == stage[c] = "reading" /\ Respond(c, 400)

\* The connections for which a capability runs after this step.
RunsNow == {c \in Tasks : at'[c] = "work"}

\* Router.invoke up to its first await.
Invoke(c) ==
  /\ stage[c] = "parsed"
  /\ Unavailable(c) \/ Busy(c) \/ Admit(c)
  /\ stage' = [stage EXCEPT ![c] = "called"]
  /\ worked' = worked \cup RunsNow
  /\ UNCHANGED <<asks, received, status>>

\* The call goes on inside the arbiter.
Await(c) ==
  /\ Recheck(c) \/ Release(c)
  /\ worked' = worked \cup RunsNow
  /\ UNCHANGED <<stage, asks, received, status>>

CapabilityEnds(c) == WorkEnds(c) /\ UNCHANGED connections

\* (a capability that throws "unavailable" is answered like one that is)
StatusOfThrown(o) == IF o = "ok" THEN 200 ELSE 503

\* The status code of an outcome.
StatusOf(o) == CASE o = "ok" -> 200 [] o = "failed" -> 500 [] OTHER -> 503

\* Router.invoke has returned.
Returned(c) ==
  /\ stage[c] = "called" /\ at[c] = "outside"
  /\ Respond(c, StatusOf(outcome[c]))

\* The response is sent, or its client is gone (then the 400 of serve's catch
\* cannot be sent either); the connection is closed.
Send(c) ==
  /\ stage[c] = "answering"
  /\ stage' = [stage EXCEPT ![c] = "reading"]
  /\ asks' = [asks EXCEPT ![c] = "none"]
  /\ received' = [received EXCEPT ![c] = "nothing"]
  /\ status' = [status EXCEPT ![c] = 0]
  /\ worked' = worked \ {c}
  /\ UNCHANGED vars

-----------------------------------------------------------------------------

Serve(c) == Invoke(c) \/ Await(c) \/ Returned(c) \/ Send(c)
Client(c) == Receive(c) \/ Parse(c) \/ EndOfInput(c)

HostNext == \E c \in Tasks : Client(c) \/ Serve(c) \/ CapabilityEnds(c)

HostSpec == HostInit /\ [][HostNext]_hostvars

\* The tasks run, and the work of a capability ends.  Clients may stall.
HostFairSpec == HostSpec /\ \A c \in Tasks : WF_hostvars(Serve(c) \/ CapabilityEnds(c))

-----------------------------------------------------------------------------
(* Properties                                                              *)

\* A client may send again what was answered 503, 404 or 400: no capability has
\* been run for it; 500 and the 200 of an invoke say that one has ("busy" and
\* "unavailable" are retryable; a failed run is not).
StatusTellsWork ==
  \A c \in Tasks : stage[c] = "answering" =>
    /\ status[c] \in {400, 404, 503} => c \notin worked
    /\ status[c] = 500 \/ (status[c] = 200 /\ asks[c] = "invoke") => c \in worked

\* Only a request that arrived whole takes a place in the arbiter: a client that
\* stalls or leaves in the middle holds up nobody.
WholeRequestsOnly ==
  \A c \in Inside \cup worked : received[c] = "all" /\ asks[c] = "invoke"

\* Every request that arrived is answered, unless new ones come for ever: the
\* queue is not fair to a waiter, since a newcomer may take the worker between the
\* resumption of the waiter and its second look.
RequestAnswered ==
  <>[][\A c \in Tasks : ~Parse(c)]_hostvars
    => \A c \in Tasks : (stage[c] # "reading") ~> (stage[c] = "reading")

=============================================================================
