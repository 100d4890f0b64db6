------------------------------ MODULE EmitPath ------------------------------
(***************************************************************************)
(* How a lifecycle event reaches the bus: the emitter of a python pipeline *)
(* (frood.emit), the Go sidecar's /emit handlers and its heartbeat loop    *)
(* (cmd/sidecar), and the Publisher they share (emit); and the job that    *)
(* registers the fleet's schemas at every boot (admin, provision-schemas). *)
(* The Schema Registry and the broker are modelled from how these use them.*)
(*                                                                         *)
(* A sender relays one event at a time.  A pipeline gives up on a request  *)
(* after its client timeout; the sidecar's handler is not cancelled by     *)
(* that, and goes on concurrently with the handlers of later requests.     *)
(* The heartbeat loop calls the Publisher itself, and waits as long as it  *)
(* takes.  Every step of a handler between two shared accesses (cache,     *)
(* registry, broker) is an action.                                         *)
(***************************************************************************)
EXTENDS Naturals, Sequences

CONSTANTS
  Bentos,      \* bentos being walked at the same time, each by its own thread
  Heart,       \* the heartbeat loop
  Relays,      \* how many events a sender relays (bound)
  MaxRestarts  \* how many times the sidecar dies (bound)

ASSUME EmitAssumption == Heart \notin Bentos /\ Relays \in Nat /\ MaxRestarts \in Nat

Senders == Bentos \cup {Heart}

\* The n-th event of a sender; the sender's name is the record's key, so all of
\* them go to one partition.
Events == Senders \X (1..Relays)
Sender(e) == e[1]

\* RecordNameStrategy: one subject for each message type.
Subjects == {"lifecycle", "health"}
Subject(e) == IF Sender(e) = Heart THEN "health" ELSE "lifecycle"

\* admin.FleetSubjects, in their order (of those that are produced here).
FleetSubjects == <<"health", "lifecycle">>

VARIABLES
  sidecar,     \* "down", "dry" (no bus at its start: accept and drop) or "ready"
  relayed,     \* how many events each sender has relayed
  waiting,     \* the senders waiting for an answer to their last event
  gaveUp,      \* the events whose sender timed out
  stage,       \* where the handler of each event is
  id,          \* the schema id the handler of each event has in hand
  cache,       \* Publisher.schemaIDs (0: no entry)
  registry,    \* the ids the Schema Registry has assigned (0: none)
  bus,         \* the topics: the records produced, with the id of their frame
  restarts,    \* how many times the sidecar has died
  provisioned  \* how many of the fleet's subjects this boot's provision-schemas has ensured

vars == <<sidecar, relayed, waiting, gaveUp, stage, id, cache, registry, bus, restarts, provisioned>>

\* A handler looks in the cache, registers, caches, produces and answers; an
\* event is lost when nobody is there to take it, or its handler dies.
Stages == {"none", "lookup", "register", "store", "produce", "appended", "accepted",
           "rejected", "lost"}
Answer == {"accepted", "rejected", "lost"}
Ids == 0..2

TypeOK ==
  /\ sidecar \in {"down", "dry", "ready"}
  /\ relayed \in [Senders -> 0..Relays]
  /\ waiting \subseteq Senders /\ gaveUp \subseteq Events
  /\ stage \in [Events -> Stages] /\ id \in [Events -> Ids]
  /\ cache \in [Subjects -> Ids] /\ registry \in [Subjects -> Ids]
  /\ bus \in Seq([event : Events, id : Ids \ {0}])
  /\ restarts \in 0..MaxRestarts
  /\ provisioned \in 0..Len(FleetSubjects)

Init ==
  /\ sidecar \in {"down", "dry", "ready"}
  /\ relayed = [s \in Senders |-> 0] /\ waiting = {} /\ gaveUp = {}
  /\ stage = [e \in Events |-> "none"] /\ id = [e \in Events |-> 0]
  /\ cache = [s \in Subjects |-> 0] /\ registry = [s \in Subjects |-> 0]
  /\ bus = <<>> /\ restarts = 0 /\ provisioned = 0

-----------------------------------------------------------------------------
(* The senders                                                             *)

Last(s) == <<s, relayed[s]>>
Sending == <<relayed, waiting, gaveUp>>
Publisher == <<id, cache, registry, bus>>

\* (the request is sent in the background)
EmitAsync(b) ==
  /\ b \in Bentos /\ relayed[b] < Relays
  /\ relayed' = [relayed EXCEPT ![b] = @ + 1]
  /\ stage' = [stage EXCEPT ![<<b, relayed[b] + 1>>] = IF sidecar = "down" THEN "lost" ELSE "lookup"]
  /\ UNCHANGED <<sidecar, waiting, gaveUp, Publisher, restarts, provisioned>>

\* step() calls the emitter: a POST to the sidecar, refused when none is up.
Emit(b) ==
  /\ b \in Bentos \ waiting /\ relayed[b] < Relays
  /\ relayed' = [relayed EXCEPT ![b] = @ + 1]
  /\ LET e == <<b, relayed[b] + 1>>
     IN  IF sidecar = "down"
           THEN stage' = [stage EXCEPT ![e] = "lost"] /\ UNCHANGED waiting
           ELSE stage' = [stage EXCEPT ![e] = "lookup"] /\ waiting' = waiting \cup {b}
  /\ UNCHANGED <<sidecar, gaveUp, Publisher, restarts, provisioned>>

\* The heartbeat ticks; the loop only runs with a live Publisher.
Beat ==
  /\ sidecar = "ready" /\ Heart \notin waiting /\ relayed[Heart] < Relays
  /\ relayed' = [relayed EXCEPT ![Heart] = @ + 1]
  /\ waiting' = waiting \cup {Heart}
  /\ stage' = [stage EXCEPT ![<<Heart, relayed[Heart] + 1>>] = "lookup"]
  /\ UNCHANGED <<sidecar, gaveUp, Publisher, restarts, provisioned>>

\* An answer, or a broken connection: an error is logged and the event dropped.
Answered(s) ==
  /\ s \in waiting /\ stage[Last(s)] \in Answer
  /\ waiting' = waiting \ {s}
  /\ UNCHANGED <<sidecar, relayed, gaveUp, stage, Publisher, restarts, provisioned>>

\* (a timed-out request is sent again)
TimeoutRetries(b) ==
  /\ b \in waiting \cap Bentos
  /\ stage' = [stage EXCEPT ![Last(b)] = "lookup"]
  /\ gaveUp' = gaveUp \cup {Last(b)}
  /\ UNCHANGED <<sidecar, relayed, waiting, Publisher, restarts, provisioned>>

\* (no timeout)
TimeoutNever(b) ==
  /\ b \in waiting \cap Bentos /\ stage[Last(b)] \in Answer
  /\ waiting' = waiting \ {b} /\ gaveUp' = gaveUp \cup {Last(b)}
  /\ UNCHANGED <<sidecar, relayed, stage, Publisher, restarts, provisioned>>

\* urlopen's timeout: the pipeline walks on, whatever becomes of the request.
Timeout(b) ==
  /\ b \in waiting \cap Bentos
  /\ waiting' = waiting \ {b} /\ gaveUp' = gaveUp \cup {Last(b)}
  /\ UNCHANGED <<sidecar, relayed, stage, Publisher, restarts, provisioned>>

-----------------------------------------------------------------------------
(* The sidecar's handlers and the Publisher                                *)

\* The handler of e goes from one stage to another.
Move(e, from, to) ==
  /\ stage[e] = from
  /\ stage' = [stage EXCEPT ![e] = to]
  /\ UNCHANGED <<sidecar, Sending, restarts, provisioned>>

\* The body of an abandoned request cannot be read: 400.
ReadFailed(e) ==
  /\ e \in gaveUp
  /\ Move(e, "lookup", "rejected")
  /\ UNCHANGED Publisher

\* A nil Publisher is a no-op.
AcceptAndDrop(e) ==
  /\ sidecar = "dry"
  /\ Move(e, "lookup", "accepted")
  /\ UNCHANGED Publisher

\* (the cache is not looked up by subject)
LookupAnySubject(e) ==
  /\ sidecar = "ready"
  /\ \E s \in Subjects :
       IF cache[s] # 0
         THEN Move(e, "lookup", "produce") /\ id' = [id EXCEPT ![e] = cache[s]]
         ELSE Move(e, "lookup", "register") /\ UNCHANGED id
  /\ UNCHANGED <<cache, registry, bus>>

\* schemaID, under the mutex: the id is cached, or has to be registered first.
Lookup(e) ==
  /\ sidecar = "ready"
  /\ IF cache[Subject(e)] # 0
       THEN Move(e, "lookup", "produce") /\ id' = [id EXCEPT ![e] = cache[Subject(e)]]
       ELSE Move(e, "lookup", "register") /\ UNCHANGED id
  /\ UNCHANGED <<cache, registry, bus>>

\* The registry gives a subject's schema one id, however often it is registered.
NewId == IF \A s \in Subjects : registry[s] = 0 THEN 1 ELSE 2
IdFor(s) == IF registry[s] = 0 THEN NewId ELSE registry[s]

\* registerSchema, outside the mutex: several handlers may be here at once.
Register(e) ==
  /\ Move(e, "register", "store")
  /\ id' = [id EXCEPT ![e] = IdFor(Subject(e))]
  /\ registry' = [registry EXCEPT ![Subject(e)] = IdFor(Subject(e))]
  /\ UNCHANGED <<cache, bus>>

\* The registry is unreachable, refuses or answers too late (it may have
\* registered the schema all the same): nothing is cached, the publish fails.
RegisterFails(e) ==
  /\ Move(e, "register", "rejected")
  /\ registry' \in {registry, [registry EXCEPT ![Subject(e)] = IdFor(Subject(e))]}
  /\ UNCHANGED <<id, cache, bus>>

Store(e) ==
  /\ Move(e, "store", "produce")
  /\ cache' = [cache EXCEPT ![Subject(e)] = id[e]]
  /\ UNCHANGED <<id, registry, bus>>

\* ProduceSync: the broker appends the framed record ...
AppendRecord(e) ==
  /\ Move(e, "produce", "appended")
  /\ bus' = Append(bus, [event |-> e, id |-> id[e]])
  /\ UNCHANGED <<id, cache, registry>>

\* (acknowledged before the broker does)
ProduceAsync(e) ==
  /\ \/ Move(e, "produce", "accepted") \/ Move(e, "appended", "accepted")
  /\ UNCHANGED Publisher

\* ... and all in-sync replicas acknowledge it,
Produced(e) ==
  /\ Move(e, "appended", "accepted")
  /\ UNCHANGED Publisher

\* ... or the produce fails, the record on the log or not.
ProduceFails(e) ==
  /\ Move(e, "produce", "rejected") \/ Move(e, "appended", "rejected")
  /\ UNCHANGED Publisher

\* The sidecar dies: its handlers with it, and the cache.
SidecarDies ==
  /\ sidecar # "down" /\ restarts < MaxRestarts
  /\ restarts' = restarts + 1
  /\ sidecar' = "down"
  /\ stage' = [e \in Events |-> IF stage[e] \in Answer \cup {"none"} THEN stage[e] ELSE "lost"]
  /\ cache' = [s \in Subjects |-> 0]
  /\ UNCHANGED <<Sending, id, registry, bus, provisioned>>

\* It comes up with a Publisher, or without one when the bus does not answer.
SidecarStarts ==
  /\ sidecar = "down"
  /\ sidecar' \in {"dry", "ready"}
  /\ UNCHANGED <<Sending, stage, Publisher, restarts, provisioned>>

-----------------------------------------------------------------------------
(* provision-schemas, run at every boot                                    *)

\* EnsureSubjects registers the next subject, which may have been registered by an
\* earlier run or by a producer.
Provision ==
  /\ provisioned < Len(FleetSubjects)
  /\ provisioned' = provisioned + 1
  /\ LET s == FleetSubjects[provisioned + 1] IN registry' = [registry EXCEPT ![s] = IdFor(s)]
  /\ UNCHANGED <<sidecar, Sending, stage, id, cache, bus, restarts>>

\* A registration fails, on this side or on both, and the run with it.
ProvisionFails ==
  /\ provisioned < Len(FleetSubjects)
  /\ provisioned' = 0
  /\ LET s == FleetSubjects[provisioned + 1]
     IN  registry' \in {registry, [registry EXCEPT ![s] = IdFor(s)]}
  /\ UNCHANGED <<sidecar, Sending, stage, id, cache, bus, restarts>>

\* All are ensured; at the next boot it starts again.
Boot ==
  /\ provisioned = Len(FleetSubjects)
  /\ provisioned' = 0
  /\ UNCHANGED <<sidecar, Sending, stage, Publisher, restarts>>

-----------------------------------------------------------------------------

Pipeline(b) == Emit(b) \/ Answered(b) \/ Timeout(b)
Handler(e) ==
  \/ ReadFailed(e) \/ AcceptAndDrop(e) \/ Lookup(e) \/ Register(e) \/ RegisterFails(e)
  \/ Store(e) \/ AppendRecord(e) \/ Produced(e) \/ ProduceFails(e)

Next ==
  \/ \E b \in Bentos : Pipeline(b)
  \/ Beat \/ Answered(Heart)
  \/ \E e \in Events : Handler(e)
  \/ SidecarDies \/ SidecarStarts
  \/ Provision \/ ProvisionFails \/ Boot

Spec == Init /\ [][Next]_vars

\* Only the pipelines' own threads and their timeouts are fair: the sidecar, the
\* registry and the broker may hang.
FairSpec == Spec /\ \A b \in Bentos : WF_vars(Pipeline(b))

-----------------------------------------------------------------------------
(* Properties                                                              *)

OnBus(e) == \E i \in DOMAIN bus : bus[i].event = e

\* No event is on the bus twice, whatever times out, fails or dies: nobody sends
\* an event again (frood.emit drops what fails).
PublishedAtMostOnce ==
  \A i, j \in DOMAIN bus : bus[i].event = bus[j].event => i = j

\* An event that a sidecar with a live Publisher accepted is on the bus: 202 is
\* answered after the broker's acknowledgement.
AcceptedIsPublished ==
  \A e \in Events : (stage[e] = "accepted" /\ id[e] # 0) => OnBus(e)

\* Every frame carries the id the registry holds for its message's subject,
\* however many handlers register the schema at once and whatever the sidecar
\* forgets: a consumer decodes each record with the right schema.
FramedWithItsSchema ==
  \A i \in DOMAIN bus :
    bus[i].id # 0 /\ bus[i].id = registry[Subject(bus[i].event)]

\* The events of one sender overtake each other on the bus only when the sender
\* had given up on the earlier one.
OvertakenWasGivenUp ==
  \A i, j \in DOMAIN bus :
    (i < j /\ Sender(bus[i].event) = Sender(bus[j].event) /\ bus[i].event[2] > bus[j].event[2])
      => bus[j].event \in gaveUp

\* A bento is walked to its end whatever the sidecar, the registry and the
\* broker do: emission never blocks the work it describes.
EmitNeverBlocks ==
  \A b \in Bentos : <>(relayed[b] = Relays /\ b \notin waiting)

-----------------------------------------------------------------------------
(* What the repository says, and the code does not do                      *)

\* bento_fsm: "the in-flight state lives on the bus (the last lifecycle event)".
\* When all of a bento's events are on the bus, the last one is the last it
\* emitted.
LastEventIsState ==
  \A b \in Bentos :
    (\A n \in 1..Relays : OnBus(<<b, n>>)) =>
      \E i \in DOMAIN bus :
        /\ bus[i].event = <<b, Relays>>
        /\ \A j \in DOMAIN bus : Sender(bus[j].event) = b => j <= i

=============================================================================
