------------------------------- MODULE Dummy -------------------------------
(***************************************************************************)
(* A Go frood, as cmd/dummy wires it: a FilesOracle over an inbox, polled  *)
(* by a watcher.Watcher whose handler drives one bento for each new file   *)
(* through the generated Step, which emits each transition itself.         *)
(*                                                                         *)
(* The poll loop is one goroutine, the heartbeat another.  Droppers add    *)
(* and remove files at any moment.  What the oracle has seen is in memory  *)
(* only: a restarted process reports every file again.                     *)
(*                                                                         *)
(* The broker creates no topic by itself: on a new bus, provision-topics   *)
(* creates those of the fleet, one after the other, at every boot.         *)
(***************************************************************************)
EXTENDS Naturals, Sequences, BentoFsm

CONSTANTS
  Names,       \* the file names of the inbox, in sorted order
  MaxDrops,    \* how many times droppers drop a file (bound)
  MaxRestarts  \* how many times the process is restarted (bound)

ASSUME DummyAssumption == Names \subseteq Nat /\ {MaxDrops, MaxRestarts} \subseteq Nat

VARIABLES
  inbox,     \* the files that are there
  drops,     \* how many more files will be dropped
  bus,       \* whether the broker and the registry answer
  topics,    \* the topics the broker has
  boots,     \* whether the bus is new, and provision-topics run at every boot
  job,       \* the topic that provision-topics is at (0: it is not running)
  pub,       \* whether this process has a Publisher: it connects at its start
  heart,     \* the heartbeat goroutine: its last publication
  seen,      \* FilesOracle.seen
  items,     \* the poll's files still to be driven
  bentos,    \* every bento ever made, oldest first
  pc,        \* where the loop is
  restarts   \* how many times the process was restarted

vars == <<inbox, drops, bus, topics, boots, job, pub, heart, seen, items, bentos, pc, restarts>>

\* A bento: its file, its process, the state it is in, the states whose event was
\* published, and how drive left it ("-": not yet).
Bentos == [name : Names, life : Nat, state : ActiveStates, events : SUBSET ActiveStates,
           left : {"-", "finished", "failed"}]

\* The topics of the mesh, as they are declared.
FleetTopics == <<"observability.events", "bento.events", "delight.events",
                 "paling.events", "magpie.events">>
Fleet == {FleetTopics[i] : i \in DOMAIN FleetTopics}
TopicObservability == "observability.events"
topicBentoEvents   == "bento.events"

TypeOK ==
  /\ inbox \subseteq Names /\ drops \in 0..MaxDrops
  /\ bus \in BOOLEAN /\ pub \in BOOLEAN /\ boots \in BOOLEAN
  /\ topics \subseteq Fleet /\ job \in 0..Len(FleetTopics)
  /\ heart \in {"off", "ticking", "sent", "failed"}
  /\ seen \subseteq Names /\ items \subseteq Names
  /\ bentos \in Seq(Bentos)
  /\ pc \in {"down", "poll", "pick", "step", "emit"}
  /\ restarts \in 0..MaxRestarts

Init ==
  /\ inbox \in SUBSET Names /\ drops \in 0..MaxDrops
  /\ boots \in BOOLEAN /\ topics = IF boots THEN {} ELSE Fleet
  /\ job = 0
  /\ bus \in BOOLEAN /\ pub = bus /\ heart = IF bus THEN "ticking" ELSE "off"
  /\ seen = {} /\ items = {} /\ bentos = <<>>
  /\ pc = "poll" /\ restarts = 0

Cur == Len(bentos)
Process == <<pub, restarts>>
Broker  == <<topics, boots, job>>

-----------------------------------------------------------------------------
(* The world                                                               *)

World(newInbox, newBus) ==
  /\ inbox' = newInbox /\ bus' = newBus
  /\ UNCHANGED <<Broker, Process, heart, seen, items, bentos, pc>>

Drop(n) ==
  /\ n \notin inbox /\ drops > 0
  /\ drops' = drops - 1
  /\ World(inbox \cup {n}, bus)

Remove(n) ==
  /\ n \in inbox
  /\ World(inbox \ {n}, bus) /\ UNCHANGED drops

BusTurns ==
  World(inbox, ~bus) /\ UNCHANGED drops

-----------------------------------------------------------------------------
(* provision-topics                                                        *)

Provision(newJob, newTopics) ==
  /\ job' = newJob /\ topics' = newTopics
  /\ UNCHANGED <<inbox, drops, bus, boots, Process, heart, seen, items, bentos, pc>>

\* EnsureTopics reaches the broker,
Boot ==
  /\ boots /\ job = 0 /\ bus
  /\ Provision(1, topics)

\* (a topic that exists is an error)
CreateNewTopic ==
  /\ job # 0 /\ bus
  /\ Provision(IF FleetTopics[job] \in topics THEN 0 ELSE (job + 1) % (Len(FleetTopics) + 1),
               topics \cup {FleetTopics[job]})

\* creates one topic after the other, content with those that exist,
CreateTopic ==
  /\ job # 0 /\ bus
  /\ Provision((job + 1) % (Len(FleetTopics) + 1), topics \cup {FleetTopics[job]})

\* and gives up at the first error.
ProvisionFails ==
  /\ job # 0 /\ ~bus
  /\ Provision(0, topics)

-----------------------------------------------------------------------------
(* The heartbeat                                                           *)

\* A record can be produced to a topic.
Reaches(topic) == bus /\ topic \in topics

Beat(result) ==
  /\ pc # "down" /\ heart # "off"
  /\ heart' = result
  /\ UNCHANGED <<inbox, drops, bus, Broker, Process, seen, items, bentos, pc>>

BeatSent == Reaches(TopicObservability) /\ Beat("sent")

\* (the goroutine returns)
BeatFailsForGood == ~Reaches(TopicObservability) /\ Beat("off")

\* A failure is logged, and the ticker ticks on.
BeatFails == ~Reaches(TopicObservability) /\ Beat("failed")

-----------------------------------------------------------------------------
(* The watcher, the oracle and drive                                       *)

Loop(newPc, newBentos) ==
  /\ pc' = newPc /\ bentos' = newBentos
  /\ UNCHANGED <<inbox, drops, bus, Broker, Process, heart>>

\* (one file a poll, the others marked as seen all the same)
PollTakesOne ==
  /\ pc = "poll"
  /\ LET fresh == inbox \ seen
     IN  /\ seen' = seen \cup fresh
         /\ items' = {n \in fresh : \A m \in fresh : n <= m}
         /\ Loop(IF fresh = {} THEN "poll" ELSE "pick", bentos)

\* FilesOracle.Poll: the files not seen before, which it marks as seen; the
\* watcher calls its handler when there are any.
Poll ==
  /\ pc = "poll"
  /\ LET fresh == inbox \ seen
     IN  /\ seen' = seen \cup fresh
         /\ items' = fresh
         /\ Loop(IF fresh = {} THEN "poll" ELSE "pick", bentos)

\* The poll sorts its files.
First == CHOOSE n \in items : \A m \in items : n <= m

\* drive: a synthetic bento for the next item, whatever became of the file.
Drive ==
  /\ pc = "pick" /\ items # {}
  /\ items' = items \ {First}
  /\ Loop("step", Append(bentos, [name |-> First, life |-> restarts, state |-> "NOTICED",
                                  events |-> {}, left |-> "-"]))
  /\ UNCHANGED seen

HandlerReturns ==
  /\ pc = "pick" /\ items = {}
  /\ Loop("poll", bentos) /\ UNCHANGED <<seen, items>>

\* The dummy's handlers: what each state returns, DONE and FAILED nothing.
After == [NOTICED |-> "COOK", COOK |-> "DONE", PARTIAL |-> "DONE"]

\* Step applies the state the handler returned, and goes on to emit it.
Step ==
  /\ pc = "step" /\ bentos[Cur].state \in DOMAIN After
  /\ Loop("emit", [bentos EXCEPT ![Cur].state = After[bentos[Cur].state]])
  /\ UNCHANGED <<seen, items>>

\* A terminal handler returned no state: the walk is over.
Finish ==
  /\ pc = "step" /\ bentos[Cur].state \in Terminal
  /\ Loop("pick", [bentos EXCEPT ![Cur].left = "finished"])
  /\ UNCHANGED <<seen, items>>

\* EmitLifecycle without a Publisher: a no-op.
EmitNothing ==
  /\ pc = "emit" /\ ~pub
  /\ Loop("step", bentos) /\ UNCHANGED <<seen, items>>

\* EmitLifecycle publishes the event of the new state,
EmitEvent ==
  /\ pc = "emit" /\ pub /\ Reaches(topicBentoEvents)
  /\ Loop("step", [bentos EXCEPT ![Cur].events = bentos[Cur].events \cup {bentos[Cur].state}])
  /\ UNCHANGED <<seen, items>>

\* (the walk goes on)
EmitIgnoresError ==
  /\ pc = "emit" /\ pub /\ ~Reaches(topicBentoEvents)
  /\ Loop("step", bentos) /\ UNCHANGED <<seen, items>>

\* (the item is given back)
EmitErrorRetries ==
  /\ pc = "emit" /\ pub /\ ~Reaches(topicBentoEvents)
  /\ Loop("poll", [bentos EXCEPT ![Cur].left = "failed"])
  /\ seen' = seen \ {bentos[Cur].name} /\ items' = {}

\* or fails: Step returns the error, and drive gives the bento up.
EmitError ==
  /\ pc = "emit" /\ pub /\ ~Reaches(topicBentoEvents)
  /\ Loop("pick", [bentos EXCEPT ![Cur].left = "failed"])
  /\ UNCHANGED <<seen, items>>

Stop ==
  /\ pc # "down" /\ restarts < MaxRestarts
  /\ pc' = "down"
  /\ UNCHANGED <<inbox, drops, bus, Broker, Process, heart, seen, items, bentos>>

\* A new process: nothing seen, and a Publisher, with its heartbeat, if the broker
\* answers just then.
Start ==
  /\ pc = "down"
  /\ restarts' = restarts + 1
  /\ pub' = bus /\ heart' = IF bus THEN "ticking" ELSE "off"
  /\ seen' = {} /\ items' = {} /\ pc' = "poll"
  /\ UNCHANGED <<inbox, drops, bus, Broker, bentos>>

-----------------------------------------------------------------------------

Frood == Poll \/ Drive \/ HandlerReturns \/ Step \/ Finish \/ EmitNothing \/ EmitEvent
Next ==
  \/ Frood \/ EmitError \/ Stop \/ Start
  \/ BeatSent \/ BeatFails
  \/ Boot \/ CreateTopic \/ ProvisionFails
  \/ BusTurns \/ \E n \in Names : Drop(n) \/ Remove(n)

Spec == Init /\ [][Next]_vars

\* The tickers tick, the goroutines run, a stopped frood is started again, and a job
\* that failed is run again.  A publication to a broker that does not answer may fail or
\* hang for ever; one to a topic that does not exist fails.
Fairness ==
  /\ WF_vars(Frood \/ (bus /\ EmitError)) /\ WF_vars(Start) /\ WF_vars(BeatSent)
  /\ WF_vars(Boot) /\ WF_vars(CreateTopic)

FairSpec == Spec /\ Fairness

-----------------------------------------------------------------------------
(* Properties                                                              *)

\* One process drives each name at most once, however often the file is dropped
\* again or its bento was given up.
DrivenOncePerProcess ==
  \A i, j \in DOMAIN bentos :
    (bentos[i].name = bentos[j].name /\ bentos[i].life = bentos[j].life) => i = j

\* A bento has gone past COOK only with COOK's event on the bus, unless its
\* process has no Publisher; so the events of a finished bento are all there or
\* none is.
NoEventSkipped ==
  \A i \in DOMAIN bentos :
    bentos[i].left = "finished" => bentos[i].events \in {{}, {"COOK", "DONE"}}

\* A file that stays in the inbox is in the end driven to its end, or given up, if the
\* bus stays too, or the process has no Publisher to wait for.
EveryFileDriven ==
  \A n \in Names :
    <>[](n \in inbox /\ (bus \/ ~pub)) =>
      <>(\E i \in DOMAIN bentos : bentos[i].name = n /\ bentos[i].left # "-")

\* Failed heartbeats, on a bus that was away or had not the topic yet, are not the
\* last: when a process that has a Publisher has its bus and its topic, it beats.
HeartbeatComesBack ==
  <>[](pc # "down" /\ pub /\ Reaches(TopicObservability)) => <>[](heart = "sent")

\* However often provision-topics failed half way, a bus that stays has all topics in
\* the end: a topic made by an earlier boot does not stop a later one.
TopicsInTheEnd ==
  <>[]bus => <>[](topics = Fleet)

-----------------------------------------------------------------------------
(* What the repository says, and the code does not do                      *)

\* cmd/dummy: "emission is best-effort: a down broker disables it but never stops
\* the service"; emit: "emission must never block the work it describes".  Every
\* bento that drive has left is finished.
WorkOutlivesBus == \A i \in DOMAIN bentos : bentos[i].left # "failed"

=============================================================================
