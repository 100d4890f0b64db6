---------------------------- MODULE Dummy_proofs ----------------------------
(***************************************************************************)
(* Theorems of Dummy, for any file names, drops, and restarts, and a bus   *)
(* that comes and goes as it likes, with or without its topics.            *)
(***************************************************************************)
EXTENDS Dummy, WellFoundedInduction, TLAPS

-----------------------------------------------------------------------------
(* Files and bentos                                                        *)

\* The poll's first file is one of its files.
LEMMA FirstItem ==
  ASSUME items \subseteq Names, items # {}
  PROVE  First \in items
  <1> DEFINE R == OpToRel(<, Nat)
  <1>1. items \subseteq Nat
    BY DummyAssumption
  <1>2. PICK n \in items : \A m \in items : ~(<<m, n>> \in R)
    BY <1>1, WFMin, NatLessThanWellFounded
  <1>3. \A m \in items : n <= m
    <2> TAKE m \in items
    <2>1. m \in Nat /\ n \in Nat /\ ~(m < n)
      BY <1>1, <1>2 DEF OpToRel
    <2> QED
      BY <2>1
  <1> QED
    BY <1>3 DEF First

\* A new bento at the end, and a change of the last one.
LEMMA AddBento ==
  ASSUME NEW S, NEW q \in Seq(S), NEW x \in S
  PROVE  /\ Append(q, x) \in Seq(S) /\ Len(Append(q, x)) = Len(q) + 1
         /\ DOMAIN Append(q, x) = 1..(Len(q) + 1) /\ DOMAIN q = 1..Len(q) /\ Len(q) \in Nat
         /\ Append(q, x)[Len(q) + 1] = x /\ \A i \in DOMAIN q : Append(q, x)[i] = q[i]
  OBVIOUS

LEMMA ChangeBento ==
  ASSUME NEW S, NEW q \in Seq(S), q # <<>>, NEW x \in S
  PROVE  LET c == [q EXCEPT ![Len(q)] = x]
         IN  /\ c \in Seq(S) /\ Len(c) = Len(q) /\ DOMAIN c = DOMAIN q /\ Len(q) \in DOMAIN q
             /\ c[Len(q)] = x /\ \A i \in DOMAIN q : i # Len(q) => c[i] = q[i]
             /\ q[Len(q)] \in S
  OBVIOUS

-----------------------------------------------------------------------------
(* The inductive invariant                                                 *)

\* What this process has driven it has seen, and will not take again.
OnceInv ==
  /\ items \subseteq seen
  /\ \A i \in DOMAIN bentos :
       /\ bentos[i].life <= restarts
       /\ bentos[i].life = restarts => bentos[i].name \in seen /\ bentos[i].name \notin items

\* The events of a bento in its walk: those of the states before the one at hand, and
\* once it has been emitted, of that one too.
EventsInv ==
  /\ pc \in {"step", "emit"} => bentos # <<>>
  /\ pc \in {"step", "emit"} => bentos[Cur].left = "-"
  /\ pc = "step" =>
       /\ bentos[Cur].state \in {"NOTICED", "COOK", "DONE"}
       /\ bentos[Cur].events = IF ~pub \/ bentos[Cur].state = "NOTICED" THEN {}
                               ELSE IF bentos[Cur].state = "COOK" THEN {"COOK"} ELSE {"COOK", "DONE"}
  /\ pc = "emit" =>
       /\ bentos[Cur].state \in {"COOK", "DONE"}
       /\ bentos[Cur].events = IF pub /\ bentos[Cur].state = "DONE" THEN {"COOK"} ELSE {}

RestartBound == pc = "down" => restarts < MaxRestarts

FroodInv == TypeOK /\ RestartBound /\ OnceInv /\ DrivenOncePerProcess /\ EventsInv /\ NoEventSkipped

LEMMA InitFrood == Init => FroodInv
  <1> SUFFICES ASSUME Init PROVE FroodInv
    OBVIOUS
  <1>1. /\ inbox \subseteq Names /\ drops \in 0..MaxDrops /\ boots \in BOOLEAN /\ job = 0
        /\ topics = (IF boots THEN {} ELSE Fleet) /\ bus \in BOOLEAN /\ pub = bus
        /\ heart = (IF bus THEN "ticking" ELSE "off")
        /\ seen = {} /\ items = {} /\ bentos = <<>> /\ pc = "poll" /\ restarts = 0
    BY DEF Init
  <1>2. bentos \in Seq(Bentos) /\ DOMAIN bentos = {}
    BY <1>1
  <1>3. job \in 0..Len(FleetTopics)
    BY <1>1 DEF FleetTopics
  <1>4. topics \subseteq Fleet
    BY <1>1
  <1>5. TypeOK
    BY <1>1, <1>2, <1>3, <1>4, DummyAssumption DEF TypeOK
  <1>6. OnceInv /\ DrivenOncePerProcess /\ NoEventSkipped
    BY <1>1, <1>2 DEF OnceInv, DrivenOncePerProcess, NoEventSkipped
  <1>7. EventsInv /\ RestartBound
    BY <1>1 DEF EventsInv, RestartBound
  <1> QED
    BY <1>5, <1>6, <1>7 DEF FroodInv

-----------------------------------------------------------------------------
(* Steps that leave the bentos alone                                       *)

Around ==
  \/ \E n \in Names : Drop(n) \/ Remove(n)
  \/ BusTurns \/ Boot \/ CreateTopic \/ ProvisionFails \/ BeatSent \/ BeatFails

\* provision-topics steps through the topics of the fleet, and creates no others.
LEMMA ProvisionType ==
  ASSUME TypeOK, Boot \/ CreateTopic \/ ProvisionFails
  PROVE  job' \in 0..Len(FleetTopics) /\ topics' \subseteq Fleet
  <1>1. Len(FleetTopics) = 5 /\ DOMAIN FleetTopics = 1..5
    BY DEF FleetTopics
  <1>2. job \in 0..5 /\ topics \subseteq Fleet
    BY <1>1 DEF TypeOK
  <1>3. CASE Boot
    BY <1>1, <1>2, <1>3 DEF Boot, Provision
  <1>4. CASE CreateTopic
    <2>1. job' = (job + 1) % (Len(FleetTopics) + 1) /\ topics' = topics \cup {FleetTopics[job]} /\ job # 0
      BY <1>4 DEF CreateTopic, Provision
    <2>2. job \in DOMAIN FleetTopics
      BY <1>1, <1>2, <2>1
    <2>3. job' \in 0..5
      BY <1>1, <1>2, <2>1
    <2> QED
      BY <1>1, <1>2, <2>1, <2>2, <2>3 DEF Fleet
  <1>5. CASE ProvisionFails
    BY <1>1, <1>2, <1>5 DEF ProvisionFails, Provision
  <1> QED
    BY <1>3, <1>4, <1>5

LEMMA AroundInv ==
  ASSUME FroodInv, Around
  PROVE  FroodInv'
  <1> USE DEF FroodInv
  <1>1. /\ seen' = seen /\ items' = items /\ bentos' = bentos /\ pc' = pc /\ restarts' = restarts
        /\ pub' = pub /\ boots' = boots
    BY DEF Around, Drop, Remove, BusTurns, World, Boot, CreateTopic, ProvisionFails, Provision,
           BeatSent, BeatFails, Beat, Process, Broker
  <1>2. inbox' \subseteq Names /\ drops' \in 0..MaxDrops /\ bus' \in BOOLEAN
    <2>1. inbox \subseteq Names /\ drops \in 0..MaxDrops /\ bus \in BOOLEAN /\ MaxDrops \in Nat
      BY DummyAssumption DEF TypeOK
    <2>2. ASSUME NEW n \in Names, Drop(n) PROVE inbox' = inbox \cup {n} /\ drops > 0 /\ drops' = drops - 1 /\ bus' = bus
      BY <2>2 DEF Drop, World
    <2>3. ASSUME NEW n \in Names, Remove(n) PROVE inbox' = inbox \ {n} /\ drops' = drops /\ bus' = bus
      BY <2>3 DEF Remove, World
    <2>4. CASE BusTurns
      BY <2>1, <2>4 DEF BusTurns, World
    <2>5. CASE Boot \/ CreateTopic \/ ProvisionFails \/ BeatSent \/ BeatFails
      BY <2>1, <2>5 DEF Boot, CreateTopic, ProvisionFails, Provision, BeatSent, BeatFails, Beat
    <2> QED
      BY <2>1, <2>2, <2>3, <2>4, <2>5 DEF Around
  <1>3. job' \in 0..Len(FleetTopics) /\ topics' \subseteq Fleet
    <2>1. CASE Boot \/ CreateTopic \/ ProvisionFails
      BY <2>1, ProvisionType
    <2>2. CASE BeatSent \/ BeatFails \/ BusTurns \/ \E n \in Names : Drop(n) \/ Remove(n)
      BY <2>2 DEF TypeOK, BeatSent, BeatFails, Beat, BusTurns, Drop, Remove, World, Broker
    <2> QED
      BY <2>1, <2>2 DEF Around
  <1>4. heart' \in {"off", "ticking", "sent", "failed"}
    BY DEF TypeOK, Around, Drop, Remove, BusTurns, World, Boot, CreateTopic, ProvisionFails, Provision,
           BeatSent, BeatFails, Beat
  <1>5. TypeOK'
    BY <1>1, <1>2, <1>3, <1>4 DEF TypeOK
  <1>6. Cur' = Cur
    BY <1>1 DEF Cur
  <1>7. OnceInv' /\ DrivenOncePerProcess' /\ NoEventSkipped'
    BY <1>1 DEF OnceInv, DrivenOncePerProcess, NoEventSkipped
  <1>8. EventsInv' /\ RestartBound'
    BY <1>1, <1>6 DEF EventsInv, RestartBound
  <1> QED
    BY <1>5, <1>7, <1>8

\* A process ends, and a new one starts: all that was driven was driven in earlier ones.
LEMMA LifeInv ==
  ASSUME FroodInv, Stop \/ Start
  PROVE  FroodInv'
  <1> USE DEF FroodInv
  <1>1. CASE Stop
    <2>1. /\ UNCHANGED <<inbox, drops, bus, topics, boots, job, pub, heart, seen, items, bentos, restarts>>
          /\ pc' = "down" /\ restarts < MaxRestarts
      BY <1>1 DEF Stop, Broker, Process
    <2>2. TypeOK'
      BY <2>1 DEF TypeOK
    <2>3. RestartBound' /\ OnceInv' /\ DrivenOncePerProcess' /\ NoEventSkipped' /\ EventsInv'
      BY <2>1 DEF RestartBound, OnceInv, DrivenOncePerProcess, NoEventSkipped, EventsInv
    <2> QED
      BY <2>2, <2>3
  <1>2. CASE Start
    <2>1. /\ UNCHANGED <<inbox, drops, bus, topics, boots, job, bentos>>
          /\ restarts' = restarts + 1 /\ pub' = bus /\ heart' = (IF bus THEN "ticking" ELSE "off")
          /\ seen' = {} /\ items' = {} /\ pc' = "poll"
      BY <1>2 DEF Start, Broker
    <2>2. restarts \in Nat /\ restarts' \in 0..MaxRestarts
      <3>1. pc = "down" /\ restarts \in 0..MaxRestarts /\ MaxRestarts \in Nat
        BY <1>2, DummyAssumption DEF Start, TypeOK
      <3> QED
        BY <2>1, <3>1 DEF RestartBound
    <2>3. TypeOK'
      BY <2>1, <2>2 DEF TypeOK
    <2>4. \A i \in DOMAIN bentos : bentos[i].life <= restarts' /\ bentos[i].life # restarts'
      <3> TAKE i \in DOMAIN bentos
      <3>1. bentos[i] \in Bentos /\ bentos[i].life <= restarts
        BY DEF TypeOK, OnceInv
      <3>2. bentos[i].life \in Nat
        BY <3>1 DEF Bentos
      <3> QED
        BY <2>1, <2>2, <3>1, <3>2
    <2>5. OnceInv'
      BY <2>1, <2>4 DEF OnceInv
    <2>6. RestartBound' /\ DrivenOncePerProcess' /\ NoEventSkipped' /\ EventsInv'
      BY <2>1 DEF RestartBound, DrivenOncePerProcess, NoEventSkipped, EventsInv
    <2> QED
      BY <2>3, <2>5, <2>6
  <1> QED
    BY <1>1, <1>2

-----------------------------------------------------------------------------
(* The loop                                                                *)

\* A poll takes files the process has not seen, none of which it has driven.
LEMMA PollInv ==
  ASSUME FroodInv, Poll \/ HandlerReturns
  PROVE  FroodInv'
  <1> USE DEF FroodInv
  <1>1. /\ UNCHANGED <<inbox, drops, bus, topics, boots, job, pub, heart, bentos, restarts>>
        /\ pc' \in {"poll", "pick"}
        /\ \/ seen' = seen \cup (inbox \ seen) /\ items' = inbox \ seen
           \/ seen' = seen /\ items' = items
    BY DEF Poll, HandlerReturns, Loop, Broker, Process
  <1>2. TypeOK'
    BY <1>1 DEF TypeOK
  <1>3. OnceInv'
    <2>1. items' \subseteq seen'
      BY <1>1 DEF OnceInv
    <2>2. \A i \in DOMAIN bentos :
            bentos[i].life <= restarts
            /\ (bentos[i].life = restarts => bentos[i].name \in seen' /\ bentos[i].name \notin items')
      BY <1>1 DEF OnceInv
    <2> QED
      BY <1>1, <2>1, <2>2 DEF OnceInv
  <1>4. RestartBound' /\ DrivenOncePerProcess' /\ NoEventSkipped' /\ EventsInv'
    BY <1>1 DEF RestartBound, DrivenOncePerProcess, NoEventSkipped, EventsInv
  <1> QED
    BY <1>2, <1>3, <1>4

\* The new bento's name leaves the items, and no other bento of this process has it.
LEMMA DriveInv ==
  ASSUME FroodInv, Drive
  PROVE  FroodInv'
  <1> USE DEF FroodInv
  <1> DEFINE new == [name |-> First, life |-> restarts, state |-> "NOTICED", events |-> {}, left |-> "-"]
  <1>1. /\ UNCHANGED <<inbox, drops, bus, topics, boots, job, pub, heart, seen, restarts>>
        /\ pc' = "step" /\ items' = items \ {First} /\ bentos' = Append(bentos, new) /\ items # {}
    BY DEF Drive, Loop, Broker, Process
  <1>2. First \in items /\ First \in Names /\ First \in seen
    BY <1>1, FirstItem DEF TypeOK, OnceInv
  <1>3. new \in Bentos
    BY <1>2, DummyAssumption DEF Bentos, TypeOK, ActiveStates
  <1>4. new.name = First /\ new.life = restarts /\ new.state = "NOTICED" /\ new.events = {} /\ new.left = "-"
    OBVIOUS
  <1> HIDE DEF new
  <1>5. /\ bentos' \in Seq(Bentos) /\ Len(bentos') = Len(bentos) + 1 /\ Len(bentos) \in Nat
        /\ DOMAIN bentos' = 1..(Len(bentos) + 1) /\ DOMAIN bentos = 1..Len(bentos)
        /\ bentos'[Len(bentos) + 1] = new /\ \A i \in DOMAIN bentos : bentos'[i] = bentos[i]
    <2>1. bentos \in Seq(Bentos)
      BY DEF TypeOK
    <2> QED
      BY ONLY <1>1, <1>3, <2>1, AddBento
  <1>6. \A i \in DOMAIN bentos' : (i \in DOMAIN bentos /\ bentos'[i] = bentos[i]) \/ bentos'[i] = new
    BY <1>5
  <1>7. TypeOK'
    BY <1>1, <1>5 DEF TypeOK
  <1>8. OnceInv'
    <2>1. items' \subseteq seen'
      BY <1>1 DEF OnceInv
    <2>2. restarts <= restarts
      BY DummyAssumption DEF TypeOK
    <2>3. \A i \in DOMAIN bentos' :
            /\ bentos'[i].life <= restarts
            /\ bentos'[i].life = restarts => bentos'[i].name \in seen' /\ bentos'[i].name \notin items'
      <3> TAKE i \in DOMAIN bentos'
      <3>1. CASE i \in DOMAIN bentos /\ bentos'[i] = bentos[i]
        BY <1>1, <3>1 DEF OnceInv
      <3>2. CASE bentos'[i] = new
        BY <1>1, <1>2, <1>4, <2>2, <3>2
      <3> QED
        BY <1>6, <3>1, <3>2
    <2> QED
      BY <1>1, <2>1, <2>3 DEF OnceInv
  <1>9. DrivenOncePerProcess'
    <2> SUFFICES ASSUME NEW i \in DOMAIN bentos', NEW j \in DOMAIN bentos',
                        bentos'[i].name = bentos'[j].name, bentos'[i].life = bentos'[j].life
                 PROVE  i = j
      BY DEF DrivenOncePerProcess
    <2>1. \A k \in DOMAIN bentos : ~(bentos[k].name = First /\ bentos[k].life = restarts)
      BY <1>2 DEF OnceInv
    <2>2. \A k \in DOMAIN bentos' : k \in DOMAIN bentos \/ k = Len(bentos) + 1
      BY <1>5
    <2>3. CASE i \in DOMAIN bentos /\ j \in DOMAIN bentos
      BY <1>5, <2>3 DEF DrivenOncePerProcess
    <2>4. CASE i \in DOMAIN bentos /\ j = Len(bentos) + 1
      BY <1>4, <1>5, <2>1, <2>4
    <2>5. CASE i = Len(bentos) + 1 /\ j \in DOMAIN bentos
      BY <1>4, <1>5, <2>1, <2>5
    <2> QED
      BY <2>2, <2>3, <2>4, <2>5
  <1>10. EventsInv'
    <2>1. bentos' # <<>> /\ bentos'[Cur'] = new
      BY <1>5 DEF Cur
    <2> QED
      BY <1>1, <1>4, <2>1 DEF EventsInv
  <1>11. NoEventSkipped' /\ RestartBound'
    BY <1>1, <1>4, <1>6 DEF NoEventSkipped, RestartBound
  <1> QED
    BY <1>7, <1>8, <1>9, <1>10, <1>11

\* A step of the walk changes what the last bento tells of its walk, not its name.
LEMMA WalkStep ==
  ASSUME FroodInv, bentos # <<>>, NEW b \in Bentos,
         bentos' = [bentos EXCEPT ![Cur] = b] \/ (bentos' = bentos /\ b = bentos[Cur]),
         b.name = bentos[Cur].name, b.life = bentos[Cur].life,
         b.left = "finished" => b.events \in {{}, {"COOK", "DONE"}},
         pc' \in {"pick", "step", "emit"},
         UNCHANGED <<inbox, drops, bus, topics, boots, job, pub, heart, seen, items, restarts>>
  PROVE  /\ TypeOK' /\ RestartBound' /\ OnceInv' /\ DrivenOncePerProcess' /\ NoEventSkipped'
         /\ bentos' # <<>> /\ bentos'[Cur'] = b
  <1> USE DEF FroodInv
  <1>1. /\ bentos' \in Seq(Bentos) /\ DOMAIN bentos' = DOMAIN bentos /\ Len(bentos') = Len(bentos)
        /\ Cur \in DOMAIN bentos /\ bentos'[Cur] = b
        /\ \A i \in DOMAIN bentos : i # Cur => bentos'[i] = bentos[i]
    <2>1. bentos \in Seq(Bentos)
      BY DEF TypeOK
    <2>2. CASE bentos' = [bentos EXCEPT ![Cur] = b]
      BY <2>1, <2>2, ChangeBento DEF Cur
    <2>3. CASE bentos' = bentos /\ b = bentos[Cur]
      <3>1. Len(bentos) \in DOMAIN bentos
        BY <2>1
      <3> QED
        BY <2>1, <2>3, <3>1 DEF Cur
    <2> QED
      BY <2>2, <2>3
  <1>2. \A i \in DOMAIN bentos : bentos'[i].name = bentos[i].name /\ bentos'[i].life = bentos[i].life
    BY <1>1
  <1>3. Cur' = Cur
    BY <1>1 DEF Cur
  <1>4. TypeOK'
    BY <1>1 DEF TypeOK
  <1>5. RestartBound'
    BY DEF RestartBound
  <1>6. OnceInv'
    BY <1>1, <1>2 DEF OnceInv
  <1>7. DrivenOncePerProcess'
    BY <1>1, <1>2 DEF DrivenOncePerProcess
  <1>8. NoEventSkipped'
    BY <1>1 DEF NoEventSkipped
  <1>9. bentos' # <<>> /\ bentos'[Cur'] = b
    BY <1>1, <1>3
  <1> QED
    BY <1>4, <1>5, <1>6, <1>7, <1>8, <1>9

\* The last bento, while it is walked.
LEMMA Walked ==
  ASSUME FroodInv, bentos # <<>>
  PROVE  /\ bentos[Cur] \in Bentos
         /\ \A st \in ActiveStates : [bentos[Cur] EXCEPT !.state = st] \in Bentos
         /\ \A ev \in SUBSET ActiveStates : [bentos[Cur] EXCEPT !.events = ev] \in Bentos
         /\ \A l \in {"-", "finished", "failed"} : [bentos[Cur] EXCEPT !.left = l] \in Bentos
         /\ bentos[Cur].events \subseteq ActiveStates
  <1>1. bentos \in Seq(Bentos)
    BY DEF FroodInv, TypeOK
  <1>2. bentos[Cur] \in Bentos
    BY <1>1 DEF Cur
  <1> QED
    BY <1>2 DEF Bentos

\* The bentos of a process that finishes one were all emitted, or none was.
LEMMA LastInv ==
  ASSUME FroodInv, bentos # <<>>
  PROVE  bentos[Cur].left = "finished" => bentos[Cur].events \in {{}, {"COOK", "DONE"}}
  <1>1. bentos \in Seq(Bentos)
    BY DEF FroodInv, TypeOK
  <1>2. Cur \in DOMAIN bentos
    BY <1>1 DEF Cur
  <1> QED
    BY <1>2 DEF FroodInv, NoEventSkipped

LEMMA StepInv ==
  ASSUME FroodInv, Step
  PROVE  FroodInv'
  <1> DEFINE b == [bentos[Cur] EXCEPT !.state = After[bentos[Cur].state]]
  <1>1. /\ UNCHANGED <<inbox, drops, bus, topics, boots, job, pub, heart, seen, items, restarts>>
        /\ pc = "step" /\ pc' = "emit" /\ bentos' = [bentos EXCEPT ![Cur] = b]
        /\ bentos[Cur].state \in DOMAIN After /\ bentos # <<>> /\ bentos[Cur].left = "-"
    BY DEF Step, Loop, Broker, Process, FroodInv, EventsInv
  <1>2. \/ bentos[Cur].state = "NOTICED" /\ After[bentos[Cur].state] = "COOK"
        \/ bentos[Cur].state = "COOK" /\ After[bentos[Cur].state] = "DONE"
    <2>1. /\ DOMAIN After = {"NOTICED", "COOK", "PARTIAL"}
          /\ After["NOTICED"] = "COOK" /\ After["COOK"] = "DONE"
      BY DEF After
    <2>2. bentos[Cur].state \in {"NOTICED", "COOK", "DONE"}
      BY <1>1 DEF FroodInv, EventsInv
    <2>3. bentos[Cur].state = "NOTICED" \/ bentos[Cur].state = "COOK"
      BY <1>1, <2>1, <2>2
    <2> QED
      BY <2>1, <2>3
  <1>3. b \in Bentos /\ b.name = bentos[Cur].name /\ b.life = bentos[Cur].life /\ b.left = "-"
        /\ b.state = After[bentos[Cur].state] /\ b.events = bentos[Cur].events
    <2>1. bentos[Cur] \in Bentos /\ \A st \in ActiveStates : [bentos[Cur] EXCEPT !.state = st] \in Bentos
      BY <1>1, Walked
    <2>2. After[bentos[Cur].state] \in ActiveStates
      BY <1>2 DEF ActiveStates
    <2>3. b \in Bentos
      BY <2>1, <2>2
    <2>4. \A r \in Bentos, st \in ActiveStates :
            LET c == [r EXCEPT !.state = st]
            IN  /\ c.name = r.name /\ c.life = r.life /\ c.left = r.left /\ c.events = r.events
                /\ c.state = st
      BY DEF Bentos
    <2> QED
      BY <1>1, <2>1, <2>2, <2>3, <2>4
  <1> HIDE DEF b
  <1>4. /\ TypeOK' /\ RestartBound' /\ OnceInv' /\ DrivenOncePerProcess' /\ NoEventSkipped'
        /\ bentos' # <<>> /\ bentos'[Cur'] = b
    BY <1>1, <1>3, WalkStep
  <1>5. EventsInv'
    BY <1>1, <1>2, <1>3, <1>4 DEF FroodInv, EventsInv
  <1> QED
    BY <1>4, <1>5 DEF FroodInv

LEMMA FinishInv ==
  ASSUME FroodInv, Finish
  PROVE  FroodInv'
  <1> DEFINE b == [bentos[Cur] EXCEPT !.left = "finished"]
  <1>1. /\ UNCHANGED <<inbox, drops, bus, topics, boots, job, pub, heart, seen, items, restarts>>
        /\ pc = "step" /\ pc' = "pick" /\ bentos' = [bentos EXCEPT ![Cur] = b]
        /\ bentos[Cur].state \in Terminal /\ bentos # <<>>
    BY DEF Finish, Loop, Broker, Process, FroodInv, EventsInv
  <1>2. bentos[Cur].events \in {{}, {"COOK", "DONE"}}
    BY <1>1 DEF FroodInv, EventsInv, Terminal
  <1>3. b \in Bentos /\ b.name = bentos[Cur].name /\ b.life = bentos[Cur].life
        /\ b.events = bentos[Cur].events
    BY <1>1, Walked DEF Bentos
  <1> HIDE DEF b
  <1>4. TypeOK' /\ RestartBound' /\ OnceInv' /\ DrivenOncePerProcess' /\ NoEventSkipped'
    BY <1>1, <1>2, <1>3, WalkStep
  <1>5. EventsInv'
    BY <1>1 DEF EventsInv
  <1> QED
    BY <1>4, <1>5 DEF FroodInv

LEMMA EmitNothingInv ==
  ASSUME FroodInv, EmitNothing
  PROVE  FroodInv'
  <1>1. /\ UNCHANGED <<inbox, drops, bus, topics, boots, job, pub, heart, seen, items, bentos, restarts>>
        /\ pc = "emit" /\ pc' = "step" /\ ~pub /\ bentos # <<>>
    BY DEF EmitNothing, Loop, Broker, Process, FroodInv, EventsInv
  <1>2. bentos[Cur] \in Bentos
    BY <1>1, Walked
  <1>3. /\ TypeOK' /\ RestartBound' /\ OnceInv' /\ DrivenOncePerProcess' /\ NoEventSkipped'
        /\ bentos' # <<>> /\ bentos'[Cur'] = bentos[Cur]
    BY <1>1, <1>2, LastInv, WalkStep
  <1>4. EventsInv'
    BY <1>1, <1>3 DEF FroodInv, EventsInv
  <1> QED
    BY <1>3, <1>4 DEF FroodInv

LEMMA EmitEventInv ==
  ASSUME FroodInv, EmitEvent
  PROVE  FroodInv'
  <1> DEFINE b == [bentos[Cur] EXCEPT !.events = bentos[Cur].events \cup {bentos[Cur].state}]
  <1>1. /\ UNCHANGED <<inbox, drops, bus, topics, boots, job, pub, heart, seen, items, restarts>>
        /\ pc = "emit" /\ pc' = "step" /\ pub /\ bentos' = [bentos EXCEPT ![Cur] = b] /\ bentos # <<>>
        /\ bentos[Cur].left = "-"
    BY DEF EmitEvent, Loop, Broker, Process, FroodInv, EventsInv
  <1>2. /\ bentos[Cur].state \in {"COOK", "DONE"}
        /\ bentos[Cur].events = IF bentos[Cur].state = "DONE" THEN {"COOK"} ELSE {}
    BY <1>1 DEF FroodInv, EventsInv
  <1>3. b \in Bentos /\ b.name = bentos[Cur].name /\ b.life = bentos[Cur].life /\ b.left = "-"
        /\ b.state = bentos[Cur].state /\ b.events = bentos[Cur].events \cup {bentos[Cur].state}
    <2>1. bentos[Cur].events \cup {bentos[Cur].state} \in SUBSET ActiveStates
      BY <1>2 DEF ActiveStates
    <2> QED
      BY <1>1, <2>1, Walked DEF Bentos
  <1> HIDE DEF b
  <1>4. b.events = IF b.state = "COOK" THEN {"COOK"} ELSE {"COOK", "DONE"}
    BY <1>2, <1>3
  <1>5. /\ TypeOK' /\ RestartBound' /\ OnceInv' /\ DrivenOncePerProcess' /\ NoEventSkipped'
        /\ bentos' # <<>> /\ bentos'[Cur'] = b
    BY <1>1, <1>3, WalkStep
  <1>6. EventsInv'
    BY <1>1, <1>2, <1>3, <1>4, <1>5 DEF EventsInv
  <1> QED
    BY <1>5, <1>6 DEF FroodInv

LEMMA EmitErrorInv ==
  ASSUME FroodInv, EmitError
  PROVE  FroodInv'
  <1> DEFINE b == [bentos[Cur] EXCEPT !.left = "failed"]
  <1>1. /\ UNCHANGED <<inbox, drops, bus, topics, boots, job, pub, heart, seen, items, restarts>>
        /\ pc = "emit" /\ pc' = "pick" /\ bentos' = [bentos EXCEPT ![Cur] = b] /\ bentos # <<>>
    BY DEF EmitError, Loop, Broker, Process, FroodInv, EventsInv
  <1>2. b \in Bentos /\ b.name = bentos[Cur].name /\ b.life = bentos[Cur].life /\ b.left = "failed"
    BY <1>1, Walked DEF Bentos
  <1> HIDE DEF b
  <1>3. TypeOK' /\ RestartBound' /\ OnceInv' /\ DrivenOncePerProcess' /\ NoEventSkipped'
    BY <1>1, <1>2, WalkStep
  <1>4. EventsInv'
    BY <1>1 DEF EventsInv
  <1> QED
    BY <1>3, <1>4 DEF FroodInv

-----------------------------------------------------------------------------
(* The theorems                                                            *)

LEMMA NextFrood == FroodInv /\ [Next]_vars => FroodInv'
  <1> SUFFICES ASSUME FroodInv, [Next]_vars PROVE FroodInv'
    OBVIOUS
  <1>1. CASE Around
    BY <1>1, AroundInv
  <1>2. CASE Stop \/ Start
    BY <1>2, LifeInv
  <1>3. CASE Poll \/ HandlerReturns
    BY <1>3, PollInv
  <1>4. CASE Drive
    BY <1>4, DriveInv
  <1>5. CASE Step
    BY <1>5, StepInv
  <1>6. CASE Finish
    BY <1>6, FinishInv
  <1>7. CASE EmitNothing
    BY <1>7, EmitNothingInv
  <1>8. CASE EmitEvent
    BY <1>8, EmitEventInv
  <1>9. CASE EmitError
    BY <1>9, EmitErrorInv
  <1>10. CASE UNCHANGED vars
    <2>1. FroodInv' <=> FroodInv
      BY <1>10 DEF vars, FroodInv, TypeOK, RestartBound, OnceInv, DrivenOncePerProcess,
                   EventsInv, NoEventSkipped, Cur
    <2> QED
      BY <2>1
  <1> QED
    BY <1>1, <1>2, <1>3, <1>4, <1>5, <1>6, <1>7, <1>8, <1>9, <1>10 DEF Next, Frood, Around

\* The inductive invariant of a Go frood: what it has driven it has seen, and the
\* events of the bento at hand are those of the states it has gone through.
THEOREM FroodInvariant == Spec => []FroodInv
  <1> QED
    BY InitFrood, NextFrood, PTL DEF Spec

\* Every variable of the frood, its bus and provision-topics keeps its type: the
\* restarts stay within their bound, the job within the fleet's topics.
THEOREM TypeCorrect == Spec => []TypeOK
  <1>1. FroodInv => TypeOK
    BY DEF FroodInv
  <1> QED
    BY <1>1, FroodInvariant, PTL

\* FilesOracle marks a file before its handler runs: however a bento ends, and
\* however often its file is dropped again, one process drives a name once.
THEOREM OncePerProcess == Spec => []DrivenOncePerProcess
  <1>1. FroodInv => DrivenOncePerProcess
    BY DEF FroodInv
  <1> QED
    BY <1>1, FroodInvariant, PTL

\* A bento that drive has finished has all its events on the bus, or, without a
\* Publisher, none: Step returns the first error of EmitLifecycle.
THEOREM AllEventsOrNone == Spec => []NoEventSkipped
  <1>1. FroodInv => NoEventSkipped
    BY DEF FroodInv
  <1> QED
    BY <1>1, FroodInvariant, PTL

=============================================================================
