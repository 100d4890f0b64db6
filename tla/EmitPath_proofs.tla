--------------------------- MODULE EmitPath_proofs ---------------------------
(***************************************************************************)
(* What reaches the bus, for any number of pipelines, relayed events and   *)
(* deaths of the sidecar, whenever schemas are provisioned.                *)
(***************************************************************************)
EXTENDS EmitPath, TLAPS

\* An event is handled only after its sender has relayed it.
FreshInv ==
  /\ \A e \in Events : stage[e] # "none" => e[2] <= relayed[e[1]]
  /\ \A s \in waiting : relayed[s] # 0

\* An id in a handler's hand, or in the cache, is the registry's for the subject.
IdInv ==
  /\ \A e \in Events :
       /\ stage[e] \in {"none", "lookup", "register"} => id[e] = 0
       /\ stage[e] \in {"store", "produce", "appended"} => id[e] # 0
       /\ id[e] # 0 => id[e] = registry[Subject(e)]
  /\ \A s \in Subjects : cache[s] # 0 => cache[s] = registry[s]

\* A record is on the bus when its handler has come past the produce, and the
\* broker acknowledges what is on the bus.
BusInv ==
  /\ \A i \in DOMAIN bus : stage[bus[i].event] \in {"appended"} \cup Answer
  /\ \A e \in Events :
       stage[e] = "appended" \/ (stage[e] = "accepted" /\ id[e] # 0) => OnBus(e)

\* The handler of an event its sender has left behind is done, or the sender
\* had given up on it.
PastInv ==
  \A e \in Events :
    (e[2] < relayed[e[1]] \/ (e[2] = relayed[e[1]] /\ e[1] \notin waiting)) =>
      stage[e] \in Answer \/ e \in gaveUp

EmitInv ==
  /\ TypeOK /\ FreshInv /\ IdInv /\ BusInv /\ PastInv
  /\ PublishedAtMostOnce /\ FramedWithItsSchema /\ OvertakenWasGivenUp

-----------------------------------------------------------------------------
(* Events, ids and the bus                                                 *)

\* The next event of a sender, not yet handled, and the last one.
LEMMA NextEvent ==
  ASSUME EmitInv, NEW s \in Senders, relayed[s] < Relays
  PROVE  /\ <<s, relayed[s] + 1>> \in Events
         /\ stage[<<s, relayed[s] + 1>>] = "none"
         /\ relayed[s] + 1 \in 0..Relays
PROOF
<1>1. relayed[s] \in 0..Relays
  BY DEF EmitInv, TypeOK
<1>2. <<s, relayed[s] + 1>> \in Events /\ relayed[s] + 1 \in 0..Relays
  BY <1>1, EmitAssumption DEF Events
<1>3. ~(relayed[s] + 1 <= relayed[s])
  BY <1>1, EmitAssumption
<1>4. QED
  BY <1>2, <1>3 DEF EmitInv, FreshInv

LEMMA LastEvent ==
  ASSUME EmitInv, NEW s \in waiting
  PROVE  Last(s) \in Events
PROOF
<1>1. relayed[s] \in 1..Relays /\ s \in Senders
  BY EmitAssumption DEF EmitInv, TypeOK, FreshInv
<1>2. QED
  BY <1>1 DEF Last, Events

\* The parts of an event.
LEMMA EventParts ==
  ASSUME NEW e \in Events
  PROVE  e[1] \in Senders /\ e[2] \in 1..Relays /\ e = <<e[1], e[2]>>
PROOF
  BY DEF Events

\* A sender relays its next event.
LEMMA RelayStep ==
  ASSUME EmitInv, NEW s \in Senders, (s \in Bentos /\ Emit(s)) \/ (s = Heart /\ Beat)
  PROVE  /\ <<s, relayed[s] + 1>> \in Events /\ stage[<<s, relayed[s] + 1>>] = "none"
         /\ \A e \in Events : e # <<s, relayed[s] + 1>> => stage'[e] = stage[e]
         /\ \/ stage'[<<s, relayed[s] + 1>>] = "lookup" /\ waiting' = waiting \cup {s}
            \/ stage'[<<s, relayed[s] + 1>>] = "lost" /\ UNCHANGED waiting
         /\ relayed' \in [Senders -> 0..Relays] /\ relayed'[s] = relayed[s] + 1
         /\ \A t \in Senders : t # s => relayed'[t] = relayed[t]
         /\ s \notin waiting
         /\ UNCHANGED <<gaveUp, id, cache, registry, bus>>
PROOF
<1>1. relayed[s] < Relays /\ s \notin waiting /\ relayed' = [relayed EXCEPT ![s] = @ + 1]
  BY DEF Emit, Beat
<1>2. <<s, relayed[s] + 1>> \in Events /\ stage[<<s, relayed[s] + 1>>] = "none" /\ relayed[s] + 1 \in 0..Relays
  BY <1>1, NextEvent
<1>3. relayed' \in [Senders -> 0..Relays] /\ relayed'[s] = relayed[s] + 1
      /\ \A t \in Senders : t # s => relayed'[t] = relayed[t]
  BY <1>1, <1>2 DEF EmitInv, TypeOK
<1>4. \/ stage' = [stage EXCEPT ![<<s, relayed[s] + 1>>] = "lookup"] /\ waiting' = waiting \cup {s}
      \/ stage' = [stage EXCEPT ![<<s, relayed[s] + 1>>] = "lost"] /\ UNCHANGED waiting
  BY DEF Emit, Beat
<1>5. stage \in [Events -> Stages]
  BY DEF EmitInv, TypeOK
<1>6. /\ \A e \in Events : e # <<s, relayed[s] + 1>> => stage'[e] = stage[e]
      /\ \/ stage'[<<s, relayed[s] + 1>>] = "lookup" /\ waiting' = waiting \cup {s}
         \/ stage'[<<s, relayed[s] + 1>>] = "lost" /\ UNCHANGED waiting
  BY <1>2, <1>4, <1>5
<1>7. UNCHANGED <<gaveUp, id, cache, registry, bus>>
  BY DEF Emit, Beat, Publisher
<1>8. QED
  BY <1>1, <1>2, <1>3, <1>6, <1>7

\* The registry answers with an id, and with the one it has when it has one.
LEMMA IdForSubject ==
  ASSUME EmitInv, NEW e \in Events
  PROVE  /\ Subject(e) \in Subjects
         /\ IdFor(Subject(e)) \in Ids \ {0}
         /\ registry[Subject(e)] # 0 => IdFor(Subject(e)) = registry[Subject(e)]
PROOF
<1>1. Subject(e) \in Subjects
  BY DEF Subject, Subjects
<1>2. NewId \in Ids \ {0}
  BY DEF NewId, Ids
<1>3. QED
  BY <1>1, <1>2 DEF EmitInv, TypeOK, IdFor

\* provision-schemas touches the registry only, and takes back no id.
LEMMA ProvisionStep ==
  ASSUME EmitInv, Provision \/ ProvisionFails \/ Boot
  PROVE  /\ UNCHANGED <<sidecar, relayed, waiting, gaveUp, stage, id, cache, bus, restarts>>
         /\ registry' \in [Subjects -> Ids]
         /\ \A s \in Subjects : registry[s] # 0 => registry'[s] = registry[s]
         /\ provisioned' \in 0..Len(FleetSubjects)
PROOF
<1>1. registry \in [Subjects -> Ids] /\ provisioned \in 0..2
  BY DEF EmitInv, TypeOK, FleetSubjects
<1>2. Len(FleetSubjects) = 2 /\ \A k \in 1..2 : FleetSubjects[k] \in Subjects
  BY DEF FleetSubjects, Subjects
<1>3. ASSUME NEW s \in Subjects
      PROVE  IdFor(s) \in Ids /\ (registry[s] # 0 => IdFor(s) = registry[s])
  BY <1>1 DEF IdFor, NewId, Ids
<1>4. UNCHANGED <<sidecar, relayed, waiting, gaveUp, stage, id, cache, bus, restarts>>
  BY DEF Provision, ProvisionFails, Boot, Sending, Publisher
<1>5. CASE Boot
  BY <1>1, <1>2, <1>4, <1>5 DEF Boot, Publisher
<1>6. CASE Provision \/ ProvisionFails
  <2> DEFINE s == FleetSubjects[provisioned + 1]
  <2>1. provisioned + 1 \in 1..2 /\ provisioned' \in {0, provisioned + 1}
    BY <1>1, <1>2, <1>6 DEF Provision, ProvisionFails
  <2>2. s \in Subjects
    BY <1>2, <2>1
  <2>3. registry' \in {registry, [registry EXCEPT ![s] = IdFor(s)]}
    BY <1>6 DEF Provision, ProvisionFails
  <2>4. QED
    BY <1>1, <1>2, <1>3, <1>4, <2>1, <2>2, <2>3
<1>7. QED
  BY <1>5, <1>6

-----------------------------------------------------------------------------
(* Every action keeps every part                                           *)

\* The variables keep their types.
LEMMA TypeStep ==
  ASSUME EmitInv, [Next]_vars
  PROVE  TypeOK'
PROOF
<1> USE EmitAssumption DEF EmitInv, TypeOK, Stages, Answer, Ids
<1>1. ASSUME NEW b \in Bentos, Emit(b) PROVE TypeOK'
  BY <1>1, NextEvent DEF Emit, Publisher, Senders
<1>2. ASSUME Beat PROVE TypeOK'
  BY <1>2, NextEvent DEF Beat, Publisher, Senders
<1>3. ASSUME NEW s \in Senders, Answered(s) PROVE TypeOK'
  BY <1>3 DEF Answered, Last, Publisher
<1>4. ASSUME NEW b \in Bentos, Timeout(b) PROVE TypeOK'
  BY <1>4, LastEvent DEF Timeout, Last, Publisher, Senders
<1>5. ASSUME NEW e \in Events, ReadFailed(e) PROVE TypeOK'
  BY <1>5 DEF ReadFailed, Move, Sending, Publisher
<1>6. ASSUME NEW e \in Events, AcceptAndDrop(e) PROVE TypeOK'
  BY <1>6 DEF AcceptAndDrop, Move, Sending, Publisher
<1>7. ASSUME NEW e \in Events, Lookup(e) PROVE TypeOK'
  <2>1. CASE cache[Subject(e)] # 0
    BY <1>7, <2>1, IdForSubject DEF Lookup, Move, Sending, Publisher
  <2>2. CASE cache[Subject(e)] = 0
    BY <1>7, <2>2, IdForSubject DEF Lookup, Move, Sending, Publisher
  <2>3. QED
    BY <2>1, <2>2
<1>8. ASSUME NEW e \in Events, Register(e) PROVE TypeOK'
  BY <1>8, IdForSubject DEF Register, Move, Sending, Publisher
<1>9. ASSUME NEW e \in Events, RegisterFails(e) PROVE TypeOK'
  BY <1>9, IdForSubject DEF RegisterFails, Move, Sending, Publisher
<1>10. ASSUME NEW e \in Events, Store(e) PROVE TypeOK'
  BY <1>10 DEF Store, Move, Sending, Publisher
<1>11. ASSUME NEW e \in Events, AppendRecord(e) PROVE TypeOK'
  <2>1. [event |-> e, id |-> id[e]] \in [event : Events, id : Ids \ {0}]
    BY <1>11 DEF AppendRecord, Move, IdInv
  <2>2. bus' \in Seq([event : Events, id : Ids \ {0}])
    BY <1>11, <2>1 DEF AppendRecord
  <2>3. QED
    BY <1>11, <2>2 DEF AppendRecord, Move, Sending
<1>12. ASSUME NEW e \in Events, Produced(e) PROVE TypeOK'
  BY <1>12 DEF Produced, Move, Sending, Publisher
<1>13. ASSUME NEW e \in Events, ProduceFails(e) PROVE TypeOK'
  BY <1>13 DEF ProduceFails, Move, Sending, Publisher
<1>14. CASE SidecarDies
  BY <1>14 DEF SidecarDies, Sending
<1>15. CASE SidecarStarts
  BY <1>15 DEF SidecarStarts, Sending, Publisher
<1>16. CASE UNCHANGED vars
  BY <1>16 DEF vars
<1>17. CASE Provision \/ ProvisionFails \/ Boot
  BY <1>17, ProvisionStep
<1>18. QED
  BY <1>1, <1>2, <1>3, <1>4, <1>5, <1>6, <1>7, <1>8, <1>9, <1>10, <1>11, <1>12, <1>13, <1>14, <1>15, <1>16, <1>17 DEF Next, Pipeline, Handler, Senders

\* Relaying is before handling.
LEMMA FreshRelay ==
  ASSUME EmitInv, NEW s \in Senders, (s \in Bentos /\ Emit(s)) \/ (s = Heart /\ Beat)
  PROVE  FreshInv'
PROOF
<1>1. relayed \in [Senders -> 0..Relays] /\ FreshInv /\ waiting \subseteq Senders /\ Relays \in Nat
  BY EmitAssumption DEF EmitInv, TypeOK
<1>2. /\ \A e \in Events : e # <<s, relayed[s] + 1>> => stage'[e] = stage[e]
      /\ waiting' \subseteq waiting \cup {s}
      /\ relayed'[s] = relayed[s] + 1 /\ \A t \in Senders : t # s => relayed'[t] = relayed[t]
  BY RelayStep
<1>3. \A t \in Senders : relayed[t] \in Nat /\ relayed'[t] \in Nat /\ relayed[t] <= relayed'[t]
  BY <1>1, <1>2
<1>4. ASSUME NEW e \in Events, stage'[e] # "none" PROVE e[2] <= relayed'[e[1]]
  <2>1. e[1] \in Senders /\ e[2] \in Nat
    BY <1>1, EventParts
  <2>2. CASE e = <<s, relayed[s] + 1>>
    BY <1>2, <1>3, <2>1, <2>2
  <2>3. CASE e # <<s, relayed[s] + 1>>
    <3>1. e[2] <= relayed[e[1]]
      BY <1>1, <1>2, <1>4, <2>3 DEF FreshInv
    <3>2. QED
      BY <3>1, <2>1, <1>3
  <2>4. QED
    BY <2>2, <2>3
<1>5. ASSUME NEW t \in waiting' PROVE relayed'[t] # 0
  BY <1>1, <1>2, <1>3, <1>5 DEF FreshInv
<1>6. QED
  BY <1>4, <1>5 DEF FreshInv

\* A sender relays before a handler runs.
LEMMA FreshStep ==
  ASSUME EmitInv, [Next]_vars
  PROVE  FreshInv'
PROOF
<1> USE EmitAssumption DEF EmitInv, TypeOK, FreshInv, Stages, Answer
<1>1. ASSUME NEW b \in Bentos, Emit(b) PROVE FreshInv'
  <2>1. PICK s \in Senders : (s \in Bentos /\ Emit(s)) \/ (s = Heart /\ Beat)
    BY <1>1 DEF Senders
  <2>2. QED
    BY <2>1, FreshRelay
<1>2. ASSUME Beat PROVE FreshInv'
  <2>1. PICK s \in Senders : (s \in Bentos /\ Emit(s)) \/ (s = Heart /\ Beat)
    BY <1>2 DEF Senders
  <2>2. QED
    BY <2>1, FreshRelay
<1>3. ASSUME NEW s \in Senders, Answered(s) PROVE FreshInv'
  BY <1>3 DEF Answered, Last, Publisher
<1>4. ASSUME NEW b \in Bentos, Timeout(b) PROVE FreshInv'
  BY <1>4, LastEvent DEF Timeout, Last, Publisher, Senders
<1>5. ASSUME NEW e \in Events, ReadFailed(e) PROVE FreshInv'
  BY <1>5 DEF ReadFailed, Move, Sending, Publisher
<1>6. ASSUME NEW e \in Events, AcceptAndDrop(e) PROVE FreshInv'
  BY <1>6 DEF AcceptAndDrop, Move, Sending, Publisher
<1>7. ASSUME NEW e \in Events, Lookup(e) PROVE FreshInv'
  BY <1>7 DEF Lookup, Move, Sending, Publisher
<1>8. ASSUME NEW e \in Events, Register(e) PROVE FreshInv'
  BY <1>8, IdForSubject DEF Register, Move, Sending, Publisher
<1>9. ASSUME NEW e \in Events, RegisterFails(e) PROVE FreshInv'
  BY <1>9, IdForSubject DEF RegisterFails, Move, Sending, Publisher
<1>10. ASSUME NEW e \in Events, Store(e) PROVE FreshInv'
  BY <1>10 DEF Store, Move, Sending, Publisher
<1>11. ASSUME NEW e \in Events, AppendRecord(e) PROVE FreshInv'
  BY <1>11 DEF AppendRecord, Move, Sending, Publisher
<1>12. ASSUME NEW e \in Events, Produced(e) PROVE FreshInv'
  BY <1>12 DEF Produced, Move, Sending, Publisher
<1>13. ASSUME NEW e \in Events, ProduceFails(e) PROVE FreshInv'
  BY <1>13 DEF ProduceFails, Move, Sending, Publisher
<1>14. CASE SidecarDies
  BY <1>14 DEF SidecarDies, Sending
<1>15. CASE SidecarStarts
  BY <1>15 DEF SidecarStarts, Sending, Publisher
<1>16. CASE UNCHANGED vars
  BY <1>16 DEF vars
<1>17. CASE Provision \/ ProvisionFails \/ Boot
  BY <1>17, ProvisionStep
<1>18. QED
  BY <1>1, <1>2, <1>3, <1>4, <1>5, <1>6, <1>7, <1>8, <1>9, <1>10, <1>11, <1>12, <1>13, <1>14, <1>15, <1>16, <1>17 DEF Next, Pipeline, Handler, Senders

\* Ids come from the registry, which keeps them.
LEMMA IdStep ==
  ASSUME EmitInv, [Next]_vars
  PROVE  IdInv'
PROOF
<1> USE EmitAssumption DEF EmitInv, TypeOK, IdInv, Ids, Stages, Answer
<1>1. ASSUME NEW b \in Bentos, Emit(b) PROVE IdInv'
  BY <1>1, NextEvent DEF Emit, Publisher, Senders
<1>2. ASSUME Beat PROVE IdInv'
  BY <1>2, NextEvent DEF Beat, Publisher, Senders
<1>3. ASSUME NEW s \in Senders, Answered(s) PROVE IdInv'
  BY <1>3 DEF Answered, Last, Publisher
<1>4. ASSUME NEW b \in Bentos, Timeout(b) PROVE IdInv'
  BY <1>4, LastEvent DEF Timeout, Last, Publisher, Senders
<1>5. ASSUME NEW e \in Events, ReadFailed(e) PROVE IdInv'
  BY <1>5 DEF ReadFailed, Move, Sending, Publisher
<1>6. ASSUME NEW e \in Events, AcceptAndDrop(e) PROVE IdInv'
  BY <1>6 DEF AcceptAndDrop, Move, Sending, Publisher
<1>7. ASSUME NEW e \in Events, Lookup(e) PROVE IdInv'
  <2>1. CASE cache[Subject(e)] # 0
    BY <1>7, <2>1, IdForSubject DEF Lookup, Move, Sending, Publisher
  <2>2. CASE cache[Subject(e)] = 0
    BY <1>7, <2>2, IdForSubject DEF Lookup, Move, Sending, Publisher
  <2>3. QED
    BY <2>1, <2>2
<1>8. ASSUME NEW e \in Events, Register(e) PROVE IdInv'
  BY <1>8, IdForSubject DEF Register, Move, Sending, Publisher
<1>9. ASSUME NEW e \in Events, RegisterFails(e) PROVE IdInv'
  BY <1>9, IdForSubject DEF RegisterFails, Move, Sending, Publisher
<1>10. ASSUME NEW e \in Events, Store(e) PROVE IdInv'
  BY <1>10 DEF Store, Move, Sending, Publisher
<1>11. ASSUME NEW e \in Events, AppendRecord(e) PROVE IdInv'
  BY <1>11 DEF AppendRecord, Move, Sending, Publisher
<1>12. ASSUME NEW e \in Events, Produced(e) PROVE IdInv'
  BY <1>12 DEF Produced, Move, Sending, Publisher
<1>13. ASSUME NEW e \in Events, ProduceFails(e) PROVE IdInv'
  BY <1>13 DEF ProduceFails, Move, Sending, Publisher
<1>14. CASE SidecarDies
  BY <1>14 DEF SidecarDies, Sending
<1>15. CASE SidecarStarts
  BY <1>15 DEF SidecarStarts, Sending, Publisher
<1>16. CASE UNCHANGED vars
  BY <1>16 DEF vars
<1>17. CASE Provision \/ ProvisionFails \/ Boot
  <2>1. \A e \in Events : Subject(e) \in Subjects /\ Subject(e)' = Subject(e)
    BY DEF Subject, Subjects, Sender
  <2>2. QED
    BY <1>17, <2>1, ProvisionStep
<1>18. QED
  BY <1>1, <1>2, <1>3, <1>4, <1>5, <1>6, <1>7, <1>8, <1>9, <1>10, <1>11, <1>12, <1>13, <1>14, <1>15, <1>16, <1>17 DEF Next, Pipeline, Handler, Senders

-----------------------------------------------------------------------------
(* The bus                                                                 *)

\* The members of a sequence.
LEMMA Members ==
  ASSUME NEW S, NEW q \in Seq(S)
  PROVE  \A i \in DOMAIN q : q[i] \in S
PROOF
  OBVIOUS

\* AppendRecord adds one record at the end.
LEMMA AppendStep ==
  ASSUME EmitInv, NEW e \in Events, AppendRecord(e)
  PROVE  /\ Len(bus) \in Nat /\ DOMAIN bus = 1..Len(bus) /\ DOMAIN bus' = 1..(Len(bus) + 1)
         /\ \A i \in DOMAIN bus : bus'[i] = bus[i] /\ bus[i].event \in Events
         /\ bus'[Len(bus) + 1].event = e /\ bus'[Len(bus) + 1].id = id[e]
         /\ stage[e] = "produce" /\ stage'[e] = "appended" /\ id[e] # 0
         /\ \A f \in Events : f # e => stage'[f] = stage[f]
         /\ \A i \in DOMAIN bus : bus[i].event # e
         /\ UNCHANGED <<id, cache, registry, relayed, waiting, gaveUp>>
PROOF
<1>1. bus \in Seq([event : Events, id : Ids \ {0}]) /\ stage \in [Events -> Stages] /\ id \in [Events -> Ids]
  BY DEF EmitInv, TypeOK
<1>2. /\ bus' = Append(bus, [event |-> e, id |-> id[e]])
      /\ stage[e] = "produce" /\ stage' = [stage EXCEPT ![e] = "appended"]
      /\ UNCHANGED <<id, cache, registry, relayed, waiting, gaveUp>>
  BY DEF AppendRecord, Move, Sending
<1>3. id[e] # 0 /\ [event |-> e, id |-> id[e]] \in [event : Events, id : Ids \ {0}]
  BY <1>1, <1>2 DEF EmitInv, IdInv
<1>4. Len(bus) \in Nat /\ DOMAIN bus = 1..Len(bus) /\ DOMAIN bus' = 1..(Len(bus) + 1)
  BY <1>1, <1>2, <1>3
<1>5. \A i \in DOMAIN bus : bus'[i] = bus[i] /\ bus[i].event \in Events
  <2>1. \A i \in DOMAIN bus : bus[i] \in [event : Events, id : Ids \ {0}]
    BY <1>1, Members, Zenon
  <2>2. \A i \in DOMAIN bus : bus'[i] = bus[i]
    BY <1>1, <1>2, <1>3
  <2>3. QED
    BY <2>1, <2>2
<1>6. bus'[Len(bus) + 1] = [event |-> e, id |-> id[e]]
  BY <1>1, <1>2, <1>3
<1>7. \A i \in DOMAIN bus : bus[i].event # e
  BY <1>2 DEF EmitInv, BusInv, Answer
<1>8. \A f \in Events : f # e => stage'[f] = stage[f]
  BY <1>1, <1>2
<1>9. stage'[e] = "appended"
  BY <1>1, <1>2
<1>10. QED
  BY <1>2, <1>3, <1>4, <1>5, <1>6, <1>7, <1>8, <1>9

\* Nothing else touches the bus, and neither the registry nor a pipeline takes
\* back what it has done.
LEMMA BusChange ==
  ASSUME EmitInv, [Next]_vars
  PROVE  /\ UNCHANGED bus \/ \E e \in Events : AppendRecord(e)
         /\ gaveUp \subseteq gaveUp'
         /\ \A s \in Subjects : registry[s] # 0 => registry'[s] = registry[s]
PROOF
<1> USE DEF EmitInv, TypeOK
<1>1. ASSUME NEW e \in Events, Register(e) \/ RegisterFails(e)
      PROVE  /\ UNCHANGED <<bus, gaveUp>>
             /\ \A s \in Subjects : registry[s] # 0 => registry'[s] = registry[s]
  BY <1>1, IdForSubject DEF Register, RegisterFails, Move, Sending
<1>2. ASSUME NEW e \in Events, Handler(e), ~(Register(e) \/ RegisterFails(e)), ~AppendRecord(e)
      PROVE  UNCHANGED <<bus, gaveUp, registry>>
  BY <1>2 DEF Handler, ReadFailed, AcceptAndDrop, Lookup, Store, Produced, ProduceFails, Move, Sending, Publisher
<1>3. ASSUME NEW e \in Events, AppendRecord(e) PROVE UNCHANGED <<gaveUp, registry>>
  BY <1>3 DEF AppendRecord, Move, Sending
<1>4. ASSUME ~ \E e \in Events : Handler(e), ~(Provision \/ ProvisionFails \/ Boot)
      PROVE  UNCHANGED <<bus, registry>> /\ gaveUp \subseteq gaveUp'
  BY <1>4 DEF Next, Pipeline, Emit, Beat, Answered, Timeout, SidecarDies, SidecarStarts, Sending, Publisher, vars
<1>5. ASSUME Provision \/ ProvisionFails \/ Boot
      PROVE  /\ UNCHANGED <<bus, gaveUp>>
             /\ \A s \in Subjects : registry[s] # 0 => registry'[s] = registry[s]
  BY <1>5, ProvisionStep
<1>6. QED
  BY <1>1, <1>2, <1>3, <1>4, <1>5

\* A handler past the produce stays past it, whatever else happens.
LEMMA PastProduce ==
  ASSUME EmitInv, [Next]_vars, NEW f \in Events
  PROVE  /\ stage[f] \in Answer => stage'[f] = stage[f]
         /\ stage[f] = "appended" => stage'[f] \in {"appended"} \cup Answer
         /\ stage[f] # "none" => stage'[f] # "none"
PROOF
<1> USE DEF EmitInv, TypeOK, Answer, Stages
<1>1. ASSUME NEW s \in Senders, (s \in Bentos /\ Emit(s)) \/ (s = Heart /\ Beat)
      PROVE  stage[f] # "none" => stage'[f] = stage[f]
  BY <1>1, RelayStep
<1>2. ASSUME NEW e \in Events, Handler(e)
      PROVE  /\ stage[f] \in Answer => stage'[f] = stage[f]
             /\ stage[f] = "appended" => stage'[f] \in {"appended"} \cup Answer
             /\ stage[f] # "none" => stage'[f] # "none"
  BY <1>2 DEF Handler, ReadFailed, AcceptAndDrop, Lookup, Register, RegisterFails, Store,
              AppendRecord, Produced, ProduceFails, Move
<1>3. CASE SidecarDies
  BY <1>3 DEF SidecarDies
<1>4. ASSUME SidecarStarts \/ (\E s \in Senders : Answered(s)) \/ (\E b \in Bentos : Timeout(b)) \/ UNCHANGED vars
      PROVE  UNCHANGED stage
  BY <1>4 DEF SidecarStarts, Answered, Timeout, vars
<1>5. ASSUME Provision \/ ProvisionFails \/ Boot PROVE UNCHANGED stage
  BY <1>5, ProvisionStep
<1>6. QED
  BY <1>1, <1>2, <1>3, <1>4, <1>5 DEF Next, Pipeline, Senders

\* The broker acknowledges what it has appended.
LEMMA NewlyAppended ==
  ASSUME EmitInv, [Next]_vars, NEW f \in Events,
         stage'[f] = "appended" \/ (stage'[f] = "accepted" /\ id'[f] # 0)
  PROVE  stage[f] = "appended" \/ (stage[f] = "accepted" /\ id[f] # 0) \/ AppendRecord(f)
PROOF
<1> USE DEF EmitInv, TypeOK, Stages
<1>1. ASSUME NEW s \in Senders, (s \in Bentos /\ Emit(s)) \/ (s = Heart /\ Beat)
      PROVE  UNCHANGED id /\ stage'[f] \in {stage[f], "lookup", "lost"}
  BY <1>1, RelayStep
<1>2. ASSUME NEW e \in Events, Handler(e), e # f
      PROVE  stage'[f] = stage[f] /\ id'[f] = id[f]
  BY <1>2 DEF Handler, ReadFailed, AcceptAndDrop, Lookup, Register, RegisterFails, Store,
              AppendRecord, Produced, ProduceFails, Move, Publisher
<1>3. ASSUME Handler(f), ~AppendRecord(f)
      PROVE  stage[f] = "appended" \/ (stage[f] = "lookup" /\ stage'[f] # "appended" /\ UNCHANGED id) \/ stage'[f] \notin {"appended", "accepted"}
  BY <1>3 DEF Handler, ReadFailed, AcceptAndDrop, Lookup, Register, RegisterFails, Store,
              Produced, ProduceFails, Move, Publisher
<1>4. CASE SidecarDies
  BY <1>4 DEF SidecarDies, Answer
<1>5. ASSUME SidecarStarts \/ (\E s \in Senders : Answered(s)) \/ (\E b \in Bentos : Timeout(b)) \/ UNCHANGED vars
      PROVE  UNCHANGED <<stage, id>>
  BY <1>5 DEF SidecarStarts, Answered, Timeout, Publisher, vars
<1>6. stage[f] = "lookup" => id[f] = 0
  BY DEF IdInv
<1>7. ASSUME Provision \/ ProvisionFails \/ Boot PROVE UNCHANGED <<stage, id>>
  BY <1>7, ProvisionStep
<1>8. QED
  BY <1>1, <1>2, <1>3, <1>4, <1>5, <1>6, <1>7 DEF Next, Pipeline, Senders

\* What has been acknowledged is on the bus.
LEMMA BusStep ==
  ASSUME EmitInv, [Next]_vars
  PROVE  BusInv'
PROOF
<1>1. \A i \in DOMAIN bus : bus[i].event \in Events /\ stage[bus[i].event] \in {"appended"} \cup Answer
  <2>1. bus \in Seq([event : Events, id : Ids \ {0}]) /\ BusInv
    BY DEF EmitInv, TypeOK
  <2>2. \A i \in DOMAIN bus : bus[i] \in [event : Events, id : Ids \ {0}]
    BY <2>1, Members, Zenon
  <2>3. QED
    BY <2>1, <2>2 DEF BusInv
<1>2. \A i \in DOMAIN bus' : stage'[bus'[i].event] \in {"appended"} \cup Answer
  <2>1. CASE UNCHANGED bus
    BY <1>1, <2>1, PastProduce
  <2>2. ASSUME NEW e \in Events, AppendRecord(e)
        PROVE  \A i \in DOMAIN bus' : stage'[bus'[i].event] \in {"appended"} \cup Answer
    <3>1. TAKE i \in DOMAIN bus'
    <3>2. CASE i \in DOMAIN bus
      BY <2>2, <3>2, <1>1, AppendStep, PastProduce
    <3>3. CASE i = Len(bus) + 1
      BY <2>2, <3>3, AppendStep
    <3>4. QED
      BY <2>2, <3>1, <3>2, <3>3, AppendStep
  <2>3. QED
    BY <2>1, <2>2, BusChange
<1>3. \A f \in Events : OnBus(f) => OnBus(f)'
  <2>1. CASE UNCHANGED bus
    BY <2>1 DEF OnBus
  <2>2. ASSUME NEW e \in Events, AppendRecord(e) PROVE \A f \in Events : OnBus(f) => OnBus(f)'
    BY <2>2, AppendStep DEF OnBus
  <2>3. QED
    BY <2>1, <2>2, BusChange
<1>4. ASSUME NEW f \in Events, stage'[f] = "appended" \/ (stage'[f] = "accepted" /\ id'[f] # 0)
      PROVE  OnBus(f)'
  <2>1. CASE stage[f] = "appended" \/ (stage[f] = "accepted" /\ id[f] # 0)
    BY <2>1, <1>3 DEF EmitInv, BusInv
  <2>2. CASE AppendRecord(f)
    BY <2>2, AppendStep DEF OnBus
  <2>3. QED
    BY <2>1, <2>2, <1>4, NewlyAppended
<1>5. QED
  BY <1>2, <1>4 DEF BusInv

\* No event is appended twice.
LEMMA OnceStep ==
  ASSUME EmitInv, [Next]_vars
  PROVE  PublishedAtMostOnce'
PROOF
<1>1. CASE UNCHANGED bus
  BY <1>1 DEF EmitInv, PublishedAtMostOnce
<1>2. ASSUME NEW e \in Events, AppendRecord(e) PROVE PublishedAtMostOnce'
  <2>1. ASSUME NEW i \in DOMAIN bus', NEW j \in DOMAIN bus', bus'[i].event = bus'[j].event
        PROVE  i = j
    <3>1. CASE i \in DOMAIN bus /\ j \in DOMAIN bus
      BY <1>2, <2>1, <3>1, AppendStep DEF EmitInv, PublishedAtMostOnce
    <3>2. CASE i \notin DOMAIN bus
      BY <1>2, <2>1, <3>2, AppendStep
    <3>3. CASE j \notin DOMAIN bus
      BY <1>2, <2>1, <3>3, AppendStep
    <3>4. QED
      BY <3>1, <3>2, <3>3
  <2>2. QED
    BY <2>1 DEF PublishedAtMostOnce
<1>3. QED
  BY <1>1, <1>2, BusChange

\* A frame's id is the registry's, which keeps it.
LEMMA FramedStep ==
  ASSUME EmitInv, [Next]_vars
  PROVE  FramedWithItsSchema'
PROOF
<1>1. \A i \in DOMAIN bus : bus[i].id # 0 /\ bus[i].id = registry[Subject(bus[i].event)]
                            /\ Subject(bus[i].event) \in Subjects
  BY DEF EmitInv, FramedWithItsSchema, Subject, Subjects
<1>2. CASE UNCHANGED bus
  BY <1>1, <1>2, BusChange DEF FramedWithItsSchema, Subject, Sender
<1>3. ASSUME NEW e \in Events, AppendRecord(e) PROVE FramedWithItsSchema'
  <2>1. id[e] # 0 /\ id[e] = registry[Subject(e)]
    BY <1>3, AppendStep DEF EmitInv, IdInv
  <2>2. ASSUME NEW i \in DOMAIN bus'
        PROVE  bus'[i].id # 0 /\ bus'[i].id = registry'[Subject(bus'[i].event)]
    <3>1. CASE i \in DOMAIN bus
      BY <1>1, <1>3, <3>1, AppendStep
    <3>2. CASE i = Len(bus) + 1
      BY <1>3, <2>1, <3>2, AppendStep
    <3>3. QED
      BY <1>3, <2>2, <3>1, <3>2, AppendStep
  <2>3. QED
    BY <2>2 DEF FramedWithItsSchema, Subject, Sender
<1>4. QED
  BY <1>2, <1>3, BusChange

\* A later event is on the bus only when its sender has relayed it: it left the
\* earlier one, which is still to be appended, behind.
LEMMA OvertakenStep ==
  ASSUME EmitInv, [Next]_vars
  PROVE  OvertakenWasGivenUp'
PROOF
<1>1. CASE UNCHANGED bus
  BY <1>1, BusChange DEF EmitInv, OvertakenWasGivenUp
<1>2. ASSUME NEW e \in Events, AppendRecord(e) PROVE OvertakenWasGivenUp'
  <2>1. ASSUME NEW i \in DOMAIN bus', NEW j \in DOMAIN bus', i < j,
               Sender(bus'[i].event) = Sender(bus'[j].event), bus'[i].event[2] > bus'[j].event[2]
        PROVE  bus'[j].event \in gaveUp'
    <3>1. i \in DOMAIN bus
      BY <1>2, <2>1, AppendStep
    <3>2. CASE j \in DOMAIN bus
      BY <1>2, <2>1, <3>1, <3>2, AppendStep DEF EmitInv, OvertakenWasGivenUp
    <3>3. CASE j = Len(bus) + 1
      <4> DEFINE f == bus[i].event
      <4>1. f \in Events /\ f[1] = e[1] /\ f[2] > e[2]
        BY <1>2, <2>1, <3>1, <3>3, AppendStep DEF Sender
      <4>2. stage[f] # "none" /\ FreshInv
        BY <3>1 DEF EmitInv, BusInv, Answer
      <4>3. f[2] <= relayed[e[1]]
        BY <4>1, <4>2 DEF FreshInv
      <4>4. e[2] \in Nat /\ f[2] \in Nat /\ relayed[e[1]] \in Nat
        <5>1. Relays \in Nat /\ relayed \in [Senders -> 0..Relays]
          BY EmitAssumption DEF EmitInv, TypeOK
        <5>2. QED
          BY <4>1, <5>1, EventParts
      <4>5. e[2] < relayed[e[1]]
        BY <4>1, <4>3, <4>4
      <4>6. e \in gaveUp
        BY <1>2, <4>5, AppendStep DEF EmitInv, PastInv, Answer
      <4>7. QED
        BY <1>2, <3>3, <4>6, AppendStep
    <3>4. QED
      BY <1>2, <2>1, <3>2, <3>3, AppendStep
  <2>2. QED
    BY <2>1 DEF OvertakenWasGivenUp
<1>3. QED
  BY <1>1, <1>2, BusChange

\* A pipeline walks on when it has an answer or has given up.
LEMMA PastStep ==
  ASSUME EmitInv, [Next]_vars
  PROVE  PastInv'
PROOF
<1> DEFINE Left(e) == e[2] < relayed[e[1]] \/ (e[2] = relayed[e[1]] /\ e[1] \notin waiting)
           Done(e) == stage[e] \in Answer \/ e \in gaveUp
<1>1. \A e \in Events : Left(e) => Done(e)
  BY DEF EmitInv, PastInv
<1>2. \A e \in Events : Done(e) => Done(e)'
  BY PastProduce, BusChange DEF Answer
<1>3. Relays \in Nat /\ relayed \in [Senders -> 0..Relays] /\ waiting \subseteq Senders
  BY EmitAssumption DEF EmitInv, TypeOK
<1>4. SUFFICES ASSUME NEW e \in Events, Left(e)', ~Left(e) PROVE Done(e)'
  BY <1>1, <1>2 DEF PastInv
<1>5. e[1] \in Senders /\ e[2] \in 1..Relays /\ e = <<e[1], e[2]>>
  BY EventParts
<1>6. ASSUME NEW s \in Senders, (s \in Bentos /\ Emit(s)) \/ (s = Heart /\ Beat) PROVE Done(e)'
  <2>1. /\ relayed'[s] = relayed[s] + 1 /\ s \notin waiting
        /\ \A t \in Senders : t # s => relayed'[t] = relayed[t] /\ (t \in waiting' <=> t \in waiting)
        /\ stage'[<<s, relayed[s] + 1>>] = "lookup" => s \in waiting'
        /\ stage'[<<s, relayed[s] + 1>>] \in {"lookup", "lost"}
    BY <1>6, RelayStep
  <2>2. e[1] = s
    BY <1>4, <1>5, <2>1
  <2>3. e[2] = relayed[s] + 1 /\ s \notin waiting'
    BY <1>3, <1>4, <1>5, <2>1, <2>2
  <2>4. QED
    BY <1>5, <2>1, <2>2, <2>3 DEF Answer
<1>7. ASSUME NEW s \in Senders, Answered(s) PROVE Done(e)'
  <2>1. stage[Last(s)] \in Answer /\ waiting' = waiting \ {s} /\ UNCHANGED <<relayed, stage, gaveUp>>
    BY <1>7 DEF Answered
  <2>2. e = Last(s)
    BY <1>4, <1>5, <2>1 DEF Last
  <2>3. QED
    BY <2>1, <2>2
<1>8. ASSUME NEW b \in Bentos, Timeout(b) PROVE Done(e)'
  <2>1. gaveUp' = gaveUp \cup {Last(b)} /\ waiting' = waiting \ {b} /\ UNCHANGED relayed
    BY <1>8 DEF Timeout
  <2>2. e = Last(b)
    BY <1>4, <1>5, <2>1 DEF Last
  <2>3. QED
    BY <2>1, <2>2
<1>9. ASSUME \/ \E f \in Events : Handler(f)
             \/ SidecarDies \/ SidecarStarts \/ UNCHANGED vars
      PROVE  UNCHANGED <<relayed, waiting>>
  BY <1>9 DEF Handler, ReadFailed, AcceptAndDrop, Lookup, Register, RegisterFails, Store,
              AppendRecord, Produced, ProduceFails, Move, SidecarDies, SidecarStarts, Sending, vars
<1>10. ASSUME Provision \/ ProvisionFails \/ Boot PROVE UNCHANGED <<relayed, waiting>>
  BY <1>10, ProvisionStep
<1>11. QED
  BY <1>4, <1>6, <1>7, <1>8, <1>9, <1>10 DEF Next, Pipeline, Senders

-----------------------------------------------------------------------------
(* The theorems                                                            *)

LEMMA InitEstablishes ==
  ASSUME Init
  PROVE  EmitInv
PROOF
<1> USE EmitAssumption DEF Init, Stages, Ids
<1>1. TypeOK
  BY DEF TypeOK
<1>2. FreshInv /\ IdInv /\ BusInv
  BY DEF FreshInv, IdInv, BusInv
<1>3. PastInv
  <2>1. \A e \in Events : e[2] \in 1..Relays /\ relayed[e[1]] = 0
    BY EventParts
  <2>2. QED
    BY <2>1 DEF PastInv
<1>4. PublishedAtMostOnce /\ FramedWithItsSchema /\ OvertakenWasGivenUp
  BY DEF PublishedAtMostOnce, FramedWithItsSchema, OvertakenWasGivenUp
<1>5. QED
  BY <1>1, <1>2, <1>3, <1>4 DEF EmitInv

\* The inductive invariant of the whole path.
THEOREM EmitInvariant == Spec => []EmitInv
PROOF
<1>1. Init => EmitInv
  BY InitEstablishes
<1>2. EmitInv /\ [Next]_vars => EmitInv'
  BY TypeStep, FreshStep, IdStep, BusStep, PastStep, OnceStep, FramedStep, OvertakenStep DEF EmitInv
<1>3. QED
  BY <1>1, <1>2, PTL DEF Spec

\* The variables keep their types.
THEOREM TypeCorrect == Spec => []TypeOK
PROOF
<1>1. EmitInv => TypeOK
  BY DEF EmitInv
<1>2. QED
  BY <1>1, EmitInvariant, PTL

\* No event is on the bus twice, whatever times out, fails or dies.
THEOREM AtMostOnce == Spec => []PublishedAtMostOnce
PROOF
<1>1. EmitInv => PublishedAtMostOnce
  BY DEF EmitInv
<1>2. QED
  BY <1>1, EmitInvariant, PTL

\* What a sidecar with a live Publisher accepted is on the bus.
THEOREM AcknowledgedIsPublished == Spec => []AcceptedIsPublished
PROOF
<1>1. EmitInv => AcceptedIsPublished
  BY DEF EmitInv, BusInv, AcceptedIsPublished
<1>2. QED
  BY <1>1, EmitInvariant, PTL

\* Every frame carries its own schema's id, however many handlers register it.
THEOREM RightSchema == Spec => []FramedWithItsSchema
PROOF
<1>1. EmitInv => FramedWithItsSchema
  BY DEF EmitInv
<1>2. QED
  BY <1>1, EmitInvariant, PTL

\* Only what a sender had given up on is overtaken by its later events.
THEOREM OnlyGivenUpOvertaken == Spec => []OvertakenWasGivenUp
PROOF
<1>1. EmitInv => OvertakenWasGivenUp
  BY DEF EmitInv
<1>2. QED
  BY <1>1, EmitInvariant, PTL

=============================================================================
