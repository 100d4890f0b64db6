------------------------ MODULE ProviderHost_proofs ------------------------
(***************************************************************************)
(* Theorems of the provider, for any finite set of callers or connections  *)
(* and any capacity.  First those of the arbiter by itself, Spec; then     *)
(* those of the arbiter behind its HTTP server, HostSpec: what the arbiter *)
(* promises holds there, and a status code tells whether a capability has  *)
(* been run.                                                               *)
(***************************************************************************)
EXTENDS ProviderHost, FiniteSetTheorems, TLAPS

-----------------------------------------------------------------------------
(* The arbiter, with callers of any kind: its queue                        *)

\* Joining a queue adds its last element, and only that.
LEMMA AppendQueue ==
  ASSUME NEW S, NEW q \in Seq(S), NEW x \in S
  PROVE  /\ Append(q, x) \in Seq(S) /\ DOMAIN Append(q, x) = 1..(Len(q) + 1)
         /\ Append(q, x)[Len(q) + 1] = x /\ \A i \in DOMAIN q : Append(q, x)[i] = q[i]
         /\ DOMAIN q = 1..Len(q) /\ Len(q) \in Nat
  OBVIOUS

\* Leaving it removes its first element, and only that.
LEMMA TailQueue ==
  ASSUME NEW S, NEW q \in Seq(S), q # <<>>
  PROVE  /\ Tail(q) \in Seq(S) /\ Head(q) \in S /\ 1 \in DOMAIN q /\ Head(q) = q[1]
         /\ \A i \in DOMAIN Tail(q) : i + 1 \in DOMAIN q /\ i + 1 # 1 /\ Tail(q)[i] = q[i + 1]
         /\ \A i \in DOMAIN q : i # 1 => i - 1 \in DOMAIN Tail(q) /\ Tail(q)[i - 1] = q[i]
  OBVIOUS

-----------------------------------------------------------------------------
(* The inductive invariant                                                 *)

\* Type, single worker and queue hang together: the first waiter is parked, so
\* it is neither at its work nor the call that releases the worker.
QueueInv == TypeOK /\ OneWorker /\ QueueIsParked /\ NoLostWakeup

LEMMA InitQueue == Init => QueueInv
  <1> SUFFICES ASSUME Init PROVE QueueInv
    OBVIOUS
  <1>1. waiters = <<>> /\ DOMAIN waiters = {} /\ waiters \in Seq(Tasks)
    BY DEF Init
  <1>2. \A t \in Tasks : at[t] = "outside"
    BY DEF Init
  <1>3. TypeOK
    BY <1>1 DEF Init, TypeOK, Places, Outcomes
  <1>4. OneWorker
    BY <1>2 DEF Init, OneWorker, Working
  <1>5. QueueIsParked /\ NoLostWakeup
    BY <1>1, <1>2 DEF QueueIsParked, NoLostWakeup
  <1> QED
    BY <1>3, <1>4, <1>5 DEF QueueInv

\* Looking at the worker, from outside or resumed: take it or park.
LEMMA TakeTurnInv ==
  ASSUME QueueInv, NEW t \in Tasks, at[t] \in {"outside", "resumed"}, TakeTurn(t),
         admitted' \in Nat, UNCHANGED outcome
  PROVE  QueueInv'
  <1> USE DEF QueueInv, TypeOK
  <1>1. at' = [at EXCEPT ![t] = IF running THEN "parked" ELSE "work"]
    BY DEF TakeTurn
  <1>2. CASE running
    <2>1. waiters' = Append(waiters, t) /\ running' = running /\ at' = [at EXCEPT ![t] = "parked"]
      BY <1>2 DEF TakeTurn
    <2>2. Working' = Working
      BY <2>1 DEF Working
    <2>3. TypeOK'
      BY <2>1, AppendQueue DEF Places
    <2>4. \A i \in DOMAIN waiters : waiters[i] # t
      BY DEF QueueIsParked
    <2>5. QueueIsParked'
      <3>1. \A i \in DOMAIN waiters' : i \in DOMAIN waiters \/ i = Len(waiters) + 1
        BY <2>1, AppendQueue
      <3>2. \A i \in DOMAIN waiters : i \in DOMAIN waiters' /\ waiters'[i] = waiters[i]
        BY <2>1, AppendQueue
      <3>3. Len(waiters) + 1 \in DOMAIN waiters' /\ waiters'[Len(waiters) + 1] = t
        BY <2>1, AppendQueue
      <3> QED
        BY <2>1, <2>4, <3>1, <3>2, <3>3 DEF QueueIsParked
    <2> QED
      BY <1>2, <2>1, <2>2, <2>3, <2>5 DEF OneWorker, NoLostWakeup
  <1>3. CASE ~running
    <2>1. waiters' = waiters /\ running' = TRUE /\ at' = [at EXCEPT ![t] = "work"]
      BY <1>3 DEF TakeTurn
    <2>2. Working = {} /\ Working' = {t}
      BY <1>3, <2>1 DEF OneWorker, Working
    <2> QED
      BY <2>1, <2>2 DEF OneWorker, QueueIsParked, NoLostWakeup, Places
  <1> QED
    BY <1>2, <1>3

LEMMA ReleaseInv ==
  ASSUME QueueInv, NEW t \in Tasks, Release(t), admitted' \in Nat
  PROVE  QueueInv'
  <1> USE DEF QueueInv, TypeOK
  <1>1. /\ at[t] = "worked" /\ running' = FALSE /\ Working = {t}
        /\ outcome' \in [Tasks -> Outcomes]
    BY DEF Release, Results, OneWorker, Working, Outcomes
  <1>2. CASE waiters = <<>>
    <2>1. waiters' = waiters /\ at' = [at EXCEPT ![t] = "outside"]
      BY <1>2 DEF Release
    <2>2. Working' = {}
      BY <1>1, <2>1 DEF Working
    <2> QED
      BY <1>1, <1>2, <2>1, <2>2 DEF OneWorker, QueueIsParked, NoLostWakeup, Places
  <1>3. CASE waiters # <<>>
    <2> DEFINE w == Head(waiters)
    <2>1. w \in Tasks /\ at[w] = "parked" /\ w # t
      BY <1>1, <1>3, TailQueue DEF QueueIsParked
    <2>2. waiters' = Tail(waiters) /\ at' = [at EXCEPT ![t] = "outside", ![w] = "resumed"]
      BY <1>3 DEF Release
    <2>3. TypeOK'
      BY <1>1, <1>3, <2>1, <2>2, TailQueue DEF Places
    <2> HIDE DEF w
    <2>4. Working' = {}
      BY <1>1, <2>1, <2>2 DEF Working
    <2>5. \A i \in DOMAIN waiters : waiters[i] = w <=> i = 1
      BY <1>3, TailQueue DEF QueueIsParked, w
    <2>6. QueueIsParked'
      <3>1. ASSUME NEW u \in Tasks, at'[u] = "parked"
            PROVE  \E i \in DOMAIN waiters' : waiters'[i] = u
        <4>1. at[u] = "parked" /\ u # w
          BY <2>1, <2>2, <3>1
        <4>2. PICK i \in DOMAIN waiters : waiters[i] = u
          BY <4>1 DEF QueueIsParked
        <4>3. i - 1 \in DOMAIN waiters' /\ waiters'[i - 1] = u
          BY <1>3, <2>2, <2>5, <4>1, <4>2, TailQueue
        <4> QED
          BY <4>3
      <3>2. ASSUME NEW i \in DOMAIN waiters' PROVE at'[waiters'[i]] = "parked"
        <4>1. i + 1 \in DOMAIN waiters /\ i + 1 # 1 /\ waiters'[i] = waiters[i + 1]
          BY <1>3, <2>2, TailQueue
        <4>2. waiters[i + 1] \in Tasks /\ at[waiters[i + 1]] = "parked" /\ waiters[i + 1] # w
          BY <2>5, <4>1 DEF QueueIsParked
        <4> QED
          BY <1>1, <2>1, <2>2, <4>1, <4>2
      <3>3. ASSUME NEW i \in DOMAIN waiters', NEW j \in DOMAIN waiters', waiters'[i] = waiters'[j]
            PROVE  i = j
        <4>1. /\ i + 1 \in DOMAIN waiters /\ waiters'[i] = waiters[i + 1]
              /\ j + 1 \in DOMAIN waiters /\ waiters'[j] = waiters[j + 1]
          BY <1>3, <2>2, TailQueue
        <4>2. i + 1 = j + 1
          BY <3>3, <4>1 DEF QueueIsParked
        <4>3. i \in Nat /\ j \in Nat
          BY <2>3
        <4> QED
          BY <4>2, <4>3
      <3> QED
        BY <3>1, <3>2, <3>3 DEF QueueIsParked
    <2>7. at'[w] = "resumed"
      BY <2>1, <2>2
    <2> QED
      BY <1>1, <2>1, <2>3, <2>4, <2>6, <2>7 DEF OneWorker, NoLostWakeup
  <1> QED
    BY <1>2, <1>3

-----------------------------------------------------------------------------
(* The admission count                                                     *)

\* A step lets a call in, or out, or leaves those inside where they are.
LEMMA CountStep ==
  ASSUME QueueInv, AdmittedIsInside, [Next]_vars
  PROVE  AdmittedIsInside' /\ admitted' \in Nat
  <1> USE DEF QueueInv, TypeOK
  <1>1. /\ IsFiniteSet(Inside) /\ Cardinality(Inside) \in Nat
        /\ admitted = Cardinality(Inside) /\ admitted <= Capacity /\ Capacity \in Nat
    <2>1. IsFiniteSet(Inside)
      BY FS_Subset, ArbiterAssumption DEF Inside
    <2> QED
      BY <2>1, FS_CardinalityType, ArbiterAssumption DEF AdmittedIsInside
  <1>2. CASE UNCHANGED <<admitted, Inside>>
    BY <1>1, <1>2 DEF AdmittedIsInside
  <1>3. ASSUME NEW t \in Tasks, Admit(t) PROVE AdmittedIsInside' /\ admitted' \in Nat
    <2>1. Inside' = Inside \cup {t} /\ t \notin Inside /\ admitted' = admitted + 1
      BY <1>3 DEF Admit, TakeTurn, Inside
    <2>2. Cardinality(Inside') = Cardinality(Inside) + 1
      BY <1>1, <2>1, FS_AddElement
    <2>3. admitted < Capacity
      BY <1>3 DEF Admit
    <2> QED
      BY <1>1, <2>1, <2>2, <2>3 DEF AdmittedIsInside
  <1>4. ASSUME NEW t \in Tasks, Release(t) PROVE AdmittedIsInside' /\ admitted' \in Nat
    <2>1. waiters # <<>> => Head(waiters) \in Tasks /\ at[Head(waiters)] = "parked"
      BY TailQueue DEF QueueIsParked
    <2>2. Inside' = Inside \ {t} /\ t \in Inside /\ admitted' = admitted - 1
      BY <1>4, <2>1 DEF Release, Inside
    <2>3. Cardinality(Inside') = Cardinality(Inside) - 1 /\ Cardinality(Inside') \in Nat
      BY <1>1, <2>2, FS_RemoveElement, FS_CardinalityType
    <2> QED
      BY <1>1, <2>2, <2>3 DEF AdmittedIsInside
  <1>5. ASSUME NEW t \in Tasks, Unavailable(t) \/ Busy(t) \/ Recheck(t) \/ WorkEnds(t)
        PROVE  UNCHANGED <<admitted, Inside>>
    BY <1>5 DEF Unavailable, Busy, Recheck, WorkEnds, TakeTurn, Inside
  <1>6. UNCHANGED vars => UNCHANGED <<admitted, Inside>>
    BY DEF vars, Inside
  <1> QED
    BY <1>1, <1>2, <1>3, <1>4, <1>5, <1>6 DEF Next, Continue

LEMMA NextQueue ==
  ASSUME QueueInv, AdmittedIsInside, [Next]_vars
  PROVE  QueueInv'
  <1>1. admitted' \in Nat
    BY CountStep
  <1>2. ASSUME NEW t \in Tasks, Admit(t) \/ Recheck(t) PROVE QueueInv'
    BY <1>1, <1>2, TakeTurnInv DEF Admit, Recheck
  <1>3. ASSUME NEW t \in Tasks, Unavailable(t) \/ Busy(t) PROVE QueueInv'
    BY <1>3
    DEF Unavailable, Busy, QueueInv, TypeOK, Outcomes, OneWorker, Working, QueueIsParked,
        NoLostWakeup
  <1>4. ASSUME NEW t \in Tasks, WorkEnds(t) PROVE QueueInv'
    <2>1. Working' = Working
      BY <1>4 DEF WorkEnds, Working, QueueInv, TypeOK
    <2> QED
      BY <1>4, <2>1
      DEF WorkEnds, QueueInv, TypeOK, Places, OneWorker, QueueIsParked, NoLostWakeup
  <1>5. ASSUME NEW t \in Tasks, Release(t) PROVE QueueInv'
    BY <1>1, <1>5, ReleaseInv
  <1>6. CASE UNCHANGED vars
    BY <1>6 DEF vars, QueueInv, TypeOK, OneWorker, Working, QueueIsParked, NoLostWakeup
  <1> QED
    BY <1>2, <1>3, <1>4, <1>5, <1>6 DEF Next, Continue

LEMMA InitCount == Init => AdmittedIsInside
  <1>1. Init => Inside = {}
    BY DEF Init, Inside
  <1> QED
    BY <1>1, FS_EmptySet, ArbiterAssumption DEF Init, AdmittedIsInside

-----------------------------------------------------------------------------
(* The theorems                                                            *)

\* The arbiter's invariant: its count, its worker and its queue agree.
THEOREM ArbiterInvariant == Spec => [](QueueInv /\ AdmittedIsInside)
  <1>1. Init => QueueInv /\ AdmittedIsInside
    BY InitQueue, InitCount
  <1>2. QueueInv /\ AdmittedIsInside /\ [Next]_vars => QueueInv' /\ AdmittedIsInside'
    BY NextQueue, CountStep
  <1> QED
    BY <1>1, <1>2, PTL DEF Spec

\* RUN events never overlap.
THEOREM SingleWorker == Spec => []OneWorker
  BY ArbiterInvariant, PTL DEF QueueInv

\* The admission count never leaks and never exceeds the bound.
THEOREM BoundedAdmission == Spec => []AdmittedIsInside
  BY ArbiterInvariant, PTL

\* No parked call is left with nobody to wake it.
THEOREM WakeupSafe == Spec => []NoLostWakeup
  BY ArbiterInvariant, PTL DEF QueueInv

\* Bouncer counts as Arbiter does.
LEMMA SameCount == Promise!Cardinality(Inside) = Cardinality(Inside)
  BY DEF Promise!Cardinality, Cardinality

\* The arbiter implements the front door.
THEOREM ArbiterKeepsPromise == Spec => KeepsPromise
  <1>1. Init => Promise!Init
    BY DEF Init, Promise!Init, Inside, Working
  <1>2. ASSUME QueueInv, AdmittedIsInside, [Next]_vars
        PROVE  [Promise!Next]_<<Inside, Working, outcome>>
    <2> USE DEF QueueInv, TypeOK
    <2>1. ASSUME NEW t \in Tasks, Unavailable(t) \/ Busy(t)
          PROVE  Promise!TurnAway(t)
      <3>1. t \notin Inside /\ UNCHANGED <<Inside, Working>>
        BY <2>1 DEF Unavailable, Busy, Inside, Working
      <3>2. \/ outcome' = [outcome EXCEPT ![t] = "unavailable"]
            \/ outcome' = [outcome EXCEPT ![t] = "busy"] /\ Cardinality(Inside) >= Capacity
        BY <1>2, <2>1 DEF Unavailable, Busy, AdmittedIsInside
      <3> QED
        BY <3>1, <3>2, SameCount DEF Promise!TurnAway
    <2>2. ASSUME NEW t \in Tasks, Admit(t)
          PROVE  Promise!Admit(t)
      <3>1. t \notin Inside /\ Inside' = Inside \cup {t} /\ UNCHANGED outcome
        BY <1>2, <2>2 DEF Admit, TakeTurn, Inside
      <3>2. Cardinality(Inside) < Capacity
        BY <1>2, <2>2 DEF Admit, AdmittedIsInside
      <3>3. Working' = Working \/ (Working = {} /\ Working' = {t})
        BY <1>2, <2>2 DEF Admit, TakeTurn, Working, OneWorker
      <3> QED
        BY <3>1, <3>2, <3>3, SameCount DEF Promise!Admit
    <2>3. ASSUME NEW t \in Tasks, Recheck(t)
          PROVE  Promise!Begin(t) \/ UNCHANGED <<Inside, Working, outcome>>
      BY <1>2, <2>3 DEF Recheck, TakeTurn, Promise!Begin, Inside, Working, OneWorker
    <2>4. ASSUME NEW t \in Tasks, WorkEnds(t)
          PROVE  UNCHANGED <<Inside, Working, outcome>>
      BY <1>2, <2>4 DEF WorkEnds, Inside, Working
    <2>5. ASSUME NEW t \in Tasks, Release(t)
          PROVE  Promise!Finish(t)
      <3>1. waiters # <<>> => Head(waiters) \in Tasks /\ at[Head(waiters)] = "parked"
        BY <1>2, TailQueue DEF QueueIsParked
      <3>2. Working = {t} /\ Working' = {}
        BY <1>2, <2>5, <3>1 DEF Release, Working, OneWorker
      <3>3. Inside' = Inside \ {t}
        BY <1>2, <2>5, <3>1 DEF Release, Inside
      <3>4. \E a \in {"ok", "failed"} : outcome' = [outcome EXCEPT ![t] = a]
        BY <2>5 DEF Release, Results
      <3> QED
        BY <3>2, <3>3, <3>4 DEF Promise!Finish
    <2>6. UNCHANGED vars => UNCHANGED <<Inside, Working, outcome>>
      BY DEF vars, Inside, Working
    <2> QED
      BY <1>2, <2>1, <2>2, <2>3, <2>4, <2>5, <2>6 DEF Next, Continue, Promise!Next
  <1> QED
    BY <1>1, <1>2, ArbiterInvariant, PTL DEF Spec, KeepsPromise, Promise!Spec

-----------------------------------------------------------------------------
(* The arbiter inside the host                                             *)

\* A step of the host is a step of the arbiter, or leaves it alone.
LEMMA HostStep ==
  ASSUME [HostNext]_hostvars
  PROVE  [Next]_vars
PROOF
<1>1. ASSUME NEW c \in Tasks, Client(c) \/ Returned(c) \/ Send(c) PROVE UNCHANGED vars
  BY <1>1 DEF Client, Receive, Parse, EndOfInput, Respond, Returned, Send
<1>2. ASSUME NEW c \in Tasks, Invoke(c) \/ Await(c) \/ CapabilityEnds(c) PROVE Next
  BY <1>2 DEF Invoke, Await, CapabilityEnds, Next, Continue
<1>3. QED
  BY <1>1, <1>2 DEF HostNext, Serve, hostvars

\* The host uses the arbiter as the arbiter's specification says.
THEOREM HostRunsArbiter == HostSpec => Spec
PROOF
<1>1. HostInit => Init
  BY DEF HostInit
<1>2. [HostNext]_hostvars => [Next]_vars
  BY HostStep
<1>3. QED
  BY <1>1, <1>2, PTL DEF HostSpec, Spec

-----------------------------------------------------------------------------
(* The inductive invariant                                                 *)

HostTypes ==
  /\ stage \in [Tasks -> Stages]
  /\ asks \in [Tasks -> Asked \cup {"none"}]
  /\ received \in [Tasks -> Amounts]
  /\ status \in [Tasks -> {0, 200, 400, 404, 500, 503}]
  /\ worked \subseteq Tasks

\* What the place of a connection's task says about its request, and about its call.
ConnectionInv ==
  \A c \in Tasks :
    /\ stage[c] # "called" => at[c] = "outside"
    /\ stage[c] \in {"parsed", "called"} => received[c] = "all" /\ asks[c] = "invoke"
    /\ stage[c] \in {"reading", "parsed"} => c \notin worked
    /\ stage[c] = "reading" => asks[c] = "none"
    /\ at[c] \in {"work", "worked"} => c \in worked
    /\ at[c] \in {"parked", "resumed"} => c \notin worked
    /\ stage[c] = "called" /\ at[c] = "outside" =>
         (outcome[c] \in {"ok", "failed"} <=> c \in worked)
    /\ stage[c] = "answering" /\ c \in worked =>
         received[c] = "all" /\ asks[c] = "invoke" /\ status[c] \in {200, 500}
    /\ stage[c] = "answering" /\ c \notin worked =>
         status[c] # 500 /\ (status[c] = 200 => asks[c] # "invoke")

HostInv == HostTypes /\ ConnectionInv

\* What the arbiter does in a step of c: nothing to the others, but for the parked
\* call that a release resumes.
LEMMA ArbiterStep ==
  ASSUME QueueInv, NEW c \in Tasks
  PROVE  /\ Unavailable(c) \/ Busy(c) =>
              UNCHANGED at /\ at[c] = "outside" /\ outcome'[c] \notin {"ok", "failed"}
              /\ \A d \in Tasks \ {c} : outcome'[d] = outcome[d]
         /\ Admit(c) \/ Recheck(c) =>
              /\ UNCHANGED outcome /\ at[c] \in {"outside", "resumed"} /\ at'[c] \in {"parked", "work"}
              /\ \A d \in Tasks \ {c} : at'[d] = at[d]
         /\ Admit(c) => at[c] = "outside"
         /\ Recheck(c) => at[c] = "resumed"
         /\ WorkEnds(c) =>
              /\ UNCHANGED outcome /\ at[c] = "work" /\ at'[c] = "worked"
              /\ \A d \in Tasks \ {c} : at'[d] = at[d]
         /\ Release(c) =>
              /\ at[c] = "worked" /\ at'[c] = "outside" /\ outcome'[c] \in {"ok", "failed"}
              /\ \A d \in Tasks \ {c} :
                   /\ outcome'[d] = outcome[d]
                   /\ at'[d] = at[d] \/ (at[d] = "parked" /\ at'[d] = "resumed")
PROOF
<1> USE DEF QueueInv, TypeOK
<1>1. Unavailable(c) \/ Busy(c) =>
        UNCHANGED at /\ at[c] = "outside" /\ outcome'[c] \notin {"ok", "failed"}
        /\ \A d \in Tasks \ {c} : outcome'[d] = outcome[d]
  BY DEF Unavailable, Busy
<1>2. Admit(c) \/ Recheck(c) =>
        /\ UNCHANGED outcome /\ at[c] \in {"outside", "resumed"} /\ at'[c] \in {"parked", "work"}
        /\ \A d \in Tasks \ {c} : at'[d] = at[d]
  BY DEF Admit, Recheck, TakeTurn
<1>3. (Admit(c) => at[c] = "outside") /\ (Recheck(c) => at[c] = "resumed")
  BY DEF Admit, Recheck
<1>4. WorkEnds(c) =>
        /\ UNCHANGED outcome /\ at[c] = "work" /\ at'[c] = "worked"
        /\ \A d \in Tasks \ {c} : at'[d] = at[d]
  BY DEF WorkEnds
<1>5. ASSUME Release(c)
      PROVE  /\ at[c] = "worked" /\ at'[c] = "outside" /\ outcome'[c] \in {"ok", "failed"}
             /\ \A d \in Tasks \ {c} :
                  /\ outcome'[d] = outcome[d]
                  /\ at'[d] = at[d] \/ (at[d] = "parked" /\ at'[d] = "resumed")
  <2>1. at[c] = "worked" /\ outcome'[c] \in {"ok", "failed"}
        /\ \A d \in Tasks \ {c} : outcome'[d] = outcome[d]
    BY <1>5 DEF Release, Results
  <2>2. CASE waiters = <<>>
    BY <1>5, <2>1, <2>2 DEF Release
  <2>3. CASE waiters # <<>>
    <3> DEFINE w == Head(waiters)
    <3>1. w \in Tasks /\ at[w] = "parked"
      BY <2>3, TailQueue DEF QueueIsParked
    <3>2. at' = [at EXCEPT ![c] = "outside", ![w] = "resumed"]
      BY <1>5, <2>3 DEF Release
    <3> HIDE DEF w
    <3>3. QED
      BY <2>1, <3>1, <3>2
  <2>4. QED
    BY <2>2, <2>3
<1>6. QED
  BY <1>1, <1>2, <1>3, <1>4, <1>5

LEMMA HostTypesStep ==
  ASSUME HostTypes, [HostNext]_hostvars
  PROVE  HostTypes'
PROOF
<1> USE DEF HostTypes, Stages, Amounts
<1>1. ASSUME NEW c \in Tasks, Receive(c) PROVE HostTypes'
  BY <1>1 DEF Receive
<1>2. ASSUME NEW c \in Tasks, Parse(c) PROVE HostTypes'
  <2>1. PICK k \in Asked, amount \in {"head", "all"} :
          /\ received' = [received EXCEPT ![c] = amount]
          /\ asks' = [asks EXCEPT ![c] = k]
          /\ status' = [status EXCEPT ![c] = StatusUnrouted(k)]
          /\ stage' = [stage EXCEPT ![c] = IF StatusUnrouted(k) = 0 THEN "parsed" ELSE "answering"]
    BY ONLY <1>2 DEF Parse
  <2>2. StatusUnrouted(k) \in {0, 200, 400, 404, 503}
    BY DEF StatusUnrouted
  <2>3. UNCHANGED worked
    BY <1>2 DEF Parse
  <2>4. received' \in [Tasks -> Amounts] /\ asks' \in [Tasks -> Asked \cup {"none"}]
    BY <2>1
  <2>5. status' \in [Tasks -> {0, 200, 400, 404, 500, 503}]
    BY <2>1, <2>2
  <2>6. stage' \in [Tasks -> Stages]
    BY <2>1
  <2>7. QED
    BY <2>3, <2>4, <2>5, <2>6
<1>3. ASSUME NEW c \in Tasks, EndOfInput(c) PROVE HostTypes'
  BY <1>3 DEF EndOfInput, Respond
<1>4. ASSUME NEW c \in Tasks, Invoke(c) PROVE HostTypes'
  BY <1>4 DEF Invoke, RunsNow
<1>5. ASSUME NEW c \in Tasks, Await(c) PROVE HostTypes'
  BY <1>5 DEF Await, RunsNow
<1>6. ASSUME NEW c \in Tasks, CapabilityEnds(c) PROVE HostTypes'
  BY <1>6 DEF CapabilityEnds, connections
<1>7. ASSUME NEW c \in Tasks, Returned(c) PROVE HostTypes'
  BY <1>7 DEF Returned, Respond, StatusOf
<1>8. ASSUME NEW c \in Tasks, Send(c) PROVE HostTypes'
  BY <1>8 DEF Send
<1>9. CASE UNCHANGED hostvars
  BY <1>9 DEF hostvars, connections
<1>10. QED
  BY <1>1, <1>2, <1>3, <1>4, <1>5, <1>6, <1>7, <1>8, <1>9 DEF HostNext, Client, Serve

LEMMA ConnectionStep ==
  ASSUME HostInv, QueueInv, [HostNext]_hostvars
  PROVE  ConnectionInv'
PROOF
<1> USE DEF HostInv, HostTypes, ConnectionInv
<1>1. ASSUME NEW c \in Tasks, Receive(c) PROVE ConnectionInv'
  BY <1>1 DEF Receive, vars
<1>2. ASSUME NEW c \in Tasks, Parse(c) PROVE ConnectionInv'
  <2>1. PICK k \in Asked, amount \in {"head", "all"} :
          /\ Parses(k, amount)
          /\ received' = [received EXCEPT ![c] = amount]
          /\ asks' = [asks EXCEPT ![c] = k]
          /\ status' = [status EXCEPT ![c] = StatusUnrouted(k)]
          /\ stage' = [stage EXCEPT ![c] = IF StatusUnrouted(k) = 0 THEN "parsed" ELSE "answering"]
    BY <1>2 DEF Parse
  <2>2. /\ StatusUnrouted(k) = 0 => k = "invoke" /\ amount = "all"
        /\ k = "invoke" => StatusUnrouted(k) = 0
        /\ StatusUnrouted(k) # 500
    BY <2>1, HostAssumption DEF StatusUnrouted, Parses, Kinds
  <2>3. UNCHANGED <<at, outcome, worked>> /\ stage[c] = "reading"
    BY <1>2 DEF Parse, vars
  <2>4. QED
    BY <2>1, <2>2, <2>3
<1>3. ASSUME NEW c \in Tasks, EndOfInput(c) PROVE ConnectionInv'
  BY <1>3 DEF EndOfInput, Respond, vars
<1>4. ASSUME NEW c \in Tasks, Invoke(c) PROVE ConnectionInv'
  <2>1. /\ stage[c] = "parsed" /\ stage' = [stage EXCEPT ![c] = "called"]
        /\ worked' = worked \cup RunsNow /\ UNCHANGED <<asks, received, status>>
    BY <1>4 DEF Invoke
  <2>2. CASE Unavailable(c) \/ Busy(c)
    <3>1. worked' = worked
      BY <2>1, <2>2, ArbiterStep DEF RunsNow
    <3>2. QED
      BY <2>1, <2>2, <3>1, ArbiterStep
  <2>3. CASE Admit(c)
    <3>1. worked' = IF at'[c] = "work" THEN worked \cup {c} ELSE worked
      BY <2>1, <2>3, ArbiterStep DEF RunsNow
    <3>2. QED
      BY <2>1, <2>3, <3>1, ArbiterStep
  <2>4. QED
    BY <1>4, <2>2, <2>3 DEF Invoke
<1>5. ASSUME NEW c \in Tasks, Await(c) PROVE ConnectionInv'
  <2>1. worked' = worked \cup RunsNow /\ UNCHANGED <<stage, asks, received, status>>
    BY <1>5 DEF Await
  <2>2. CASE Recheck(c)
    <3>1. worked' = IF at'[c] = "work" THEN worked \cup {c} ELSE worked
      BY <2>1, <2>2, ArbiterStep DEF RunsNow
    <3>2. QED
      BY <2>1, <2>2, <3>1, ArbiterStep
  <2>3. CASE Release(c)
    <3>1. worked' = worked
      BY <2>1, <2>3, ArbiterStep DEF RunsNow
    <3>2. QED
      BY <2>1, <2>3, <3>1, ArbiterStep
  <2>4. QED
    BY <1>5, <2>2, <2>3 DEF Await
<1>6. ASSUME NEW c \in Tasks, CapabilityEnds(c) PROVE ConnectionInv'
  BY <1>6, ArbiterStep DEF CapabilityEnds, connections
<1>7. ASSUME NEW c \in Tasks, Returned(c) PROVE ConnectionInv'
  BY <1>7 DEF Returned, Respond, StatusOf, vars
<1>8. ASSUME NEW c \in Tasks, Send(c) PROVE ConnectionInv'
  BY <1>8 DEF Send, vars
<1>9. CASE UNCHANGED hostvars
  BY <1>9 DEF hostvars, vars, connections
<1>10. QED
  BY <1>1, <1>2, <1>3, <1>4, <1>5, <1>6, <1>7, <1>8, <1>9 DEF HostNext, Client, Serve

-----------------------------------------------------------------------------
(* The theorems                                                            *)

\* The host's invariant, over the arbiter's.
THEOREM HostInvariant == HostSpec => [](HostInv /\ QueueInv)
PROOF
<1>1. HostSpec => []QueueInv
  BY HostRunsArbiter, ArbiterInvariant, PTL
<1>2. HostInit => HostInv
  BY DEF HostInit, Init, HostInv, HostTypes, ConnectionInv, Stages, Amounts
<1>3. HostInv /\ QueueInv /\ [HostNext]_hostvars => HostInv'
  BY HostTypesStep, ConnectionStep DEF HostInv
<1>4. QED
  BY <1>1, <1>2, <1>3, PTL DEF HostSpec

\* The variables keep their types.
THEOREM HostTypeCorrect == HostSpec => []HostTypeOK
PROOF
<1>1. HostInv /\ QueueInv => HostTypeOK
  BY DEF HostInv, HostTypes, QueueInv, HostTypeOK
<1>2. QED
  BY <1>1, HostInvariant, PTL

\* What is answered 503, 404 or 400 has not been run, what is answered 500 has.
THEOREM RetryIsSafe == HostSpec => []StatusTellsWork
PROOF
<1>1. HostInv => StatusTellsWork
  BY DEF HostInv, ConnectionInv, StatusTellsWork
<1>2. QED
  BY <1>1, HostInvariant, PTL

\* Only whole requests take a place in the arbiter.
THEOREM StalledHoldNothing == HostSpec => []WholeRequestsOnly
PROOF
<1>1. HostInv => WholeRequestsOnly
  BY DEF HostInv, HostTypes, ConnectionInv, WholeRequestsOnly, Inside, Stages
<1>2. QED
  BY <1>1, HostInvariant, PTL

\* The promise of the front door holds for the clients of the HTTP server.
THEOREM HostKeepsPromise == HostSpec => KeepsPromise
PROOF
  BY HostRunsArbiter, ArbiterKeepsPromise, PTL

=============================================================================
