------------------------- MODULE InboxDaemon_proofs -------------------------
(***************************************************************************)
(* Theorems of InboxDaemon, for every inbox, every number of versions and  *)
(* crashes, and every debounce.                                            *)
(***************************************************************************)
EXTENDS InboxDaemon, TLAPS

-----------------------------------------------------------------------------
(* Facts about seconds and sequences                                       *)

\* The whole second of a modification time is no later than the time itself.
LEMMA SecondBound ==
  ASSUME NEW t \in Nat, NEW T \in Nat \ {0}
  PROVE  t \div T \in 0..t /\ t \div T \in Nat
  OBVIOUS

\* A time at least one second later falls in a later second.
LEMMA SecondAdvances ==
  ASSUME NEW t \in Nat, NEW u \in Nat, NEW T \in Nat \ {0}, t + T <= u
  PROVE  t \div T < u \div T
  OBVIOUS

\* Whole seconds are in the order of their times.
LEMMA SecondMonotone ==
  ASSUME NEW t \in Nat, NEW u \in Nat, NEW T \in Nat \ {0}, t <= u
  PROVE  t \div T <= u \div T
  OBVIOUS

\* Rewriting the last element keeps a sequence a sequence.
LEMMA UpdateLast ==
  ASSUME NEW S, NEW s \in Seq(S), NEW b \in S, s # <<>>
  PROVE  /\ Len(s) \in DOMAIN s
         /\ [s EXCEPT ![Len(s)] = b] \in Seq(S)
         /\ Len([s EXCEPT ![Len(s)] = b]) = Len(s)
  OBVIOUS

-----------------------------------------------------------------------------
(* Type correctness                                                        *)

\* The key of a file that is there is a key.
LEMMA KeyType ==
  ASSUME TypeOK, NEW p \in Paths, file[p].ver # 0
  PROVE  Key(p) \in Keys
  <1>1. file[p].ver \in Versions /\ file[p].mtime \in 0..MaxTime
    BY DEF TypeOK, Files, Versions
  <1>2. MaxTime \in Nat /\ TicksPerSecond \in Nat \ {0}
    BY DaemonAssumption
  <1>3. file[p].mtime \div TicksPerSecond \in 0..MaxTime
    BY ONLY <1>1, <1>2, SecondBound
  <1>4. SizeOf[file[p].ver] \in {SizeOf[v] : v \in Versions}
    BY <1>1
  <1> QED
    BY <1>3, <1>4 DEF Key, Keys

LEMMA InitInv == Init => DaemonInv
  BY DaemonAssumption
  DEF Init, DaemonInv, TypeOK, FilesWritten, WalkInv, StatInv, Present, Files, Keys,
      NoKey, PCs, Handling, ActiveStates

\* The droppers and the clock only touch the files and the time.
LEMMA EnvironmentInv ==
  ASSUME DaemonInv, Dropper \/ Tick
  PROVE  DaemonInv'
  <1> DEFINE Rest == <<durable, bentos, delivered, inflight, pc, listing, key, batch, next,
                       crashes, raises>>
  <1> DEFINE Moved == /\ UNCHANGED Rest /\ now' \in 0..MaxTime
                      /\ file' \in [Paths -> Files] /\ FilesWritten'
  <1>1. Moved
    <2> USE DaemonAssumption
            DEF DaemonInv, TypeOK, FilesWritten, Environment, Present, Files, disk, provider,
                scanning, budget
    <2>1. ASSUME NEW p \in Paths, StartWrite(p) PROVE Moved
      <3> DEFINE f == [ver |-> file[p].ver + 1, mtime |-> now, status |-> "writing"]
      <3>1. file[p].ver \in Nat /\ file[p].ver < MaxVersions /\ now \in 0..MaxTime
        BY <2>1 DEF StartWrite
      <3>2. MaxVersions \in Nat
        BY DaemonAssumption
      <3>3. f \in Files /\ f.ver # 0
        BY ONLY <3>1, <3>2 DEF Files
      <3>4. file' = [file EXCEPT ![p] = f] /\ UNCHANGED <<now, Rest>>
        BY <2>1 DEF StartWrite
      <3> HIDE DEF f
      <3>5. file' \in [Paths -> Files]
        BY <3>3, <3>4
      <3>6. FilesWritten'
        BY <3>3, <3>4
      <3> QED
        BY <3>1, <3>4, <3>5, <3>6
    <2>2. ASSUME NEW p \in Paths, ContinueWrite(p) PROVE Moved
      <3> DEFINE f == [file[p] EXCEPT !.mtime = now]
      <3>1. file' = [file EXCEPT ![p] = f] /\ f \in Files /\ f.ver # 0
        BY <2>2 DEF ContinueWrite
      <3> HIDE DEF f
      <3> QED
        BY <2>2, <3>1 DEF ContinueWrite
    <2>3. ASSUME NEW p \in Paths, FinishWrite(p) PROVE Moved
      BY <2>3 DEF FinishWrite
    <2>4. ASSUME NEW p \in Paths, Remove(p) PROVE Moved
      BY <2>4 DEF Remove
    <2>5. ASSUME Tick PROVE Moved
      BY <2>5 DEF Tick
    <2> QED
      BY <2>1, <2>2, <2>3, <2>4, <2>5 DEF Dropper
  <1>2. TypeOK'
    BY <1>1 DEF DaemonInv, TypeOK
  <1>3. WalkInv' /\ StatInv'
    BY <1>1 DEF DaemonInv, WalkInv, AsFarAs, StatInv, Cur, Source, Settled
  <1> QED
    BY <1>1, <1>2, <1>3 DEF DaemonInv

\* read() fills the batch with keys and leaves the thread between sources.
LEMMA ReadInv ==
  ASSUME DaemonInv, Read
  PROVE  DaemonInv'
  <1> USE DEF DaemonInv, disk, provider, scanning, budget
  <1>1. ASSUME Wake PROVE DaemonInv'
    BY <1>1 DEF Wake, TypeOK, FilesWritten, WalkInv, StatInv, Present, PCs, Handling
  <1>2. ASSUME NEW p \in Paths, StatKey(p) PROVE DaemonInv'
    <2>1. Present(p) => Key(p) \in Keys
      BY KeyType DEF FilesWritten
    <2> QED
      BY <1>2, <2>1
      DEF StatKey, TypeOK, FilesWritten, WalkInv, StatInv, Present, PCs, Handling
  <1>3. ASSUME StatStable PROVE DaemonInv'
    <2>1. key \in Keys /\ key.path \in Paths
      BY <1>3 DEF StatStable, StatInv, Keys
    <2>2. batch \in Seq(Keys) /\ Append(batch, key) \in Seq(Keys)
      BY <2>1 DEF TypeOK
    <2>3. batch' \in Seq(Keys)
      BY <1>3, <2>2 DEF StatStable
    <2>4. inflight \subseteq Keys /\ listing \subseteq Paths
      BY DEF TypeOK
    <2>5. inflight' \subseteq Keys /\ listing' \subseteq Paths
      BY <1>3, <2>1, <2>4 DEF StatStable
    <2>6. TypeOK'
      BY <1>3, <2>3, <2>5 DEF StatStable, TypeOK, PCs
    <2> QED
      BY <1>3, <2>6 DEF StatStable, FilesWritten, WalkInv, StatInv, Present, Handling
  <1>4. ASSUME ReadDone PROVE DaemonInv'
    BY <1>4 DEF ReadDone, TypeOK, FilesWritten, WalkInv, StatInv, Present, PCs, Handling
  <1> QED
    BY <1>1, <1>2, <1>3, <1>4 DEF Read

\* A step of the thread that rewrites the youngest bento as b, goes to c and is
\* to return n keeps the invariant, if b is as far as that.
LEMMA GoInv ==
  ASSUME DaemonInv, NEW b \in Bentos, NEW c \in PCs \ {"stat"}, NEW n \in ActiveStates,
         bentos # <<>>, batch # <<>>, Go(c, n, [bentos EXCEPT ![Cur] = b]), AsFarAs(b, c, n)
  PROVE  DaemonInv'
  <1>1. bentos' \in Seq(Bentos) /\ bentos' # <<>> /\ Cur' = Cur /\ bentos'[Cur'] = b
    BY UpdateLast DEF DaemonInv, TypeOK, Go, Cur
  <1>2. TypeOK'
    BY <1>1 DEF DaemonInv, TypeOK, Go, provider, scanning, budget
  <1>3. FilesWritten' /\ StatInv'
    BY DEF DaemonInv, Go, FilesWritten, StatInv, Present
  <1>4. /\ batch' = batch /\ Source' = Source /\ crashes' = crashes /\ delivered' = delivered
        /\ pc' = c /\ next' = n
    BY DEF Go, Source, provider, budget
  <1>5. WalkInv'
    BY <1>1, <1>4 DEF WalkInv, AsFarAs, Settled
  <1> QED
    BY <1>2, <1>3, <1>5 DEF DaemonInv

LEMMA MakeBentoInv ==
  ASSUME DaemonInv, MakeBento
  PROVE  DaemonInv'
  <1> DEFINE b == NewBento(Source)
  <1>1. Source \in Keys /\ batch # <<>> /\ pc' = "noticed"
    BY DEF MakeBento, Go, Source, DaemonInv, TypeOK
  <1>2. b \in Bentos
    BY <1>1, DaemonAssumption DEF NewBento, Bentos, Marks, DaemonInv, TypeOK
  <1>3. /\ b.source = Source /\ b.life = crashes /\ b.event = "-" /\ b.notified = "-"
    BY DEF NewBento
  <1> HIDE DEF b
  <1>4. /\ bentos' = Append(bentos, b) /\ bentos' \in Seq(Bentos)
        /\ bentos' # <<>> /\ bentos'[Len(bentos')] = b
    BY <1>2 DEF MakeBento, Go, DaemonInv, TypeOK, b
  <1>5. TypeOK'
    BY <1>1, <1>4 DEF MakeBento, Go, DaemonInv, TypeOK, PCs, ActiveStates, provider, scanning, budget
  <1>6. WalkInv'
    BY <1>1, <1>3, <1>4
    DEF MakeBento, Go, WalkInv, AsFarAs, Cur, Source, provider, scanning, budget, Terminal
  <1>7. FilesWritten' /\ StatInv'
    BY <1>1 DEF MakeBento, Go, DaemonInv, FilesWritten, StatInv, Present
  <1> QED
    BY <1>5, <1>6, <1>7 DEF DaemonInv

\* Every handler step of the walk keeps the invariant.
LEMMA WalkStepInv ==
  ASSUME DaemonInv, Walk
  PROVE  DaemonInv'
  <1>1. pc \in Handling
    BY DEF Walk, NoticeMissing, NoticeCopy, Persist, OnCook, OnPartial, WriteManifest, Notify,
           Step, Handling
  <1>2. /\ bentos # <<>> /\ bentos \in Seq(Bentos) /\ bentos[Cur] \in Bentos
        /\ next \in ActiveStates /\ batch \in Seq(Keys) /\ batch # <<>> /\ Source \in Keys
        /\ AsFarAs(bentos[Cur], pc, next)
    BY <1>1 DEF DaemonInv, TypeOK, WalkInv, Cur, Source
  <1>3. bentos = [bentos EXCEPT ![Cur] = bentos[Cur]]
    BY <1>2
  <1>4. ASSUME NoticeMissing PROVE DaemonInv'
    <2> DEFINE b == bentos[Cur]
    <2>1. b \in Bentos /\ "manifest" \in PCs \ {"stat"} /\ "FAILED" \in ActiveStates
      BY <1>2, <1>4 DEF NoticeMissing, Bentos, Marks, PCs, ActiveStates
    <2>2. Go("manifest", "FAILED", [bentos EXCEPT ![Cur] = b])
      BY <1>2, <1>3, <1>4 DEF NoticeMissing
    <2>3. AsFarAs(b, "manifest", "FAILED")
      BY <1>2, <1>4 DEF NoticeMissing, AsFarAs, Bentos, Settled, Terminal, CookOutcomes
    <2> QED
      BY <1>2, <2>1, <2>2, <2>3, GoInv
  <1>5. ASSUME NoticeCopy PROVE DaemonInv'
    <2> DEFINE f == file[Source.path]
               b == [bentos[Cur] EXCEPT !.ver = f.ver, !.whole = (f.status = "whole")]
    <2>1. f.ver \in 0..MaxVersions
      BY <1>2 DEF DaemonInv, TypeOK, Files, Keys
    <2>2. b \in Bentos /\ "archived" \in PCs \ {"stat"}
      BY <1>2, <2>1 DEF Bentos, PCs
    <2>3. Go("archived", next, [bentos EXCEPT ![Cur] = b])
      BY <1>2, <1>5 DEF NoticeCopy
    <2>4. AsFarAs(b, "archived", next)
      BY <1>2, <1>5 DEF NoticeCopy, AsFarAs, Bentos
    <2> QED
      BY <1>2, <2>2, <2>3, <2>4, GoInv
  <1>6. ASSUME Persist PROVE DaemonInv'
    <2> DEFINE b == bentos[Cur]
    <2>1. b \in Bentos /\ "step" \in PCs \ {"stat"} /\ "COOK" \in ActiveStates
      BY <1>2, <1>6 DEF Persist, Bentos, Marks, PCs, ActiveStates
    <2>2. Go("step", "COOK", [bentos EXCEPT ![Cur] = b])
      BY <1>2, <1>3, <1>6 DEF Persist
    <2>3. AsFarAs(b, "step", "COOK")
      BY <1>2, <1>6 DEF Persist, AsFarAs, Bentos, Settled, Terminal, CookOutcomes
    <2> QED
      BY <1>2, <2>1, <2>2, <2>3, GoInv
  <1>7. ASSUME OnCook PROVE DaemonInv'
    <2>1. PICK outcome \in CookOutcomes : Go("manifest", outcome, bentos)
      BY <1>7 DEF OnCook
    <2>2. outcome \in ActiveStates /\ "manifest" \in PCs \ {"stat"}
      BY DEF CookOutcomes, ActiveStates, PCs
    <2>3. AsFarAs(bentos[Cur], "manifest", outcome)
      BY <1>2, <1>7, <2>1 DEF OnCook, AsFarAs
    <2> QED
      BY <1>2, <1>3, <2>1, <2>2, <2>3, GoInv
  <1>8. ASSUME OnPartial PROVE DaemonInv'
    <2> DEFINE b == bentos[Cur]
    <2>1. b \in Bentos /\ "manifest" \in PCs \ {"stat"} /\ "DONE" \in ActiveStates
      BY <1>2, <1>8 DEF OnPartial, Bentos, Marks, PCs, ActiveStates
    <2>2. Go("manifest", "DONE", [bentos EXCEPT ![Cur] = b])
      BY <1>2, <1>3, <1>8 DEF OnPartial
    <2>3. AsFarAs(b, "manifest", "DONE")
      BY <1>2, <1>8 DEF OnPartial, AsFarAs, Bentos, Settled, Terminal, CookOutcomes
    <2> QED
      BY <1>2, <2>1, <2>2, <2>3, GoInv
  <1>9. ASSUME WriteManifest PROVE DaemonInv'
    <2> DEFINE b == [bentos[Cur] EXCEPT !.manifest = next]
    <2>1. b \in Bentos /\ "notify" \in PCs \ {"stat"} /\ next \in ActiveStates
      BY <1>2, <1>9 DEF WriteManifest, Bentos, Marks, PCs, ActiveStates
    <2>2. Go("notify", next, [bentos EXCEPT ![Cur] = b])
      BY <1>2, <1>3, <1>9 DEF WriteManifest
    <2>3. AsFarAs(b, "notify", next)
      BY <1>2, <1>9 DEF WriteManifest, AsFarAs, Bentos, Settled, Terminal, CookOutcomes
    <2> QED
      BY <1>2, <2>1, <2>2, <2>3, GoInv
  <1>10. ASSUME Notify PROVE DaemonInv'
    <2> DEFINE b == [bentos[Cur] EXCEPT !.notified = next]
    <2>1. b \in Bentos /\ "step" \in PCs \ {"stat"} /\ next \in ActiveStates
      BY <1>2, <1>10 DEF Notify, Bentos, Marks, PCs, ActiveStates
    <2>2. Go("step", next, [bentos EXCEPT ![Cur] = b])
      BY <1>2, <1>3, <1>10 DEF Notify
    <2>3. AsFarAs(b, "step", next)
      BY <1>2, <1>10 DEF Notify, AsFarAs, Bentos, Settled, Terminal, CookOutcomes
    <2> QED
      BY <1>2, <2>1, <2>2, <2>3, GoInv
  <1>11. ASSUME Step PROVE DaemonInv'
    <2> DEFINE b == [bentos[Cur] EXCEPT !.event = next]
               c == CASE next = "COOK" -> "cook" [] next = "PARTIAL" -> "partial" [] OTHER -> "mark"
    <2>1. b \in Bentos /\ c \in PCs \ {"stat"}
      BY <1>2 DEF Bentos, Marks, PCs
    <2>2. Go(c, next, [bentos EXCEPT ![Cur] = b])
      BY <1>2, <1>11 DEF Step
    <2>3. /\ b.notified = bentos[Cur].notified /\ b.manifest = bentos[Cur].manifest
          /\ b.source = bentos[Cur].source /\ b.life = bentos[Cur].life /\ b.event = next
      BY <1>2 DEF Bentos
    <2>4. /\ c \in {"cook", "partial", "mark"}
          /\ c = "cook" => next = "COOK"
          /\ c = "partial" => next = "PARTIAL"
          /\ c = "mark" => next \notin {"COOK", "PARTIAL"}
      OBVIOUS
    <2> HIDE DEF b, c
    <2>5. AsFarAs(b, c, next)
      BY <1>2, <1>11, <2>3, <2>4 DEF Step, AsFarAs, Settled, Terminal, CookOutcomes
    <2> QED
      BY <1>2, <2>1, <2>2, <2>5, GoInv
  <1> QED
    BY <1>4, <1>5, <1>6, <1>7, <1>8, <1>9, <1>10, <1>11 DEF Walk

\* mark_done, the end of a pass and a handler that raises.
LEMMA EndOfSourceInv ==
  ASSUME DaemonInv, MarkDelivered \/ SaveState \/ PassDone \/ HandlerRaises
  PROVE  DaemonInv'
  <1> USE DEF DaemonInv, disk, provider, scanning, budget
  <1>1. ASSUME MarkDelivered PROVE DaemonInv'
    <2>1. batch # <<>> /\ bentos # <<>> /\ AsFarAs(bentos[Cur], "mark", next) /\ Source \in Keys
      BY <1>1 DEF MarkDelivered, WalkInv, Handling, TypeOK, Source
    <2>2. TypeOK'
      BY <1>1, <2>1 DEF MarkDelivered, TypeOK, PCs
    <2>3. WalkInv'
      BY <1>1, <2>1 DEF MarkDelivered, WalkInv, AsFarAs, Cur, Source, Settled
    <2> QED
      BY <1>1, <2>2, <2>3 DEF MarkDelivered, FilesWritten, StatInv, Present
  <1>2. ASSUME SaveState PROVE DaemonInv'
    <2>1. batch # <<>> /\ Tail(batch) \in Seq(Keys)
      BY <1>2 DEF SaveState, WalkInv, Handling, TypeOK
    <2> QED
      BY <1>2, <2>1
      DEF SaveState, TypeOK, PCs, WalkInv, Handling, FilesWritten, StatInv, Present
  <1>3. ASSUME PassDone PROVE DaemonInv'
    BY <1>3 DEF PassDone, Go, TypeOK, PCs, WalkInv, Handling, FilesWritten, StatInv, Present
  <1>4. ASSUME HandlerRaises PROVE DaemonInv'
    <2>1. batch # <<>> /\ Tail(batch) \in Seq(Keys)
      BY <1>4 DEF HandlerRaises, WalkInv, Handling, TypeOK
    <2> QED
      BY <1>4, <2>1
      DEF HandlerRaises, TypeOK, PCs, WalkInv, Handling, FilesWritten, StatInv, Present
  <1> QED
    BY <1>1, <1>2, <1>3, <1>4

LEMMA CrashInv ==
  ASSUME DaemonInv, Crash \/ Restart
  PROVE  DaemonInv'
  <1> USE DEF DaemonInv, disk, provider, scanning, budget, TypeOK, PCs, WalkInv, Handling,
              FilesWritten, StatInv, Present
  <1>1. ASSUME Crash PROVE DaemonInv'
    BY <1>1 DEF Crash
  <1>2. ASSUME Restart PROVE DaemonInv'
    BY <1>2 DEF Restart
  <1> QED
    BY <1>1, <1>2

LEMMA NextInv == DaemonInv /\ [Next]_vars => DaemonInv'
  <1>1. ASSUME DaemonInv, UNCHANGED vars PROVE DaemonInv'
    BY <1>1
    DEF DaemonInv, vars, disk, provider, scanning, budget, TypeOK, WalkInv, AsFarAs, Cur,
        Source, Settled, FilesWritten, StatInv, Present
  <1> QED
    BY <1>1, EnvironmentInv, ReadInv, MakeBentoInv, WalkStepInv, EndOfSourceInv, CrashInv
    DEF Next, Daemon, Handle

\* The daemon is typed, and what its disk says of the source in hand agrees
\* with where its thread is.
THEOREM DaemonInvariant == Spec => []DaemonInv
  BY InitInv, NextInv, PTL DEF Spec

\* Every variable of the daemon has its type, with any number of droppers, crashes and
\* I/O errors.
THEOREM TypeCorrect == Spec => []TypeOK
  BY DaemonInvariant, PTL DEF DaemonInv

-----------------------------------------------------------------------------
(* What happens to a bento                                                 *)

\* The step keeps the bento i: its source and its process, all of it once its
\* terminal event is out, and all but that event once it is settled.
BentoKept(i) ==
  /\ i \in DOMAIN bentos'
  /\ bentos'[i].source = bentos[i].source /\ bentos'[i].life = bentos[i].life
  /\ bentos[i].event \in Terminal => bentos'[i] = bentos[i]
  /\ Settled(bentos[i]) =>
       /\ bentos'[i].manifest = bentos[i].manifest
       /\ bentos'[i].notified = bentos[i].notified
       /\ bentos'[i].ver = bentos[i].ver /\ bentos'[i].whole = bentos[i].whole

\* Nothing but the daemon's own walk touches a bento on disk.
LEMMA OnlyWalkAndMake == [Next]_vars => Walk \/ MakeBento \/ UNCHANGED bentos
  BY DEF Next, Daemon, Read, Handle, Dropper, Environment, Wake, StatKey, StatStable, ReadDone,
         PassDone, MarkDelivered, SaveState, HandlerRaises, Crash, Restart, Tick, StartWrite,
         ContinueWrite, FinishWrite, Remove, Go, disk, vars

\* Every step keeps every bento.
LEMMA BentoStep ==
  ASSUME DaemonInv, [Next]_vars, NEW i \in DOMAIN bentos
  PROVE  BentoKept(i)
  <1>1. bentos \in Seq(Bentos) /\ i \in 1..Cur
    BY DEF DaemonInv, TypeOK, Cur
  <1>2. ASSUME UNCHANGED bentos PROVE BentoKept(i)
    BY <1>2, <1>1 DEF BentoKept, Settled
  <1>3. ASSUME MakeBento PROVE BentoKept(i)
    BY <1>3, <1>1 DEF MakeBento, Go, BentoKept, Settled, Cur
  <1>4. ASSUME Walk PROVE BentoKept(i)
    <2>1. AsFarAs(bentos[Cur], pc, next) /\ bentos[Cur] \in Bentos
      BY <1>4, <1>1
      DEF Walk, NoticeMissing, NoticeCopy, Persist, OnCook, OnPartial, WriteManifest, Notify,
          Step, Handling, DaemonInv, WalkInv, Cur
    <2>2. CASE NoticeMissing \/ Persist \/ OnCook \/ OnPartial
      BY <2>2, <1>2 DEF NoticeMissing, Persist, OnCook, OnPartial, Go
    <2>3. CASE NoticeCopy
      BY <2>3, <2>1, <1>1 DEF NoticeCopy, Go, AsFarAs, BentoKept, Settled, Bentos
    <2>4. CASE WriteManifest
      BY <2>4, <2>1, <1>1 DEF WriteManifest, Go, AsFarAs, BentoKept, Settled, Bentos
    <2>5. CASE Notify
      BY <2>5, <2>1, <1>1 DEF Notify, Go, AsFarAs, BentoKept, Settled, Bentos
    <2>6. CASE Step
      BY <2>6, <2>1, <1>1 DEF Step, Go, AsFarAs, BentoKept, Settled, Bentos
    <2> QED
      BY <1>4, <2>2, <2>3, <2>4, <2>5, <2>6 DEF Walk
  <1> QED
    BY <1>2, <1>3, <1>4, OnlyWalkAndMake

\* A terminal event that is out was out before, or is relayed by this step.
LEMMA EventStep ==
  ASSUME DaemonInv, [Next]_vars, NEW i \in DOMAIN bentos', bentos'[i].event \in Terminal
  PROVE  \/ i \in DOMAIN bentos /\ bentos[i].event \in Terminal
         \/ Step /\ i = Cur
  <1>1. bentos \in Seq(Bentos)
    BY DEF DaemonInv, TypeOK
  <1>2. CASE UNCHANGED bentos
    BY <1>2
  <1>3. CASE MakeBento
    BY <1>3, <1>1 DEF MakeBento, Go, NewBento, Terminal
  <1>4. ASSUME Walk PROVE bentos # <<>> /\ bentos[Cur] \in Bentos
    BY <1>4, <1>1
    DEF Walk, NoticeMissing, NoticeCopy, Persist, OnCook, OnPartial, WriteManifest, Notify,
        Step, Handling, DaemonInv, WalkInv, Cur
  <1>5. CASE NoticeCopy
    BY <1>5, <1>4, <1>1 DEF Walk, NoticeCopy, Go, Cur, Bentos
  <1>6. CASE WriteManifest
    BY <1>6, <1>4, <1>1 DEF Walk, WriteManifest, Go, Cur, Bentos
  <1>7. CASE Notify
    BY <1>7, <1>4, <1>1 DEF Walk, Notify, Go, Cur, Bentos
  <1>8. CASE Step
    BY <1>8, <1>4, <1>1 DEF Walk, Step, Go, Cur
  <1>9. NoticeMissing \/ Persist \/ OnCook \/ OnPartial => UNCHANGED bentos
    BY DEF NoticeMissing, Persist, OnCook, OnPartial, Go
  <1> QED
    BY <1>2, <1>3, <1>5, <1>6, <1>7, <1>8, <1>9, OnlyWalkAndMake DEF Walk

\* What a step can add to the log, in memory or on disk, is the source in hand.
LEMMA LogStep ==
  ASSUME [Next]_vars, NEW k \in durable' \cup delivered'
  PROVE  k \in durable \cup delivered \/ (pc = "mark" /\ k = Source)
  BY DEF Next, Daemon, Read, Handle, Walk, Dropper, Environment, Wake, StatKey, StatStable,
         ReadDone, MakeBento, NoticeMissing, NoticeCopy, Persist, OnCook, OnPartial,
         WriteManifest, Notify, Step, PassDone, MarkDelivered, SaveState, HandlerRaises, Crash,
         Restart, Tick, StartWrite, ContinueWrite, FinishWrite, Remove, Go, disk, provider, vars

-----------------------------------------------------------------------------
(* Safety                                                                  *)

\* At-least-once: whatever the crashes, errors and lost logs, a source is in
\* the delivery log only once a bento of its own has come to a terminal
\* manifest and notification.
THEOREM AtLeastOnce == Spec => []RecordedMeansAnswered
  <1>1. Init => RecordedMeansAnswered
    BY DEF Init, RecordedMeansAnswered
  <1>2. DaemonInv /\ RecordedMeansAnswered /\ [Next]_vars => RecordedMeansAnswered'
    <2> SUFFICES ASSUME DaemonInv, RecordedMeansAnswered, [Next]_vars,
                        NEW k \in durable' \cup delivered'
                 PROVE  Answered(k)'
      BY DEF RecordedMeansAnswered
    <2>1. Answered(k)
      <3>1. CASE k \in durable \cup delivered
        BY <3>1 DEF RecordedMeansAnswered
      <3>2. CASE pc = "mark" /\ k = Source
        BY <3>2 DEF DaemonInv, WalkInv, Handling, AsFarAs, Answered, Cur, TypeOK
      <3> QED
        BY <3>1, <3>2, LogStep
    <2>2. PICK i \in DOMAIN bentos : bentos[i].source = k /\ Settled(bentos[i])
      BY <2>1 DEF Answered
    <2> QED
      BY <2>2, BentoStep DEF BentoKept, Answered, Settled
  <1> QED
    BY <1>1, <1>2, DaemonInvariant, PTL DEF Spec

\* Never silent: the event of a terminal state has its manifest and its
\* notification behind it.
THEOREM NeverSilent == Spec => []EventBacked
  <1>1. Init => EventBacked
    BY DEF Init, EventBacked
  <1>2. DaemonInv /\ EventBacked /\ [Next]_vars => EventBacked'
    <2> SUFFICES ASSUME DaemonInv, EventBacked, [Next]_vars, NEW i \in DOMAIN bentos',
                        bentos'[i].event \in Terminal
                 PROVE  Settled(bentos'[i]) /\ bentos'[i].manifest = bentos'[i].event
      BY DEF EventBacked, Settled
    <2>1. bentos \in Seq(Bentos)
      BY DEF DaemonInv, TypeOK
    <2>2. CASE i \in DOMAIN bentos /\ bentos[i].event \in Terminal
      BY <2>2, BentoStep DEF BentoKept, EventBacked
    <2>3. CASE Step /\ i = Cur
      <3>1. bentos # <<>> /\ AsFarAs(bentos[Cur], "step", next)
        BY <2>3 DEF Step, DaemonInv, WalkInv, Handling
      <3>2. bentos[Cur] \in Bentos /\ Cur \in DOMAIN bentos
        BY <2>1, <3>1 DEF Cur
      <3>3. bentos'[i] = [bentos[Cur] EXCEPT !.event = next]
        BY <2>3, <2>1, <3>2 DEF Step, Go, Cur
      <3> QED
        BY <3>1, <3>2, <3>3 DEF AsFarAs, Settled, Bentos, Terminal
    <2> QED
      BY <2>2, <2>3, EventStep
  <1> QED
    BY <1>1, <1>2, DaemonInvariant, PTL DEF Spec

\* A verdict is final.
THEOREM FinalVerdict == Spec => VerdictIsFinal
  <1>1. DaemonInv /\ [Next]_vars =>
          [\A i \in DOMAIN bentos : bentos[i].event \in Terminal => bentos'[i] = bentos[i]]_vars
    BY BentoStep DEF BentoKept
  <1> QED
    BY <1>1, DaemonInvariant, PTL DEF Spec, VerdictIsFinal

-----------------------------------------------------------------------------
(* Once per process                                                        *)

LEMMA InitLife == Init => LifeInv
  BY DEF Init, LifeInv

\* A process goes on knowing what it has taken.
LEMMA NextLife == DaemonInv /\ LifeInv /\ [Next]_vars => LifeInv'
  <1> SUFFICES ASSUME DaemonInv, LifeInv, [Next]_vars PROVE LifeInv'
    OBVIOUS
  <1> USE DEF disk, provider, scanning, budget
  <1>1. bentos \in Seq(Bentos) /\ batch \in Seq(Keys) /\ crashes \in Nat
    BY DEF DaemonInv, TypeOK
  <1>2. ASSUME UNCHANGED <<batch, crashes, inflight>>, delivered \subseteq delivered',
               DOMAIN bentos' = DOMAIN bentos, pc' = "down" <=> pc = "down",
               pc \in Handling => pc' \in Handling
        PROVE  LifeInv'
    BY <1>2, BentoStep DEF LifeInv, BentoKept, Waiting
  <1>3. ASSUME Dropper \/ Tick \/ Wake \/ (\E p \in Paths : StatKey(p)) \/ ReadDone \/ PassDone
                 \/ UNCHANGED vars
        PROVE  LifeInv'
    BY <1>3, <1>2
    DEF Dropper, StartWrite, ContinueWrite, FinishWrite, Remove, Environment, Tick, Wake, StatKey,
        ReadDone, PassDone, Go, Handling, vars
  <1>4. ASSUME Walk PROVE LifeInv'
    <2>1. UNCHANGED <<batch, crashes, delivered, inflight>> /\ pc \in Handling /\ pc' \in Handling
      BY <1>4
      DEF Walk, NoticeMissing, NoticeCopy, Persist, OnCook, OnPartial, WriteManifest, Notify, Step,
          Go, Handling
    <2>2. DOMAIN bentos' = DOMAIN bentos
      BY <1>4, <1>1
      DEF Walk, NoticeMissing, NoticeCopy, Persist, OnCook, OnPartial, WriteManifest, Notify, Step, Go
    <2> QED
      BY <1>2, <2>1, <2>2 DEF Handling
  <1>5. ASSUME StatStable PROVE LifeInv'
    <2>1. CASE batch' = Append(batch, key) /\ inflight' = inflight \cup {key}
      <3>1. key \in Keys /\ key \notin delivered \cup inflight
        BY <1>5 DEF StatStable, DaemonInv, StatInv
      <3>2. /\ DOMAIN batch' = 1..(Len(batch) + 1) /\ batch'[Len(batch) + 1] = key
            /\ \A i \in DOMAIN batch : batch'[i] = batch[i]
        BY <2>1, <3>1, <1>1
      <3>3. UNCHANGED <<bentos, delivered, crashes>> /\ pc = "stat" /\ pc' = "scan"
        BY <1>5 DEF StatStable
      <3>4. DOMAIN batch = 1..Len(batch) /\ Len(batch) \in Nat
        BY <1>1
      <3>5. \A i \in DOMAIN batch' : i \in DOMAIN batch \/ i = Len(batch) + 1
        BY <3>2, <3>4
      <3>6. \A i \in DOMAIN batch : batch[i] # key
        BY <3>1 DEF LifeInv
      <3>7. \A j \in DOMAIN bentos : bentos[j].life = crashes => bentos[j].source # key
        BY <3>1 DEF LifeInv
      <3>8. \A i, j \in DOMAIN batch' : batch'[i] = batch'[j] => i = j
        BY <3>2, <3>5, <3>6 DEF LifeInv
      <3>9. \A i \in DOMAIN batch', j \in DOMAIN bentos' :
              (Waiting(i)' /\ bentos'[j].life = crashes') => bentos'[j].source # batch'[i]
        BY <3>2, <3>3, <3>5, <3>7 DEF LifeInv, Waiting, Handling
      <3>10. \A i \in DOMAIN batch' : batch'[i] \in delivered' \cup inflight'
        BY <2>1, <3>2, <3>3, <3>5 DEF LifeInv
      <3> QED
        BY <2>1, <3>3, <3>8, <3>9, <3>10 DEF LifeInv
    <2>2. CASE UNCHANGED <<batch, inflight>>
      BY <2>2, <1>5, <1>2 DEF StatStable, Handling
    <2> QED
      BY <2>1, <2>2, <1>5 DEF StatStable
  <1>6. ASSUME MakeBento PROVE LifeInv'
    <2>1. /\ DOMAIN bentos' = 1..(Cur + 1) /\ bentos'[Cur + 1] = NewBento(Source)
          /\ \A i \in DOMAIN bentos : bentos'[i] = bentos[i]
      BY <1>6, <1>1 DEF MakeBento, Go, Cur
    <2>2. /\ UNCHANGED <<batch, crashes, delivered, inflight>> /\ pc = "pick" /\ pc' = "noticed"
          /\ 1 \in DOMAIN batch /\ Source = batch[1]
      BY <1>6, <1>1 DEF MakeBento, Go, Source
    <2>3. NewBento(Source).source = batch[1] /\ NewBento(Source).life = crashes
      BY <2>2 DEF NewBento
    <2>4. DOMAIN bentos = 1..Cur
      BY <1>1 DEF Cur
    <2>5. \A j \in DOMAIN bentos' : j \in DOMAIN bentos \/ j = Cur + 1
      BY <2>1, <2>4, <1>1 DEF Cur
    <2>6. \A j \in DOMAIN bentos' :
            /\ bentos'[j].life <= crashes'
            /\ bentos'[j].life = crashes' => bentos'[j].source \in delivered' \cup inflight'
      BY <2>1, <2>2, <2>3, <2>5, <1>1 DEF LifeInv
    <2>7. \A i \in DOMAIN batch : i > 1 => batch[i] # batch[1] /\ Waiting(i)
      BY <2>2 DEF LifeInv, Waiting
    <2>8. \A i \in DOMAIN batch', j \in DOMAIN bentos' :
            (Waiting(i)' /\ bentos'[j].life = crashes') => bentos'[j].source # batch'[i]
      BY <2>1, <2>2, <2>3, <2>5, <2>7 DEF LifeInv, Waiting, Handling
    <2> QED
      BY <2>2, <2>6, <2>8 DEF LifeInv
  <1>7. ASSUME MarkDelivered PROVE LifeInv'
    BY <1>7, <1>2 DEF MarkDelivered, Handling
  <1>8. ASSUME SaveState \/ HandlerRaises PROVE LifeInv'
    <2>1. /\ pc \in Handling /\ pc' = "pick" /\ batch # <<>> /\ batch' = Tail(batch)
          /\ UNCHANGED <<bentos, crashes, delivered>>
          /\ pc = "save" => Source \in delivered
      BY <1>8 DEF SaveState, HandlerRaises, DaemonInv, WalkInv, AsFarAs, Handling
    <2>2. delivered \cup inflight \subseteq delivered' \cup inflight'
      BY <1>8, <2>1 DEF SaveState, HandlerRaises
    <2>3. \A i \in DOMAIN batch' : i + 1 \in DOMAIN batch /\ i + 1 > 1 /\ batch'[i] = batch[i + 1]
      BY <2>1, <1>1
    <2>4. \A i \in DOMAIN batch' : i \in Nat
      BY <2>1, <1>1
    <2> QED
      BY <2>1, <2>2, <2>3, <2>4 DEF LifeInv, Waiting, Handling
  <1>9. ASSUME Crash PROVE LifeInv'
    <2>1. UNCHANGED bentos /\ crashes' = crashes + 1 /\ DOMAIN batch' = {} /\ batch' = <<>>
      BY <1>9 DEF Crash
    <2>2. \A i \in DOMAIN bentos : bentos[i].life \in Nat /\ bentos[i].life <= crashes
      <3>1. \A i \in DOMAIN bentos : bentos[i] \in Bentos
        BY <1>1
      <3>2. \A i \in DOMAIN bentos : bentos[i].life \in Nat
        BY <3>1 DEF Bentos
      <3> QED
        BY <3>2 DEF LifeInv
    <2>3. \A i \in DOMAIN bentos : bentos[i].life <= crashes + 1 /\ bentos[i].life # crashes + 1
      BY <1>1, <2>2
    <2> QED
      BY <2>1, <2>3 DEF LifeInv
  <1>10. ASSUME Restart PROVE LifeInv'
    BY <1>10, <1>1 DEF Restart, LifeInv, Waiting
  <1> QED
    BY <1>3, <1>4, <1>5, <1>6, <1>7, <1>8, <1>9, <1>10 DEF Next, Daemon, Read, Handle

\* What a process has taken it suppresses, and no key waits in it twice: what
\* OncePerProcess rests on.
THEOREM LifeInvariant == Spec => []LifeInv
  BY InitLife, NextLife, DaemonInvariant, PTL DEF Spec

\* One process hands a key out at most once: a bento that is made is the first
\* of this process for its source.
THEOREM OncePerProcess == Spec => []OncePerLife
  <1>1. Init => OncePerLife
    BY DEF Init, OncePerLife
  <1>2. DaemonInv /\ LifeInv /\ OncePerLife /\ [Next]_vars => OncePerLife'
    <2> SUFFICES ASSUME DaemonInv, LifeInv, OncePerLife, [Next]_vars PROVE OncePerLife'
      OBVIOUS
    <2>1. bentos \in Seq(Bentos) /\ DOMAIN bentos = 1..Cur /\ Cur \in Nat
      BY DEF DaemonInv, TypeOK, Cur
    <2>2. CASE DOMAIN bentos' = DOMAIN bentos
      BY <2>2, BentoStep DEF OncePerLife, BentoKept
    <2>3. CASE MakeBento
      <3>1. /\ DOMAIN bentos' = 1..(Cur + 1) /\ bentos'[Cur + 1] = NewBento(Source)
            /\ \A i \in DOMAIN bentos : bentos'[i] = bentos[i]
        BY <2>3, <2>1 DEF MakeBento, Go, Cur
      <3>2. 1 \in DOMAIN batch /\ Source = batch[1] /\ Waiting(1)
        BY <2>3 DEF MakeBento, DaemonInv, TypeOK, Source, Waiting, Handling
      <3>3. \A j \in DOMAIN bentos : bentos[j].life = crashes => bentos[j].source # Source
        BY <3>2 DEF LifeInv
      <3>4. NewBento(Source).source = Source /\ NewBento(Source).life = crashes
        BY DEF NewBento
      <3>5. \A j \in DOMAIN bentos' : j \in DOMAIN bentos \/ j = Cur + 1
        BY <3>1, <2>1
      <3> QED
        BY <3>1, <3>3, <3>4, <3>5 DEF OncePerLife
    <2>4. Walk => DOMAIN bentos' = DOMAIN bentos
      BY <2>1
      DEF Walk, NoticeMissing, NoticeCopy, Persist, OnCook, OnPartial, WriteManifest, Notify, Step, Go
    <2> QED
      BY <2>2, <2>3, <2>4, OnlyWalkAndMake
  <1> QED
    BY <1>1, <1>2, DaemonInvariant, LifeInvariant, PTL DEF Spec

-----------------------------------------------------------------------------
(* The abstract intake                                                     *)

LEMMA LogInvariant == Spec => []LogInv
  <1>1. Init => LogInv
    BY DEF Init, LogInv
  <1>2. LogInv /\ [Next]_vars => LogInv'
    BY DEF LogInv, Next, Daemon, Read, Handle, Walk, Dropper, Environment, Wake, StatKey,
           StatStable, ReadDone, MakeBento, NoticeMissing, NoticeCopy, Persist, OnCook, OnPartial,
           WriteManifest, Notify, Step, PassDone, MarkDelivered, SaveState, HandlerRaises, Crash,
           Restart, Tick, StartWrite, ContinueWrite, FinishWrite, Remove, Go, disk, provider, vars
  <1> QED
    BY <1>1, <1>2, PTL DEF Spec

\* The sources of the bentos, and of those that are settled: what Intake sees.
Taken == {bentos[i].source : i \in DOMAIN bentos}
Told == {bentos[i].source : i \in {j \in DOMAIN bentos : Settled(bentos[j])}}

\* A step that makes no bento takes nothing and takes nothing back.
LEMMA TakenStep ==
  ASSUME DaemonInv, [Next]_vars, DOMAIN bentos' = DOMAIN bentos
  PROVE  Taken' = Taken /\ Told \subseteq Told'
  BY BentoStep DEF BentoKept, Taken, Told, Settled

\* The daemon implements the at-least-once intake.
THEOREM DaemonKeepsPromise == Spec => KeepsPromise
  <1>1. Init => Promise!Init
    BY DEF Init, Promise!Init
  <1>2. ASSUME DaemonInv, LogInv, RecordedMeansAnswered, RecordedMeansAnswered', [Next]_vars
        PROVE  [Promise!Next]_<<Taken, Told, durable>>
    <2> USE <1>2
    <2>1. bentos \in Seq(Bentos) /\ DOMAIN bentos = 1..Cur /\ Cur \in Nat
      BY DEF DaemonInv, TypeOK, Cur
    <2>2. CASE UNCHANGED <<bentos, durable>>
      BY <2>2 DEF Taken, Told, Settled
    <2>3. CASE MakeBento
      <3>1. /\ DOMAIN bentos' = 1..(Cur + 1) /\ bentos'[Cur + 1] = NewBento(Source)
            /\ \A i \in DOMAIN bentos : bentos'[i] = bentos[i]
        BY <2>3, <2>1 DEF MakeBento, Go, Cur
      <3>2. Source \in Keys /\ UNCHANGED durable
        BY <2>3 DEF MakeBento, Go, DaemonInv, TypeOK, Source
      <3>3. NewBento(Source).source = Source /\ ~Settled(NewBento(Source))
        BY DEF NewBento, Settled, Terminal
      <3>4. \A j : j \in DOMAIN bentos' <=> j \in DOMAIN bentos \/ j = Cur + 1
        BY <3>1, <2>1
      <3>5. Taken' = Taken \cup {Source}
        BY <3>1, <3>3, <3>4 DEF Taken
      <3>6. Told' = Told
        BY <3>1, <3>3, <3>4 DEF Told, Settled
      <3> QED
        BY <3>2, <3>5, <3>6 DEF Promise!Next, Promise!Take, Taken, Told
    <2>4. CASE Walk
      <3>1. bentos # <<>> /\ bentos[Cur].source = Source /\ Source \in Keys
        BY <2>4
        DEF Walk, NoticeMissing, NoticeCopy, Persist, OnCook, OnPartial, WriteManifest, Notify,
            Step, Handling, DaemonInv, WalkInv, AsFarAs, TypeOK, Source
      <3>2. /\ DOMAIN bentos' = DOMAIN bentos /\ UNCHANGED durable
            /\ \A j \in DOMAIN bentos : j # Cur => bentos'[j] = bentos[j]
        BY <2>4, <2>1
        DEF Walk, NoticeMissing, NoticeCopy, Persist, OnCook, OnPartial, WriteManifest, Notify,
            Step, Go
      <3>3. Taken' = Taken /\ Told \subseteq Told'
        BY <3>2, TakenStep
      <3>4. Told' \subseteq Told \cup {Source} /\ Source \in Taken
        <4>1. Cur \in DOMAIN bentos
          BY <3>1, <2>1
        <4>2. bentos'[Cur].source = Source
          BY <3>1, <4>1, BentoStep DEF BentoKept
        <4> QED
          BY <3>1, <3>2, <4>1, <4>2 DEF Taken, Told, Settled
      <3>5. CASE Told' = Told
        BY <3>2, <3>3, <3>5
      <3>6. CASE Told' # Told
        <4>1. Told' = Told \cup {Source} /\ Source \in Taken
          BY <3>3, <3>4, <3>6
        <4> QED
          BY <3>1, <3>2, <3>3, <4>1 DEF Promise!Next, Promise!Answer, Taken, Told
      <3> QED
        BY <3>5, <3>6
    <2>5. CASE SaveState
      <3>1. UNCHANGED bentos /\ durable' = delivered /\ pc = "save"
        BY <2>5 DEF SaveState
      <3>2. durable \subseteq delivered /\ delivered \subseteq Told
        BY <3>1 DEF LogInv, RecordedMeansAnswered, Answered, Told
      <3>3. UNCHANGED <<Taken, Told>> /\ durable' = durable \cup delivered
        BY <3>1, <3>2 DEF Taken, Told, Settled
      <3> QED
        BY <3>2, <3>3 DEF Promise!Next, Promise!Record, Taken, Told
    <2>6. CASE Restart
      <3>1. UNCHANGED bentos /\ (durable' = durable \/ durable' = {})
        BY <2>6 DEF Restart
      <3> QED
        BY <3>1 DEF Promise!Next, Promise!LoseLog, Taken, Told, Settled
    <2>7. UNCHANGED <<bentos, durable>> \/ MakeBento \/ Walk \/ SaveState \/ Restart
      BY OnlyWalkAndMake
      DEF Next, Daemon, Read, Handle, Dropper, Environment, Wake, StatKey, StatStable,
          ReadDone, PassDone, MarkDelivered, HandlerRaises, Crash, Tick, StartWrite,
          ContinueWrite, FinishWrite, Remove, Go, disk, vars
    <2> QED
      BY <2>2, <2>3, <2>4, <2>5, <2>6, <2>7
  <1> QED
    BY <1>1, <1>2, DaemonInvariant, LogInvariant, AtLeastOnce, PTL DEF Spec, KeepsPromise, Promise!Spec, Taken, Told

-----------------------------------------------------------------------------
(* No drop is masked by the key of an earlier one                          *)

\* The clock is stopped or ticks.
LEMMA ClockStep ==
  ASSUME DaemonInv, [Next]_vars
  PROVE  now \in Nat /\ now' \in Nat /\ now <= now'
  <1>1. now \in Nat
    BY DEF DaemonInv, TypeOK
  <1>2. now' = now \/ now' = now + 1
    BY DEF Next, Daemon, Read, Handle, Walk, Dropper, Environment, Wake, StatKey, StatStable,
           ReadDone, MakeBento, NoticeMissing, NoticeCopy, Persist, OnCook, OnPartial,
           WriteManifest, Notify, Step, PassDone, MarkDelivered, SaveState, HandlerRaises, Crash,
           Restart, Tick, StartWrite, ContinueWrite, FinishWrite, Remove, Go, vars
  <1> QED
    BY <1>1, <1>2

\* A step leaves a file alone, writes it at this moment, or removes it.
LEMMA FileStep ==
  ASSUME DaemonInv, [Next]_vars, NEW p \in Paths
  PROVE  \/ file'[p] = file[p]
         \/ file'[p].mtime = now /\ UNCHANGED <<now, bentos, batch, pc, key>>
         \/ /\ file'[p].mtime = file[p].mtime /\ file'[p].status = "absent"
            /\ UNCHANGED <<now, bentos, batch, pc, key>>
  <1>1. file \in [Paths -> Files] /\ file[p] \in Files
    BY DEF DaemonInv, TypeOK
  <1>2. CASE Dropper
    BY <1>1, <1>2
    DEF Dropper, StartWrite, ContinueWrite, FinishWrite, Remove, Environment, scanning, Files
  <1>3. Dropper \/ UNCHANGED file
    BY DEF Next, Daemon, Read, Handle, Walk, Wake, StatKey, StatStable, ReadDone, MakeBento,
           NoticeMissing, NoticeCopy, Persist, OnCook, OnPartial, WriteManifest, Notify, Step,
           PassDone, MarkDelivered, SaveState, HandlerRaises, Crash, Restart, Tick, Go, disk, vars
  <1> QED
    BY <1>2, <1>3

\* The second of a key that was over stays over.
LEMMA PastStep ==
  ASSUME DaemonInv, [Next]_vars, NEW k \in Keys, Past(k)
  PROVE  Past(k)'
  <1>1. /\ now \in Nat /\ now' \in Nat /\ now <= now'
        /\ TicksPerSecond \in Nat \ {0} /\ MaxTime \in Nat
    BY ClockStep, DaemonAssumption
  <1>2. now \div TicksPerSecond <= now' \div TicksPerSecond
    BY <1>1, SecondMonotone
  <1>3. now \div TicksPerSecond \in Nat /\ now' \div TicksPerSecond \in Nat
    BY <1>1, SecondBound
  <1>4. k.sec \in Nat
    BY <1>1 DEF Keys
  <1>5. ASSUME NEW a \in Nat, NEW b \in Nat, NEW c \in Nat, a < b, b <= c PROVE a < c
    BY <1>5
  <1> QED
    BY <1>2, <1>3, <1>4, <1>5 DEF Past

\* With a debounce of at least a second, a key is handed out only when its
\* second is over.
LEMMA KeyPastStep ==
  ASSUME Debounce >= TicksPerSecond, DaemonInv, KeyPast, [Next]_vars
  PROVE  KeyPast'
  <1> USE DEF disk, provider, scanning, budget
  <1>1. /\ bentos \in Seq(Bentos) /\ batch \in Seq(Keys) /\ now \in Nat
        /\ TicksPerSecond \in Nat \ {0} /\ Debounce \in Nat
        /\ \A p \in Paths : file[p].mtime \in Nat
    BY DaemonAssumption DEF DaemonInv, TypeOK, Files
  <1>2. ASSUME NEW p \in Paths PROVE file'[p].mtime <= now'
    BY <1>1, FileStep, ClockStep DEF KeyPast
  <1>3. ASSUME pc' = "stat" PROVE key'.sec <= file'[key'.path].mtime \div TicksPerSecond
    <2>1. CASE \E p \in Paths : StatKey(p)
      <3>1. PICK p \in Paths : StatKey(p)
        BY <2>1
      <3>2. CASE key' = Key(p) /\ file' = file
        <4>1. file[p].mtime \div TicksPerSecond \in Nat
          BY <1>1, SecondBound
        <4> QED
          BY <3>2, <4>1 DEF Key
      <3> QED
        BY <1>3, <3>1, <3>2 DEF StatKey
    <2>2. CASE pc = "stat" /\ key' = key
      <3>1. key.path \in Paths /\ key.sec \in Nat
        BY <2>2 DEF DaemonInv, StatInv, Keys
      <3> DEFINE t == file[key.path].mtime
                 u == file'[key.path].mtime
      <3>2. t \in Nat /\ u \in Nat /\ t <= u /\ key.sec <= t \div TicksPerSecond
        BY <1>1, <2>2, <3>1, FileStep DEF KeyPast
      <3> HIDE DEF t, u
      <3>3. t \div TicksPerSecond <= u \div TicksPerSecond
        BY <1>1, <3>2, SecondMonotone
      <3>4. t \div TicksPerSecond \in Nat /\ u \div TicksPerSecond \in Nat
        BY <1>1, <3>2, SecondBound
      <3> QED
        BY <2>2, <3>1, <3>2, <3>3, <3>4 DEF u
    <2>3. (\E p \in Paths : StatKey(p)) \/ (pc = "stat" /\ key' = key)
      BY <1>3
      DEF Next, Daemon, Read, Handle, Walk, Dropper, Environment, Wake, StatKey, StatStable,
          ReadDone, MakeBento, NoticeMissing, NoticeCopy, Persist, OnCook, OnPartial,
          WriteManifest, Notify, Step, PassDone, MarkDelivered, SaveState, HandlerRaises, Crash,
          Restart, Tick, StartWrite, ContinueWrite, FinishWrite, Remove, Go, vars
    <2> QED
      BY <2>1, <2>2, <2>3
  <1>4. \A k \in Keys : Past(k) => Past(k)'
    BY PastStep
  <1>5. ASSUME StatStable, Stable(key.path) PROVE Past(key)
    <2>1. key.path \in Paths /\ key.sec \in Nat
      BY <1>5 DEF StatStable, DaemonInv, StatInv, Keys
    <2> DEFINE t == file[key.path].mtime
    <2>2. t \in Nat /\ t + TicksPerSecond <= now /\ key.sec <= t \div TicksPerSecond
      BY <1>1, <1>5, <2>1 DEF Stable, StatStable, KeyPast
    <2> HIDE DEF t
    <2>3. t \div TicksPerSecond < now \div TicksPerSecond
      BY <1>1, <2>2, SecondAdvances
    <2>4. t \div TicksPerSecond \in Nat /\ now \div TicksPerSecond \in Nat
      BY <1>1, <2>2, SecondBound
    <2> QED
      BY <2>1, <2>2, <2>3, <2>4 DEF Past
  <1>6. ASSUME NEW i \in DOMAIN batch' PROVE batch'[i] \in Keys /\ Past(batch'[i])
    <2>1. CASE StatStable /\ batch' = Append(batch, key) /\ Stable(key.path)
      <3>1. key \in Keys
        BY <2>1 DEF StatStable, DaemonInv, StatInv
      <3> QED
        BY <1>1, <1>5, <2>1, <3>1 DEF KeyPast
    <2>2. CASE batch' = batch
      BY <1>1, <2>2 DEF KeyPast
    <2>3. CASE batch' = <<>>
      BY <2>3
    <2>4. CASE batch # <<>> /\ batch' = Tail(batch)
      BY <1>1, <2>4 DEF KeyPast
    <2>5. \/ StatStable /\ batch' = Append(batch, key) /\ Stable(key.path)
          \/ batch' \in {batch, <<>>}
          \/ (SaveState \/ HandlerRaises) /\ batch' = Tail(batch)
      BY DEF Next, Daemon, Read, Handle, Walk, Dropper, Environment, Wake, StatKey, StatStable,
          ReadDone, MakeBento, NoticeMissing, NoticeCopy, Persist, OnCook, OnPartial,
          WriteManifest, Notify, Step, PassDone, MarkDelivered, SaveState, HandlerRaises, Crash,
          Restart, Tick, StartWrite, ContinueWrite, FinishWrite, Remove, Go, vars
    <2>6. SaveState \/ HandlerRaises => batch # <<>>
      BY DEF SaveState, HandlerRaises, DaemonInv, WalkInv, Handling
    <2> QED
      BY <2>1, <2>2, <2>3, <2>4, <2>5, <2>6
  <1>7. ASSUME NEW i \in DOMAIN bentos'
        PROVE  bentos'[i].source \in Keys /\ Past(bentos'[i].source)
    <2>1. CASE i \in DOMAIN bentos
      <3>1. bentos[i] \in Bentos /\ bentos'[i].source = bentos[i].source
        BY <1>1, <2>1, BentoStep DEF BentoKept
      <3> QED
        BY <2>1, <3>1 DEF KeyPast, Bentos
    <2>2. CASE i \notin DOMAIN bentos
      <3>1. MakeBento
        BY <1>1, <2>2, OnlyWalkAndMake
        DEF Walk, NoticeMissing, NoticeCopy, Persist, OnCook, OnPartial, WriteManifest, Notify,
            Step, Go
      <3>2. bentos'[i] = NewBento(Source)
        BY <1>1, <2>2, <3>1 DEF MakeBento, Go
      <3>3. Source = batch[1] /\ 1 \in DOMAIN batch
        BY <1>1, <3>1 DEF MakeBento, Source
      <3> QED
        BY <1>1, <3>2, <3>3 DEF KeyPast, NewBento
    <2> QED
      BY <2>1, <2>2
  <1>8. /\ \A i \in DOMAIN batch' : Past(batch[i])'
        /\ \A i \in DOMAIN bentos' : Past(bentos[i].source)'
    BY <1>4, <1>6, <1>7 DEF Past
  <1> QED
    BY <1>2, <1>3, <1>8 DEF KeyPast

\* A bento beyond on_noticed got there by this step, or was beyond it already
\* and keeps what it holds.
LEMMA CopiedStep ==
  ASSUME DaemonInv, [Next]_vars, NEW i \in DOMAIN bentos', Copied(i)'
  PROVE  \/ (NoticeCopy \/ NoticeMissing) /\ i = Cur
         \/ /\ i \in DOMAIN bentos /\ Copied(i)
            /\ bentos'[i].source = bentos[i].source
            /\ bentos'[i].ver = bentos[i].ver /\ bentos'[i].whole = bentos[i].whole
  <1> USE DEF Copied, Cur
  <1>1. bentos \in Seq(Bentos)
    BY DEF DaemonInv, TypeOK
  <1>2. CASE UNCHANGED bentos /\ ~NoticeMissing /\ ~NoticeCopy /\ ~MakeBento
    <2>1. pc' \in Handling \ {"noticed"} => pc \in Handling \ {"noticed"}
      BY <1>1, <1>2
      DEF Next, Daemon, Read, Handle, Walk, Dropper, Environment, Wake, StatKey, StatStable,
          ReadDone, Persist, OnCook, OnPartial, WriteManifest, Notify, Step, PassDone, MarkDelivered,
          SaveState, HandlerRaises, Crash, Restart, Tick, StartWrite, ContinueWrite, FinishWrite,
          Remove, Go, vars, Handling
    <2> QED
      BY <1>2, <2>1
  <1>3. CASE NoticeMissing
    BY <1>3 DEF NoticeMissing, Go
  <1>4. CASE MakeBento
    <2>1. bentos' = Append(bentos, NewBento(Source)) /\ pc' = "noticed"
      BY <1>4 DEF MakeBento, Go
    <2>2. NewBento(Source).manifest = "-"
      BY DEF NewBento
    <2>3. /\ DOMAIN bentos' = 1..(Len(bentos) + 1) /\ bentos'[Len(bentos) + 1].manifest = "-"
          /\ \A j \in DOMAIN bentos : bentos'[j] = bentos[j]
      BY <1>1, <2>1, <2>2
    <2>4. i # Len(bentos) + 1 /\ i \in DOMAIN bentos /\ bentos'[i].manifest # "-"
      BY <1>1, <2>1, <2>3 DEF Handling
    <2> QED
      BY <2>3, <2>4
  <1>5. CASE NoticeCopy
    BY <1>1, <1>5 DEF NoticeCopy, Go, Bentos
  <1>6. ASSUME WriteManifest \/ Notify \/ Step
        PROVE  bentos # <<>> /\ bentos[Cur] \in Bentos /\ pc \in Handling \ {"noticed"}
    BY <1>1, <1>6 DEF WriteManifest, Notify, Step, Handling, DaemonInv, WalkInv
  <1>7. CASE WriteManifest
    BY <1>1, <1>6, <1>7 DEF WriteManifest, Go, Bentos
  <1>8. CASE Notify
    BY <1>1, <1>6, <1>8 DEF Notify, Go, Bentos
  <1>9. CASE Step
    BY <1>1, <1>6, <1>9 DEF Step, Go, Bentos
  <1>10. Persist \/ OnCook \/ OnPartial => UNCHANGED bentos /\ pc # "noticed" /\ pc # "pick"
    BY DEF Persist, OnCook, OnPartial, Go
  <1> QED
    BY <1>2, <1>3, <1>4, <1>5, <1>7, <1>8, <1>9, <1>10, OnlyWalkAndMake
    DEF Walk, NoticeMissing, NoticeCopy, MakeBento

LEMMA FaithfulCopyStep ==
  ASSUME DaemonInv, KeyPast, FaithfulCopy, [Next]_vars
  PROVE  FaithfulCopy'
  <1> SUFFICES ASSUME NEW i \in DOMAIN bentos', NEW p \in Paths, Copied(i)', Present(p)',
                      Key(p)' = bentos'[i].source
               PROVE  /\ bentos'[i].ver = file'[p].ver
                      /\ bentos'[i].whole = (file'[p].status = "whole")
    BY DEF FaithfulCopy
  <1>1. /\ now \in Nat /\ TicksPerSecond \in Nat \ {0} /\ bentos \in Seq(Bentos)
        /\ file[p] \in Files /\ file[p].mtime \in Nat
    BY DaemonAssumption DEF DaemonInv, TypeOK, Files
  <1>2. CASE file'[p].mtime = now /\ UNCHANGED <<now, bentos, batch, pc, key>>
    <2>1. bentos[i].source.sec \in Nat /\ Past(bentos[i].source)
      <3>1. bentos[i] \in Bentos /\ Past(bentos[i].source)
        BY <1>1, <1>2 DEF KeyPast
      <3>2. \A k \in Keys : k.sec \in Nat
        BY DaemonAssumption DEF Keys
      <3> QED
        BY <3>1, <3>2 DEF Bentos
    <2>2. bentos[i].source.sec = now \div TicksPerSecond
      BY <1>2 DEF Key
    <2>3. now \div TicksPerSecond \in Nat
      BY <1>1, SecondBound
    <2> QED
      BY <2>1, <2>2, <2>3 DEF Past
  <1>3. CASE file'[p] = file[p]
    <2>1. Present(p) /\ Key(p) = bentos'[i].source
      BY <1>3 DEF Present, Key
    <2>2. CASE i \in DOMAIN bentos /\ Copied(i) /\ bentos'[i].source = bentos[i].source
                 /\ bentos'[i].ver = bentos[i].ver /\ bentos'[i].whole = bentos[i].whole
      <3>1. bentos[i].ver = file[p].ver /\ bentos[i].whole = (file[p].status = "whole")
        BY <2>1, <2>2 DEF FaithfulCopy
      <3> QED
        BY <1>3, <2>2, <3>1
    <2>3. ASSUME NoticeCopy \/ NoticeMissing, i = Cur
          PROVE  /\ bentos # <<>> /\ bentos[Cur].source = Source
                 /\ bentos'[i].source = bentos[i].source /\ p = Source.path
      <3>1. bentos # <<>> /\ bentos[Cur].source = Source /\ Cur \in DOMAIN bentos
        BY <1>1, <2>3
        DEF NoticeCopy, NoticeMissing, Handling, DaemonInv, WalkInv, AsFarAs, Cur
      <3>2. bentos'[i].source = bentos[i].source
        BY <2>3, <3>1, BentoStep DEF BentoKept
      <3> QED
        BY <2>1, <2>3, <3>1, <3>2 DEF Key
    <2>4. CASE NoticeMissing /\ i = Cur
      BY <2>1, <2>3, <2>4 DEF NoticeMissing
    <2>5. CASE NoticeCopy /\ i = Cur
      BY <1>1, <1>3, <2>3, <2>5 DEF NoticeCopy, Go, Cur, Bentos
    <2> QED
      BY <2>2, <2>4, <2>5, CopiedStep
  <1>4. file'[p].status # "absent"
    BY DEF Present
  <1> QED
    BY <1>2, <1>3, <1>4, FileStep

\* With a debounce of at least a second, a file that read() passes over as
\* delivered is one whose present bytes were archived whole and answered: no
\* drop is masked by the key of an earlier one.
THEOREM NoDropMasked ==
  ASSUME Debounce >= TicksPerSecond
  PROVE  Spec => []SuppressedMeansCopied
  <1>1. Init => KeyPast /\ FaithfulCopy
    BY DaemonAssumption DEF Init, KeyPast, FaithfulCopy
  <1>2. DaemonInv /\ KeyPast /\ FaithfulCopy /\ [Next]_vars => KeyPast' /\ FaithfulCopy'
    BY KeyPastStep, FaithfulCopyStep
  <1>3. RecordedMeansAnswered /\ FaithfulCopy => SuppressedMeansCopied
    <2> SUFFICES ASSUME RecordedMeansAnswered, FaithfulCopy, NEW p \in Paths,
                        file[p].status = "whole", Key(p) \in delivered
                 PROVE  \E i \in DOMAIN bentos :
                          /\ bentos[i].source.path = p /\ Settled(bentos[i])
                          /\ bentos[i].ver = file[p].ver /\ bentos[i].whole
      BY DEF SuppressedMeansCopied
    <2>1. PICK i \in DOMAIN bentos : bentos[i].source = Key(p) /\ Settled(bentos[i])
      BY DEF RecordedMeansAnswered, Answered
    <2>2. Copied(i) /\ Present(p) /\ bentos[i].source.path = p
      BY <2>1 DEF Copied, Settled, Terminal, Present, Key
    <2> QED
      BY <2>1, <2>2 DEF FaithfulCopy
  <1> QED
    BY <1>1, <1>2, <1>3, DaemonInvariant, AtLeastOnce, PTL DEF Spec

=============================================================================
