---------------------------- MODULE InboxDaemon ----------------------------
(***************************************************************************)
(* The inbox daemon of a birb (python/birblib/service.py, serve_inbox):    *)
(* the poll loop of frood.watcher over a FilesystemProvider, and, for each *)
(* source, the walk of a new bento through the default handlers.           *)
(*                                                                         *)
(* The daemon is one thread, so its program counter pc is one variable.    *)
(* It shares the inbox with droppers, who write, rewrite and remove files  *)
(* at any moment, and with the clock.  A crash (the laptop sleeps, reboots *)
(* or the process dies) loses all that is not on disk.                     *)
(*                                                                         *)
(* Time is counted in ticks, TicksPerSecond to the second: the dedup key   *)
(* keeps the whole second of a modification time, the debounce does not.   *)
(***************************************************************************)
EXTENDS Integers, Sequences, BentoFsm

CONSTANTS
  Paths,          \* the accepted file names of the inbox, in the order of iterdir
  MaxVersions,    \* how many times a dropper writes a file (bound)
  SizeOf,         \* the size in bytes of each version of a file
  TicksPerSecond, \* resolution of the file system's modification times
  Debounce,       \* debounce_s, in ticks
  WriterGap,      \* the longest time, in ticks, a writer goes without writing
  LastWrite,      \* the last tick at which a dropper starts or continues a write (bound)
  MaxTime,        \* the last tick of the clock (bound), late enough for all to go quiet
  MaxCrashes,     \* how many times the process dies (bound)
  MaxRaises,      \* how many handler calls raise an I/O error (bound)
  LogMayCorrupt   \* whether a restart may find the delivery log unreadable

ASSUME DaemonAssumption ==
  /\ Paths \subseteq Nat
  /\ MaxVersions \in Nat /\ SizeOf \in [1..MaxVersions -> Nat]
  /\ TicksPerSecond \in Nat \ {0}
  /\ {Debounce, WriterGap, LastWrite, MaxTime, MaxCrashes, MaxRaises} \subseteq Nat
  /\ LogMayCorrupt \in BOOLEAN
  /\ MaxTime >= LastWrite + WriterGap + Debounce

VARIABLES
  now,       \* the clock
  file,      \* the inbox: each path's file, or its absence
  durable,   \* the delivery log on disk (state_path)
  delivered, \* provider._delivered
  inflight,  \* provider._inflight
  pc,        \* where the daemon's thread is
  listing,   \* paths of this read() still to be looked at
  key,       \* the key computed for the file read() is looking at
  batch,     \* the sources of this pass still to be handled
  bentos,    \* the bento directories on disk, oldest first
  next,      \* the state the current handler is about to return
  crashes,   \* how many times the process has died
  raises     \* how many handler calls have raised

disk     == <<file, durable, bentos>>
provider == <<delivered, inflight>>
scanning == <<listing, key>>
budget   == <<crashes, raises>>
vars == <<now, disk, provider, pc, scanning, batch, next, budget>>

-----------------------------------------------------------------------------
(* Data                                                                    *)

Versions == 1..MaxVersions
Keys == [path : Paths, size : {SizeOf[v] : v \in Versions}, sec : 0..MaxTime]
NoKey == [path |-> 0, size |-> 0, sec |-> 0]

\* A file: the version last written, when, and whether its writer is done.
Files == [ver : 0..MaxVersions, mtime : 0..MaxTime, status : {"absent", "writing", "whole"}]

\* What a bento's directory and the notifications directory hold for it:
\* the bytes archived from the source, the state of the manifest and of the
\* notification, and the last state relayed to the emitter ("-": none yet);
\* and, for the properties, the source and the process it was made for.
\* request.json and bento.json, written once and never read, are left out.
Marks == ActiveStates \cup {"-"}
Bentos == [source : Keys, life : Nat, ver : 0..MaxVersions, whole : BOOLEAN,
           manifest : Marks, notified : Marks, event : Marks]

NewBento(k) ==
  [source |-> k, life |-> crashes, ver |-> 0, whole |-> FALSE,
   manifest |-> "-", notified |-> "-", event |-> "-"]

\* The daemon works on the youngest bento, for the first source of the batch.
Cur == Len(bentos)
Source == Head(batch)

Present(p) == file[p].status # "absent"

\* FilesystemProvider._key: path, size and whole second of the mtime.
Key(p) == [path |-> p, size |-> SizeOf[file[p].ver],
           sec |-> file[p].mtime \div TicksPerSecond]

\* (without the debounce)
StableAtOnce(p) == Present(p)

\* FilesystemProvider._is_stable: quiet for the debounce.
Stable(p) == Present(p) /\ now - file[p].mtime >= Debounce

PCs == {"down", "idle", "scan", "stat", "pick", "noticed", "archived", "cook",
        "partial", "manifest", "notify", "step", "mark", "save"}

TypeOK ==
  /\ now \in 0..MaxTime
  /\ file \in [Paths -> Files]
  /\ durable \subseteq Keys /\ delivered \subseteq Keys /\ inflight \subseteq Keys
  /\ pc \in PCs
  /\ listing \subseteq Paths
  /\ key \in Keys \cup {NoKey}
  /\ batch \in Seq(Keys)
  /\ bentos \in Seq(Bentos)
  /\ next \in ActiveStates
  /\ crashes \in Nat /\ raises \in Nat

Init ==
  /\ now = 0
  /\ file = [p \in Paths |-> [ver |-> 0, mtime |-> 0, status |-> "absent"]]
  /\ durable = {} /\ delivered = {} /\ inflight = {}
  /\ pc = "idle"
  /\ listing = {} /\ key = NoKey
  /\ batch = <<>> /\ bentos = <<>> /\ next = "NOTICED"
  /\ crashes = 0 /\ raises = 0

-----------------------------------------------------------------------------
(* The droppers and the clock                                              *)

Environment(newFile) ==
  /\ file' = newFile
  /\ UNCHANGED <<now, durable, bentos, provider, pc, scanning, batch, next, budget>>

\* A dropper opens p and truncates it: a new file, or a re-drop.
StartWrite(p) ==
  /\ file[p].status # "writing" /\ file[p].ver < MaxVersions /\ now <= LastWrite
  /\ Environment([file EXCEPT ![p] = [ver |-> @.ver + 1, mtime |-> now, status |-> "writing"]])

\* More of the file arrives; its modification time moves.
ContinueWrite(p) ==
  /\ file[p].status = "writing" /\ file[p].mtime # now /\ now <= LastWrite
  /\ Environment([file EXCEPT ![p].mtime = now])

FinishWrite(p) ==
  /\ file[p].status = "writing"
  /\ Environment([file EXCEPT ![p].mtime = now, ![p].status = "whole"])

Remove(p) ==
  /\ file[p].status = "whole" /\ now <= LastWrite
  /\ Environment([file EXCEPT ![p].status = "absent"])

\* Time passes, but not so much that a writer would have gone quiet.
Tick ==
  /\ now < MaxTime
  /\ \A p \in Paths : file[p].status = "writing" => now < file[p].mtime + WriterGap
  /\ now' = now + 1
  /\ UNCHANGED <<disk, provider, pc, scanning, batch, next, budget>>

-----------------------------------------------------------------------------
(* FilesystemProvider.read, one directory entry at a time                  *)

\* watch: the sleep is over; read() lists the inbox.
Wake ==
  /\ pc = "idle"
  /\ pc' = "scan"
  /\ listing' = {p \in Paths : Present(p)}
  /\ UNCHANGED <<now, disk, provider, key, batch, next, budget>>

\* (without the in-flight set)
StatKeyDeliveredOnly(p) ==
  /\ pc = "scan" /\ p \in listing /\ \A q \in listing : p <= q
  /\ IF Present(p) /\ Key(p) \notin delivered
       THEN pc' = "stat" /\ key' = Key(p) /\ UNCHANGED listing
       ELSE listing' = listing \ {p} /\ UNCHANGED <<pc, key>>
  /\ UNCHANGED <<now, disk, provider, batch, next, budget>>

\* The first stat of an entry.  A file that has vanished, or whose key is
\* delivered or in flight, is passed over.
StatKey(p) ==
  /\ pc = "scan" /\ p \in listing /\ \A q \in listing : p <= q
  /\ IF Present(p) /\ Key(p) \notin delivered \cup inflight
       THEN pc' = "stat" /\ key' = Key(p) /\ UNCHANGED listing
       ELSE listing' = listing \ {p} /\ UNCHANGED <<pc, key>>
  /\ UNCHANGED <<now, disk, provider, batch, next, budget>>

\* (the source is in flight before it is known to be stable)
StatStableTooEarly ==
  /\ pc = "stat"
  /\ batch' = IF Stable(key.path) THEN Append(batch, key) ELSE batch
  /\ inflight' = inflight \cup {key}
  /\ listing' = listing \ {key.path}
  /\ pc' = "scan" /\ key' = NoKey
  /\ UNCHANGED <<now, disk, delivered, next, budget>>

\* (delivery is recorded at intake)
StatStableRecords ==
  /\ pc = "stat"
  /\ IF Stable(key.path)
       THEN delivered' = delivered \cup {key} /\ batch' = Append(batch, key)
       ELSE UNCHANGED <<delivered, batch>>
  /\ listing' = listing \ {key.path}
  /\ pc' = "scan" /\ key' = NoKey
  /\ UNCHANGED <<now, disk, inflight, next, budget>>

\* The second stat of the same entry: the partial-write guard.  The file may
\* no longer be the one the key was computed for.
StatStable ==
  /\ pc = "stat"
  /\ IF Stable(key.path)
       THEN inflight' = inflight \cup {key} /\ batch' = Append(batch, key)
       ELSE UNCHANGED <<inflight, batch>>
  /\ listing' = listing \ {key.path}
  /\ pc' = "scan" /\ key' = NoKey
  /\ UNCHANGED <<now, disk, delivered, next, budget>>

ReadDone ==
  /\ pc = "scan" /\ listing = {}
  /\ pc' = "pick"
  /\ UNCHANGED <<now, disk, provider, scanning, batch, next, budget>>

-----------------------------------------------------------------------------
(* scan_once and serve_inbox._handle                                       *)

\* The daemon's thread moves on without touching the provider or the inbox.
Go(newPc, newNext, newBentos) ==
  /\ pc' = newPc /\ next' = newNext /\ bentos' = newBentos
  /\ UNCHANGED <<now, file, durable, provider, scanning, batch, budget>>

\* make_bento: a fresh id and a scaffolded directory for the next source.
MakeBento ==
  /\ pc = "pick" /\ batch # <<>>
  /\ Go("noticed", "NOTICED", Append(bentos, NewBento(Source)))

PassDone ==
  /\ pc = "pick" /\ batch = <<>>
  /\ Go("idle", next, bentos)

\* on_noticed: the source is gone, so the bento fails ...
NoticeMissing ==
  /\ pc = "noticed" /\ ~Present(Source.path)
  /\ Go("manifest", "FAILED", bentos)

\* ... or its bytes, whatever they are by now, are copied in ...
NoticeCopy ==
  /\ pc = "noticed" /\ Present(Source.path)
  /\ LET f == file[Source.path]
     IN  Go("archived", next,
            [bentos EXCEPT ![Cur].ver = f.ver, ![Cur].whole = (f.status = "whole")])

\* ... and the request and the bento.json mirror are written.
Persist ==
  /\ pc = "archived"
  /\ Go("step", "COOK", bentos)

\* on_cook: the birb's own work, whose outcome _finalize then records.
OnCook ==
  /\ pc = "cook"
  /\ \E outcome \in CookOutcomes : Go("manifest", outcome, bentos)

\* on_partial: accept the degraded artifact.
OnPartial ==
  /\ pc = "partial"
  /\ Go("manifest", "DONE", bentos)

\* (the notification is forgotten)
WriteManifestOnly ==
  /\ pc = "manifest"
  /\ Go("step", next, [bentos EXCEPT ![Cur].manifest = next])

\* _finalize: the manifest, then the notification.
WriteManifest ==
  /\ pc = "manifest"
  /\ Go("notify", next, [bentos EXCEPT ![Cur].manifest = next])

Notify ==
  /\ pc = "notify"
  /\ Go("step", next, [bentos EXCEPT ![Cur].notified = next])

\* (the walk does not stop at FAILED)
StepPastFailed ==
  /\ pc = "step"
  /\ Go(CASE next = "COOK" -> "cook" [] next = "DONE" -> "mark" [] OTHER -> "partial",
        next, [bentos EXCEPT ![Cur].event = next])

\* fsm.step enters the state the handler returned and relays the event;
\* _walk goes on to that state's handler, or stops at a terminal one.
Step ==
  /\ pc = "step"
  /\ Go(CASE next = "COOK" -> "cook" [] next = "PARTIAL" -> "partial" [] OTHER -> "mark",
        next, [bentos EXCEPT ![Cur].event = next])

\* mark_done: delivered in memory ...
MarkDelivered ==
  /\ pc = "mark"
  /\ delivered' = delivered \cup {Source}
  /\ pc' = "save"
  /\ UNCHANGED <<now, disk, inflight, scanning, batch, next, budget>>

\* (the sources in flight are saved too)
SaveStateAndInflight ==
  /\ pc = "save"
  /\ durable' = delivered \cup inflight
  /\ inflight' = inflight \ {Source}
  /\ batch' = Tail(batch)
  /\ pc' = "pick"
  /\ UNCHANGED <<now, file, bentos, delivered, scanning, next, budget>>

\* ... then on disk, and no longer in flight; scan_once takes the next source.
SaveState ==
  /\ pc = "save"
  /\ durable' = delivered
  /\ inflight' = inflight \ {Source}
  /\ batch' = Tail(batch)
  /\ pc' = "pick"
  /\ UNCHANGED <<now, file, bentos, delivered, scanning, next, budget>>

\* An I/O call of the handler or of mark_done raises (a source that cannot be
\* read or vanished under copy2, a full disk): scan_once logs it and goes on
\* with the next source.  Nothing takes the source out of _inflight.
HandlerRaises ==
  /\ pc \in {"noticed", "archived", "manifest", "notify", "save"}
  /\ raises < MaxRaises
  /\ raises' = raises + 1
  /\ pc' = "pick" /\ batch' = Tail(batch)
  /\ UNCHANGED <<now, disk, provider, scanning, next, crashes>>

-----------------------------------------------------------------------------
(* Crash and restart                                                       *)

Crash ==
  /\ pc # "down" /\ crashes < MaxCrashes
  /\ crashes' = crashes + 1
  /\ pc' = "down"
  /\ delivered' = {} /\ inflight' = {} /\ batch' = <<>>
  /\ listing' = {} /\ key' = NoKey
  /\ UNCHANGED <<now, disk, next, raises>>

\* FilesystemProvider.__init__: an unreadable log counts as an empty one.
Restart ==
  /\ pc = "down"
  /\ durable' \in {durable} \cup (IF LogMayCorrupt THEN {{}} ELSE {})
  /\ delivered' = durable' /\ inflight' = {}
  /\ pc' = "idle"
  /\ UNCHANGED <<now, file, bentos, scanning, batch, next, budget>>

-----------------------------------------------------------------------------

Read == Wake \/ (\E p \in Paths : StatKey(p)) \/ StatStable \/ ReadDone
Walk == NoticeMissing \/ NoticeCopy \/ Persist \/ OnCook \/ OnPartial
          \/ WriteManifest \/ Notify \/ Step
Handle == MakeBento \/ Walk \/ MarkDelivered \/ SaveState \/ PassDone

Daemon == Read \/ Handle
Dropper == \E p \in Paths : StartWrite(p) \/ ContinueWrite(p) \/ FinishWrite(p) \/ Remove(p)

Next == Daemon \/ HandlerRaises \/ Crash \/ Restart \/ Dropper \/ Tick

Spec == Init /\ [][Next]_vars

\* watch polls for ever, a dead daemon is started again, the clock runs and a
\* writer that started finishes.
Fairness ==
  /\ WF_vars(Daemon) /\ WF_vars(Restart) /\ WF_vars(Tick)
  /\ \A p \in Paths : WF_vars(FinishWrite(p))

FairSpec == Spec /\ Fairness

-----------------------------------------------------------------------------
(* Properties                                                              *)

\* The key k has been answered: some bento made for it has come to a terminal
\* state, and both its manifest and its notification say so.
Settled(b) == b.manifest \in Terminal /\ b.notified = b.manifest
Answered(k) == \E i \in DOMAIN bentos : bentos[i].source = k /\ Settled(bentos[i])

\* At-least-once: a source is in the delivery log, or suppressed from memory,
\* only once it has been answered, whatever crashes and errors came before
\* (mark_done runs after drive; docs/providers.md, "recorded on terminal").
RecordedMeansAnswered == \A k \in durable \cup delivered : Answered(k)

\* A file that read() passes over as delivered is one whose present bytes were
\* archived whole by a bento that was answered: no later drop is masked by the
\* key of an earlier one (path+size+second of the mtime, against the debounce).
SuppressedMeansCopied ==
  \A p \in Paths :
    (file[p].status = "whole" /\ Key(p) \in delivered)
      => \E i \in DOMAIN bentos :
           /\ bentos[i].source.path = p /\ Settled(bentos[i])
           /\ bentos[i].ver = file[p].ver /\ bentos[i].whole

\* One process hands a key out at most once, however often it scans while a
\* source cooks or after a handler raised (_inflight).
OncePerLife ==
  \A i, j \in DOMAIN bentos :
    (bentos[i].source = bentos[j].source /\ bentos[i].life = bentos[j].life) => i = j

\* The lifecycle event of a terminal state is relayed only when the manifest
\* and the notification already tell the same state (never-silent).
EventBacked ==
  \A i \in DOMAIN bentos :
    bentos[i].event \in Terminal => Settled(bentos[i]) /\ bentos[i].manifest = bentos[i].event

\* A bento that failed or finished keeps its verdict: no step, of this life or
\* of a later one that answers the same source again, changes the manifest.
VerdictIsFinal ==
  [][\A i \in DOMAIN bentos :
       bentos[i].event \in Terminal => bentos'[i] = bentos[i]]_vars

\* The daemon keeps the promise of an at-least-once intake.
Promise == INSTANCE Intake WITH
  Facts    <- Keys,
  taken    <- {bentos[i].source : i \in DOMAIN bentos},
  answered <- {bentos[i].source : i \in {j \in DOMAIN bentos : Settled(bentos[j])}},
  recorded <- durable

KeepsPromise == Promise!Spec

\* The version v of p is at rest in the inbox.
AtRest(p, v) == file[p].status = "whole" /\ file[p].ver = v

Archived(p, v) ==
  \E i \in DOMAIN bentos :
    /\ bentos[i].source.path = p /\ Settled(bentos[i])
    /\ bentos[i].ver = v /\ bentos[i].whole

\* A version that stays in the inbox is in the end archived whole and its
\* bento answered, through crashes, lost logs and debounce; the one exception
\* is a source whose handler raised, which the living process holds in flight.
EveryDropAnswered ==
  \A p \in Paths, v \in Versions :
    <>[]AtRest(p, v) =>
      \/ <>Archived(p, v)
      \/ <>[](pc # "down" /\ raises > 0 /\ Present(p) /\ Key(p) \in inflight)

-----------------------------------------------------------------------------
(* The inductive invariant behind the proofs                               *)

\* The program counters of a thread that is working on a source.
Handling == {"noticed", "archived", "cook", "partial", "manifest", "notify",
             "step", "mark", "save"}

\* A file that is there has been written.
FilesWritten == \A p \in Paths : Present(p) => file[p].ver # 0

\* The bento b of the source in hand is as far through its manifest, its
\* notification and its event as a thread at c, with n to return, has taken it.
AsFarAs(b, c, n) ==
  /\ b.source = Source /\ b.life = crashes
  /\ c \in {"manifest", "notify"} => n \in CookOutcomes
  /\ c \notin {"mark", "save"} => b.event \notin Terminal
  /\ c \notin {"step", "mark", "save"} => b.notified \notin Terminal
  /\ c = "notify" => b.manifest = n
  /\ c = "step" => \/ n = "COOK" /\ b.notified \notin Terminal
                   \/ n \in CookOutcomes /\ b.manifest = n /\ b.notified = n
  /\ c \in {"mark", "save"} => Settled(b)
  /\ c = "save" => Source \in delivered

\* While the thread handles a source, the youngest bento is that source's.
WalkInv ==
  pc \in Handling =>
    batch # <<>> /\ bentos # <<>> /\ AsFarAs(bentos[Cur], pc, next)

\* The key under the second stat is one read() has just found new.
StatInv == pc = "stat" => key \in Keys /\ key \notin delivered \cup inflight

DaemonInv == TypeOK /\ FilesWritten /\ WalkInv /\ StatInv

\* What this process has taken: each source it made a bento for, and each it
\* has still to handle, is suppressed; no key waits twice, and none that waits
\* has a bento yet.
Waiting(i) == i \in DOMAIN batch /\ (i > 1 \/ pc \notin Handling)

LifeInv ==
  /\ \A i \in DOMAIN bentos :
       /\ bentos[i].life <= crashes
       /\ bentos[i].life = crashes => pc # "down" /\ bentos[i].source \in delivered \cup inflight
  /\ \A i \in DOMAIN batch : batch[i] \in delivered \cup inflight
  /\ \A i, j \in DOMAIN batch : batch[i] = batch[j] => i = j
  /\ \A i \in DOMAIN batch, j \in DOMAIN bentos :
       (Waiting(i) /\ bentos[j].life = crashes) => bentos[j].source # batch[i]
  /\ pc = "down" => batch = <<>>

\* The log never holds what the living process does not know to be delivered.
LogInv == pc # "down" => durable \subseteq delivered

\* With a debounce of a second or more, the second of every key handed out is
\* over, so no write still to come gives its file that key again.
Past(k) == k.sec < now \div TicksPerSecond

KeyPast ==
  /\ \A p \in Paths : file[p].mtime <= now
  /\ pc = "stat" => key.sec <= file[key.path].mtime \div TicksPerSecond
  /\ \A i \in DOMAIN batch : Past(batch[i])
  /\ \A i \in DOMAIN bentos : Past(bentos[i].source)

\* A bento beyond on_noticed holds what its source holds, for as long as the
\* source keeps its key.
Copied(i) == bentos[i].manifest # "-" \/ (i = Cur /\ pc \in Handling \ {"noticed"})

FaithfulCopy ==
  \A i \in DOMAIN bentos, p \in Paths :
    (Copied(i) /\ Present(p) /\ Key(p) = bentos[i].source)
      => bentos[i].ver = file[p].ver /\ bentos[i].whole = (file[p].status = "whole")

-----------------------------------------------------------------------------
(* What the repository says, and the code does not do                      *)

\* docs/states.md: on_noticed "MUST transition to FAILED if a required input
\* is absent or unreadable".  Once the pass is over, a bento of this process
\* that archived no input has a FAILED manifest.
NoInputMeansFailed ==
  pc = "idle" => \A i \in DOMAIN bentos :
    (bentos[i].life = crashes /\ bentos[i].ver = 0) => bentos[i].manifest = "FAILED"

\* docs/providers.md: a fresh source "is held until it goes quiet, so the
\* consumer never picks up a file mid-write".
NeverMidWrite == \A i \in DOMAIN bentos : bentos[i].ver > 0 => bentos[i].whole

=============================================================================
