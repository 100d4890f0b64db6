----------------------------- MODULE JobService -----------------------------
(***************************************************************************)
(* The HTTP job surface of a birb (birblib.service.build_app): a job is    *)
(* submitted, walked by a thread of its own with the default handlers, and *)
(* polled through the manifest on disk.                                    *)
(*                                                                         *)
(* Requests are served concurrently, so that submits, walks and polls      *)
(* interleave at every write and read of the disk.  A poll reads twice:    *)
(* the manifest, and if there is none the bento's directory.               *)
(***************************************************************************)
EXTENDS BentoFsm, Naturals

CONSTANTS
  Jobs,        \* the bento ids: each is submitted at most once
  Clients,     \* who polls: one request at a time, for a job that was accepted
  MaxErrors,   \* how many writes or copies fail (bound)
  MaxRestarts  \* how many times the process ends and is started again (bound)

ASSUME JobAssumption == "none" \notin Jobs /\ MaxErrors \in Nat /\ MaxRestarts \in Nat

VARIABLES
  up,        \* whether the process lives
  stage,     \* where the submit, and then the thread, of a job is
  accepted,  \* the jobs whose client was told 202
  disk,      \* the bento directories: do they exist, and the manifest in them
  artifact,  \* the jobs whose cook wrote its artifact
  verdict,   \* the state the thread is about to write
  error,     \* of each handlers object: whether its error is set
  poll,      \* a client's request: what it has read so far
  seen,      \* a client's last answer for a job
  errors,    \* how many operations have failed
  restarts   \* how many times the process has ended

walk == <<stage, accepted, artifact, verdict, error>>
polls == <<poll, seen>>
vars == <<up, walk, disk, polls, errors, restarts>>

-----------------------------------------------------------------------------

States == {"PARTIAL", "DONE", "FAILED"}
NoManifest == [state |-> "none", error |-> FALSE]
Manifests == [state : States \cup {"none", "torn"}, error : BOOLEAN]

\* A manifest that is missing or truncated cannot be read.
Readable(m) == m.state \in States

Submitting == {"none", "scaffolded", "persisted"}
Walking == {"NOTICED", "COOK", "PARTIAL", "finalize", "notify"}
Stages == Submitting \cup Walking \cup {"refused", "rest", "dead"}

Statuses == {"unasked", "unknown", "running", "partial", "done", "failed"}
Idle == [job |-> "none", found |-> "nothing"]

TypeOK ==
  /\ up \in BOOLEAN /\ accepted \subseteq Jobs /\ artifact \subseteq Jobs
  /\ stage \in [Jobs -> Stages]
  /\ disk \in [Jobs -> [dir : BOOLEAN, manifest : Manifests]]
  /\ verdict \in [Jobs -> States \cup {"none"}] /\ error \in [Jobs -> BOOLEAN]
  /\ poll \in [Clients -> {Idle} \cup [job : Jobs, found : States \cup {"looking", "nothing"}]]
  /\ seen \in [Clients -> [Jobs -> Statuses]]
  /\ errors \in 0..MaxErrors /\ restarts \in 0..MaxRestarts

Init ==
  /\ up = TRUE /\ accepted = {} /\ artifact = {}
  /\ stage = [j \in Jobs |-> "none"]
  /\ disk = [j \in Jobs |-> [dir |-> FALSE, manifest |-> NoManifest]]
  /\ verdict = [j \in Jobs |-> "none"] /\ error = [j \in Jobs |-> FALSE]
  /\ poll = [c \in Clients |-> Idle]
  /\ seen = [c \in Clients |-> [j \in Jobs |-> "unasked"]]
  /\ errors = 0 /\ restarts = 0

-----------------------------------------------------------------------------
(* POST /jobs                                                              *)

\* (one handlers object for all the jobs)
HandlersShared(j) == CHOOSE i \in Jobs : TRUE

\* make_handlers: the object that carries a job's error, one for each job.
HandlersOf(j) == j

Goes(j, from, to) ==
  /\ up /\ stage[j] = from
  /\ stage' = [stage EXCEPT ![j] = to]
  /\ UNCHANGED <<up, polls, restarts>>

\* (on_noticed makes the directories soon enough)
ScaffoldLater(j) ==
  /\ Goes(j, "none", "scaffolded")
  /\ UNCHANGED <<disk, accepted, artifact, verdict, error, errors>>

Scaffold(j) ==
  /\ Goes(j, "none", "scaffolded")
  /\ disk' = [disk EXCEPT ![j].dir = TRUE]
  /\ UNCHANGED <<accepted, artifact, verdict, error, errors>>

Persist(j) ==
  /\ Goes(j, "scaffolded", "persisted")
  /\ UNCHANGED <<disk, accepted, artifact, verdict, error, errors>>

\* The thread is started, and the client told 202 and the id.
Accept(j) ==
  /\ Goes(j, "persisted", "NOTICED")
  /\ accepted' = accepted \cup {j}
  /\ UNCHANGED <<disk, artifact, verdict, error, errors>>

\* scaffold or persist raises: 500, and the directory may stay behind.
SubmitFails(j) ==
  /\ errors < MaxErrors /\ errors' = errors + 1
  /\ \/ Goes(j, "none", "refused") /\ disk' = [disk EXCEPT ![j].dir = TRUE]
     \/ Goes(j, "none", "refused") /\ UNCHANGED disk
     \/ Goes(j, "scaffolded", "refused") /\ UNCHANGED disk
  /\ UNCHANGED <<accepted, artifact, verdict, error>>

-----------------------------------------------------------------------------
(* The job's thread: drive, _walk and the default handlers                 *)

\* A handler decides on a state, and sets the error if it is FAILED.
Decide(j, from, state) ==
  /\ Goes(j, from, "finalize")
  /\ verdict' = [verdict EXCEPT ![j] = state]
  /\ error' = [error EXCEPT ![HandlersOf(j)] = @ \/ state = "FAILED"]

\* on_noticed: the source is missing, or archived and the bento persisted.
OnNoticed(j) ==
  /\ \/ Decide(j, "NOTICED", "FAILED")
     \/ Goes(j, "NOTICED", "COOK") /\ UNCHANGED <<verdict, error>>
  /\ disk' = [disk EXCEPT ![j].dir = TRUE]
  /\ UNCHANGED <<accepted, artifact, errors>>

\* (a cook without an artifact is done)
OnCookSilent(j) ==
  /\ \E state \in States : Decide(j, "COOK", state)
  /\ artifact' \in {artifact, artifact \cup {j}}
  /\ UNCHANGED <<disk, accepted, errors>>

\* on_cook: with an artifact DONE or PARTIAL; without one, or with an exception
\* (also one that comes after the artifact was written), FAILED.
OnCook(j) ==
  /\ \E state \in States :
       /\ Decide(j, "COOK", state)
       /\ artifact' \in IF state = "FAILED" THEN {artifact, artifact \cup {j}} ELSE {artifact \cup {j}}
  /\ UNCHANGED <<disk, accepted, errors>>

\* (a degraded result is left to converge)
OnPartialWaits(j) ==
  /\ Goes(j, "PARTIAL", "rest")
  /\ UNCHANGED <<disk, accepted, artifact, verdict, error, errors>>

\* on_partial: the degraded artifact is accepted.
OnPartial(j) ==
  /\ Decide(j, "PARTIAL", "DONE")
  /\ UNCHANGED <<disk, accepted, artifact, errors>>

Written(j) == [state |-> verdict[j], error |-> error[HandlersOf(j)]]

\* (the manifest is overwritten in place: truncated, then written)
WriteManifestInPlace(j) ==
  /\ \/ disk[j].manifest.state # "torn" /\ Goes(j, "finalize", "finalize")
        /\ disk' = [disk EXCEPT ![j].manifest.state = "torn"]
     \/ disk[j].manifest.state = "torn" /\ Goes(j, "finalize", "notify")
        /\ disk' = [disk EXCEPT ![j].manifest = Written(j)]
  /\ UNCHANGED <<accepted, artifact, verdict, error, errors>>

\* _finalize: the manifest is written beside and renamed over the old one ...
WriteManifest(j) ==
  /\ Goes(j, "finalize", "notify")
  /\ disk' = [disk EXCEPT ![j].manifest = Written(j)]
  /\ UNCHANGED <<accepted, artifact, verdict, error, errors>>

\* ... and announced; the machine steps, and the walk stops at a terminal state.
Notify(j) ==
  /\ Goes(j, "notify", IF verdict[j] \in Terminal THEN "rest" ELSE verdict[j])
  /\ UNCHANGED <<disk, accepted, artifact, verdict, error, errors>>

\* A copy or a write raises: _run logs it, and the thread ends.
Raises(j) ==
  /\ errors < MaxErrors /\ errors' = errors + 1
  /\ \E from \in {"NOTICED", "finalize", "notify"} : Goes(j, from, "dead")
  /\ UNCHANGED <<disk, accepted, artifact, verdict, error>>

Walk(j) == OnNoticed(j) \/ OnCook(j) \/ OnPartial(j) \/ WriteManifest(j) \/ Notify(j)

-----------------------------------------------------------------------------
(* GET /jobs/{id}                                                          *)

Ask(c) ==
  /\ up /\ poll[c] = Idle
  /\ \E j \in accepted : poll' = [poll EXCEPT ![c] = [job |-> j, found |-> "looking"]]
  /\ UNCHANGED <<up, walk, disk, seen, errors, restarts>>

\* read_manifest: None for a manifest that is missing or cannot be parsed.
ReadManifest(c) ==
  /\ up /\ poll[c].found = "looking"
  /\ LET m == disk[poll[c].job].manifest
     IN  poll' = [poll EXCEPT ![c].found = IF Readable(m) THEN m.state ELSE "nothing"]
  /\ UNCHANGED <<up, walk, disk, seen, errors, restarts>>

Status(j, found) ==
  CASE found = "DONE"    -> "done"
    [] found = "PARTIAL" -> "partial"
    [] found = "FAILED"  -> "failed"
    [] found = "nothing" -> IF disk[j].dir THEN "running" ELSE "unknown"

Answer(c) ==
  /\ up /\ poll[c].found # "looking" /\ poll[c] # Idle
  /\ seen' = [seen EXCEPT ![c][poll[c].job] = Status(poll[c].job, poll[c].found)]
  /\ poll' = [poll EXCEPT ![c] = Idle]
  /\ UNCHANGED <<up, walk, disk, errors, restarts>>

-----------------------------------------------------------------------------
(* The process                                                             *)

\* The threads are daemon threads and end with the process; so do the requests.
Crash ==
  /\ up /\ restarts < MaxRestarts
  /\ up' = FALSE /\ restarts' = restarts + 1
  /\ stage' = [j \in Jobs |->
                 CASE stage[j] \in Submitting \ {"none"} -> "refused"
                   [] stage[j] \in Walking -> "dead"
                   [] OTHER -> stage[j]]
  /\ poll' = [c \in Clients |-> Idle]
  /\ UNCHANGED <<accepted, artifact, verdict, error, disk, seen, errors>>

\* A new process: no job is resumed.
Start ==
  /\ ~up /\ up' = TRUE
  /\ UNCHANGED <<walk, disk, polls, errors, restarts>>

-----------------------------------------------------------------------------

Submit(j) == Scaffold(j) \/ Persist(j) \/ Accept(j) \/ SubmitFails(j)
Poll(c) == Ask(c) \/ ReadManifest(c) \/ Answer(c)

Next ==
  \/ \E j \in Jobs : Submit(j) \/ Walk(j) \/ Raises(j)
  \/ \E c \in Clients : Poll(c)
  \/ Crash \/ Start

Spec == Init /\ [][Next]_vars

\* The threads run: the handlers end, and so does a birb's cook.
FairSpec == Spec /\ \A j \in Jobs : WF_vars(Walk(j))

-----------------------------------------------------------------------------
(* Properties                                                              *)

Rank(status) ==
  CASE status \in {"unasked", "unknown"} -> 0
    [] status = "running" -> 1
    [] status = "partial" -> 2
    [] OTHER -> 3

\* A client's answers for a job never go back, and the last word stays: polls
\* that read the disk in two steps while the walk rewrites the manifest, raises
\* or dies never turn partial into running, or one end into the other.
PollNeverGoesBack ==
  [][\A c \in Clients, j \in Jobs :
       /\ Rank(seen'[c][j]) >= Rank(seen[c][j])
       /\ Rank(seen[c][j]) = 3 => seen'[c][j] = seen[c][j]]_vars

\* A job that was accepted is never answered 404, before its thread has run or
\* after a restart.
AcceptedIsKnown == \A c \in Clients, j \in accepted : seen[c][j] # "unknown"

\* Done is only answered of a job whose artifact was written: no silent success.
DoneHasArtifact == \A c \in Clients, j \in Jobs : seen[c][j] = "done" => j \in artifact

\* A manifest carries an error if, and only if, its own job failed: walks that
\* run at the same time do not share what their handlers remember.
ErrorIsItsOwn ==
  \A j \in Jobs :
    Readable(disk[j].manifest) =>
      (disk[j].manifest.error <=> disk[j].manifest.state = "FAILED")

\* Every accepted job comes to a terminal manifest, unless its thread has died
\* of an exception or with the process.
JobEnds ==
  \A j \in Jobs : j \in accepted ~> (disk[j].manifest.state \in Terminal \/ stage[j] = "dead")

=============================================================================
