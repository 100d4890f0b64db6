-------------------------- MODULE JobService_proofs --------------------------
(***************************************************************************)
(* What a client is told of its job, for any number of jobs, clients,      *)
(* failures and restarts.                                                  *)
(***************************************************************************)
EXTENDS JobService, TLAPS

Early == Submitting \cup {"NOTICED", "COOK"}

\* The directory is made before the client has the id.
DirInv ==
  /\ \A j \in Jobs : stage[j] \notin {"none", "refused"} => disk[j].dir
  /\ \A j \in accepted : disk[j].dir

\* What the place of a job's thread says of its verdict and of its manifest: a
\* manifest is only ever replaced when it is PARTIAL, and then by DONE.
StageInv ==
  \A j \in Jobs :
    /\ stage[j] \in Early => verdict[j] = "none" /\ disk[j].manifest = NoManifest
    /\ stage[j] = "PARTIAL" => verdict[j] = "PARTIAL" /\ disk[j].manifest.state = "PARTIAL"
    /\ stage[j] = "notify" => verdict[j] \in States /\ disk[j].manifest.state = verdict[j]
    /\ stage[j] = "finalize" =>
         /\ verdict[j] \in States
         /\ \/ disk[j].manifest = NoManifest
            \/ disk[j].manifest.state = "PARTIAL" /\ verdict[j] = "DONE"

\* An error is set, and written, exactly with FAILED.
ErrorInv ==
  \A j \in Jobs :
    /\ error[j] <=> verdict[j] = "FAILED"
    /\ disk[j].manifest.state \in States \cup {"none"}
    /\ Readable(disk[j].manifest) => (disk[j].manifest.error <=> disk[j].manifest.state = "FAILED")

\* A success is decided, and written, only with an artifact.
ArtifactInv ==
  \A j \in Jobs :
    /\ verdict[j] \in {"PARTIAL", "DONE"} => j \in artifact
    /\ disk[j].manifest.state \in {"PARTIAL", "DONE"} => j \in artifact

\* An answer is no further than the manifest on disk.
AtMost(status, state) ==
  CASE status = "partial" -> state \in {"PARTIAL", "DONE"}
    [] status = "done"    -> state = "DONE"
    [] status = "failed"  -> state = "FAILED"
    [] OTHER              -> status # "unknown"

SeenInv == \A c \in Clients, j \in Jobs : AtMost(seen[c][j], disk[j].manifest.state)

\* What a poll has read lies between the client's last answer and the manifest.
Between(found, status, state) ==
  CASE found = "nothing" -> status \in {"unasked", "running"}
    [] found = "PARTIAL" -> status \in {"unasked", "running", "partial"} /\ state \in {"PARTIAL", "DONE"}
    [] found = "DONE"    -> state = "DONE"
    [] found = "FAILED"  -> state = "FAILED"
    [] OTHER             -> TRUE

PollInv ==
  \A c \in Clients :
    poll[c] # Idle =>
      /\ poll[c].job \in accepted
      /\ Between(poll[c].found, seen[c][poll[c].job], disk[poll[c].job].manifest.state)

JobInv == TypeOK /\ DirInv /\ StageInv /\ ErrorInv /\ ArtifactInv /\ SeenInv /\ PollInv

-----------------------------------------------------------------------------
(* Every action keeps every part                                           *)

\* The directory of a job is made, or its manifest replaced.
LEMMA DiskType ==
  ASSUME TypeOK, NEW j \in Jobs
  PROVE  /\ \A made \in BOOLEAN :
              [disk EXCEPT ![j].dir = made] \in [Jobs -> [dir : BOOLEAN, manifest : Manifests]]
         /\ \A m \in Manifests :
              [disk EXCEPT ![j].manifest = m] \in [Jobs -> [dir : BOOLEAN, manifest : Manifests]]
PROOF
<1>1. disk \in [Jobs -> [dir : BOOLEAN, manifest : Manifests]]
  BY DEF TypeOK
<1>2. \A made \in BOOLEAN : [disk[j] EXCEPT !.dir = made] \in [dir : BOOLEAN, manifest : Manifests]
  BY <1>1
<1>3. \A m \in Manifests : [disk[j] EXCEPT !.manifest = m] \in [dir : BOOLEAN, manifest : Manifests]
  BY <1>1
<1>4. QED
  BY <1>1, <1>2, <1>3

\* A submit that fails, without its details.
LEMMA Refused ==
  ASSUME TypeOK, NEW j \in Jobs, SubmitFails(j)
  PROVE  /\ stage[j] \in {"none", "scaffolded"} /\ stage' = [stage EXCEPT ![j] = "refused"]
         /\ disk' \in [Jobs -> [dir : BOOLEAN, manifest : Manifests]]
         /\ \A i \in Jobs : disk'[i].manifest = disk[i].manifest /\ (disk[i].dir => disk'[i].dir)
         /\ errors' \in 0..MaxErrors
         /\ UNCHANGED <<up, accepted, artifact, verdict, error, poll, seen, restarts>>
PROOF
<1>1. UNCHANGED disk \/ disk' = [disk EXCEPT ![j].dir = TRUE]
  BY DEF SubmitFails
<1>2. disk' \in [Jobs -> [dir : BOOLEAN, manifest : Manifests]]
  <2>1. CASE UNCHANGED disk
    BY <2>1 DEF TypeOK
  <2>2. CASE disk' = [disk EXCEPT ![j].dir = TRUE]
    BY <2>2, DiskType
  <2>3. QED
    BY <1>1, <2>1, <2>2
<1>3. \A i \in Jobs : disk'[i].manifest = disk[i].manifest /\ (disk[i].dir => disk'[i].dir)
  BY <1>1 DEF TypeOK
<1>4. errors' \in 0..MaxErrors
  BY JobAssumption DEF SubmitFails, TypeOK
<1>5. QED
  BY <1>2, <1>3, <1>4 DEF SubmitFails, Goes, polls

\* The variables keep their types; StageInv says that Notify has a state to step to.
LEMMA TypeStep ==
  ASSUME JobInv, [Next]_vars
  PROVE  TypeOK'
PROOF
<1> USE JobAssumption DEF JobInv, TypeOK, StageInv, ErrorInv, States, Readable, NoManifest, Manifests, Stages, Submitting, Walking, Statuses, Terminal
<1>1. ASSUME NEW j \in Jobs, Scaffold(j) PROVE TypeOK'
  BY <1>1, DiskType DEF Scaffold, Goes, HandlersOf, polls
<1>2. ASSUME NEW j \in Jobs, Persist(j) PROVE TypeOK'
  BY <1>2 DEF Persist, Goes, HandlersOf, polls
<1>3. ASSUME NEW j \in Jobs, Accept(j) PROVE TypeOK'
  BY <1>3 DEF Accept, Goes, HandlersOf, polls
<1>4. ASSUME NEW j \in Jobs, SubmitFails(j) PROVE TypeOK'
  BY <1>4, Refused
<1>5. ASSUME NEW j \in Jobs, OnNoticed(j) PROVE TypeOK'
  <2>1. disk' \in [Jobs -> [dir : BOOLEAN, manifest : Manifests]]
    BY <1>5, DiskType DEF OnNoticed
  <2>2. \/ stage' = [stage EXCEPT ![j] = "finalize"]
        \/ stage' = [stage EXCEPT ![j] = "COOK"]
    BY ONLY <1>5 DEF OnNoticed, Decide, Goes
  <2>3. \/ UNCHANGED <<verdict, error>>
        \/ /\ verdict' = [verdict EXCEPT ![j] = "FAILED"]
           /\ error' = [error EXCEPT ![j] = @ \/ "FAILED" = "FAILED"]
    BY ONLY <1>5 DEF OnNoticed, Decide, HandlersOf
  <2> DEFINE Verdicts == States \cup {"none"}
  <2>a. stage \in [Jobs -> Stages] /\ verdict \in [Jobs -> Verdicts] /\ error \in [Jobs -> BOOLEAN]
    OBVIOUS
  <2>b. {"finalize", "COOK"} \subseteq Stages /\ "FAILED" \in Verdicts
    OBVIOUS
  <2> HIDE DEF Verdicts, Stages
  <2>4. stage' \in [Jobs -> Stages]
    BY ONLY <2>2, <2>a, <2>b
  <2>5. verdict' \in [Jobs -> Verdicts]
    BY ONLY <2>3, <2>a, <2>b
  <2>6. error' \in [Jobs -> BOOLEAN]
    BY ONLY <2>3, <2>a
  <2> USE DEF Verdicts, Stages
  <2>7. QED
    BY <1>5, <2>1, <2>4, <2>5, <2>6 DEF OnNoticed, Decide, Goes, polls
<1>6. ASSUME NEW j \in Jobs, OnCook(j) PROVE TypeOK'
  BY <1>6 DEF OnCook, Decide, Goes, HandlersOf, polls
<1>7. ASSUME NEW j \in Jobs, OnPartial(j) PROVE TypeOK'
  BY <1>7 DEF OnPartial, Decide, Goes, HandlersOf, polls
<1>8. ASSUME NEW j \in Jobs, WriteManifest(j) PROVE TypeOK'
  BY <1>8, DiskType DEF WriteManifest, Written, Goes, HandlersOf, polls
<1>9. ASSUME NEW j \in Jobs, Notify(j) PROVE TypeOK'
  BY <1>9 DEF Notify, Goes, HandlersOf, polls
<1>10. ASSUME NEW j \in Jobs, Raises(j) PROVE TypeOK'
  BY <1>10 DEF Raises, Goes, HandlersOf, polls
<1>11. ASSUME NEW c \in Clients, Ask(c) PROVE TypeOK'
  BY <1>11 DEF Ask, Idle, walk
<1>12. ASSUME NEW c \in Clients, ReadManifest(c) PROVE TypeOK'
  BY <1>12 DEF ReadManifest, Idle, walk
<1>13. ASSUME NEW c \in Clients, Answer(c) PROVE TypeOK'
  BY <1>13 DEF Answer, Status, Idle, walk
<1>14. CASE Crash
  <2>1. stage' \in [Jobs -> Stages]
    BY <1>14 DEF Crash
  <2>2. poll' \in [Clients -> {Idle}]
    BY <1>14 DEF Crash
  <2>3. restarts' \in 0..MaxRestarts
    BY <1>14 DEF Crash
  <2>4. poll' \in [Clients -> {Idle} \cup [job : Jobs, found : States \cup {"looking", "nothing"}]]
    BY <2>2
  <2>5. QED
    BY <1>14, <2>1, <2>3, <2>4 DEF Crash, walk, polls
<1>15. CASE Start
  BY <1>15 DEF Start, walk, polls
<1>16. CASE UNCHANGED vars
  BY <1>16 DEF vars, walk, polls
<1>17. QED
  BY <1>1, <1>2, <1>3, <1>4, <1>5, <1>6, <1>7, <1>8, <1>9, <1>10, <1>11, <1>12, <1>13, <1>14, <1>15, <1>16 DEF Next, Submit, Walk, Poll

\* A directory stays.
LEMMA DirStep ==
  ASSUME JobInv, [Next]_vars
  PROVE  DirInv'
PROOF
<1> USE JobAssumption DEF JobInv, TypeOK, DirInv, Stages, Submitting, Walking, Terminal, States
<1>1. ASSUME NEW j \in Jobs, Scaffold(j) PROVE DirInv'
  BY <1>1 DEF Scaffold, Goes, HandlersOf, polls
<1>2. ASSUME NEW j \in Jobs, Persist(j) PROVE DirInv'
  BY <1>2 DEF Persist, Goes, HandlersOf, polls
<1>3. ASSUME NEW j \in Jobs, Accept(j) PROVE DirInv'
  BY <1>3 DEF Accept, Goes, HandlersOf, polls
<1>4. ASSUME NEW j \in Jobs, SubmitFails(j) PROVE DirInv'
  <2>1. \A i \in Jobs : stage'[i] \notin {"none", "refused"} => stage[i] = stage'[i]
    BY <1>4, Refused
  <2>2. \A i \in Jobs : stage'[i] \notin {"none", "refused"} => disk'[i].dir
    BY <1>4, <2>1, Refused
  <2>3. \A i \in accepted' : disk'[i].dir
    BY <1>4, Refused
  <2>4. QED
    BY <2>2, <2>3
<1>5. ASSUME NEW j \in Jobs, OnNoticed(j) PROVE DirInv'
  BY <1>5 DEF OnNoticed, Decide, Goes, HandlersOf, polls
<1>6. ASSUME NEW j \in Jobs, OnCook(j) PROVE DirInv'
  BY <1>6 DEF OnCook, Decide, Goes, HandlersOf, polls
<1>7. ASSUME NEW j \in Jobs, OnPartial(j) PROVE DirInv'
  BY <1>7 DEF OnPartial, Decide, Goes, HandlersOf, polls
<1>8. ASSUME NEW j \in Jobs, WriteManifest(j) PROVE DirInv'
  BY <1>8 DEF WriteManifest, Written, Goes, HandlersOf, polls
<1>9. ASSUME NEW j \in Jobs, Notify(j) PROVE DirInv'
  BY <1>9 DEF Notify, Goes, HandlersOf, polls
<1>10. ASSUME NEW j \in Jobs, Raises(j) PROVE DirInv'
  BY <1>10 DEF Raises, Goes, HandlersOf, polls
<1>11. ASSUME NEW c \in Clients, Ask(c) PROVE DirInv'
  BY <1>11 DEF Ask, Idle, walk
<1>12. ASSUME NEW c \in Clients, ReadManifest(c) PROVE DirInv'
  BY <1>12 DEF ReadManifest, Idle, walk
<1>13. ASSUME NEW c \in Clients, Answer(c) PROVE DirInv'
  BY <1>13 DEF Answer, Status, Idle, walk
<1>14. CASE Crash
  BY <1>14 DEF Crash, walk, polls
<1>15. CASE Start
  BY <1>15 DEF Start, walk, polls
<1>16. CASE UNCHANGED vars
  BY <1>16 DEF vars, walk, polls
<1>17. QED
  BY <1>1, <1>2, <1>3, <1>4, <1>5, <1>6, <1>7, <1>8, <1>9, <1>10, <1>11, <1>12, <1>13, <1>14, <1>15, <1>16 DEF Next, Submit, Walk, Poll

\* The thread's place, verdict and manifest go together.
LEMMA StageStep ==
  ASSUME JobInv, [Next]_vars
  PROVE  StageInv'
PROOF
<1> USE JobAssumption DEF JobInv, TypeOK, StageInv, Early, Terminal, States, Readable, NoManifest, Manifests, Stages, Submitting, Walking, Statuses
<1>1. ASSUME NEW j \in Jobs, Scaffold(j) PROVE StageInv'
  BY <1>1 DEF Scaffold, Goes, HandlersOf, polls
<1>2. ASSUME NEW j \in Jobs, Persist(j) PROVE StageInv'
  BY <1>2 DEF Persist, Goes, HandlersOf, polls
<1>3. ASSUME NEW j \in Jobs, Accept(j) PROVE StageInv'
  BY <1>3 DEF Accept, Goes, HandlersOf, polls
<1>4. ASSUME NEW j \in Jobs, SubmitFails(j) PROVE StageInv'
  BY <1>4, Refused
<1>5. ASSUME NEW j \in Jobs, OnNoticed(j) PROVE StageInv'
  BY <1>5 DEF OnNoticed, Decide, Goes, HandlersOf, polls
<1>6. ASSUME NEW j \in Jobs, OnCook(j) PROVE StageInv'
  BY <1>6 DEF OnCook, Decide, Goes, HandlersOf, polls
<1>7. ASSUME NEW j \in Jobs, OnPartial(j) PROVE StageInv'
  BY <1>7 DEF OnPartial, Decide, Goes, HandlersOf, polls
<1>8. ASSUME NEW j \in Jobs, WriteManifest(j) PROVE StageInv'
  BY <1>8 DEF WriteManifest, Written, Goes, HandlersOf, polls
<1>9. ASSUME NEW j \in Jobs, Notify(j) PROVE StageInv'
  BY <1>9 DEF Notify, Goes, HandlersOf, polls
<1>10. ASSUME NEW j \in Jobs, Raises(j) PROVE StageInv'
  BY <1>10 DEF Raises, Goes, HandlersOf, polls
<1>11. ASSUME NEW c \in Clients, Ask(c) PROVE StageInv'
  BY <1>11 DEF Ask, Idle, walk
<1>12. ASSUME NEW c \in Clients, ReadManifest(c) PROVE StageInv'
  BY <1>12 DEF ReadManifest, Idle, walk
<1>13. ASSUME NEW c \in Clients, Answer(c) PROVE StageInv'
  BY <1>13 DEF Answer, Status, Idle, walk
<1>14. CASE Crash
  BY <1>14 DEF Crash, walk, polls
<1>15. CASE Start
  BY <1>15 DEF Start, walk, polls
<1>16. CASE UNCHANGED vars
  BY <1>16 DEF vars, walk, polls
<1>17. QED
  BY <1>1, <1>2, <1>3, <1>4, <1>5, <1>6, <1>7, <1>8, <1>9, <1>10, <1>11, <1>12, <1>13, <1>14, <1>15, <1>16 DEF Next, Submit, Walk, Poll

\* Errors are set with FAILED, once.
LEMMA ErrorStep ==
  ASSUME JobInv, [Next]_vars
  PROVE  ErrorInv'
PROOF
<1> USE JobAssumption DEF JobInv, TypeOK, ErrorInv, StageInv, Early, States, Readable, NoManifest, Manifests, Stages, Submitting, Walking, Statuses
<1>1. ASSUME NEW j \in Jobs, Scaffold(j) PROVE ErrorInv'
  BY <1>1 DEF Scaffold, Goes, HandlersOf, polls
<1>2. ASSUME NEW j \in Jobs, Persist(j) PROVE ErrorInv'
  BY <1>2 DEF Persist, Goes, HandlersOf, polls
<1>3. ASSUME NEW j \in Jobs, Accept(j) PROVE ErrorInv'
  BY <1>3 DEF Accept, Goes, HandlersOf, polls
<1>4. ASSUME NEW j \in Jobs, SubmitFails(j) PROVE ErrorInv'
  BY <1>4, Refused
<1>5. ASSUME NEW j \in Jobs, OnNoticed(j) PROVE ErrorInv'
  BY <1>5 DEF OnNoticed, Decide, Goes, HandlersOf, polls
<1>6. ASSUME NEW j \in Jobs, OnCook(j) PROVE ErrorInv'
  <2>1. PICK state \in States : Decide(j, "COOK", state)
    BY <1>6 DEF OnCook
  <2>2. ~error[j]
    BY <2>1 DEF Decide, Goes
  <2>3. /\ verdict' = [verdict EXCEPT ![j] = state]
        /\ error' = [error EXCEPT ![j] = @ \/ state = "FAILED"]
        /\ UNCHANGED disk
    BY <1>6, <2>1 DEF OnCook, Decide, HandlersOf
  <2>4. ASSUME NEW i \in Jobs PROVE error'[i] <=> verdict'[i] = "FAILED"
    <3>1. CASE i = j
      BY <2>2, <2>3, <3>1
    <3>2. CASE i # j
      BY <2>3, <3>2
    <3>3. QED
      BY <3>1, <3>2
  <2>5. QED
    BY <2>3, <2>4
<1>7. ASSUME NEW j \in Jobs, OnPartial(j) PROVE ErrorInv'
  BY <1>7 DEF OnPartial, Decide, Goes, HandlersOf, polls
<1>8. ASSUME NEW j \in Jobs, WriteManifest(j) PROVE ErrorInv'
  BY <1>8 DEF WriteManifest, Written, Goes, HandlersOf, polls
<1>9. ASSUME NEW j \in Jobs, Notify(j) PROVE ErrorInv'
  BY <1>9 DEF Notify, Goes, HandlersOf, polls
<1>10. ASSUME NEW j \in Jobs, Raises(j) PROVE ErrorInv'
  BY <1>10 DEF Raises, Goes, HandlersOf, polls
<1>11. ASSUME NEW c \in Clients, Ask(c) PROVE ErrorInv'
  BY <1>11 DEF Ask, Idle, walk
<1>12. ASSUME NEW c \in Clients, ReadManifest(c) PROVE ErrorInv'
  BY <1>12 DEF ReadManifest, Idle, walk
<1>13. ASSUME NEW c \in Clients, Answer(c) PROVE ErrorInv'
  BY <1>13 DEF Answer, Status, Idle, walk
<1>14. CASE Crash
  BY <1>14 DEF Crash, walk, polls
<1>15. CASE Start
  BY <1>15 DEF Start, walk, polls
<1>16. CASE UNCHANGED vars
  BY <1>16 DEF vars, walk, polls
<1>17. QED
  BY <1>1, <1>2, <1>3, <1>4, <1>5, <1>6, <1>7, <1>8, <1>9, <1>10, <1>11, <1>12, <1>13, <1>14, <1>15, <1>16 DEF Next, Submit, Walk, Poll

\* An artifact stays.
LEMMA ArtifactStep ==
  ASSUME JobInv, [Next]_vars
  PROVE  ArtifactInv'
PROOF
<1> USE JobAssumption DEF JobInv, TypeOK, ArtifactInv, StageInv, States, Readable, NoManifest, Manifests, Stages, Submitting, Walking, Statuses
<1>1. ASSUME NEW j \in Jobs, Scaffold(j) PROVE ArtifactInv'
  BY <1>1 DEF Scaffold, Goes, HandlersOf, polls
<1>2. ASSUME NEW j \in Jobs, Persist(j) PROVE ArtifactInv'
  BY <1>2 DEF Persist, Goes, HandlersOf, polls
<1>3. ASSUME NEW j \in Jobs, Accept(j) PROVE ArtifactInv'
  BY <1>3 DEF Accept, Goes, HandlersOf, polls
<1>4. ASSUME NEW j \in Jobs, SubmitFails(j) PROVE ArtifactInv'
  BY <1>4, Refused
<1>5. ASSUME NEW j \in Jobs, OnNoticed(j) PROVE ArtifactInv'
  BY <1>5 DEF OnNoticed, Decide, Goes, HandlersOf, polls
<1>6. ASSUME NEW j \in Jobs, OnCook(j) PROVE ArtifactInv'
  BY <1>6 DEF OnCook, Decide, Goes, HandlersOf, polls
<1>7. ASSUME NEW j \in Jobs, OnPartial(j) PROVE ArtifactInv'
  BY <1>7 DEF OnPartial, Decide, Goes, HandlersOf, polls
<1>8. ASSUME NEW j \in Jobs, WriteManifest(j) PROVE ArtifactInv'
  BY <1>8 DEF WriteManifest, Written, Goes, HandlersOf, polls
<1>9. ASSUME NEW j \in Jobs, Notify(j) PROVE ArtifactInv'
  BY <1>9 DEF Notify, Goes, HandlersOf, polls
<1>10. ASSUME NEW j \in Jobs, Raises(j) PROVE ArtifactInv'
  BY <1>10 DEF Raises, Goes, HandlersOf, polls
<1>11. ASSUME NEW c \in Clients, Ask(c) PROVE ArtifactInv'
  BY <1>11 DEF Ask, Idle, walk
<1>12. ASSUME NEW c \in Clients, ReadManifest(c) PROVE ArtifactInv'
  BY <1>12 DEF ReadManifest, Idle, walk
<1>13. ASSUME NEW c \in Clients, Answer(c) PROVE ArtifactInv'
  BY <1>13 DEF Answer, Status, Idle, walk
<1>14. CASE Crash
  BY <1>14 DEF Crash, walk, polls
<1>15. CASE Start
  BY <1>15 DEF Start, walk, polls
<1>16. CASE UNCHANGED vars
  BY <1>16 DEF vars, walk, polls
<1>17. QED
  BY <1>1, <1>2, <1>3, <1>4, <1>5, <1>6, <1>7, <1>8, <1>9, <1>10, <1>11, <1>12, <1>13, <1>14, <1>15, <1>16 DEF Next, Submit, Walk, Poll

\* A manifest only goes forward, and an answer was read from it.
LEMMA SeenStep ==
  ASSUME JobInv, [Next]_vars
  PROVE  SeenInv'
PROOF
<1> USE JobAssumption DEF JobInv, TypeOK, SeenInv, PollInv, StageInv, ErrorInv, DirInv, AtMost, Between, States, Readable, NoManifest, Manifests, Stages, Submitting, Walking, Statuses
<1>1. ASSUME NEW j \in Jobs, Scaffold(j) PROVE SeenInv'
  BY <1>1 DEF Scaffold, Goes, HandlersOf, polls
<1>2. ASSUME NEW j \in Jobs, Persist(j) PROVE SeenInv'
  BY <1>2 DEF Persist, Goes, HandlersOf, polls
<1>3. ASSUME NEW j \in Jobs, Accept(j) PROVE SeenInv'
  BY <1>3 DEF Accept, Goes, HandlersOf, polls
<1>4. ASSUME NEW j \in Jobs, SubmitFails(j) PROVE SeenInv'
  BY <1>4, Refused
<1>5. ASSUME NEW j \in Jobs, OnNoticed(j) PROVE SeenInv'
  BY <1>5 DEF OnNoticed, Decide, Goes, HandlersOf, polls
<1>6. ASSUME NEW j \in Jobs, OnCook(j) PROVE SeenInv'
  BY <1>6 DEF OnCook, Decide, Goes, HandlersOf, polls
<1>7. ASSUME NEW j \in Jobs, OnPartial(j) PROVE SeenInv'
  BY <1>7 DEF OnPartial, Decide, Goes, HandlersOf, polls
<1>8. ASSUME NEW j \in Jobs, WriteManifest(j) PROVE SeenInv'
  BY <1>8 DEF WriteManifest, Written, Goes, HandlersOf, polls
<1>9. ASSUME NEW j \in Jobs, Notify(j) PROVE SeenInv'
  BY <1>9 DEF Notify, Goes, HandlersOf, polls
<1>10. ASSUME NEW j \in Jobs, Raises(j) PROVE SeenInv'
  BY <1>10 DEF Raises, Goes, HandlersOf, polls
<1>11. ASSUME NEW c \in Clients, Ask(c) PROVE SeenInv'
  BY <1>11 DEF Ask, Idle, walk
<1>12. ASSUME NEW c \in Clients, ReadManifest(c) PROVE SeenInv'
  BY <1>12 DEF ReadManifest, Idle, walk
<1>13. ASSUME NEW c \in Clients, Answer(c) PROVE SeenInv'
  BY <1>13 DEF Answer, Status, Idle, walk
<1>14. CASE Crash
  BY <1>14 DEF Crash, walk, polls
<1>15. CASE Start
  BY <1>15 DEF Start, walk, polls
<1>16. CASE UNCHANGED vars
  BY <1>16 DEF vars, walk, polls
<1>17. QED
  BY <1>1, <1>2, <1>3, <1>4, <1>5, <1>6, <1>7, <1>8, <1>9, <1>10, <1>11, <1>12, <1>13, <1>14, <1>15, <1>16 DEF Next, Submit, Walk, Poll

\* What was read stays between the answers and the manifest.
LEMMA PollStep ==
  ASSUME JobInv, [Next]_vars
  PROVE  PollInv'
PROOF
<1> USE JobAssumption DEF JobInv, TypeOK, PollInv, SeenInv, StageInv, ErrorInv, DirInv, AtMost, Between, States, Readable, NoManifest, Manifests, Stages, Submitting, Walking, Statuses
<1>1. ASSUME NEW j \in Jobs, Scaffold(j) PROVE PollInv'
  BY <1>1 DEF Scaffold, Goes, HandlersOf, polls
<1>2. ASSUME NEW j \in Jobs, Persist(j) PROVE PollInv'
  BY <1>2 DEF Persist, Goes, HandlersOf, polls
<1>3. ASSUME NEW j \in Jobs, Accept(j) PROVE PollInv'
  BY <1>3 DEF Accept, Goes, HandlersOf, polls
<1>4. ASSUME NEW j \in Jobs, SubmitFails(j) PROVE PollInv'
  BY <1>4, Refused
<1>5. ASSUME NEW j \in Jobs, OnNoticed(j) PROVE PollInv'
  BY <1>5 DEF OnNoticed, Decide, Goes, HandlersOf, polls
<1>6. ASSUME NEW j \in Jobs, OnCook(j) PROVE PollInv'
  BY <1>6 DEF OnCook, Decide, Goes, HandlersOf, polls
<1>7. ASSUME NEW j \in Jobs, OnPartial(j) PROVE PollInv'
  BY <1>7 DEF OnPartial, Decide, Goes, HandlersOf, polls
<1>8. ASSUME NEW j \in Jobs, WriteManifest(j) PROVE PollInv'
  BY <1>8 DEF WriteManifest, Written, Goes, HandlersOf, polls
<1>9. ASSUME NEW j \in Jobs, Notify(j) PROVE PollInv'
  BY <1>9 DEF Notify, Goes, HandlersOf, polls
<1>10. ASSUME NEW j \in Jobs, Raises(j) PROVE PollInv'
  BY <1>10 DEF Raises, Goes, HandlersOf, polls
<1>11. ASSUME NEW c \in Clients, Ask(c) PROVE PollInv'
  BY <1>11 DEF Ask, Idle, walk
<1>12. ASSUME NEW c \in Clients, ReadManifest(c) PROVE PollInv'
  <2> DEFINE j == poll[c].job
             m == disk[j].manifest
             found == IF Readable(m) THEN m.state ELSE "nothing"
  <2>1. /\ poll' = [poll EXCEPT ![c].found = found] /\ UNCHANGED <<accepted, disk, seen>>
        /\ poll[c] # Idle /\ poll[c] \in [job : Jobs, found : States \cup {"looking", "nothing"}]
    BY <1>12 DEF ReadManifest, Idle, walk
  <2>a. poll \in [Clients -> {Idle} \cup [job : Jobs, found : States \cup {"looking", "nothing"}]]
    OBVIOUS
  <2>2. poll'[c] = [poll[c] EXCEPT !.found = found]
    BY ONLY <2>1, <2>a, c \in Clients
  <2>b. poll'[c].job = j /\ poll'[c].found = found /\ j \in accepted /\ j \in Jobs
    BY <2>1, <2>2
  <2>c. AtMost(seen[c][j], m.state) /\ seen[c][j] \in Statuses
    BY <2>b
  <2>d. found = "nothing" => m.state = "none"
    BY <2>b
  <2>3. Between(found, seen[c][j], m.state)
    BY ONLY <2>c, <2>d DEF AtMost, Between, Readable, States, Statuses
  <2>4. ASSUME NEW d \in Clients, d # c PROVE poll'[d] = poll[d]
    BY ONLY <2>1, <2>a, <2>4
  <2> HIDE DEF j, m, found
  <2>5. QED
    BY <2>1, <2>b, <2>3, <2>4 DEF j, m
<1>13. ASSUME NEW c \in Clients, Answer(c) PROVE PollInv'
  BY <1>13 DEF Answer, Status, Idle, walk
<1>14. CASE Crash
  BY <1>14 DEF Crash, walk, polls
<1>15. CASE Start
  BY <1>15 DEF Start, walk, polls
<1>16. CASE UNCHANGED vars
  BY <1>16 DEF vars, walk, polls
<1>17. QED
  BY <1>1, <1>2, <1>3, <1>4, <1>5, <1>6, <1>7, <1>8, <1>9, <1>10, <1>11, <1>12, <1>13, <1>14, <1>15, <1>16 DEF Next, Submit, Walk, Poll

-----------------------------------------------------------------------------
(* The theorems                                                            *)

\* Whatever happens, the thread, the disk and the answers go together.
THEOREM JobInvariant == Spec => []JobInv
PROOF
<1>1. Init => JobInv
  <2>1. Init => TypeOK
    BY JobAssumption DEF Init, TypeOK, NoManifest, Manifests, Stages, Submitting, Statuses
  <2>2. Init => DirInv /\ StageInv
    BY DEF Init, DirInv, StageInv, Early, Submitting
  <2>3. Init => ErrorInv /\ ArtifactInv
    BY DEF Init, ErrorInv, ArtifactInv, NoManifest, States, Readable
  <2>4. Init => SeenInv /\ PollInv
    BY DEF Init, SeenInv, PollInv, AtMost
  <2>5. QED
    BY <2>1, <2>2, <2>3, <2>4 DEF JobInv
<1>2. JobInv /\ [Next]_vars => JobInv'
  BY TypeStep, DirStep, StageStep, ErrorStep, ArtifactStep, SeenStep, PollStep DEF JobInv
<1>3. QED
  BY <1>1, <1>2, PTL DEF Spec

\* Every variable keeps its type.
THEOREM TypeCorrect == Spec => []TypeOK
PROOF
<1>1. JobInv => TypeOK
  BY DEF JobInv
<1>2. QED
  BY <1>1, JobInvariant, PTL

\* A job whose client was told 202 is never answered 404.
THEOREM AcceptedStaysKnown == Spec => []AcceptedIsKnown
PROOF
<1>1. JobInv => AcceptedIsKnown
  <2>1. SUFFICES ASSUME JobInv, NEW c \in Clients, NEW j \in accepted
                 PROVE  seen[c][j] # "unknown"
    BY DEF AcceptedIsKnown
  <2>2. j \in Jobs /\ AtMost(seen[c][j], disk[j].manifest.state)
    BY <2>1 DEF JobInv, TypeOK, SeenInv
  <2>3. QED
    BY <2>2 DEF AtMost
<1>2. QED
  BY <1>1, JobInvariant, PTL

\* A client is told done only of a job whose cook wrote an artifact.
THEOREM NoSilentSuccess == Spec => []DoneHasArtifact
PROOF
<1>1. JobInv => DoneHasArtifact
  <2>1. SUFFICES ASSUME JobInv, NEW c \in Clients, NEW j \in Jobs, seen[c][j] = "done"
                 PROVE  j \in artifact
    BY DEF DoneHasArtifact
  <2>2. disk[j].manifest.state = "DONE"
    BY <2>1 DEF JobInv, SeenInv, AtMost
  <2>3. QED
    BY <2>1, <2>2 DEF JobInv, ArtifactInv
<1>2. QED
  BY <1>1, JobInvariant, PTL

\* A manifest carries an error exactly when its own job failed.
THEOREM ErrorsStayApart == Spec => []ErrorIsItsOwn
PROOF
<1>1. JobInv => ErrorIsItsOwn
  BY DEF JobInv, ErrorInv, ErrorIsItsOwn
<1>2. QED
  BY <1>1, JobInvariant, PTL

\* An answer is the one the client had, or lies further on.
LEMMA AnswerGoesOn ==
  ASSUME JobInv, NEW c \in Clients, NEW j \in Jobs, Answer(c), poll[c].job = j
  PROVE  /\ Rank(seen'[c][j]) >= Rank(seen[c][j])
         /\ Rank(seen[c][j]) = 3 => seen'[c][j] = seen[c][j]
PROOF
<1>1. poll[c] # Idle /\ poll[c].found # "looking" /\ j \in accepted
  BY DEF Answer, JobInv, PollInv
<1>2. seen'[c][j] = Status(j, poll[c].found)
  BY DEF Answer, JobInv, TypeOK
<1>3. poll[c].found \in States \cup {"nothing"}
  BY <1>1 DEF JobInv, TypeOK, Idle, States
<1>4. Between(poll[c].found, seen[c][j], disk[j].manifest.state)
  BY <1>1 DEF JobInv, PollInv
<1>5. AtMost(seen[c][j], disk[j].manifest.state) /\ seen[c][j] \in Statuses /\ disk[j].dir
  BY <1>1 DEF JobInv, SeenInv, TypeOK, DirInv
<1>6. QED
  BY <1>2, <1>3, <1>4, <1>5 DEF Between, AtMost, Status, Statuses, Rank, States

\* A client's answers never go back, and its last word stays.
THEOREM AnswersGoForward == Spec => PollNeverGoesBack
PROOF
<1>1. ASSUME JobInv, [Next]_vars
      PROVE  [\A c \in Clients, j \in Jobs :
                /\ Rank(seen'[c][j]) >= Rank(seen[c][j])
                /\ Rank(seen[c][j]) = 3 => seen'[c][j] = seen[c][j]]_vars
  <2>1. SUFFICES ASSUME NEW c \in Clients, NEW j \in Jobs
                 PROVE  /\ Rank(seen'[c][j]) >= Rank(seen[c][j])
                        /\ Rank(seen[c][j]) = 3 => seen'[c][j] = seen[c][j]
    OBVIOUS
  <2>2. Rank(seen[c][j]) \in Nat
    BY DEF Rank
  <2>3. CASE seen'[c][j] = seen[c][j]
    BY <2>2, <2>3
  <2>4. CASE Answer(c) /\ poll[c].job = j
    BY <1>1, <2>4, AnswerGoesOn
  <2>5. seen'[c][j] = seen[c][j] \/ (Answer(c) /\ poll[c].job = j)
    <3>1. seen \in [Clients -> [Jobs -> Statuses]]
      BY <1>1 DEF JobInv, TypeOK
    <3>2. ASSUME NEW d \in Clients, Answer(d)
          PROVE  seen'[c][j] = seen[c][j] \/ (Answer(c) /\ poll[c].job = j)
      BY <3>1, <3>2 DEF Answer
    <3>3. CASE \E i \in Jobs : Submit(i) \/ Walk(i) \/ Raises(i)
      BY <3>3 DEF Submit, Walk, Scaffold, Persist, Accept, SubmitFails, OnNoticed, OnCook,
         OnPartial, WriteManifest, Notify, Raises, Decide, Goes, polls
    <3>4. CASE \E d \in Clients : Ask(d) \/ ReadManifest(d)
      BY <3>4 DEF Ask, ReadManifest
    <3>5. CASE Crash \/ Start \/ UNCHANGED vars
      BY <3>5 DEF Crash, Start, vars, polls
    <3>6. QED
      BY <1>1, <3>2, <3>3, <3>4, <3>5 DEF Next, Poll
  <2>6. QED
    BY <2>3, <2>4, <2>5
<1>2. QED
  BY <1>1, JobInvariant, PTL DEF PollNeverGoesBack, Spec

=============================================================================
