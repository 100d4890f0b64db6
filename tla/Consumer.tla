------------------------------ MODULE Consumer ------------------------------
(***************************************************************************)
(* The inbound boundary of a Go frood (consume.Consumer): a poll loop over *)
(* the partitions of one topic, as the one member of its group.            *)
(*                                                                         *)
(* The topic and the client library are external, modelled from how the    *)
(* loop uses them: PollFetches hands out the next records of some          *)
(* partitions, and with them the errors of others; the client commits, in  *)
(* the background, what earlier polls handed out, and all of it when it    *)
(* leaves the group.  A group without a committed offset starts at the     *)
(* end of each partition.                                                  *)
(***************************************************************************)
EXTENDS WireFrame, FiniteSets

CONSTANTS
  Partitions,  \* the partitions of the topic
  Messages,    \* what a Publisher may produce: schema id, message index, payload
  Garbage,     \* what others may: byte strings
  MaxRecords,  \* how many records the topic gets (bound)
  MaxErrors,   \* how many fetches have an error (bound)
  MaxRestarts  \* how many times the process ends and is started again (bound)

ASSUME ConsumerAssumption ==
  /\ Partitions \subseteq Nat /\ IsFiniteSet(Partitions)
  /\ Messages \subseteq [id : Nat, idx : Nat, payload : Seq(Bytes)]
  /\ Garbage \subseteq Seq(Bytes)
  /\ {MaxRecords, MaxErrors, MaxRestarts} \subseteq Nat

VARIABLES
  log,        \* the topic: for each partition its records
  committed,  \* the group's offsets: the next to read (0: none)
  start,      \* where this process started in each partition
  position,   \* the client's offsets: the next to hand out
  settled,    \* what polls before the last one had handed out
  batch,      \* the records of the fetch still to be handled
  handled,    \* the records given to the handler, in order
  passed,     \* the records no handler will see: they came with a failed fetch, or
              \* no process was handed them before one started behind them
  cut,        \* the records a crash has lost: they were handed out, not yet handled,
              \* and the group had no offset to come back to
  pc,         \* where the loop is
  stopping,   \* whether the context is cancelled
  errors,     \* how many fetches had an error
  restarts    \* how many times the process has ended

client == <<start, position, settled>>
vars == <<log, committed, client, batch, handled, passed, cut, pc, stopping, errors, restarts>>

-----------------------------------------------------------------------------

Offsets == 1..MaxRecords + 1
Records == Partitions \X (1..MaxRecords)
RecordAt(r) == log[r[1]][r[2]]

\* A record is a message in a Publisher's frame, or garbage.
Framed == {[sent |-> TRUE, bytes |-> Encode(m.id, m.idx, m.payload), payload |-> m.payload] : m \in Messages}
Strange == {[sent |-> FALSE, bytes |-> g, payload |-> <<>>] : g \in Garbage}

Handled == [life : Nat, at : Records, payload : Seq(Bytes)]

PCs == {"down", "off", "poll", "handle", "backoff", "stopped"}

TypeOK ==
  /\ log \in [Partitions -> Seq(Framed \cup Strange)]
  /\ committed \in [Partitions -> Offsets \cup {0}]
  /\ {start, position, settled} \subseteq [Partitions -> Offsets]
  /\ batch \subseteq Records /\ handled \in Seq(Handled)
  /\ passed \subseteq Records /\ cut \subseteq Records
  /\ pc \in PCs /\ stopping \in BOOLEAN
  /\ errors \in 0..MaxErrors /\ restarts \in 0..MaxRestarts

Init ==
  /\ log = [p \in Partitions |-> <<>>]
  /\ committed = [p \in Partitions |-> 0]
  /\ start = [p \in Partitions |-> 1] /\ position = start /\ settled = start
  /\ batch = {} /\ handled = <<>> /\ passed = {} /\ cut = {}
  /\ pc = "down" /\ stopping = FALSE /\ errors = 0 /\ restarts = 0

-----------------------------------------------------------------------------
(* The topic, the client and the process                                   *)

Produced == UNION {{p} \X DOMAIN log[p] : p \in Partitions}

Produce(p) ==
  /\ Cardinality(Produced) < MaxRecords
  /\ \E r \in Framed \cup Strange : log' = [log EXCEPT ![p] = Append(@, r)]
  /\ UNCHANGED <<committed, client, batch, handled, passed, cut, pc, stopping, errors, restarts>>

\* The offsets the client commits when it has handed out the records before next:
\* partitions of which it has handed out nothing are left alone.
CommitUpTo(next) ==
  committed' = [p \in Partitions |-> IF next[p] > start[p] THEN next[p] ELSE committed[p]]

Commit ==
  /\ pc \in {"poll", "handle", "backoff", "stopped"}
  /\ CommitUpTo(settled)
  /\ UNCHANGED <<log, client, batch, handled, passed, cut, pc, stopping, errors, restarts>>

\* New: the group's offset.  Where it has none, the end of the partition, behind all
\* that came before the group, or while none of its processes read the partition.
Open ==
  /\ pc = "down"
  /\ LET from == [p \in Partitions |-> IF committed[p] = 0 THEN Len(log[p]) + 1 ELSE committed[p]]
     IN  /\ start' = from /\ position' = from /\ settled' = from
         /\ passed' = passed \cup {r \in Produced : committed[r[1]] = 0 /\ r[2] >= position[r[1]]}
  /\ pc' = "poll"
  /\ UNCHANGED <<log, committed, batch, handled, cut, stopping, errors, restarts>>

\* The broker cannot be reached: a nil Consumer, and a Run that returns at once.
OpenFails ==
  /\ pc = "down"
  /\ pc' = "off"
  /\ UNCHANGED <<log, committed, client, batch, handled, passed, cut, stopping, errors, restarts>>

\* The service is told to stop: the context is cancelled.
Cancel ==
  /\ pc # "down" /\ ~stopping /\ restarts < MaxRestarts
  /\ stopping' = TRUE
  /\ UNCHANGED <<log, committed, client, batch, handled, passed, cut, pc, errors, restarts>>

Down ==
  /\ pc' = "down" /\ batch' = {} /\ stopping' = FALSE /\ restarts' = restarts + 1
  /\ UNCHANGED <<log, client, handled, passed, errors>>

\* Run has returned, and its caller closes the client: it leaves the group.
Close ==
  /\ pc = "stopped"
  /\ CommitUpTo(position)
  /\ UNCHANGED cut
  /\ Down

\* A service without a Consumer stops.
CloseNil ==
  /\ pc = "off" /\ stopping
  /\ UNCHANGED <<committed, cut>>
  /\ Down

\* A crash loses the batch where the group has no offset: the next process starts at
\* the end of the partition.
Crash ==
  /\ pc # "down" /\ restarts < MaxRestarts
  /\ cut' = cut \cup {r \in batch : committed[r[1]] = 0}
  /\ UNCHANGED committed
  /\ Down

-----------------------------------------------------------------------------
(* Run                                                                     *)

\* The records from one offset of each partition up to another.
Between(from, to) == UNION {{p} \X (from[p]..(to[p] - 1)) : p \in Partitions}

\* A fetch hands out the next records of some partitions, up to offset next.
Fetch(next) ==
  /\ next \in [Partitions -> Offsets]
  /\ \A p \in Partitions : next[p] \in position[p]..(Len(log[p]) + 1)
  /\ position' = next /\ settled' = position
  /\ UNCHANGED <<log, committed, start, handled, cut, restarts>>

\* PollFetches returns records and no error: they are handled one after another.
Poll ==
  /\ pc = "poll" /\ ~stopping
  /\ \E next \in [Partitions -> Offsets] :
       /\ next # position /\ Fetch(next)
       /\ batch' = Between(position, next)
  /\ pc' = "handle"
  /\ UNCHANGED <<passed, stopping, errors>>

\* PollFetches returns an error, of some partition or of the client: the loop
\* backs off, and leaves aside the records of the other partitions.
PollFails ==
  /\ pc = "poll" /\ errors < MaxErrors
  /\ errors' = errors + 1
  /\ \E next \in [Partitions -> Offsets] :
       /\ Fetch(next)
       /\ passed' = passed \cup Between(position, next)
  /\ pc' = IF stopping THEN "stopped" ELSE "backoff"
  /\ UNCHANGED <<batch, stopping>>

\* (the back-off has a last interval)
BackoffGivesUp ==
  /\ pc = "backoff" /\ stopping
  /\ pc' = "stopped"
  /\ UNCHANGED <<log, committed, client, batch, handled, passed, cut, stopping, errors, restarts>>

Backoff ==
  /\ pc = "backoff"
  /\ pc' = IF stopping THEN "stopped" ELSE "poll"
  /\ UNCHANGED <<log, committed, client, batch, handled, passed, cut, stopping, errors, restarts>>

\* The records that EachRecord may come to now: the next one of each partition.
\* (It takes the partitions one after the other, in an order that is the client's.)
Upcoming == {r \in batch : \A q \in batch : q[1] = r[1] => r[2] <= q[2]}

\* A record comes to rest, with or without the handler.
Advance(r, newBatch) ==
  /\ pc = "handle"
  /\ LET f == StripFrame(RecordAt(r).bytes)
     IN  handled' = IF f.ok THEN Append(handled, [life |-> restarts, at |-> r, payload |-> f.payload])
                            ELSE handled
  /\ batch' = newBatch
  /\ pc' = IF newBatch = {} THEN "poll" ELSE "handle"
  /\ UNCHANGED <<log, committed, client, passed, cut, stopping, errors, restarts>>

\* (a handler that fails may get the record again)
HandleRetries == \E r \in Upcoming : Advance(r, batch \ {r}) \/ Advance(r, batch)

\* (a handler that fails ends the batch)
HandleGivesUp == \E r \in Upcoming : Advance(r, batch \ {r}) \/ Advance(r, {})

\* EachRecord: strip the frame and call the handler; a malformed record is
\* dropped, and a handler's error is logged.
Handle == \E r \in Upcoming : Advance(r, batch \ {r})

Return ==
  /\ pc = "poll" /\ stopping
  /\ pc' = "stopped"
  /\ UNCHANGED <<log, committed, client, batch, handled, passed, cut, stopping, errors, restarts>>

-----------------------------------------------------------------------------

Run == Poll \/ Backoff \/ Handle \/ Return \/ Close \/ CloseNil

Next ==
  \/ Run \/ PollFails \/ Open \/ OpenFails \/ Commit \/ Cancel \/ Crash
  \/ \E p \in Partitions : Produce(p)

Spec == Init /\ [][Next]_vars

\* The loop runs, the broker answers a poll when it has records, and a process
\* that ended is started again.
FairSpec == Spec /\ WF_vars(Run) /\ WF_vars(Open \/ OpenFails)

-----------------------------------------------------------------------------
(* Properties                                                              *)

WasHandled(r) == \E i \in DOMAIN handled : handled[i].at = r

\* One process gives the records of a partition to its handler in their order,
\* and each of them once.
HandledInOrder ==
  \A i, j \in DOMAIN handled :
    (i < j /\ handled[i].life = handled[j].life /\ handled[i].at[1] = handled[j].at[1])
      => handled[i].at[2] < handled[j].at[2]

\* The group's offset passes over a Publisher's message only when a handler has seen
\* it, when it came with a failed fetch, when a process started behind it before any
\* was handed it (New starts at the end: it was older than the group, or came between
\* two processes), or when a crash before the first offset of its partition took it
\* from the process that had it.  Once there is an offset, no crash, stop, commit or
\* handler error loses one.
NothingSkipped ==
  \A r \in Produced :
    (RecordAt(r).sent /\ r[2] < committed[r[1]]) => WasHandled(r) \/ r \in passed \cup cut

\* What the handler gets of a Publisher's message is the message.
PayloadIntact ==
  \A i \in DOMAIN handled :
    RecordAt(handled[i].at).sent => handled[i].payload = RecordAt(handled[i].at).payload

\* Every message is in the end handled, unless it was passed over or cut off as above,
\* or the process runs without a Consumer.
EveryMessageHandled ==
  \A r \in Records :
    (r \in Produced /\ RecordAt(r).sent) ~> (WasHandled(r) \/ r \in passed \cup cut \/ pc = "off")

=============================================================================
