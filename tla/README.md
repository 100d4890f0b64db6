# Verification of blm, the big little mesh

blm is the base library of a small mesh of services ("froods" in Go, "birbs" in
Python, an on-device provider in Swift).  A unit of work is a *bento*: it is
NOTICED, cooked, and ends DONE or FAILED; every transition is a lifecycle event
on a Kafka topic, relayed by a Go sidecar.  The mesh promises duplicates over
loss, and never a silent end.

This directory holds TLA+ models of its stateful parts, the TLC configurations
that check them on small instances, and proofs checked by TLAPS.

Run a configuration with `tlc -config <name>.cfg <Module>` and a proof module
with `tlapm <Module>.tla`.  `PROJECT.json` names, for every modelling definition,
the lines it stands for.

## Inventory

| Part | State | Operations | Interacts with | What makes it correct |
| --- | --- | --- | --- | --- |
| Inbox daemon: `birblib/service.py` `serve_inbox`, `frood/watcher.py`, `frood/provider.py` | delivery log on disk, delivered and in-flight sets in memory | `read`, `mark_done`, `notify`, the poll loop, restart | droppers (files), handlers, the disk | a source is recorded only after its answer; a file at rest is answered; no re-drop is masked; one process hands a key out once |
| Default handlers and walk: `birblib/handlers.py`, `bento.py`, `driver.py` | the bento's directory, manifest, notification | `on_noticed`, `on_cook`, `on_partial`, `_finalize`, `_walk` | provider, generated machine | event, manifest and notification agree; a verdict is final |
| Generated machine: `gen/go/.../bento_fsm.pb.go`, `gen/python/.../bento_fsm.py` | the bento's state | `Step` / `step` | handlers, emitter | only declared states; one event for each step |
| Emit path: `frood/emit.py`, `cmd/sidecar`, `emit/publisher.go` | schema id cache, connection | relay, `/emit`, heartbeat, registration, produce | pipelines, Schema Registry, broker | never blocks the work; no duplicate; acknowledged means published; right schema id |
| Go frood: `cmd/dummy`, `watcher/` | oracle's seen set | poll, drive | droppers, publisher | every file is driven, once for each process; no event is skipped |
| Go heartbeat: `frood/heartbeat.go` | none: one goroutine | publish at each tick | publisher | a failure is not its last beat |
| Topic provisioning: `admin/topics.go`, `cmd/provision-topics` | none | create the fleet's topics at every boot | broker | all topics in the end, however often it gave up half way |
| On-device provider: `Router.swift`, `provider.swift` | admission count, worker flag, continuations | `invoke`, `submit` | callers, capabilities | one worker, bounded admission, no lost wakeup |
| HTTP service around it: `ProviderService/` | one task and buffer for each connection | read and parse a request, route, answer | clients, router | the status code tells whether work was done; a stalled client holds up nobody |
| Consumer: `consume/consumer.go` | group offset (in the broker and the client) | poll, strip, handle, back off | broker, handler | no record skipped; malformed ones dropped |
| HTTP jobs: `service.py` `build_app` | bento directories, threads | submit, poll, artifact | handlers, pollers | a poll never goes back; a job ends |
| Registration: `frood/register.py` | none here; a lease in the registry | register | delightd | never believes it joined when it did not |
| Dispatch: `birblib/dispatch.py` | the decision tree of a call | probe, run, fall through | backends | the first usable one runs; the tree tells why |
| Schema provisioning: `admin/subjects.go`, `cmd/provision-schemas` | none | register the fleet's subjects at every boot | Schema Registry | one id for a subject, whoever registers it |
| Model clients: `model/client.go`, `frood/model.py` | none | discover, choose a source, generate | delightd, sources | fail-closed; the Go and the Python client decide alike |
| Code generators: `cmd/protoc-gen-rust-serde`, `-swift-codable`, `-fsm`, and `gen/` | the committed crate and bindings | generate, the drift gate; what the generated code reads, writes and steps | buf, CI, consumers of other ages | the gate fires on stale code only; a written crate builds; old readers get what they know; both harnesses agree |
| Recipes, scheduler, edge, secret, data provider, git oracle, names and languages | little or none | wrappers of libraries | external services | see "Not modelled" |
| `kube/`, the lint tool | none | build and deployment | | see "Not modelled" |

What is hard in it: files that change while they are looked at; a crash between
any two writes; a handler that raises; a client that times out while the server
goes on; concurrent handlers on one cache; an actor that is re-entered at each
await; a bus that fails in the middle of a walk, or has not its topics yet; programs built
from contracts of different ages.  `PROJECT.json` lists each hazard
at its line with the properties that cover it.

## Modules

| Module | Models | Checked by | Proved in |
| --- | --- | --- | --- |
| `BentoFsm` | the lifecycle's states, shared by the others | `inbox_*`, `dummy_*`, `job_polls` | |
| `Intake` | abstract: what an at-least-once intake promises | as `KeepsPromise` of `InboxDaemon` | `InboxDaemon_proofs` |
| `InboxDaemon` (`MCInboxDaemon`) | the inbox daemon with the default handlers | `inbox_drops`, and two violations | `InboxDaemon_proofs` |
| `Bouncer` | abstract: what the front door of the provider promises | as `KeepsPromise` of `Arbiter` | `ProviderHost_proofs` |
| `Arbiter` | Router.invoke and the actor Arbiter | `provider_door` | `ProviderHost_proofs` |
| `ProviderHost` | HTTPServer, Routes and ProviderService, over `Arbiter` | `provider_door` | `ProviderHost_proofs` |
| `EmitPath` | emitter, sidecar, heartbeat loop, Publisher, provision-schemas, registry, broker | `emit_path`, `emit_order` | `EmitPath_proofs` |
| `Dummy` (`MCDummy`) | FilesOracle, Watcher.Run, drive, generated Step, bus emitter, heartbeat, provision-topics | `dummy_files`, `dummy_bus` | `Dummy_proofs` |
| `WireFrame` | `encode`, `messageIndex` and `StripFrame`, byte by byte | `consume_loop` | `Consumer_proofs` |
| `Consumer` (`MCConsumer`) | New, Run and Close of the consumer, over a group and its broker | `consume_loop` | `Consumer_proofs` |
| `JobService` | submit, background walk and poll of `build_app` | `job_polls` | `JobService_proofs` |
| `Dispatch` (`MCBackends`) | `_order` and one call of `dispatch` | `backends` | `Backends_proofs` |
| `ModelClient` (`MCBackends`) | the Go and the Python model client | `backends` | `Backends_proofs` |
| `Contract` | a protobuf contract as a plugin sees it | by the modules below | `Within`, in `Codegen_proofs` |
| `FleetContract` | the mesh's contracts of today, from the descriptors in `gen/go` | `codegen` | |
| `Bindings` | messages, and what generated types and the JSON library behind them read and write of them | `codegen` | `Codegen_proofs` |
| `RustSerde`, `SwiftCodable`, `FsmHarness` | the three generators, as functions from a contract to the code's tables | `codegen` | `Codegen_proofs` |
| `Evolution` | a contract that grows, the committed code, the drift gate, consumers and harnesses of different ages, a bento they step | `codegen` | `Codegen_proofs` |
| `Codegen` (`MCCodegen`) | over `Evolution`: the messages that consumers of different ages read and relay | `codegen` | `Codegen_proofs` |

Operators that carry a comment in parentheses ("(without the debounce)") and
stand before the operator they resemble are mutations of it.  They are used by
no specification; they show that the properties notice such a bug.

### InboxDaemon

One thread, so one program counter `pc`; the droppers, the clock and crashes
interleave with it at every step.

| Code | Action |
| --- | --- |
| `watch` wakes, `read` lists the inbox | `Wake` |
| `_key` and the two membership tests | `StatKey` |
| `_is_stable`, `_inflight.add`, append | `StatStable` |
| `make_bento` | `MakeBento` |
| `on_noticed` | `NoticeMissing`, or `NoticeCopy` then `Persist` |
| `cook` and the choice of its outcome | `OnCook` |
| `on_partial` | `OnPartial` |
| `_finalize` | `WriteManifest`, `Notify` |
| generated `step`, emitter, `_walk` | `Step` |
| `mark_done` | `MarkDelivered`, `SaveState` |
| the `except` of `scan_once` | `HandlerRaises` |
| process death, `__init__`, `_load_state` | `Crash`, `Restart` |

A file is a version number, a modification time and whether its writer is done.
A writer of the modelled kind bumps the modification time at least every
`WriterGap` ticks; that is what makes a debounce meaningful, and `Tick` is
guarded by it.  An atomic write (temporary file and rename) is one step.  What is
never read again (`request.json`, `bento.json`) is left out, and a `make_bento`
that raises shows as `HandlerRaises` before the copy.

`cook` is the birb's own code: any of its outcomes may come, a raised exception
and a run without artifact being FAILED.  A birb that overrides `on_*` and stops
the walk in a state that is not terminal is outside the model.

### Arbiter

A Swift actor runs one job at a time and is given up at each await.  Each action
is the stretch between two awaits.  `Admit` runs from the call's arrival to its
parking or its work; `Recheck` is the second look of a resumed call, which a
newcomer may have overtaken; `WorkEnds` is the capability's work, off the actor;
`Release` is the deferred block and the return.  A call may be turned away by
`Router.invoke` before the arbiter (`Unavailable`) or by the guard (`Busy`).

### ProviderHost

The composition of the HTTP side with the arbiter, which it EXTENDS: a connection is
a task of `Tasks`, and so a caller of the arbiter.

| Code | Action |
| --- | --- |
| `receive`: a chunk that does not complete the request | `Receive` |
| `readRequest`, `parse`, and what `Routes` and the adapter answer without the router | `Parse` |
| the input ends too early: `serve`'s catch | `EndOfInput` |
| `handle` calls `Router.invoke`, up to the arbiter's first await | `Invoke` |
| inside the arbiter; the capability at its work | `Await`, `CapabilityEnds` |
| the outcome becomes a status code | `Returned` |
| `send` and close; the next connection takes the place | `Send` |

A client that stalls is a connection at which no client action happens; the server has
no read timeout.  One that leaves after its request is noticed only by `send`, which
then fails, as does the 400 that `serve` would send instead: both are `Send`.
`worked` is a history variable.  A Content-Length is taken to be a natural number.

### EmitPath

A pipeline relays one event at a time and gives up after its client timeout
(`Timeout`); the sidecar's handler goes on, because it publishes with the
sidecar's own context.  The handler of an event is a stage that moves through
cache lookup, registration, caching, produce and answer, each an action, so that
handlers interleave at every shared access.  `AppendRecord` and `Produced` are the
two ends of `ProduceSync`; `ProduceFails` may come before or after the append.
`Provision`, `ProvisionFails` and `Boot` are the job that registers the fleet's subjects
at every boot, of which the token burn subject, that nothing here produces, is left out.
The registry and the broker are modelled from how the Publisher uses them: one id
for a subject however often it is registered, one partition for a key.  The
broker's own retries are idempotent (the client's default) and left out.

### Dummy

The poll loop is one goroutine, the heartbeat another; files, the bus and its topics change
under them.

| Code | Action |
| --- | --- |
| `FilesOracle.Poll`, `Watcher.Run` | `Poll`, `HandlerReturns` |
| `drive`: a bento for the next file | `Drive` |
| generated `Step`: the handler's state, then the emission | `Step`, then `EmitNothing`, `EmitEvent` or `EmitError`; `Finish` |
| `Heartbeat`'s tick | `BeatSent`, `BeatFails` |
| `EnsureTopics` | `Boot`, `CreateTopic`, `ProvisionFails` |
| the process | `Stop`, `Start` |

The handlers never return FAILED, so that DONE is the one end of a walk.  A process without
a Publisher emits nothing and has no heartbeat.  The broker creates no topic by itself
(`cmd/provision-topics`: "broker auto-create stays OFF"): a publication to a topic that provision-topics has not come to
yet fails as one to a broker that is away does.  On a new bus provision-topics runs at every
boot (`boots`); on an old one the topics are there.

### Consumer

`Run` is one thread: `Poll` or `PollFails`, then `Handle` for each record, `Backoff`
after an error, `Return` when the context is cancelled; `Open`, `OpenFails` and
`Close` are `New` and the caller's `Close`, which comes after `Run` has returned.  The
client library is external and modelled from how the loop uses it: `PollFetches`
hands out the next records of some partitions and moves past them, whether or not
another partition had an error (`batch` is the set of those not yet handled; EachRecord takes
one partition after another in an order of the client's, and `Handle` takes them in any order
that keeps each partition's own); in the background it commits what polls before the
last one had handed out, and at `Close` all of it.  A handler's error is logged and
changes nothing, so it is no action of its own.  `passed` remembers the records the
code gives up knowingly: those of a fetch with an error, and those that no process had been
handed when one started behind them, because `New` starts a partition without an offset at its
end.  `cut` remembers what that start costs besides: a process that crashes before the first
background commit takes with it the records it had been handed and not yet handled, as the next
process does not come back to them.  Once a partition has an offset, a crash cuts off nothing.  `StripFrame` is applied to the bytes `encode` makes; varints
longer than ten bytes, at which Go gives up, are left out.  A stream that is not a
Publisher's may contain a record that `StripFrame` takes for a message: nothing is
said of it.

### JobService

Requests, and the thread of each job, interleave at each write and read of the disk.

| Code | Action |
| --- | --- |
| `submit`: `scaffold`, `persist`, start of the thread and 202 | `Scaffold`, `Persist`, `Accept`; `SubmitFails` for a 500 |
| the default handlers on the job's thread | `OnNoticed`, `OnCook`, `OnPartial` |
| `_finalize`: manifest, then notification and `step` | `WriteManifest`, `Notify` |
| `_run`'s `except` | `Raises` |
| `job`: `read_manifest`, then the directory | `Ask`, `ReadManifest`, `Answer` |
| process death; a new process, which resumes nothing | `Crash`, `Start` |

The handlers are those of `InboxDaemon`, of which only what a poll can tell is kept:
the state a handler decides on, the error it leaves on its object, the artifact.  That
an artifact handed back by `cook` exists is the birb's own promise.  A client polls
for jobs it was told of, one request at a time.

### Dispatch

One call of `dispatch`; what a backend says, and whether its run works, is open.  A
backend is its position in the declared list, since names may repeat, and `said` is a
history variable beside the decision tree `tried`, which goes by names.  An exception
of `available` leaves `dispatch` (`ProbeRaises`): only `run` is inside the `try`.  The
comment of `_order` says "with duplicates removed"; the code does so for the preferred
name only, of which it keeps the last, and `FirstUsable` states that order
(`Hidden`).

### ModelClient

Each of the two clients asks delightd once (`DiscoverGo`, `DiscoverPython`) for the same name,
and has the source it found generate (`Generated`, `GenerateFails`).  Sources turn healthy or
not, and load or drop the model, between any two steps (`Turn`).  delightd's answer is open: no
answer, an error status with an error in JSON, something that is no JSON, JSON of another shape,
null where the list of sources should be, or the list, in which a source's models may be null:
delightd is in Go, which writes null for a slice that was never filled.  The Go client does not look
at the status; an answer that refuses has no sources.  `resolve` asks and parses inside its `try`, and
loops over the answer outside of it, so that null, or another shape, raises TypeError or AttributeError
(`error`); Go reads null as an empty list, and another shape fails its decoding.
`first_healthy` stops at a source with null for its models, `FirstHealthy` goes past it.
So the two, of which the one is said to mirror the other, differ on two kinds of answer, and `PairAgrees`
states how: on one that is no JSON (a bare decoding error in Go, `client.go` line 78,
`ModelUnavailable` in Python), and on one with null (an exception in Python; in Go what the other
sources serve, or `ErrModelUnavailable`).  A field of the wrong type within a source is left out.
Timeouts have no length, and a model's
name is whether the source serves it.

### Evolution and Codegen

The generators are pure, so they are operators: `RustSerde!RustCrate(files, opts, it)` is one run
of the Rust plugin, with the order in which this run goes through its maps as a parameter, and its
value is a crate reduced to what rustc, cargo and serde see of it (identifiers, renames, types,
defaults, the catch-all, the module tree, the tests) or a refusal.  `SwiftCodable!SwiftFiles` and
`FsmHarness!goHarness` and `pyHarness` are the same for the others.  What is written is text; the
models are the tables in it, and `Bindings!Read` and `Write` and `FsmHarness!Step` and `step` are
what that text does.  `FleetContract` is every package, enum, message and field that the committed
descriptors declare.

| Code | Action |
| --- | --- |
| a merge to the contracts, which lets them only grow | `Evolve` |
| `buf generate`, committed | `BufGenerate` |
| the job gen-drift of `ci.yml` | `DriftGate` |
| a consumer is rebuilt, when it likes | `PinCrate`, `RebuildSwift`, `RebuildHarness` |
| a Go service sends protojson, a consumer reads it and sends it back | `Send`, `ReceiveRust`, `ReceiveSwift` |
| one step of a bento by a service with the Go, or the Python, harness | `StepGo`, `StepPython` |

`Send`, `ReceiveRust` and `ReceiveSwift` are `Codegen`'s, the others `Evolution`'s, so that what happens
to the code can be read, and proved about, without the messages.

A message is a function from paths to values: the path of a value is the keys and the list positions
that lead to it, objects and lists are values too, and so messages within messages, of any depth, need no
recursion.  `TypeAt` follows a path through the tables of a binding; `Read` takes the paths it has a type
for, turns or refuses an enum value it does not know, and drops what is at its default and has no presence;
a strict reader (protojson) refuses a path it has no type for.  `Write` adds the fields that serde and
Codable write though they are at their default.  A list has up to two entries (`Places`), and a map is
one value.  A service sends only what its Go types can hold (`Holds`): every value at a type its version
has, and nothing at its default without presence.  What it tries to send is the bound `Drafts`.

The properties of messages speak of the contracts a plugin can make faithful types from (`Speaks`): for
Rust those whose packages in scope refer to their own types only; for Swift, which puts all its packages into
one module, those without two types of one name, without types of other packages than its own (so no
Timestamp), and without proto3's `optional`, which it does not write.  The mesh's own contracts, of the
packages a consumer speaks, are such.

A history is what a contract goes through, and follows either the crate, or messages, or a bento,
so that the three kinds of traffic are not multiplied.  `buf.yaml` (lint STANDARD, breaking FILE)
is why names have the conventional form, an enum has a value 0 and no aliases, and nothing is
removed; the breaking rules are for the contract owner's CI to run (`docs/contract-ownership.md`), no job of this
repository's `ci.yml` does.  Neither forbids a negative enum number: the Go generator of the harness leaves it
out, the Python one gives it a state, and so `HarnessParity` and `BentoStaysActive` suppose a
lifecycle without one (`Unsigned`).  A name is the sequence of its words, and an identifier keeps the
case of each: enough to tell when two identifiers, JSON keys or modules collide.

What the models follow the code in, and a reader may not expect: the Rust plugin maps every message
type but Timestamp to a name of its own module, also one of another package; it does not box a message
that contains itself; and it writes the segments of a package, and the names of types, as they are,
also where they are keywords (`type`), names of the prelude or of serde (`Option`), or targets of Cargo
(`main`).  It accepts all of these, and the crate does not build.  A
`google.protobuf.Struct` is a type of another package in this sense: the head of the plugin says that
other well-known types are an error, `mapField` writes `Option<Struct>`.  So `CratePassesItsTests` speaks of a crate whose packages, those of the allowlist,
are `Expressible`: `SelfContained`, `Finite` and `Nameable`.  The mesh's `observability.v1` is, in every
version that the run goes through.  The tests are those the plugin writes beside the types;
`gen/rust/tests/golden_conformance.rs` is written by hand, and a field without presence is meant to
break it ("already loud"), so that CI, which runs it too, asks for more than this property.  The plugin is run once for each
directory, and each run writes the crate's root, so that a list of packages in several directories
needs buf's `strategy: all` (the model is one run over all files); the Swift plugin leaves out
proto3's presence and nested types, and its enums throw at a value they do not know.

## Runs

Type invariants are not in the lists of the runs: for the inbox daemon, the arbiter, the provider's
host, the emit path, the job service, the dummy, the consumer and dispatch they are theorems; the model
clients' and the contract's are conjuncts of their inductive invariants.

| Run | Question | Bounds, and why they are enough |
| --- | --- | --- |
| `inbox_drops` | recorded means answered, nothing masked, verdicts final, one key once in a process, refinement of `Intake`, every file at rest is answered | one path, two versions of one size (the worst case for the key), two ticks to the second, a debounce of a second, one crash with or without a lost log, one I/O error: a re-drop in the second of the first drop, between the two stats, and between the guard and the copy all happen.  Two paths, of which one waits while the other is handled, are in `inbox_midwrite` and in the proofs |
| `provider_door` | no lost wakeup, refinement of `Bouncer` (one worker, bounded admission), the status code tells whether work was done, every request answered | three connections and the daemon's capacity of two: one works, one parks, one is turned away or overtakes; three kinds of request (`Asked`): for the router, refused by the adapter (503), malformed at its head.  The other kinds differ from these in their code only |
| `emit_path` | at most once, acknowledged means published, right schema, no overtaking, never blocks | one pipeline of two events and a heartbeat of two: two handlers of one subject and of different subjects meet at the cache, and either subject may be provisioned before, between or never; one death, also into a dry bus |
| `dummy_files` | once in a process, no event skipped, every file driven, the heartbeat comes back, all topics in the end | two names, one more drop, one restart, a bus that turns at any moment; on a new bus, whose five topics are made one by one, one file and no further drop |
| `consume_loop` | order, no message skipped, payload intact, every message handled | two partitions, so that a fetch may fail for one and bring records of the other; three records of three shapes (first message, an index of two bytes before a payload that begins with zero, a truncated index); one error, and a second process that starts from the committed offsets, or at the end of a partition without one |
| `job_polls` | answers never go back, 202 is never followed by 404, done has an artifact, errors are not shared, jobs end | two jobs, so that two walks overlap; one client, whose polls straddle each rewrite of the manifest; one failing write and one crash |
| `backends` | dispatch: first usable backend, complete decision tree; model clients: fail-closed, the pair agrees | every list of up to four backends with three names: two of one name before, between and after others, a preference for each of them, for nobody and for none; every list of up to three sources of three providers, of which one turns at any moment, a source's models being null among others; and every kind of answer that is no list |
| `codegen` | the gate fires on stale crates only, a written crate of expressible packages builds and passes its tests, readers of any age, relayed messages, parity of the harnesses, no bento outside the active states | the contracts of today and four additions to them (an enum value and a field for the Rust and for the Swift consumer, two lifecycle states, one at the end of the active range, and a negative one), and small contracts with the shapes the mesh does not have yet: keywords, colliding names, packages below one another, a list; and the four that the plugin takes and rustc refuses (a message within itself, a package named by a keyword, a type named as the prelude has it, a type of another package), one for each part of `Expressible`.  Without any one of these parts, or without `Unsigned`, the run ends in a violation.  Handlers return every number from -1, declared or not.  Two orders of a map's keys that disagree on every pair; messages of every type of the newest versions with up to two populated fields, an enum field at its second or one of its last two values; those the service's own version has no type for are not sent |

The remaining four runs are expected to end in a violation.  Each checks what a
document or a comment of the repository says, and shows where the code differs:

| Run | What is said | What happens |
| --- | --- | --- |
| `inbox_unreadable` | an unreadable input MUST end FAILED (`docs/states.md`) | the copy raises; no manifest, no notification, and the source is held in flight |
| `inbox_midwrite` | never picked up mid-write (`docs/providers.md`) | the copy comes after the guard, and a re-drop may have begun |
| `emit_order` | the last event on the bus is the state (`bento_fsm.pb.go`) | an abandoned handler appends behind a later event |
| `dummy_bus` | a down broker never stops the work (`cmd/dummy`, `emit`) | a publish error abandons the bento, whose file counts as seen |

`consume_loop`, `job_polls` and `backends` do not check for deadlock: a service
without a Consumer, one whose submits were all refused, and a call that has returned, have nothing
left to do.  In all other runs a state without successor would be reported (the inbox daemon polls
for ever, and in `codegen` a gate, a reader or a harness can always run once more).

### Fairness

* `InboxDaemon`: the thread runs (`while True`), a dead daemon is started again
  (launchd), the clock runs, and a writer that began finishes.  Crashes, errors
  and drops are not fair, and bounded.
* `ProviderHost`: each connection's task and the actor's jobs for it run, and a
  capability's work ends.  Nothing is assumed of the clients.  The wait for the worker
  is not fair to the waiters, and so an answer is only promised once no more requests
  arrive.
* `EmitPath`: only the pipelines' own threads and their timeouts.  The sidecar,
  the registry and the broker may hang.
* `Dummy`: the two tickers' goroutines, the restart, and the next run of a provision-topics that
  failed.  A publication to a broker that does not answer may fail or hang for ever, so
  that a file is promised to be driven only when the bus stays, or there is no Publisher;
  a publication to a topic that is not there fails.
* `Consumer`: the loop and the restart; the broker answers a poll when it has records.
  Errors, stops and crashes are bounded.
* `JobService`: each job's thread runs, and a birb's `cook` ends.

## Proofs

`InboxDaemon_proofs`, `ProviderHost_proofs` (with the arbiter's), `EmitPath_proofs`,
`JobService_proofs`, `Consumer_proofs`, `Dummy_proofs`, `Backends_proofs` and `Codegen_proofs` hold
for every value of the constants that meets `DaemonAssumption`, `ArbiterAssumption`,
`HostAssumption`, `EmitAssumption`, `JobAssumption`, `ConsumerAssumption`, `DummyAssumption`,
`DispatchAssumption`, `ClientAssumption`, `IterationAssumption` and `HistoryAssumption`: any set of
paths, any number of versions, callers, connections, pipelines, events, jobs, clients, partitions,
records, files, backends, sources, crashes and errors, and any contract that grows.

*Inbox daemon.*  `RecordedMeansAnswered` is not inductive: that the source about
to be marked has been answered follows from where the thread is.  `WalkInv` says
so: while the thread is at a place of the walk, the youngest bento is the first
source's, and its manifest, notification and event are exactly as far as that
place.  With types, with `StatInv` (the key under the second stat is new) and
`FilesWritten`, it makes `DaemonInv`, proved inductive with one step for each
action (`DaemonInvariant`).  From it: `TypeCorrect`, `AtLeastOnce`, `NeverSilent`,
`FinalVerdict`.  `OncePerProcess` needs `LifeInv`: what a process has taken, it
suppresses, and no key waits twice.  `DaemonKeepsPromise` is the refinement: every
step is a step of `Intake` or leaves its three sets alone; saving the log needs
`LogInv`, that the log holds nothing the process does not know.  `NoDropMasked`
has one more hypothesis, `Debounce >= TicksPerSecond`: then the second of every
key handed out is over (`KeyPast`), no later write can give the file that key
again, and so a copy made under it stays the present version (`FaithfulCopy`).
The hypothesis is needed: with no debounce ("tests, trusted drops", `frood/provider.py`)
a file may be delivered in the second it was written, and a re-drop of the same size
in the rest of that second has the key of the first and is passed over for ever.

*Arbiter.*  `QueueInv` says that the queue holds each parked call once and nothing
else, that the worker flag is the presence of a working call, and that somebody
is on the way whenever somebody is parked.  Together with the count
(`AdmittedIsInside`, by finite cardinalities) it is inductive
(`ArbiterInvariant`), and `SingleWorker`, `BoundedAdmission`, `WakeupSafe` and the
refinement of `Bouncer` (`ArbiterKeepsPromise`) follow.

*HTTP host.*  `HostRunsArbiter` shows that every step of the host is a step of the
arbiter or leaves its variables alone, so that all theorems about the arbiter hold
behind the door too (`HostKeepsPromise`).  `HostInv` adds what the place of a
connection's task says about its request, its call and its answer: only a task that is
`called` is inside, its request is whole and for the router, a working one is in
`worked`, and a call that is back has the outcome `ok` or `failed` exactly when it has
worked.  It is
inductive (`HostInvariant`; the two places where the arbiter resumes another call than
the acting one need `QueueInv`), and gives `RetryIsSafe` and `StalledHoldNothing`.

*Emit path.*  None of the four properties of the bus is inductive.  `IdInv` ties the id
in a handler's hand, and in the cache, to the registry, which never changes an id it has
assigned, neither for a producer nor for provision-schemas: hence `RightSchema`.  `BusInv` says that a record on the bus has a handler past
its produce, and no handler comes back: hence `AtMostOnce`, and, the other way round,
`AcknowledgedIsPublished`.  For `OnlyGivenUpOvertaken`, `FreshInv` says that an event is
handled only after its sender has relayed it, and `PastInv` that the sender moves on
only with an answer or a timeout: at the append of an event behind a later one of its
sender, the earlier has no answer yet, and so was given up.  `EmitInv` is their
conjunction.

*Job service.*  An answer alone is not inductive: that it never goes back follows from
where it was read.  `StageInv` ties a thread's place to its verdict and its manifest,
so that a manifest is only ever replaced when it is PARTIAL, and then by DONE;
`SeenInv` says that an answer is no further than the manifest on disk, and `PollInv`
that what a poll holds in its hand lies between the two, whatever the thread writes
meanwhile.  With types, `DirInv`, `ErrorInv` and `ArtifactInv` they are inductive
(`JobInvariant`), and `AnswersGoForward`, `AcceptedStaysKnown`, `NoSilentSuccess` and
`ErrorsStayApart` follow.

*Consumer.*  `HandledInOrder` is not inductive: that a record comes after those handled before
depends on what is in the batch and where the client is.  `OrderInv` is `Shape`, `Bounds` (offsets
stay within the log, the batch is what a fetch has handed out), `Ahead` (what this process has
handled lies before the batch and before the client's position) and the property; it is inductive
(`LoopInvariant`).  For `NothingSkipped`, `Settled` adds that each record before the client's
position rests (it is handled, passed, cut off, or not for the handler) or is in the batch, that what polls
before the last one handed out rests, and that an offset is committed only past records that rest.

That the loop treats each record rightly depends on what `StripFrame` makes of the bytes of `encode`.
Both are recursive functions of byte strings.  `Recursion`, used for each of them, says that such a
function is the one its equation describes: where the equation at an argument asks for smaller
arguments only (shorter strings, smaller numbers), a solution exists by well-founded recursion and
is the only one.  From the equations follow, by induction on a number's size, that its varint ends
where `VarintLen` says (`VarintLenFinds`) and reads back as the number (`VarintRead`), and that
skipping the index consumes exactly what `messageIndex` wrote.  Together they are
`FrameStripped`: for every natural id, every index and every payload, `StripFrame` takes the frame
and gives back the payload.  So the loop never drops a message (`NothingLost`), and, since what has
been handed over was stripped from a record of the log (`Stripped`, which is inductive),
`PayloadsIntact`.  `TypeCorrect` needs one more invariant, `Bounded`: that a partition's offsets stay
within the topic's bound is the finite cardinality argument of `PartitionFits`.

*Dummy.*  `OnceInv` says that what this process drives it has seen and will not take again, and
`EventsInv` that a bento in its walk has the events of exactly the states it has been through, or
none when its process has no Publisher.  With types and the bound on restarts they make `FroodInv`,
which is inductive (`FroodInvariant`) whatever the bus, its topics and the heartbeat do.  That
a poll's files have a first one needs `DummyAssumption` (names are ordered) and well-foundedness.

*Dispatch.*  `FirstUsable` speaks of the end of a call only.  `DispatchInv` says of every moment that
what is left of `order` is in the promised order and comes after whatever is done with (`InOrder`),
that who is left has not been asked while who is not has failed or is hidden (`AskedInTurn`), and that
the tree has, under each name, the report of the last backend of that name that was asked (`Told`).
That `_order` makes the promised order (`OrderPromised`) is an induction over the list it filters.
From `DispatchInv` follow `DispatchRunsTheFirstUsable` and `DispatchTellsWhy`.

*Model clients.*  `ClientInv`: a client's pick and its result are what it made of the one answer it saw,
whatever has come or gone since.  `FailClosed` follows, and, since the Go loop and the Python loop
find the same source of every list without null (`FindsFirst`), `PairAgrees` with its two kinds of exempt
answers.  `BackendsCovered` says
that the composition the run explores is covered by both specifications.

*Evolution.*  That the drift gate fires on stale crates only rests on `CrateAlike`: sorting makes one run of
the plugin forget the order in which it went through its maps, so that two runs over one version write
the same crate.  `EvolutionInv` then says that the committed crate is what some run writes from the
version it came from (`Written`).  Such a crate is linked: every package is reached from
the root, nothing hangs in the air, and no field has a name that Rust reserves
(`CommittedCrateIsLinked`).  And, if its packages are `Expressible`, it builds and passes the tests
generated with it (`CommittedCrateBuilds`, which is `CratePassesItsTests`): distinct names make distinct identifiers and JSON keys (`NamesApart`), a package in scope is
there with all its types (`PackageClosed`), the modules are named by the segments of its packages
(`TreeIsNamed`), a struct within itself would be a message within itself (`PackageBuildable`), and what the
tests ask of an enum, of an empty message and of one with all that is optional follows from the tables
(`PackageBuilds`).  `StepsAlike` says that the Go and
the Python harness of one version step alike, and `LifecycleGrows` that a version knows all states of the
older ones: hence `HarnessesAgree` and `BentoIsActive`, for services of any two ages, and lifecycles
that are `Unsigned`.
`HistoryAssumption` says of the contracts what protoc, lint and the breaking rules hold them to
(`WellFormed`): names are made of words and distinct, an enum's values begin with its name and the first
is 0, the types of fields are declared, no two types have one name, and a package is generated as a whole or
not at all; a version takes no field, no enum value and no lifecycle state away (`Grows`), and the
lifecycle has the values 0 and 1.  What no rule forbids is a hypothesis of the properties instead
(`Expressible`, `Unsigned`), stated of the version at hand.

*Codegen.*  Each step is one of `Evolution` or leaves its variables alone (`CodegenImplementsEvolution`), so
that all of the above holds with messages on the wire too.  About the messages themselves, three facts about tables
carry the argument, each proved of the generators for every contract that is `WellFormed`.  `Sound`: the
Go types have distinct keys, refer to types that are there, and only an enum has neither presence nor a plain
default (`GoIsSound`).  `Extends`: the Go types of a later version have each field and enum value of an
earlier one (`GoGrows`; `Grows` is what the breaking rules allow, a part of `HistoryAssumption`).
`Conforms`: a consumer's types have the keys, the presence and the enum values of the Go types of their
version (`RustConforms`, `SwiftConforms`), known by their names alone (`PackageNames`).
By induction over a path, two such tables agree on the type at its end (`TypesAlike`, `TypesKept`,
`TypesFit`).  So a consumer reads exactly what `Seen` says (`ReadIsSeen`), whether it is older or newer
than the message; and what it writes, defaults included, Go of the newest version reads back as what the consumer
held (`Relay`): a default that was added is dropped again, and nothing else is added.  Only a value turned
into `Unknown` is refused, and only a consumer that is older than the message can have one.  `CodegenInv`
adds what the steps need: the crate a consumer is built with was a committed one (`PinnedWritten`), what is
on the wire is what Go of a version there has been could hold (`InFlight`), and what was said of a
message read in the past stays true while the contract grows.  It is inductive (`CodegenInvariant`)
and gives `ReadersKnow` and `RelaysKeep`.

Only model-checked:

* all liveness (`EveryDropAnswered`, `RequestAnswered`, `EmitNeverBlocks`, `EveryFileDriven`,
  `HeartbeatComesBack`, `TopicsInTheEnd`, `EveryMessageHandled`, `JobEnds`): the prover does not
  handle fairness.

Every safety property of a passing run is the subject of a theorem.

## Not modelled

* Kubernetes files and the lint tool: build and deployment.
* The reflection plumbing of the generated Go and Python types (`gen/go/**/*.pb.go`, `*_pb2.py`):
  written by protoc; their descriptors are `FleetContract`, their protojson is `Bindings`.
* What goes on inside the speech capabilities: callbacks of the operating system's frameworks.  To
  `Arbiter` a run is work that returns a result or throws (`Results`).
* Sockets, the listener's start and the JSON of the HTTP surfaces.
* Edge, secret and the data provider's interface (no state); recipes and stages (a dictionary laid
  over another, a timer); the git oracle (one library call); the scheduler (the ticker of
  `watcher.Run`, without an oracle); the tables of names and languages.
* Service registration: one POST and a raise.  What a second registration, a lease or its end mean
  is decided by the registry, outside this repository.
* The lease of a service whose sidecar publishes no heartbeat while the broker hangs (its loop has no
  timeout of its own): the lease is the registry's too; the loop itself is in `EmitPath`.
* A birb that overrides `on_*` and stops its walk in a state that is not terminal.

## Plan

The parts the mesh's promises rest on came first (`InboxDaemon`, `Arbiter`, `EmitPath`, `Dummy`), then
the boundaries (`Consumer`, `JobService`, `ProviderHost`, `Dispatch`, `ModelClient`), then the
generators.  What could come next:

1. `Synthesis`: the callbacks of the speech framework and the latch that resumes the capability once;
   a result must mean a whole file, and an error must not hang the arbiter's worker.  It needs a
   statement of what the framework promises about its callbacks.
2. `Registration`: register and the belief of the frood, once the registry's side can be taken from
   code.
3. Lists of any length, and maps whose values are read one by one, in `Bindings`.
