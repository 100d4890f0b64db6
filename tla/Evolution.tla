----------------------------- MODULE Evolution -----------------------------
(***************************************************************************)
(* A contract and the code generated from it, over time.  The contract     *)
(* only grows (the breaking rules of buf.yaml; no job of ci.yml runs them, *)
(* docs/contract-ownership.md asks the owner to); buf generate commits a   *)
(* crate made by one run of the Rust plugin, a CI gate makes a second run  *)
(* and compares; consumers in Rust (which pin a crate) and in Swift are    *)
(* rebuilt when they like; and two services, one with the Go and one with  *)
(* the Python harness, drive one bento.  Codegen adds the messages.        *)
(***************************************************************************)
EXTENDS RustSerde, FsmHarness, Bindings

CONSTANTS Iterations,  \* the orders in which a run may iterate over its maps
          Histories,   \* the contract's versions, the plugin's options, and
                       \* whether we follow the crate, messages or a bento
          MaxNumber    \* the largest number a handler returns (bound)

\* The lifecycle enum of a contract, and the numbers of its values.
LifecycleOf(files) == {e \in EnumsOf(files) : e.ref.name = <<"bento", "state">>}
Numbers(e) == {e.values[i].number : i \in DOMAIN e.values}

\* Go visits every key of a map, in some order.
ASSUME IterationAssumption ==
  /\ Lexicon \in Seq(ToSet(Lexicon))
  /\ \A it \in Iterations : it \in Seq(ToSet(Lexicon)) /\ ToSet(it) = ToSet(Lexicon)

\* What protoc and buf's lint (STANDARD) hold a contract to.  A name has one word or
\* more.  The values of an enum have distinct names that begin with the enum's, and the
\* first is 0 (proto3).  The fields of a message have distinct names, and types that the
\* files declare (a plugin is given all that is imported), or Google's.  No two types
\* have one name.  A package is in one directory: all of it is generated, or nothing.
IsName(n) == n \in Seq(STRING) /\ n # <<>> /\ \A k \in DOMAIN n : n[k] # Nothing

Refs(types) == {t.ref : t \in types}

WellFormedEnum(e) ==
  /\ IsName(e.ref.name)
  /\ e.values \in Seq(ToSet(e.values)) /\ e.values # <<>> /\ e.values[1].number = 0
  /\ \A i \in DOMAIN e.values :
       /\ IsName(e.values[i].name) /\ IsStrictPrefix(e.ref.name, e.values[i].name)
       /\ \A j \in DOMAIN e.values : e.values[i].name = e.values[j].name => i = j

WellFormedMessage(m, files) ==
  \A i \in DOMAIN m.fields :
    LET f == m.fields[i]
    IN  /\ IsName(f.name) /\ \A j \in DOMAIN m.fields : f.name = m.fields[j].name => i = j
        /\ f.optional \in BOOLEAN /\ f.card \in {"one", "list", "map"}
        /\ CASE f.kind = "enum"    -> f.type \in Refs(EnumsOf(files))
             [] f.kind = "message" -> f.type \in Refs(MessagesOf(files)) \/ f.type.pkg = Google
             [] OTHER              -> f.type = NoRef

WellFormed(files) ==
  /\ files \in Seq(ToSet(files))
  /\ \A i, j \in DOMAIN files :
       files[i].pkg = files[j].pkg => files[i].generate = files[j].generate
  /\ \A i \in DOMAIN files : \A t \in ToSet(files[i].enums) \cup ToSet(files[i].messages) :
       t.ref = Ref(files[i].pkg, t.ref.name)
  /\ \A e, d \in EnumsOf(files) : e.ref = d.ref => e = d
  /\ \A m, n \in MessagesOf(files) : m.ref = n.ref => m = n
  /\ Refs(EnumsOf(files)) \cap Refs(MessagesOf(files)) = {}
  /\ \A t \in EnumsOf(files) \cup MessagesOf(files) : t.ref.pkg \notin {NoRef.pkg, Google}
  /\ \A e \in EnumsOf(files) : WellFormedEnum(e)
  /\ \A m \in MessagesOf(files) : WellFormedMessage(m, files)

\* A change that buf's breaking rules allow: every message keeps its fields as they are,
\* every enum its values and, as both versions begin with 0, its first one.
Grows(old, new) ==
  /\ \A m \in MessagesOf(old) : \E n \in MessagesOf(new) :
       n.ref = m.ref /\ ToSet(m.fields) \subseteq ToSet(n.fields)
  /\ \A e \in EnumsOf(old) : \E n \in EnumsOf(new) :
       /\ n.ref = e.ref /\ ToSet(e.values) \subseteq ToSet(n.values)
       /\ n.values[1] = e.values[1]

\* The plugin is asked for packages of known names.  The contract's lifecycle has the
\* sentinel 0 and the state 1 that a bento starts in, and keeps its numbers.
ASSUME HistoryAssumption ==
  \A h \in Histories :
    LET last == Len(h.versions)
    IN  /\ last \in Nat \ {0} /\ \A v \in 1..last : WellFormed(h.versions[v])
        /\ \A v \in 1..last : \A w \in v..last : Grows(h.versions[v], h.versions[w])
        /\ \A p \in ToSet(h.opts.packages) : p \in Seq(ToSet(Lexicon))
        /\ \A v \in 1..last : \A e \in LifecycleOf(h.versions[v]) :
             /\ {0, 1} \subseteq Numbers(e) /\ Numbers(e) \subseteq Int
             /\ \A w \in v..last :
                  /\ LifecycleOf(h.versions[w]) # {}
                  /\ \A later \in LifecycleOf(h.versions[w]) : Numbers(e) \subseteq Numbers(later)
        /\ h.follows = "bento" => LifecycleOf(h.versions[1]) # {}

VARIABLES history,    \* the versions this contract goes through
          head,       \* the version the repository and its Go services are at
          crate,      \* the committed crate, and the version it was made from
          pinned,     \* the crate the Rust consumer is built with
          swift,      \* the version the Swift consumer is built from
          gate,       \* the verdict of the last run of the drift gate
          bento,      \* the state of the bento
          harness     \* the versions the two services' harnesses are made from

code == <<crate, pinned, swift, gate>>
walk == <<bento, harness>>
evolutionVars == <<history, head, code, walk>>

None == [is |-> "none"]

Contract(v) == history.versions[v]
RunRust(v, it) == RustCrate(Contract(v), history.opts, it)
Lifecycle(v) == LifecycleOf(Contract(v))
BentoEnum(v) == CHOOSE e \in Lifecycle(v) : TRUE

\* What a handler returns, declared by the contract or not.
Replies == -1..MaxNumber

-----------------------------------------------------------------------------
(* The contract, the crate and the consumers                               *)

EvolutionInit ==
  /\ history \in Histories
  /\ head = 1
  /\ crate  = [from |-> 0, out |-> NoCrate]
  /\ pinned = [from |-> 0, out |-> NoCrate]
  /\ swift = 1
  /\ gate = None
  /\ bento = 1
  /\ harness = [go |-> 1, python |-> 1]

\* A new version of the contract is merged.
Evolve ==
  /\ head < Len(history.versions)
  /\ head' = head + 1
  /\ UNCHANGED <<history, code, walk>>

\* buf generate at head: a refused contract leaves the committed crate alone.
BufGenerate(it) ==
  LET out == RunRust(head, it)
  IN  /\ crate.from # head
      /\ out.status = "ok"
      /\ crate' = [from |-> head, out |-> out]
  /\ UNCHANGED <<history, head, pinned, swift, gate, walk>>

\* The gen-drift job: a fresh run against the committed crate.
DriftGate(it) ==
  LET out == RunRust(head, it)
  IN  /\ history.follows = "crate"
      /\ gate' = [is   |-> CASE out.status # "ok" -> "refused"
                            [] out = crate.out   -> "clean"
                            [] OTHER             -> "drift",
                  head |-> head, from |-> crate.from]
  /\ UNCHANGED <<history, head, crate, pinned, swift, walk>>

\* A consumer is rebuilt.
PinCrate ==
  /\ pinned # crate
  /\ pinned' = crate
  /\ UNCHANGED <<history, head, crate, swift, gate, walk>>
RebuildSwift ==
  /\ history.follows = "messages"
  /\ swift < head
  /\ swift' = head
  /\ UNCHANGED <<history, head, crate, pinned, gate, walk>>
RebuildHarness(lang) ==
  /\ history.follows = "bento"
  /\ harness[lang] < head
  /\ harness' = [harness EXCEPT ![lang] = head]
  /\ UNCHANGED <<history, head, code, bento>>

-----------------------------------------------------------------------------
(* The bento                                                               *)

\* One service takes one step with its harness; its handler returns anything.
Walk(state) ==
  /\ history.follows = "bento"
  /\ bento' = state
  /\ UNCHANGED <<history, head, code, harness>>
StepGo(next) ==
  Walk(Step(goHarness(BentoEnum(harness.go)), bento, next).state)
StepPython(next) ==
  Walk(step(pyHarness(BentoEnum(harness.python)), bento, next).state)

-----------------------------------------------------------------------------

EvolutionNext ==
  \/ Evolve \/ PinCrate \/ RebuildSwift
  \/ \E it \in Iterations : BufGenerate(it) \/ DriftGate(it)
  \/ \E lang \in {"go", "python"} : RebuildHarness(lang)
  \/ \E next \in Replies : StepGo(next) \/ StepPython(next)

EvolutionSpec == EvolutionInit /\ [][EvolutionNext]_evolutionVars

-----------------------------------------------------------------------------
(* Properties                                                              *)

\* The drift gate fires only on a crate made from another version: what the
\* plugin writes does not depend on how Go iterates over its maps
\* (.github/workflows/ci.yml, gen-drift).
DriftMeansStale == gate.is = "drift" => gate.from # gate.head

\* Each package is reached from the crate's root, and nothing else is there.
Reached(c) ==
  /\ \A p \in DOMAIN c.packages : p \notin DOMAIN c.mods /\
       \A k \in DOMAIN p : p[k] \in ToSet(c.mods[SubSeq(p, 1, k - 1)])
  /\ \A n \in DOMAIN c.mods : \A i \in DOMAIN c.mods[n] :
       Append(n, c.mods[n][i]) \in DOMAIN c.mods \cup DOMAIN c.packages

\* No field of a module has a name that Rust reserves, raw or not.
LegalIdentifiers(b) ==
  \A n \in DOMAIN b.structs : \A i \in DOMAIN b.structs[n] :
    LET ident == b.structs[n][i].name
    IN  /\ ident.form = "plain" =>
             ident.name \notin {<<w>> : w \in rustKeywords \cup rawUnsafeKeywords}
        /\ ident.form = "raw" => ident.name \notin {<<w>> : w \in rawUnsafeKeywords}

\* A crate that is written is linked up, whatever packages were asked for.
CrateLinked ==
  crate.out.status = "ok" =>
    Reached(crate.out) /\ \A p \in DOMAIN crate.out.packages : LegalIdentifiers(crate.out.packages[p])

\* What is no name of a type: it is a keyword, or a name that the module uses as Rust,
\* its prelude or serde has it.
takenNames == {<<"self">>, <<"option">>, <<"string">>, <<"default">>, <<"serialize">>, <<"deserialize">>}

\* What rustc asks of a module, beside legal identifiers: distinct ones, none that is
\* taken, a default for each enum, every named type defined, and a finite size (an
\* Option is no box): in any set of structs one has no field of a type of the set.
Compiles(b) ==
  /\ (DOMAIN b.enums \cup DOMAIN b.structs) \cap takenNames = {}
  /\ \A n \in DOMAIN b.enums :
       LET ids == [i \in DOMAIN b.enums[n].variants |-> b.enums[n].variants[i].ident]
       IN  IsInjective(ids) /\ <<Title("unknown")>> \notin ToSet(ids)
             /\ b.enums[n].default # <<>>
  /\ \A n \in DOMAIN b.structs : \A i, j \in DOMAIN b.structs[n] :
       LET f == b.structs[n][i]
       IN  /\ f.name = b.structs[n][j].name => i = j
           /\ f.type.base = "named" => f.type.named \in DOMAIN b.enums \cup DOMAIN b.structs
  /\ \A S \in SUBSET DOMAIN b.structs : S # {} =>
       \E n \in S : \A i \in DOMAIN b.structs[n] :
         LET type == b.structs[n][i].type IN ~ (type.base = "named" /\ type.named \in S)

\* What is no name of a module; and what is none at the root, where Cargo finds its
\* targets: src/lib.rs, src/main.rs and src/bin/.
reservedModules == rustKeywords \cup rawUnsafeKeywords
cargoTargets == {"lib", "main", "bin"}

\* What rustc and Cargo ask of the module tree.
ModulesNamed(c) ==
  \A n \in DOMAIN c.mods : ToSet(c.mods[n]) \cap reservedModules = {}
                          /\ (n = <<>> => ToSet(c.mods[n]) \cap cargoTargets = {})

\* "__big_little_mesh_unknown__", the value that no enum has.
Alien == <<Nothing, Nothing, "big", "little", "mesh", "unknown", Nothing, Nothing>>

\* A struct with its optional fields Some of their default, and the rest at their default.
Present(b, n) ==
  LET some == {i \in DOMAIN b.structs[n] : b.structs[n][i].type.option}
      at(p) == b.structs[n][CHOOSE i \in some : <<b.structs[n][i].key>> = p].type
  IN  [p \in {<<>>} \cup {<<b.structs[n][i].key>> : i \in some} |->
         IF p = <<>> \/ (at(p).base = "named" /\ at(p).named \in DOMAIN b.structs)
           THEN Obj ELSE DefaultOf(b, at(p))]

\* The tests written beside the types hold of them.
TestsPass(b) ==
  /\ \A n \in DOMAIN b.tests.enums :
       /\ [ident |-> b.tests.enums[n].ident, rename |-> b.tests.enums[n].value]
            \in ToSet(b.enums[n].variants)
       /\ ReadEnum(b.enums[n], <<"str", Alien>>) = Unknown
  /\ \A n \in DOMAIN b.tests.msgs :
       /\ Holds(b, n, Empty)
       /\ \A f \in ToSet(b.tests.msgs[n]) :
            /\ f.optional = (<<f.key>> \notin DOMAIN Write(b, n, Empty))
            /\ f.optional => \E g \in ToSet(b.structs[n]) : g.name = f.name /\ g.type.option
            /\ f.optional => <<f.key>> \in DOMAIN Write(b, n, Present(b, n))

\* The messages that a crate of a version is made from refer to types of their own
\* package, or to Timestamp.
Spoken(v) == InScope(Contract(v), history.opts)
SelfContained(v) ==
  \A m \in MessagesOf(Spoken(v)) : \A i \in DOMAIN m.fields :
    m.fields[i].type \in {NoRef, Timestamp} \/ m.fields[i].type.pkg = m.ref.pkg

\* They are of finite size: in any set of them one has no field of a type of the set.
Finite(v) ==
  \A S \in SUBSET Refs(MessagesOf(Spoken(v))) : S # {} =>
    \E m \in MessagesOf(Spoken(v)) :
      m.ref \in S /\ \A i \in DOMAIN m.fields : m.fields[i].type \notin S

\* The names of the packages can be names of modules, those of the types of structs.
Nameable(v) ==
  /\ \A p \in Packages(Spoken(v)) : /\ ToSet(p) \cap reservedModules = {}
                                    /\ p[1] \notin cargoTargets
  /\ \A t \in EnumsOf(Spoken(v)) \cup MessagesOf(Spoken(v)) : t.ref.name \notin takenNames

\* What the plugin takes for granted of the packages it is asked for.  It does not look:
\* it writes a type of another package by its short name, a message within itself
\* without a box, and the names of packages and types as they are.
Expressible(v) == SelfContained(v) /\ Finite(v) /\ Nameable(v)

\* A committed crate is linked up; and it builds and passes the tests that the plugin
\* writes into it, if the packages it is made from are expressible: any other shape that
\* the plugin does not know is an error and no crate (the head comment of
\* protoc-gen-rust-serde).  The hand-written tests/golden_conformance.rs is not in it: a
\* field more is meant to break that.
CratePassesItsTests ==
  /\ CrateLinked
  /\ crate.out.status = "ok" /\ Expressible(crate.from) =>
       /\ ModulesNamed(crate.out)
       /\ \A p \in DOMAIN crate.out.packages :
            Compiles(crate.out.packages[p]) /\ TestsPass(crate.out.packages[p])

\* The lifecycle of a version has no negative number: protobuf, buf's lint and its
\* breaking rules allow one, and only the Go generator leaves it out.
Unsigned(v) == Lifecycle(v) # {} => \A n \in Numbers(BentoEnum(v)) : n >= 0

\* The two generated harnesses of one version do the same with a bento, for
\* every state it can arrive in and everything a handler may return, as long as the
\* lifecycle has no negative number.
HarnessParity ==
  \A v \in {harness.go, harness.python} : Lifecycle(v) # {} /\ Unsigned(v) =>
    \A next \in Replies :
      Step(goHarness(BentoEnum(v)), bento, next)
        = step(pyHarness(BentoEnum(v)), bento, next)

\* No step, by a harness of any age, leaves a bento in a state that is not an
\* active one of the contract: not in the sentinel, a reserved or a made-up one (if no
\* version had a negative one).
BentoStaysActive ==
  Lifecycle(head) # {} /\ Unsigned(head) =>
    \E i \in DOMAIN BentoEnum(head).values :
      BentoEnum(head).values[i].number = bento /\ bento \in 1..19

=============================================================================
