------------------------------ MODULE Codegen ------------------------------
(***************************************************************************)
(* The messages that the generated code of Evolution carries: Go services  *)
(* send them as protojson to consumers in Rust and in Swift, of any age,   *)
(* and read what these write.                                              *)
(***************************************************************************)
EXTENDS Evolution

Swift == INSTANCE SwiftCodable

CONSTANT Drafts    \* of each type, the messages that a service tries to send (bound)

VARIABLES flight,     \* the message on the wire
          got         \* what the last reader made of its message

traffic == <<flight, got>>
vars == <<evolutionVars, traffic>>

Init == EvolutionInit /\ flight = None /\ got = None

\* The Go types of a version, and the Rust and the Swift types that consumers have.
Go(v) == GoBindings(Contract(v))
Rust(pkg) == pinned.out.packages[pkg]
SwiftFiles(v) == Swift!SwiftFiles(Contract(v))

\* The types a consumer can read.
RustReads  == IF pinned.out.status # "ok" THEN {}
              ELSE UNION {{Ref(p, n) : n \in DOMAIN Rust(p).structs} : p \in DOMAIN pinned.out.packages}
SwiftReads == IF SwiftFiles(swift).status # "ok" THEN {}
              ELSE Refs(MessagesOf(Swift!InScope(Contract(swift))))

-----------------------------------------------------------------------------
(* A message goes to a consumer and back                                   *)

\* A Go service at head sends a message of a type some consumer reads; it stays
\* where it can be read again.
Send(ref) ==
  /\ history.follows = "messages"
  /\ flight = None
  /\ \E msg \in Drafts[ref] :
       /\ Holds(Go(head), ref, msg)
       /\ flight' = [is |-> "message", ref |-> ref, version |-> head, sent |-> msg,
                     json |-> Write(Go(head), ref, msg)]
  /\ UNCHANGED <<evolutionVars, got>>

\* The consumer reads it and writes what it holds; Go, at head, reads that.
Receive(lang, by, bindings) ==
  LET value == Read(bindings, flight.ref.name, flight.json)
  IN  got' = [is |-> "read", lang |-> lang, by |-> by, value |-> value,
              back |-> Read(Go(head), flight.ref, Write(bindings, flight.ref.name, value))]
  /\ UNCHANGED <<evolutionVars, flight>>

ReceiveRust  == /\ flight # None /\ flight.ref \in RustReads
                /\ Receive("rust", pinned.from, Rust(flight.ref.pkg))
ReceiveSwift == /\ flight # None /\ flight.ref \in SwiftReads
                /\ Receive("swift", swift, SwiftFiles(swift))

-----------------------------------------------------------------------------

Next ==
  \/ EvolutionNext /\ UNCHANGED traffic
  \/ \E ref \in RustReads \cup SwiftReads : Send(ref)
  \/ ReceiveRust \/ ReceiveSwift

Spec == Init /\ [][Next]_vars

-----------------------------------------------------------------------------
(* Properties                                                              *)

\* The contracts that a plugin can make faithful types from.  Rust names a type by the
\* module of its own package.  Swift has one module for all its packages, no Timestamp,
\* and no presence of a scalar.
SwiftSpeaks(v) ==
  LET scope == Swift!InScope(Contract(v))
      types == EnumsOf(scope) \cup MessagesOf(scope)
  IN  /\ \A t, u \in types : t.ref.name = u.ref.name => t = u
      /\ \A m \in MessagesOf(scope) : \A i \in DOMAIN m.fields :
           ~ m.fields[i].optional /\ m.fields[i].type \in {NoRef} \cup Refs(types)
Speaks(lang, v) == IF lang = "rust" THEN SelfContained(v) ELSE SwiftSpeaks(v)

\* What a reader with the types of version v can make of a message: the fields it knows,
\* with an enum value it does not know turned to `other`.
Seen(v, ref, msg, other) ==
  LET known == Known(Go(v), ref, msg)
      val   == [p \in known |-> IF ReadLeaf(Go(v), TypeAt(Go(v), ref, p), msg[p]) = Fail
                                  THEN other ELSE msg[p]]
  IN  IF \E p \in known : val[p] = Fail THEN Refused ELSE val

\* A reader of any age gets the sent value of every field it knows, whoever is
\* behind: a Rust reader never fails (an enum value added since is Unknown), a
\* Swift reader fails on such a value only.
ReadsWhatItKnows ==
  got.is = "read" /\ Speaks(got.lang, got.by) =>
    got.value = Seen(got.by, flight.ref, flight.sent, IF got.lang = "rust" THEN Unknown ELSE Fail)

\* A message relayed by a consumer comes back to Go as the consumer held it;
\* it is refused only when the consumer is older than the message.
RelayKeepsMessage ==
  got.is = "read" /\ Speaks(got.lang, got.by) =>
    \/ got.back = got.value
    \/ got.back = Refused /\ got.by < flight.version

=============================================================================
