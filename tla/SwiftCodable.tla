---------------------------- MODULE SwiftCodable ----------------------------
(***************************************************************************)
(* cmd/protoc-gen-swift-codable: Codable structs and String enums for the  *)
(* packages the Swift provider speaks.  SwiftFiles is one run of the       *)
(* plugin; the generated files are compiled into one Swift module.         *)
(***************************************************************************)
EXTENDS Contract

swiftPackages == {<<"model", "v1">>, <<"sidecar", "v1">>}

\* The property of a field and the case of an enum value; the property's name
\* is also the field's JSON key.
lowerCamel(s) ==
  LET words == [i \in DOMAIN s |-> <<i, s[i]>>]
      parts == Within(words, {p \in ToSet(words) : p[2] # Nothing})
  IN  [k \in DOMAIN parts |-> IF parts[k][1] = 1 THEN Lower(parts[k][2])
                                                 ELSE Title(parts[k][2])]

\* String-backed; decoding a string that is no case throws.
genEnum(e) ==
  LET zero == Within(e.values, {v \in ToSet(e.values) : v.number = 0})
  IN  [cases   |-> [i \in DOMAIN e.values |-> lowerCamel(e.values[i].name)],
       known   |-> {e.values[i].name : i \in DOMAIN e.values},
       default |-> IF zero = <<>> THEN e.values[1].name ELSE zero[1].name,
       other   |-> FALSE]

\* The shapes that are not an error.
Maps(f) == IF f.card = "map" THEN f.kind = "string"
                             ELSE f.kind \in {"string", "enum", "message"}

baseType(f) == IF f.kind = "string" THEN Scalar("string") ELSE Named(f.type.name)

\* A singular message is optional; a scalar never is, whatever the contract's
\* `optional` says.
mapField(f) ==
  LET optional == f.card = "one" /\ f.kind = "message"
  IN  [key |-> lowerCamel(f.name), skip |-> optional,
       type |-> [baseType(f) EXCEPT !.card = f.card, !.option = optional]]

Emits(m) == \A i \in DOMAIN m.fields : Maps(m.fields[i])
genMessage(m) == [i \in DOMAIN m.fields |-> mapField(m.fields[i])]

genSwift(files) ==
  [status  |-> "ok",
   enums   |-> [n \in {e.ref.name : e \in EnumsOf(files)} |->
                  genEnum(CHOOSE e \in EnumsOf(files) : e.ref.name = n)],
   structs |-> [n \in {m.ref.name : m \in MessagesOf(files)} |->
                  genMessage(CHOOSE m \in MessagesOf(files) : m.ref.name = n)],
   strict  |-> FALSE, sparse |-> FALSE]

\* The files of an invocation that are generated for.
InScope(files) == Within(files, {f \in ToSet(files) : f.generate /\ f.pkg \in swiftPackages})

SwiftFiles(files) ==
  IF \E m \in MessagesOf(InScope(files)) : ~ Emits(m) THEN [status |-> "error"]
  ELSE genSwift(InScope(files))

=============================================================================
