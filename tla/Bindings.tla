------------------------------ MODULE Bindings ------------------------------
(***************************************************************************)
(* What a plugin generates for one package, and what the JSON library of   *)
(* the target language makes of it: serde_json for Rust, Codable for       *)
(* Swift, protojson for Go (and json_format for Python, the same rules).   *)
(*                                                                         *)
(* A binding has enums (known value names, default, a catch-all or not)    *)
(* and structs (fields with a JSON key, a type, and whether an empty       *)
(* Option is left out).  A message, as JSON or as a program holds it, is a *)
(* function: from the paths of the values in it (the steps that lead to a  *)
(* value, a step being a key or a place in a list) to what is there.  So   *)
(* the root is at <<>>, and messages within messages need no recursion.    *)
(* What is in a map is one leaf.  A program holds, of a message, what is   *)
(* not at its default.                                                     *)
(***************************************************************************)
EXTENDS Contract

\* What can be at a path: an object or a list (what they contain is at longer paths), or
\* a leaf, a pair <<tag, value>>.
Obj == <<"obj", <<>>>>
Arr == <<"arr", <<>>>>
Fail == <<"fail", <<>>>>
Unknown == <<"str", <<"Unknown">>>>

\* The steps of a path: JSON keys, and the places in a list (two of them, a bound).
Steps == Seq(STRING \X {"lower", "Title", "nth"})
Places == {<<<<n, "nth">>>> : n \in {"1", "2"}}

\* A message has a root, and every value of it is in one that it has.
IsMessage(msg) ==
  /\ DOMAIN msg \subseteq Seq(Steps) /\ <<>> \in DOMAIN msg
  /\ \A p \in DOMAIN msg : p # <<>> => Front(p) \in DOMAIN msg

Empty == [p \in {<<>>} |-> Obj]
\* What a reader has that refuses what it reads: not even a root.
Refused == <<>>

-----------------------------------------------------------------------------
(* Types and leaves                                                        *)

NoType == Scalar("none")

Fields(b, type) ==
  IF type.base = "named" /\ type.card = "one" /\ type.named \in DOMAIN b.structs
    THEN ToSet(b.structs[type.named]) ELSE {}

\* The type one step below a type, if the step leads anywhere.  Like an Option, what is
\* in a list is never left out.
Below(b, type, step) ==
  IF type.card = "list" /\ step \in Places THEN [Option(type) EXCEPT !.card = "one"]
  ELSE IF \E f \in Fields(b, type) : f.key = step
         THEN (CHOOSE f \in Fields(b, type) : f.key = step).type
  ELSE NoType

\* The type at the end of a path in the struct s, from those on the way.
TypeAt(b, s, path) ==
  LET after[n \in 0..Len(path)] ==
        IF n = 0 THEN Option(Named(s)) ELSE Below(b, after[n - 1], path[n])
  IN  after[Len(path)]

\* A string read as an enum: a value it does not know is the catch-all, if there is one.
ReadEnum(enum, j) ==
  IF j[1] = "str" /\ j[2] \in enum.known THEN j
  ELSE IF j[1] = "str" /\ enum.other THEN Unknown ELSE Fail

\* What is at one path, read at its type.
ReadLeaf(b, type, j) ==
  IF type.base = "named" /\ type.card = "one" /\ type.named \in DOMAIN b.enums
    THEN ReadEnum(b.enums[type.named], j)
  ELSE LET fits == IF type.card = "list" THEN j = Arr
                   ELSE IF type.card = "map" THEN j[1] = "map"
                   ELSE CASE type.base = "string" -> j[1] = "str"
                          [] type.base = "u32"    -> j[1] = "num"
                          [] OTHER                -> j = Obj
       IN  IF fits THEN j ELSE Fail

\* The default of a type that is no Option.
DefaultOf(b, type) ==
  IF type.card = "list" THEN Arr
  ELSE IF type.card = "map" THEN <<"map", <<>>>>
  ELSE CASE type.base = "string" -> <<"str", <<>>>>
         [] type.base = "u32"    -> <<"num", 0>>
         [] OTHER                -> <<"str", b.enums[type.named].default>>

-----------------------------------------------------------------------------
(* Messages                                                                *)

\* The paths of a message that a reader has a type for.
Known(b, s, msg) == {p \in DOMAIN msg : TypeAt(b, s, p).base # "none"}

\* What is left out of what is held: a list with nothing in it, a leaf at its default.
AtDefault(b, type, msg, p, j) ==
  IF type.card = "list" THEN \A place \in Places : Append(p, place) \notin DOMAIN msg
                        ELSE j = DefaultOf(b, type)

\* A message read into the struct s.  Only a strict reader minds what it does not know.
Read(b, s, msg) ==
  LET known == Known(b, s, msg)
      val   == [p \in known |-> ReadLeaf(b, TypeAt(b, s, p), msg[p])]
      kept  == {p \in known : LET type == TypeAt(b, s, p)
                              IN  type.option \/ ~ AtDefault(b, type, msg, p, val[p])}
  IN  IF (\E p \in known : val[p] = Fail) \/ (b.strict /\ known # DOMAIN msg) THEN Refused
      ELSE [p \in kept |-> val[p]]

\* The struct s written as JSON: what it holds, and fields at their default.  protojson
\* leaves these out, the others leave out what the field's declaration says.
Write(b, s, msg) ==
  LET shown(q) == {f \in Fields(b, TypeAt(b, s, q)) : ~ (b.sparse \/ f.skip)}
      added == UNION {{Append(q, f.key) : f \in shown(q)} : q \in DOMAIN msg}
  IN  [p \in DOMAIN msg \cup added |->
         IF p \in DOMAIN msg THEN msg[p] ELSE DefaultOf(b, TypeAt(b, s, p))]

\* The messages that a struct can hold.
Holds(b, s, msg) == IsMessage(msg) /\ Read(b, s, msg) = msg

-----------------------------------------------------------------------------
(* protoc-gen-go and protojson, for all packages of a contract             *)

\* The JSON key of a field: an underscore goes, and the letter after it is a
\* capital.
JsonKey(name) ==
  [i \in DOMAIN name |-> IF i = 1 THEN Lower(name[i]) ELSE Title(name[i])]

GoType(f) ==
  LET base == IF f.type = Timestamp THEN Scalar("string")
              ELSE CASE f.kind \in {"enum", "message"} -> Named(f.type)
                     [] f.kind = "uint32" -> Scalar("u32")
                     [] OTHER -> Scalar("string")
  IN  [base EXCEPT !.card = f.card,
                   !.option = f.card = "one" /\ (f.optional \/ f.kind = "message")]

GoBindings(files) ==
  [enums   |-> [r \in {e.ref : e \in EnumsOf(files)} |->
                  LET vs == (CHOOSE e \in EnumsOf(files) : e.ref = r).values
                  IN  [known |-> {vs[i].name : i \in DOMAIN vs},
                       default |-> vs[1].name, other |-> FALSE]],
   structs |-> [r \in {m.ref : m \in MessagesOf(files)} |->
                  LET fs == MessageAt(files, r).fields
                  IN  [i \in DOMAIN fs |->
                         [key |-> JsonKey(fs[i].name), type |-> GoType(fs[i]),
                          skip |-> TRUE]]],
   strict  |-> TRUE, sparse |-> TRUE]

=============================================================================
