----------------------------- MODULE MCCodegen -----------------------------
(* Instances of Codegen for TLC: the contracts of the mesh and what may be *)
(* added to them, and small contracts with the shapes and package names    *)
(* the mesh does not have yet.                                             *)
EXTENDS Codegen, FleetContract

MCLexicon == <<"a.proto", "auth", "b.proto", "bento", "model", "observability",
               "registry", "sidecar", "type", "v1", "v2">>

\* Two orders of a map's keys, which disagree on every pair.
MCIterations == {MCLexicon, Reverse(MCLexicon)}

\* What buf's breaking rules allow.
AddValue(files, ref, word, n) ==
  [i \in DOMAIN files |-> [files[i] EXCEPT !.enums = [j \in DOMAIN @ |->
     IF @[j].ref # ref THEN @[j]
     ELSE [@[j] EXCEPT !.values = Append(@, EnumValue(ref, word, n))]]]]
AddField(files, ref, f) ==
  [i \in DOMAIN files |-> [files[i] EXCEPT !.messages = [j \in DOMAIN @ |->
     IF @[j].ref # ref THEN @[j] ELSE [@[j] EXCEPT !.fields = Append(@, f)]]]]

Observed(name) == InObservability(name)
Grown1 == AddField(AddValue(Fleet, Observed(<<"health", "state">>), <<"draining">>, 5),
                   Observed(<<"service", "health", "heartbeat">>), Str(<<"region">>))
Grown2 == AddField(AddValue(Fleet, InModel(<<"role">>), <<"rerank">>, 8),
                   InModel(<<"invoke", "response">>),
                   Msg(<<"model", "used">>, InModel(<<"model", "descriptor">>)))
Grown3 == AddValue(AddValue(Fleet, InBento(<<"bento", "state">>), <<"plated">>, 6),
                   InBento(<<"bento", "state">>), <<"boxed">>, 19)

\* A lifecycle with a negative number: the two harnesses of it differ.
Signed == AddValue(Fleet, InBento(<<"bento", "state">>), <<"scrapped">>, -1)

Obs == <<observabilityPkg>>
Default(versions, follows) ==
  [versions |-> versions, follows |-> follows,
   opts |-> [crate_name |-> "contracts", packages |-> Obs]]

\* Packages of one message each.
Leaf(path, pkg, fields) ==
  File(path, pkg, <<Enum(Ref(pkg, <<"mood">>), <<<<"unspecified">>, <<"unknown">>>>)>>,
       <<Message(Ref(pkg, <<"note">>), fields)>>)
V(pkg, v) == <<pkg, v>>
Odd == <<Str(<<"type">>), Opt(U32(<<"self">>)), Str(<<"type", "name">>),
         Opt(EnumF(<<"match">>, Ref(V("registry", "v1"), <<"mood">>)))>>
Tree == <<Leaf("a.proto", V("registry", "v1"), Odd), Leaf("b.proto", V("registry", "v2"), <<>>),
          Leaf("a.proto", V("auth", "v1"), <<Str(<<"name">>)>>)>>
Above == Append(Tree, Leaf("b.proto", <<"registry">>, <<>>))
Lists == Append(Tree, Leaf("b.proto", V("model", "v1"), <<Rep(Str(<<"name">>))>>))
\* Packages that the plugin takes and rustc refuses: a message within itself, a keyword, a
\* name of the prelude, and a type of another package.
Looped == <<Leaf("a.proto", V("registry", "v1"), <<Msg(<<"reply">>, Ref(V("registry", "v1"), <<"note">>))>>)>>
Keyword == <<Leaf("a.proto", <<"auth", "type">>, <<Str(<<"name">>)>>)>>
Shadow  == <<File("a.proto", V("auth", "v1"), <<>>, <<Message(Ref(V("auth", "v1"), <<"option">>), <<Opt(U32(<<"at">>))>>)>>)>>
Foreign == <<Leaf("a.proto", V("registry", "v1"), <<>>),
             Leaf("b.proto", V("auth", "v1"), <<Msg(<<"from">>, Ref(V("registry", "v1"), <<"note">>))>>)>>
TreeOpts == [crate_name |-> "tree",
             packages |-> <<V("registry", "v1"), <<>>, V("registry", "v2"), V("auth", "v1"),
                            <<"registry">>, V("model", "v1"), <<"auth", "type">>>>]

\* The packages a consumer speaks, before and after.
Rusty(files) == OfPackages(files, {observabilityPkg})
Swifty(files) == OfPackages(files, {modelPkg, sidecarPkg})

MCHistories ==
  {Default(<<Rusty(Fleet), Rusty(Grown1)>>, "messages"),
   Default(<<Swifty(Fleet), Swifty(Grown2)>>, "messages"),
   Default(<<Fleet, Grown1>>, "crate"),
   Default(<<Fleet, Grown3>>, "bento"), Default(<<Fleet, Signed>>, "bento")} \cup
  {[versions |-> vs, follows |-> "crate", opts |-> TreeOpts] :
     vs \in {<<Tree, Above>>, <<Tree, Lists>>, <<Above>>,
             <<Looped>>, <<Keyword>>, <<Shadow>>, <<Foreign>>}}

-----------------------------------------------------------------------------
(* The messages that are tried                                             *)

At(key, msg) == [p \in {<<key>> \o q : q \in DOMAIN msg} |-> msg[Tail(p)]]
Leaf1(j) == [p \in {<<>>} |-> j]
First == CHOOSE place \in Places : TRUE

RECURSIVE Messages(_, _, _)

\* A few values of a field that are not its default (with presence, its default too).
Samples(files, f, size) ==
  LET enum == CHOOSE e \in EnumsOf(files) : e.ref = f.type
      one  == CASE f.kind = "string" -> {Leaf1(<<"str", <<"x">>>>)}
                [] f.kind = "uint32" -> {Leaf1(<<"num", 7>>)}
                [] f.type = Timestamp -> {Leaf1(<<"str", <<"noon">>>>)}
                [] f.kind = "enum" ->
                     {Leaf1(<<"str", enum.values[i].name>>) : i \in {2, Len(enum.values) - 1, Len(enum.values)}}
                [] OTHER -> Messages(files, f.type, size - 1)
  IN  CASE f.card = "list" -> {Leaf1(Arr) @@ At(First, x) : x \in one}
        [] f.card = "map"  -> {Leaf1(<<"map", <<"k", "x">>>>)}
        [] f.optional      -> one \cup {Leaf1(DefaultOf(<<>>, [GoType(f) EXCEPT !.option = FALSE]))}
        [] OTHER -> one

\* The messages of a type with up to size (at most two) fields populated.
Messages(files, ref, size) ==
  LET fs == ToSet(MessageAt(files, ref).fields)
      entries == IF size < 1 THEN {}
                 ELSE UNION {{At(JsonKey(f.name), v) : v \in Samples(files, f, size)} : f \in fs}
  IN  {Empty} \cup {Empty @@ x @@ y : x, y \in IF size < 2 THEN {} ELSE entries}
              \cup {Empty @@ x : x \in entries}

\* Of the newest versions; an older service has no type for some of them.
MCDrafts ==
  LET files == Rusty(Grown1) \o Swifty(Grown2)
  IN  [ref \in Refs(MessagesOf(files)) |-> Messages(files, ref, 2)]

=============================================================================
