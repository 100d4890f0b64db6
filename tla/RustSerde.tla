----------------------------- MODULE RustSerde -----------------------------
(***************************************************************************)
(* cmd/protoc-gen-rust-serde: a serde crate from the packages of a         *)
(* contract that a Rust consumer speaks.  RustCrate is one run of the      *)
(* plugin; `it` is the order in which this run happens to iterate over its *)
(* maps, and the crate is the content of every file that is written.       *)
(***************************************************************************)
EXTENDS Contract

CONSTANT Lexicon    \* path elements and file paths, in the order of strings

\* Go iterates over a map in any order; sort.Strings puts keys in theirs.
Iterate(S, it) == Within(it, S)
\* (the keys as they came)
sortedKeysUnsorted(S, it) == Iterate(S, it)
sortedKeys(S, it) ==
  LET out == Iterate(S, it)
  IN  Within(Lexicon, ToSet(out))

-----------------------------------------------------------------------------
(* Names                                                                   *)

\* The words of a name between its underscores, empty ones dropped.
Parts(s) ==
  LET words == [i \in DOMAIN s |-> <<i, s[i]>>]
  IN  Within(words, {p \in ToSet(words) : p[2] # Nothing})

\* The JSON key of a field.
lowerCamel(s) ==
  [k \in DOMAIN Parts(s) |-> IF Parts(s)[k][1] = 1 THEN Lower(Parts(s)[k][2])
                                                   ELSE Title(Parts(s)[k][2])]

\* The variant of an enum value, the name of a type in snake case.
pascalCase(s) == [k \in DOMAIN Parts(s) |-> Title(Parts(s)[k][2])]
snakeFromPascal(name) == [i \in DOMAIN name |-> Lower(name[i])]

rawUnsafeKeywords == {"crate", "self", "super"}
rustKeywords ==
  {"as", "break", "const", "continue", "dyn", "else", "enum", "extern", "false",
   "fn", "for", "if", "impl", "in", "let", "loop", "match", "mod", "move", "mut",
   "pub", "ref", "return", "static", "struct", "trait", "true", "type", "unsafe",
   "use", "where", "while", "async", "await", "abstract", "become", "box", "do",
   "final", "macro", "override", "priv", "typeof", "unsized", "virtual", "yield",
   "try", "union"}

\* (every keyword becomes a raw identifier)
rustIdentRaw(name) ==
  IF Len(name) = 1 /\ name[1] \in rustKeywords \cup rawUnsafeKeywords
    THEN [form |-> "raw", name |-> name] ELSE [form |-> "plain", name |-> name]
\* A field's identifier: r#type for a keyword, self_ for one that may not be raw.
rustIdent(name) ==
  IF Len(name) = 1 /\ name[1] \in rawUnsafeKeywords
    THEN [form |-> "plain", name |-> Append(name, Nothing)]
  ELSE IF Len(name) = 1 /\ name[1] \in rustKeywords
    THEN [form |-> "raw", name |-> name]
  ELSE [form |-> "plain", name |-> name]

-----------------------------------------------------------------------------
(* Fields, messages, enums                                                 *)

\* The shapes mapField does not turn into an error.
Maps(f) == f.card = "one" /\ f.kind \in {"string", "uint32", "enum", "message"}

\* (presence is not tracked)
wrapOptionalPlain(f, type) == [type |-> type, skip |-> FALSE]
\* proto3's optional: an Option that is left out when it is empty.
wrapOptional(f, type) ==
  [type |-> IF f.optional THEN Option(type) ELSE type, skip |-> f.optional]

mapField(f) ==
  LET rust == CASE f.kind = "string" -> wrapOptional(f, Scalar("string"))
                [] f.kind = "uint32" -> wrapOptional(f, Scalar("u32"))
                [] f.kind = "enum"   -> wrapOptional(f, Named(f.type.name))
                [] f.kind = "message" ->
                     [type |-> Option(IF f.type = Timestamp THEN Scalar("string")
                                                            ELSE Named(f.type.name)),
                      skip |-> TRUE]
  IN  [name |-> rustIdent(f.name), key |-> lowerCamel(f.name),
       type |-> rust.type, skip |-> rust.skip]

\* A message without nested types, each of its fields of a known shape.
Emits(m) == ~ m.nested /\ \A i \in DOMAIN m.fields : Maps(m.fields[i])
genMessage(m) == [i \in DOMAIN m.fields |-> mapField(m.fields[i])]

Variants(e) == [i \in DOMAIN e.values |->
                  [ident |-> pascalCase(e.values[i].name), rename |-> e.values[i].name]]
\* (no catch-all)
genEnumClosed(e) ==
  [variants |-> Variants(e), known |-> {e.values[i].name : i \in DOMAIN e.values},
   default |-> e.values[1].name, other |-> FALSE]
\* The variants with their renames, the value 0 as the default, and the
\* catch-all Unknown.
genEnum(e) ==
  LET zero == Within(e.values, {v \in ToSet(e.values) : v.number = 0})
  IN  [variants |-> Variants(e),
       known    |-> {e.values[i].name : i \in DOMAIN e.values},
       default  |-> IF zero = <<>> THEN <<>> ELSE zero[1].name,
       other    |-> TRUE]

\* The conformance module: of each enum its first value, by variant and name, and of
\* each message the fields, by name and key, and which of them are an Option: left out
\* when it is None, and there when it is Some.
enumInfo(e) == [ident |-> pascalCase(e.values[1].name), value |-> e.values[1].name]
msgInfo(m)  == [i \in DOMAIN m.fields |->
                  [name |-> mapField(m.fields[i]).name, key |-> mapField(m.fields[i]).key,
                   optional |-> mapField(m.fields[i]).skip]]
genTests(enums, msgs) ==
  [fns   |-> {snakeFromPascal(t.ref.name) : t \in enums \cup msgs},
   enums |-> [n \in {e.ref.name : e \in enums} |->
                enumInfo(CHOOSE e \in enums : e.ref.name = n)],
   msgs  |-> [n \in {m.ref.name : m \in msgs} |->
                msgInfo(CHOOSE m \in msgs : m.ref.name = n)]]

-----------------------------------------------------------------------------
(* Packages and the crate                                                  *)

\* The module of one package, from its files in the order of their paths.
genPackage(files) ==
  LET enums == EnumsOf(files)
      msgs  == MessagesOf(files)
  IN  [sources |-> Within(Lexicon, {files[i].path : i \in DOMAIN files}),
       enums   |-> [n \in {e.ref.name : e \in enums} |->
                      genEnum(CHOOSE e \in enums : e.ref.name = n)],
       structs |-> [n \in {m.ref.name : m \in msgs} |->
                      genMessage(CHOOSE m \in msgs : m.ref.name = n)],
       tests   |-> genTests(enums, msgs),
       strict  |-> FALSE, sparse |-> FALSE]

\* The nodes of the module tree above the packages; <<>> is the crate's root.
Nodes(pkgs) == {<<>>} \cup UNION {{SubSeq(p, 1, k) : k \in 1..Len(p) - 1} : p \in pkgs}
Children(pkgs, n) == {p[Len(n) + 1] : p \in {q \in pkgs : IsStrictPrefix(n, q)}}

\* A package's module declares no children, so none may be another's ancestor.
TreeFits(pkgs) == Nodes(pkgs) \cap pkgs = {}

\* The root and each stub declare their children in order.
genLibRoot(pkgs, it) == sortedKeys(Children(pkgs, <<>>), it)
genModuleTree(pkgs, it) ==
  [n \in Nodes(pkgs) \ pkgs |->
     IF n = <<>> THEN genLibRoot(pkgs, it) ELSE sortedKeys(Children(pkgs, n), it)]

genCargoToml(name) ==
  [name |-> name, publish |-> FALSE, uses |-> {"serde"}, testUses |-> {"serde_json"}]

\* The allowlist of the packages option; empty entries are dropped.
parsePackages(spec) == ToSet(spec) \ {<<>>}

NoCrate == [status |-> "none"]
Failed  == [status |-> "error"]

\* The files that a crate is asked of, and their packages.
InScope(files, opts) ==
  Within(files, {f \in ToSet(files) : f.generate /\ f.pkg \in parsePackages(opts.packages)})
Packages(files) == {files[i].pkg : i \in DOMAIN files}

\* One run over the files of an invocation: no file is in scope, a package or
\* the tree is refused, or the whole crate is written.
RustCrate(files, opts, it) ==
  LET scope == InScope(files, opts)
      pkgs  == Packages(scope)
  IN  IF pkgs = {} THEN NoCrate
      ELSE IF ~ (TreeFits(pkgs) /\ \A m \in MessagesOf(scope) : Emits(m)) THEN Failed
      ELSE [status   |-> "ok",
            manifest |-> genCargoToml(opts.crate_name),
            mods     |-> genModuleTree(pkgs, it),
            packages |-> [p \in pkgs |-> genPackage(OfPackages(scope, {p}))]]

=============================================================================
