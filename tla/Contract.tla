------------------------------ MODULE Contract ------------------------------
(***************************************************************************)
(* Protobuf contracts as protoc hands them to a plugin: the descriptors of *)
(* the external protogen, reduced to what the plugins of cmd/ look at.     *)
(*                                                                         *)
(* A name is the sequence of its words in lower case.  A proto field or    *)
(* enum value joins them by "_", a type name capitalises them; buf's STANDARD lint holds the contracts to these *)
(* forms.  An identifier made from a name keeps the case of each word.     *)
(***************************************************************************)
EXTENDS Integers, SequencesExt

\* What stands between two underscores that are neighbours; no name of a contract has it.
Nothing == ""
Lower(w) == <<w, "lower">>
Title(w) == <<w, "Title">>

\* A type is known by its package and its name.
Ref(pkg, name) == [pkg |-> pkg, name |-> name]
NoRef     == Ref(<<>>, <<>>)
Google    == <<"google", "protobuf">>
Timestamp == Ref(Google, <<"timestamp">>)
Struct    == Ref(Google, <<"struct">>)
Value     == Ref(Google, <<"value">>)

\* The fields of a message.
Field(name, kind, type) ==
  [name |-> name, kind |-> kind, type |-> type, card |-> "one", optional |-> FALSE]
Str(name)        == Field(name, "string", NoRef)
U32(name)        == Field(name, "uint32", NoRef)
I64(name)        == Field(name, "int64", NoRef)
Flag(name)       == Field(name, "bool", NoRef)
Octets(name)     == Field(name, "bytes", NoRef)
EnumF(name, ref) == Field(name, "enum", ref)
Msg(name, ref)   == Field(name, "message", ref)
Rep(f)           == [f EXCEPT !.card = "list"]
MapTo(f)         == [f EXCEPT !.card = "map"]    \* from strings
Opt(f)           == [f EXCEPT !.optional = TRUE]

Message(ref, fields) == [ref |-> ref, fields |-> fields, nested |-> FALSE]

\* An enum whose value names begin with its own; words are numbered from zero.
EnumValue(ref, word, n) == [name |-> ref.name \o word, number |-> n]
Enum(ref, words) ==
  [ref |-> ref, values |-> [i \in DOMAIN words |-> EnumValue(ref, words[i], i - 1)]]

\* A file; one that is only imported is not generated for.  A contract is the
\* sequence of its files.
File(path, pkg, enums, messages) ==
  [path |-> path, pkg |-> pkg, enums |-> enums, messages |-> messages, generate |-> TRUE]

EnumsOf(files)    == UNION {ToSet(files[i].enums) : i \in DOMAIN files}
MessagesOf(files) == UNION {ToSet(files[i].messages) : i \in DOMAIN files}
MessageAt(files, ref) == CHOOSE m \in MessagesOf(files) : m.ref = ref

\* The members of a set, in the order a sequence has them in.
Within(q, S) ==
  LET upTo[i \in 0..Len(q)] ==
        IF i = 0 THEN <<>>
        ELSE IF q[i] \in S THEN Append(upTo[i - 1], q[i]) ELSE upTo[i - 1]
  IN  upTo[Len(q)]

OfPackages(files, pkgs) == Within(files, {f \in ToSet(files) : f.pkg \in pkgs})

\* The type of a generated field: a scalar or a named type, alone, as a list or as a
\* map's values, and whether it is an Option.
Scalar(base) == [base |-> base, named |-> <<>>, card |-> "one", option |-> FALSE]
Named(name)  == [Scalar("named") EXCEPT !.named = name]
Option(type) == [type EXCEPT !.option = TRUE]

=============================================================================
