----------------------------- MODULE FsmHarness -----------------------------
(***************************************************************************)
(* cmd/protoc-gen-fsm: the lifecycle harness generated from the contract's *)
(* BentoState, once in Go and once in Python.  goHarness and pyHarness are *)
(* the tables the two generators write; Step and step are what the written *)
(* code does with one bento.  The numbers of an enum are distinct (buf's   *)
(* lint lets no alias through).  They may be negative; the two generators  *)
(* do not treat such a number alike.                                       *)
(***************************************************************************)
EXTENDS Contract

\* Go words of an identifier.
camel(words) == [i \in DOMAIN words |-> Title(words[i])]
screamingSnake(name) == name

\* The enum's name is cut off the front of a value's.
TrimPrefix(words, prefix) ==
  IF IsPrefix(prefix, words) THEN SubSeq(words, Len(prefix) + 1, Len(words)) ELSE words

\* The value numbered 0, the sentinel; the first one declared if there is none.
Zeros(e) == {v \in ToSet(e.values) : v.number = 0}
zeroIdent(e) == IF Zeros(e) = {} THEN e.values[1] ELSE CHOOSE v \in Zeros(e) : TRUE

\* A value with its handler's name.
Bound(v, e) ==
  [number |-> v.number, method |-> camel(TrimPrefix(v.name, screamingSnake(e.ref.name)))]

\* (the reserved numbers begin at 21)
activeStatesWide(e) == {Bound(v, e) : v \in {v \in ToSet(e.values) : v.number > 0 /\ v.number <= 20}}

\* The values a handler is bound to: 1..19.
activeStates(e) == {Bound(v, e) : v \in {v \in ToSet(e.values) : v.number > 0 /\ v.number < 20}}

\* genGo: the cases of dispatch, the states of the machine and the sentinel.
goHarness(e) ==
  LET states == activeStates(e)
  IN  [dispatch |-> [n \in {s.number : s \in states} |-> (CHOOSE s \in states : s.number = n).method],
       states   |-> {s.number : s \in states},
       zero     |-> zeroIdent(e).number]

\* genPython: the same tables, from a loop of their own.
pyHarness(e) ==
  LET states == {v \in ToSet(e.values) : v.number # 0 /\ v.number < 20}
      named(n) == CHOOSE v \in states : v.number = n
      short(v) == TrimPrefix(v.name, screamingSnake(e.ref.name))
  IN  [dispatch |-> [n \in {v.number : v \in states} |-> camel(short(named(n)))],
       names    |-> [n \in {v.number : v \in states} |-> short(named(n))],
       zero     |-> (CHOOSE v \in Zeros(e) : TRUE).number]

Outcome(result, state, emits) == [result |-> result, state |-> state, emits |-> emits]

\* (the machine is not asked)
StepUnchecked(h, cur, next) ==
  IF cur \notin DOMAIN h.dispatch THEN Outcome("no handler", cur, {})
  ELSE IF next = h.zero THEN Outcome("halted", cur, {})
  ELSE Outcome("stepped", next, {next})

\* Go's Step of a bento in cur whose handler returns next: a state without a
\* handler and an undeclared next one are errors that leave the bento alone.
Step(h, cur, next) ==
  IF cur \notin DOMAIN h.dispatch THEN Outcome("no handler", cur, {})
  ELSE IF next = h.zero THEN Outcome("halted", cur, {})
  ELSE IF next \notin h.states THEN Outcome("illegal", cur, {})
  ELSE Outcome("stepped", next, {next})

\* Python's step.
step(h, cur, next) ==
  IF cur \notin DOMAIN h.dispatch THEN Outcome("no handler", cur, {})
  ELSE IF next = h.zero THEN Outcome("halted", cur, {})
  ELSE IF next \notin DOMAIN h.names THEN Outcome("illegal", cur, {})
  ELSE Outcome("stepped", next, {next})

=============================================================================
