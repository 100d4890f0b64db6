------------------------------- MODULE Dispatch -------------------------------
(***************************************************************************)
(* birblib.dispatch: one call of dispatch(), which probes a list of        *)
(* backends in order, runs the first one that says it is available, falls  *)
(* through to the next when that one fails, and never makes up a result.   *)
(*                                                                         *)
(* A backend is its position in the declared list, because two of them may *)
(* have one name, and names are what the order and the decision tree go    *)
(* by.  What a backend says, and whether its run then works, is its own.   *)
(***************************************************************************)
EXTENDS Naturals, Sequences

CONSTANTS
  Names,       \* the names of backends
  NoName,      \* no preference (None, or the empty string)
  MaxBackends  \* how many backends are declared at most (bound)

ASSUME DispatchAssumption == NoName \notin Names /\ MaxBackends \in Nat

VARIABLES
  names,   \* the declared backends, by their names
  prefer,  \* the preferred name
  order,   \* the probe order: the backends that are still to be probed
  tried,   \* the decision tree: what each name reported, "-" for an absent key
  pc,      \* where the call is
  ran,     \* the backend whose output is returned (0: none)
  said     \* what each backend reported, whatever its name

vars == <<names, prefer, order, tried, pc, ran, said>>

Reports == {"-", "down", "up", "broke"}
Backends == DOMAIN names

TypeOK ==
  /\ names \in Seq(Names) /\ Len(names) <= MaxBackends
  /\ prefer \in Names \cup {NoName}
  /\ order \in Seq(Backends)
  /\ tried \in [Names -> Reports]
  /\ pc \in {"probe", "run", "returned", "exhausted", "escaped"}
  /\ ran \in Backends \cup {0}
  /\ said \in [Backends -> Reports]

-----------------------------------------------------------------------------
(* The probe order                                                         *)

Declared(ns) == [i \in DOMAIN ns |-> i]

Named(ns, n) == {i \in DOMAIN ns : ns[i] = n}

\* by_name: the last of the backends with a name.
ByName(ns, n) == CHOOSE i \in Named(ns, n) : \A j \in Named(ns, n) : j <= i

\* (the first backend gives way to the preferred one)
OrderSwapped(ns, p) ==
  IF p \in {ns[i] : i \in DOMAIN ns}
    THEN [Declared(ns) EXCEPT ![1] = ByName(ns, p), ![ByName(ns, p)] = 1]
    ELSE Declared(ns)

\* The comprehension over the declared backends: those without the name, in order.
Others(ns, p) ==
  LET upTo[i \in 0..Len(ns)] ==
        IF i = 0 THEN <<>>
        ELSE IF ns[i] # p THEN Append(upTo[i - 1], i) ELSE upTo[i - 1]
  IN  upTo[Len(ns)]

\* _order: the preferred backend, then the others as declared; the declared order
\* if nothing is preferred or nobody has the preferred name.
Order(ns, p) ==
  IF Named(ns, p) # {} THEN <<ByName(ns, p)>> \o Others(ns, p) ELSE Declared(ns)

-----------------------------------------------------------------------------
(* dispatch                                                                *)

Call(ns, p) ==
  /\ names = ns /\ prefer = p
  /\ order = Order(ns, p)
  /\ tried = [n \in Names |-> "-"]
  /\ pc = "probe" /\ ran = 0
  /\ said = [i \in DOMAIN ns |-> "-"]

Lists == UNION {[1..k -> Names] : k \in 0..MaxBackends}

Init == \E ns \in Lists, p \in Names \cup {NoName} : Call(ns, p)

\* The backend being probed or run.
Current == Head(order)

\* (the first thing a name reports is kept)
RecordOnce(report) ==
  /\ tried' = [tried EXCEPT ![names[Current]] = IF @ = "-" THEN report ELSE @]
  /\ said' = [said EXCEPT ![Current] = report]
  /\ UNCHANGED <<names, prefer>>

\* tried: the last report of a name.
Record(report) ==
  /\ tried' = [tried EXCEPT ![names[Current]] = report]
  /\ said' = [said EXCEPT ![Current] = report]
  /\ UNCHANGED <<names, prefer>>

\* available() says no: on to the next.
Unavailable ==
  /\ pc = "probe" /\ order # <<>>
  /\ Record("down")
  /\ order' = Tail(order)
  /\ UNCHANGED <<pc, ran>>

\* available() says yes.
Available ==
  /\ pc = "probe" /\ order # <<>>
  /\ Record("up")
  /\ pc' = "run"
  /\ UNCHANGED <<order, ran>>

\* available() raises, and dispatch with it: only run is inside the try.
ProbeRaises ==
  /\ pc = "probe" /\ order # <<>>
  /\ pc' = "escaped"
  /\ UNCHANGED <<names, prefer, order, tried, ran, said>>

\* Its output is the call's.
Run ==
  /\ pc = "run"
  /\ pc' = "returned" /\ ran' = Current
  /\ UNCHANGED <<names, prefer, order, tried, said>>

\* Available, but the run raises: it is recorded, and the next is probed.
RunFails ==
  /\ pc = "run"
  /\ Record("broke")
  /\ order' = Tail(order) /\ pc' = "probe"
  /\ UNCHANGED ran

\* NoBackendAvailable, with the decision tree.
Exhausted ==
  /\ pc = "probe" /\ order = <<>>
  /\ pc' = "exhausted"
  /\ UNCHANGED <<names, prefer, order, tried, ran, said>>

Next == Unavailable \/ Available \/ ProbeRaises \/ Run \/ RunFails \/ Exhausted

Spec == Init /\ [][Next]_vars

-----------------------------------------------------------------------------
(* Properties                                                              *)

\* A backend that its name hides: another of the preferred name is declared after it.
Hidden(i) == names[i] = prefer /\ \E j \in Backends : j > i /\ names[j] = prefer

\* The order that is promised: the preferred name, then as declared.
ComesBefore(i, j) ==
  \/ names[i] = prefer /\ names[j] # prefer
  \/ i < j /\ (names[i] = prefer <=> names[j] = prefer)

\* dispatch runs the first usable backend: every backend that comes before the one
\* whose output is returned said that it is not available, or failed, and none that
\* comes after it was asked.  NoBackendAvailable is raised only when all of them
\* were asked, and none could.  A hidden backend is neither asked nor run.
FirstUsable ==
  /\ pc = "returned" =>
       /\ ~Hidden(ran) /\ said[ran] = "up"
       /\ \A i \in Backends \ {ran} :
            IF ComesBefore(i, ran) /\ ~Hidden(i) THEN said[i] \in {"down", "broke"} ELSE said[i] = "-"
  /\ pc = "exhausted" =>
       \A i \in Backends : IF Hidden(i) THEN said[i] = "-" ELSE said[i] \in {"down", "broke"}

\* The decision tree tells what did the work, and why nothing before it did: it has
\* the names that were asked and no others, with the last report of each; when the
\* names differ, that is the report of every backend asked.
TreeTellsWhy ==
  \A n \in Names :
    LET asked == {i \in Named(names, n) : said[i] # "-"}
    IN  tried[n] = IF asked = {} THEN "-"
                   ELSE said[CHOOSE i \in asked : \A j \in asked : ~ComesBefore(i, j)]

=============================================================================
