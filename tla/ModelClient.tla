---------------------------- MODULE ModelClient ----------------------------
(***************************************************************************)
(* The model clients, a matched pair: model/client.go in Go and            *)
(* frood/model.py in Python.  Each resolves a model's name through         *)
(* delightd's discovery, and has the source it finds generate.  Sources    *)
(* come and go between the two.                                            *)
(*                                                                         *)
(* Both are called for the same name; a source serves it when one of its   *)
(* models contains it.  The answers of delightd and of a source are taken  *)
(* from how the clients use them; delightd is in Go, and a Go service      *)
(* writes a list it never filled as null.                                  *)
(***************************************************************************)
EXTENDS Naturals, Sequences

CONSTANTS
  Providers,   \* the providers delightd reports, "ollama" and "anthropic" among them
  MaxSources,  \* how many sources delightd knows at most (bound)
  MaxTurns     \* how often a source comes or goes (bound)

ASSUME ClientAssumption ==
  {"ollama", "anthropic"} \subseteq Providers /\ {MaxSources, MaxTurns} \subseteq Nat

VARIABLES
  sources,  \* the sources delightd reports, in its order
  turns,    \* how often a source has come or gone
  saw,      \* what discovery answered to each client
  pick,     \* the source each client resolved the name to (0: none)
  result    \* how each client's call stands

clientVars == <<sources, turns, saw, pick, result>>

Langs == {"go", "python"}
Source == [provider : Providers, healthy : BOOLEAN, models : {"serving", "others", "null"}]

\* What is not a list of sources: no answer, an error status with an error in JSON, or an
\* answer that is no JSON or breaks off; null for the list; or another kind of JSON.
Failures == {"unreachable", "refused", "broken"}
NoList == Failures \cup {"null", "misshapen"}
Answers(list) == {[is |-> f, list |-> <<>>] : f \in NoList} \cup {[is |-> "list", list |-> list]}
NoAnswer == [is |-> "-", list |-> <<>>]

ClientInit ==
  /\ sources \in UNION {[1..k -> Source] : k \in 0..MaxSources}
  /\ turns = 0
  /\ saw = [l \in Langs |-> NoAnswer] /\ pick = [l \in Langs |-> 0]
  /\ result = [l \in Langs |-> "-"]

-----------------------------------------------------------------------------
(* Resolving                                                               *)

First(matching) == IF matching = {} THEN 0 ELSE CHOOSE i \in matching : \A j \in matching : i <= j

\* (whatever its health)
FirstServing(list) == First({i \in DOMAIN list : list[i].models = "serving"})

\* The loop of Client.Resolve: the first healthy source that serves the model; null is
\* an empty list of models.
FirstHealthy(list) == First({i \in DOMAIN list : list[i].healthy /\ list[i].models = "serving"})

\* The loop of resolve: source by source, those that are not healthy skipped, as far as
\* one that serves the model, or one with null for its models, which raises TypeError.
first_healthy(list) ==
  LET from[i \in 1..(Len(list) + 1)] ==
        IF i > Len(list) THEN 0
        ELSE IF list[i].healthy /\ list[i].models # "others" THEN i ELSE from[i + 1]
  IN  from[1]

\* (any other provider is tried as ollama)
providerForLenient(provider) == IF provider = "anthropic" THEN "ANTHROPIC" ELSE "OLLAMA"

providerFor(provider) ==
  CASE provider = "ollama" -> "OLLAMA" [] provider = "anthropic" -> "ANTHROPIC" [] OTHER -> "UNSPECIFIED"

Resolved(found, supported) == [found |-> found, result |->
  IF found = 0 THEN "unavailable" ELSE IF supported THEN "generate" ELSE "unsupported"]
NotResolved(error) == [found |-> 0, result |-> error]

\* Client.Resolve and the dispatch of Generate.  The status is not looked at: a
\* refusal has no sources, null is no sources, and what cannot be decoded is an error
\* of its own.
Resolve(answer) ==
  CASE answer.is = "unreachable"             -> NotResolved("unavailable")
    [] answer.is \in {"broken", "misshapen"} -> NotResolved("error")
    [] OTHER ->
         LET i == FirstHealthy(answer.list)
         IN  Resolved(i, i # 0 /\ providerFor(answer.list[i].provider) = "OLLAMA")

\* resolve and the first half of generate: every failure to ask and to parse is
\* ModelUnavailable; the loop is outside the try, and what it cannot iterate over or
\* take a key of raises TypeError or AttributeError.
resolve(answer) ==
  CASE answer.is \in Failures              -> NotResolved("unavailable")
    [] answer.is \in {"null", "misshapen"} -> NotResolved("error")
    [] OTHER ->
         LET i == first_healthy(answer.list)
         IN  IF i # 0 /\ answer.list[i].models = "null" THEN NotResolved("error")
             ELSE Resolved(i, i # 0 /\ answer.list[i].provider = "ollama")

-----------------------------------------------------------------------------
(* The world and the two calls                                             *)

\* A source's health turns, or the model is loaded or dropped.
Turn(i) ==
  /\ turns < MaxTurns /\ turns' = turns + 1
  /\ \E s \in Source : sources' = [sources EXCEPT ![i] = [s EXCEPT !.provider = sources[i].provider]]
  /\ sources' # sources
  /\ UNCHANGED <<saw, pick, result>>

Discover(l, answer, to) ==
  /\ result[l] = "-"
  /\ saw' = [saw EXCEPT ![l] = answer]
  /\ pick' = [pick EXCEPT ![l] = to.found]
  /\ result' = [result EXCEPT ![l] = to.result]
  /\ UNCHANGED <<sources, turns>>

DiscoverGo(answer)     == Discover("go", answer, Resolve(answer))
DiscoverPython(answer) == Discover("python", answer, resolve(answer))

\* One completion at the source that was found: its text,
Generated(l) ==
  /\ result[l] = "generate"
  /\ result' = [result EXCEPT ![l] = "text"]
  /\ UNCHANGED <<sources, turns, saw, pick>>

\* or an error: a timeout, another status than 200, an answer that is no JSON.
GenerateFails(l) ==
  /\ result[l] = "generate"
  /\ result' = [result EXCEPT ![l] = "failed"]
  /\ UNCHANGED <<sources, turns, saw, pick>>

ClientNext ==
  \/ \E i \in DOMAIN sources : Turn(i)
  \/ \E answer \in Answers(sources) : DiscoverGo(answer) \/ DiscoverPython(answer)
  \/ \E l \in Langs : Generated(l) \/ GenerateFails(l)

ClientSpec == ClientInit /\ [][ClientNext]_clientVars

-----------------------------------------------------------------------------
(* Properties                                                              *)

Usable(list) == {i \in DOMAIN list : list[i].healthy /\ list[i].models = "serving"}

\* Fail-closed: a text comes from the first source that delightd reported as healthy and
\* serving the model, and from no other one, whatever has come or gone since; a model
\* that somebody serves is called unavailable only by a client that could not ask.
FailClosed ==
  \A l \in Langs :
    /\ result[l] = "text" =>
         /\ pick[l] \in Usable(saw[l].list)
         /\ \A i \in Usable(saw[l].list) : pick[l] <= i
         /\ saw[l].list[pick[l]].provider = "ollama"
    /\ result[l] = "unavailable" => Usable(saw[l].list) = {}

\* Where Go reads null as an empty list.
HasNull(answer) ==
  \/ answer.is = "null"
  \/ \E i \in DOMAIN answer.list : answer.list[i].healthy /\ answer.list[i].models = "null"

\* "The matched Go+Python pair" (client.go): two clients that were told the same pick
\* the same source and come to the same decision, but for two kinds of answer.  One
\* that is no JSON is an error of its own in Go, and "unavailable" in Python.  One with
\* null in the place of a list ends the Python client in a TypeError, where Go goes
\* on: it finds what other sources have, or the model is unavailable.
Decision(l) == IF result[l] \in {"text", "failed"} THEN "generate" ELSE result[l]
PairAgrees ==
  saw["go"] = saw["python"] =>
    \/ pick["go"] = pick["python"] /\ Decision("go") = Decision("python")
    \/ saw["go"].is = "broken" /\ Decision("go") = "error" /\ Decision("python") = "unavailable"
    \/ HasNull(saw["go"]) /\ Decision("go") # "error" /\ Decision("python") = "error"

=============================================================================
