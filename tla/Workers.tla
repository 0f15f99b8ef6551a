-------------------------------- MODULE Workers --------------------------------
(***************************************************************************)
(* One worker at work (src/backends/harness.ts, native.ts): a vendor's CLI *)
(* spawned for an attempt or for a turn of Pi's on a model of it, or Pi's  *)
(* own loop on a native backend; the conversation a pinned CLI keeps       *)
(* (cli-provider.ts); and the CLI models Pi's registry offers              *)
(* (subscriptions.ts).                                                     *)
(*                                                                         *)
(* A CLI is a leader with its process group: a child there holds the       *)
(* leader's output open or is silent, and one that went away from the      *)
(* group may hold it too.                                                  *)
(***************************************************************************)
EXTENDS Integers, FiniteSets, Sequences, TLC

CONSTANTS
  Backends,  \* the CLI backends: [name -> [vendor, found, signedIn, models, balanced]]
  Carries,   \* the names each model's id carries
  Outputs,   \* what a vendor may print: [events, limited, ran]
  Budget     \* the turns of a native loop

VARIABLES
  work,     \* the worker: see NoWork
  talk,     \* the pinned conversation: [pin, session, known, straddled]
  offered   \* [backend -> the models of its provider in Pi's registry]

workVars == <<work, talk, offered>>

None == "none"

------------------------------------------------------------ (* the envelope *)

\* The last event that carries a field wins.
Carried(events, field) ==
  LET having == {i \in DOMAIN events : events[i][field] # None} IN
  IF having = {} THEN None ELSE events[CHOOSE i \in having : \A k \in having : k <= i][field]

\* A text that parses as an object stands in for a structured answer.
ParseEnvelope(events) ==
  LET texts  == SelectSeq(events, LAMBDA event : event.text \in {"fits", "violates"})
      answer == Carried(events, "structured") IN
  [session |-> Carried(events, "session"), summary |-> Carried(events, "text"), error |-> Carried(events, "error"),
   structured |-> IF answer # None THEN answer ELSE Carried(texts, "text")]

\* The one model among those that ran which the name asked for means.
ResolvedModel(asked, ran) ==
  LET carrying == {id \in ran : asked \in Carries[id]} IN
  IF asked \in ran THEN {asked} ELSE IF Cardinality(carrying) = 1 THEN carrying ELSE {}

------------------------------------------------------------ (* the verdicts *)

\* The first that applies, in the order runHarness asks.
Verdict(w, out, changed) ==
  LET e     == ParseEnvelope(out.events)
      limit == e.error = "limit" \/ (w.code # "zero" /\ (w.noisy \/ out.limited))
      rows  == << <<w.aborted, "exit">>,
                  <<w.timedOut, "timeout">>,
                  <<limit, "limit">>,
                  <<w.code = "nonzero", "exit">>,
                  <<e.session = None /\ e.summary = None /\ e.error = None, "parse">>,
                  <<e.error # None /\ e.structured = None, "exit">>,
                  <<w.schema /\ e.structured # "fits", "schema">>,
                  <<e.summary = None /\ e.structured = None /\ changed = "nothing", "exit">>,
                  <<TRUE, "ok">> >>
      hits  == {i \in DOMAIN rows : rows[i][1]} IN
  rows[CHOOSE i \in hits : \A k \in hits : i <= k][2]

\* What stopped the native loop; it is told apart from a provider that failed
\* because the abort surfaces as an error too.
NativeStop(w, promptError, providerError) ==
  IF promptError THEN "provider"
  ELSE IF w.timedOut \/ w.exceeded THEN "blocked"
  ELSE IF providerError THEN "provider" ELSE "ok"

-------------------------------------------------------------- (* the worker *)

\* What tells the vendors apart: who wants the schema as a file, and whose log
\* betrays that it would retry for ever.
Descriptors ==
  [claude   |-> [schemaAsFile |-> FALSE, stopWhen |-> FALSE],
   codex    |-> [schemaAsFile |-> TRUE, stopWhen |-> FALSE],
   opencode |-> [schemaAsFile |-> FALSE, stopWhen |-> TRUE]]

DescriptorOf(w) == Descriptors[Backends[w.of].vendor]

NoWork ==
  [kind |-> "none", at |-> "idle", of |-> None, asked |-> None, schema |-> FALSE, timed |-> TRUE,
   staged |-> FALSE,                             \* the schema's directory is on disk
   alive |-> {}, code |-> None, noisy |-> FALSE, aborted |-> FALSE, timedOut |-> FALSE,
   turns |-> 0, exceeded |-> FALSE,
   stopped |-> FALSE,                            \* history: it was stopped before it ended
   killed |-> FALSE,                             \* history: the group was killed
   outcome |-> None]

Busy == work.at \in {"running", "answered"}

\* A turn of Pi's ends after the worker's answer, an attempt with it.
Over(w, outcome) ==
  [w EXCEPT !.at = IF w.kind = "pi" THEN "answered" ELSE "over", !.staged = FALSE, !.outcome = outcome]

\* Mutant: only the CLI itself is killed.
LeaderKilled(w) ==
  [w EXCEPT !.alive = @ \ {"leader"}, !.code = IF "leader" \in w.alive THEN "signal" ELSE @,
            !.stopped = @ \/ "leader" \in w.alive, !.killed = TRUE]

\* The process group is killed, with or without its leader.
Terminated(w) ==
  [w EXCEPT !.alive = @ \intersect {"away"}, !.code = IF "leader" \in w.alive THEN "signal" ELSE @,
            !.stopped = @ \/ "leader" \in w.alive, !.killed = TRUE]

\* The schema is staged where the vendor wants a file: a failure there leaves
\* the directory it may have made; a command that is not found has no process.
Spawned(w) ==
  LET staged == [w EXCEPT !.staged = w.schema /\ DescriptorOf(w).schemaAsFile] IN
  {[staged EXCEPT !.at = "running", !.alive = {"leader"}], Over(staged, "spawn")}
    \union {[Over(w, "schema") EXCEPT !.staged = made] : made \in IF staged.staged THEN BOOLEAN ELSE {}}

\* An attempt of the executor's, a reviewer's, a unit's.
InvokeHarness ==
  /\ ~Busy
  /\ \E b \in DOMAIN Backends, schema \in BOOLEAN :
       work' \in Spawned([NoWork EXCEPT !.kind = "harness", !.of = b, !.schema = schema])
  /\ UNCHANGED <<talk, offered>>

\* The loop of a native backend, with a deadline when its caller names one; a
\* backend without a model, or a session that cannot be made, is a failure.
InvokeNative ==
  /\ ~Busy
  /\ \E timed \in BOOLEAN :
       LET w == [NoWork EXCEPT !.kind = "native", !.timed = timed] IN
       work' \in {[w EXCEPT !.at = "running"], Over(w, "model"), Over(w, "provider")}
  /\ UNCHANGED <<talk, offered>>

\* A turn of Pi's on a CLI: the pinned one, or without a pin whichever CLI model
\* of Pi's registry the route installed.  Its pool is built for the turn and
\* holds that backend alone, asked for the role "balanced".
PiTurn ==
  /\ ~Busy
  /\ \E b \in DOMAIN Backends : \E model \in offered[b] :
       /\ talk.pin.of # None => [of |-> b, model |-> model] = talk.pin
       /\ LET w == [NoWork EXCEPT !.kind = "pi", !.of = b, !.asked = model] IN
          work' \in IF Backends[b].balanced THEN Spawned(w) ELSE {Over(w, "blocked")}
  /\ UNCHANGED <<talk, offered>>

Forks ==
  /\ work.alive \intersect {"leader", "child"} # {}
  /\ \E process \in {"child", "silent", "away"} \ work.alive : work' = [work EXCEPT !.alive = @ \union {process}]
  /\ UNCHANGED <<talk, offered>>

\* The leader ends by itself, or of a signal that is not ours; so does any other.
Exits ==
  /\ \/ "leader" \in work.alive /\ \E code \in {"zero", "nonzero", "signal"} :
          work' = [work EXCEPT !.alive = @ \ {"leader"}, !.code = code]
     \/ \E process \in work.alive \ {"leader"} : work' = [work EXCEPT !.alive = @ \ {process}]
  /\ UNCHANGED <<talk, offered>>

Deadline ==
  /\ work.at = "running" /\ work.timed /\ ~work.timedOut
  /\ work' = IF work.kind = "native" THEN [work EXCEPT !.timedOut = TRUE, !.stopped = TRUE]
             ELSE [Terminated(work) EXCEPT !.timedOut = TRUE]
  /\ UNCHANGED <<talk, offered>>

\* Esc on a turn of Pi's.
Abort ==
  /\ work.at = "running" /\ work.kind = "pi" /\ ~work.aborted
  /\ work' = [Terminated(work) EXCEPT !.aborted = TRUE]
  /\ UNCHANGED <<talk, offered>>

\* The vendor's log says what it would retry for ever.
StopsRetrying ==
  /\ work.at = "running" /\ work.kind # "native" /\ DescriptorOf(work).stopWhen
  /\ work.alive \intersect {"leader", "child"} # {}
  /\ work' = [Terminated(work) EXCEPT !.noisy = TRUE]
  /\ UNCHANGED <<talk, offered>>

\* A session id that came with an answer is kept for whoever is pinned now, and
\* the name that was asked for is learned.
Kept(w, e, ran) ==
  LET model == ResolvedModel(w.asked, ran) IN
  [talk EXCEPT !.session = IF e.session # None THEN w.of ELSE @,
               !.known = IF model = {} THEN @ ELSE LET id == CHOOSE id \in model : TRUE IN (w.asked :> id) @@ (id :> id) @@ @]

\* The CLI has ended and nobody holds its output.
Closes ==
  /\ work.at = "running" /\ work.kind # "native" /\ work.alive \intersect {"leader", "child", "away"} = {}
  /\ \E out \in Outputs, changed \in {"nothing", "something", "unknown"} :
       LET outcome == Verdict(work, out, changed) IN
       /\ work' = Over(work, outcome)
       /\ talk' = IF work.kind = "pi" /\ outcome = "ok" THEN Kept(work, ParseEnvelope(out.events), out.ran) ELSE talk
  /\ UNCHANGED offered

\* A turn of the native loop ends; at the budget one that would go on is aborted.
NativeTurn ==
  /\ work.at = "running" /\ work.kind = "native" /\ ~work.stopped /\ work.turns < Budget
  /\ \E streaming \in BOOLEAN :
       LET over == work.turns + 1 >= Budget /\ streaming IN
       work' = [work EXCEPT !.turns = @ + 1, !.exceeded = over, !.stopped = @ \/ over]
  /\ UNCHANGED <<talk, offered>>

NativeEnds ==
  /\ work.at = "running" /\ work.kind = "native"
  /\ \E promptError, providerError \in BOOLEAN : work' = Over(work, NativeStop(work, promptError, providerError))
  /\ UNCHANGED <<talk, offered>>

-------------------------------------------------------- (* the conversation *)

\* A CLI is detected by its binary and by the credential it leaves in a file or
\* the environment; the vendor is not asked.
Usable(b) == Backends[b].found /\ Backends[b].signedIn

\* Mutant: the picked model alone is registered.
PickedAlone(b, model) == [offered EXCEPT ![b] = {model}]

\* Registering replaces a provider's list, so the configured models ride along.
RegisterCliModel(b, model) == [offered EXCEPT ![b] = {model} \union Backends[b].models]

NoPin == [of |-> None, model |-> None]

\* At activation: the models of the usable backends, and a remembered pin's.
WorkInit ==
  /\ work = NoWork
  /\ \E b \in DOMAIN Backends \union {None} :
       LET pin == IF b = None THEN NoPin ELSE [of |-> b, model |-> CHOOSE m \in Backends[b].models : TRUE] IN
       /\ talk = [pin |-> pin, session |-> None, known |-> <<>>, straddled |-> FALSE]
       /\ offered = [v \in DOMAIN Backends |->
                      (IF Usable(v) THEN Backends[v].models ELSE {}) \union (IF v = b THEN {pin.model} ELSE {})]

\* /model, which the operator may also type while a turn runs: the session of
\* the pin before is forgotten.
Repinned(pin) ==
  [talk EXCEPT !.pin = pin, !.session = None, !.straddled = Busy /\ work.kind = "pi"]

Pin ==
  /\ \E b \in DOMAIN Backends : \E m \in Backends[b].models :
       talk' = Repinned([of |-> b, model |-> m]) /\ offered' = RegisterCliModel(b, m)
  /\ UNCHANGED work

Unpin == talk.pin.of # None /\ talk' = Repinned(NoPin) /\ UNCHANGED <<work, offered>>

\* agent_end: a pin on a name whose id is known by now goes by the id.
AgentEnds ==
  /\ work.at = "answered" /\ work' = [work EXCEPT !.at = "over"]
  /\ IF talk.pin.model \in DOMAIN talk.known /\ talk.known[talk.pin.model] # talk.pin.model
     THEN /\ talk' = [talk EXCEPT !.pin.model = talk.known[talk.pin.model]]
          /\ offered' = RegisterCliModel(talk.pin.of, talk.known[talk.pin.model])
     ELSE UNCHANGED <<talk, offered>>

WorkEvents ==
  Forks \/ Exits \/ Deadline \/ StopsRetrying \/ Closes \/ NativeTurn \/ NativeEnds \/ AgentEnds

------------------------------------------------------------ (* properties *)

\* A worker that was stopped before it had ended is never reported as done, and
\* leaves no process and no staged schema behind (harness.ts: the group is
\* killed; native.ts: a partial turn is not a completed attempt).
StoppedIsNotDone ==
  /\ work.stopped => work.outcome # "ok"
  /\ work.killed => work.alive \subseteq {"away"}
  /\ work.staged => work.at = "running" \/ work.outcome = "schema"

\* While a CLI is pinned, its turns resume a session that its own backend issued,
\* unless a turn was still at work when the pin was changed (model.ts: a repin
\* starts a fresh conversation).  Without a pin the id may be of any backend.
OwnConversation ==
  talk.pin.of # None => talk.session \in {None, talk.pin.of} \/ talk.straddled

\* The configured models of every usable subscription, and the pinned one, stay
\* in Pi's registry whatever is picked (cli-provider.ts: registering replaces a
\* provider's whole list).
RolesStayOffered ==
  \A b \in DOMAIN Backends :
    /\ Usable(b) => Backends[b].models \subseteq offered[b]
    /\ talk.pin.of = b => talk.pin.model \in offered[b]

================================================================================
