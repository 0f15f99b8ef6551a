----------------------------- MODULE TurnRouting -----------------------------
(***************************************************************************)
(* A session's turns from the prompt to the routed dispatch: the compiler  *)
(* lane (src/commands/turn-lanes.ts) scouts and compiles the request, its  *)
(* two chains of decision sites side by side, and raises the session's     *)
(* floor; the executor lane then asks the router.  Meanwhile the operator  *)
(* pins and resets routes, the session is switched, and the configuration  *)
(* and the ranking file change under the role hook's copy.                 *)
(***************************************************************************)
EXTENDS TaskCompiler, Routing

CONSTANTS
  Prompts,          \* requests: [words, names], the markers in their words and
                    \* the modules they name
  Workspaces,       \* [changed, modules, runner], changed a sequence of "test"
                    \* and "code"
  Worlds,           \* ranking files and configurations: [file, config]
  Outages,          \* the sets of classes this machine may be unable to run
  Histories,        \* what the project's store of completed runs may hold
  Levels,           \* the levels the capability site answers with, in 1 .. 4
  SiteAnswers,      \* answers of the routing sites: [effort, model]
  ScopeFree,        \* the configured targeted command needs no scope
  PinCommands,      \* the pins the operator uses: <<field, value>>
  MaxPins           \* those in force at once

\* The ranking file and the configuration are finite, and name declared backends.
ASSUME TurnRoutingAssumption ==
  /\ \A w \in Worlds :
       /\ IsFiniteSet(w.file) /\ w.config.enabled \subseteq Backends
       /\ \A r \in w.file : r.id \in Nat /\ r.score \in Nat \union {Null} /\ r.price \in Nat \union {Null}
       /\ DOMAIN w.config.models \subseteq Nat
  /\ \A h \in Histories : h \in Seq([complexity : STRING, role : STRING, backend : Backends, retries : Nat,
                                    tokens : Nat, latency : Nat, gpu : Nat])
  /\ Levels \subseteq 1 .. 4
  /\ PinCommands \subseteq ({"executor"} \X Classes) \union ({"reviewer"} \X Reviewers) \union ({"prd"} \X {"force", "skip"})

VARIABLES
  pins,     \* the session's route pins and its floor
  world,    \* the ranking file and the configuration now
  cache,    \* the role hook's copy of the ranking
  turn,     \* the turn under way
  peak      \* the highest class the difficulty of a turn of this session asked
            \* for since the last reset (a history variable)

routingVars == <<pins, world, cache, turn, peak>>

Idle == [phase |-> "idle"]

\* A chain of the compile that is still waiting for its sites.
Pending == [done |-> FALSE]

RoutingInit ==
  /\ pins = NoPins
  /\ world \in Worlds
  /\ cache = NoCache
  /\ turn = Idle
  /\ peak = Unset

--------------------------------------------------------- (* the compile *)

\* The prompt: the turn's own model is resolved, then the scout's packet and the
\* classes that cannot run are settled before any site is asked.
Prompt ==
  /\ turn.phase = "idle"
  /\ \E ask \in Prompts, w \in Workspaces, cuts \in 0 .. 2, planned \in BOOLEAN, out \in Outages :
       turn' = [phase |-> "compiling", packet |-> ScoutTask(ask, w, cuts), planned |-> planned,
                out |-> out, planning |-> Pending, sizing |-> Pending]
  /\ cache' = Refreshed(cache, world)
  /\ UNCHANGED <<pins, world, peak>>

\* What a classifier may come back with, over the replies of its site.
GateOutcomes(packet, planned) ==
  IF planned THEN {PlannedGate} ELSE {RunGate(packet, g) : g \in Replies(GateQuestions)}

RiskOutcomes(packet, elevate) == {ClassifyReviewRisk(packet, r, elevate) : r \in Replies(RiskQuestions)}

BandOutcomes(packet) == {ClassifyExecution(packet, c) : c \in Replies(BandQuestions)}

IndexOutcomes(band) == {RequiredIndex(band, i, level) : i \in Replies({}), level \in Levels}

\* One chain: the gate, then the review risk, which needs the gate's word on it.
PlanningChain ==
  /\ turn.phase = "compiling" /\ ~turn.planning.done
  /\ \E gate \in GateOutcomes(turn.packet, turn.planned) :
     \E risk \in RiskOutcomes(turn.packet, gate.elevate) :
       turn' = [turn EXCEPT !.planning = [done |-> TRUE, gate |-> gate, risk |-> risk]]
  /\ UNCHANGED <<pins, world, cache, peak>>

\* The other: the complexity, then the capability, which needs its band.
SizingChain ==
  /\ turn.phase = "compiling" /\ ~turn.sizing.done
  /\ \E band \in BandOutcomes(turn.packet) : \E index \in IndexOutcomes(band) :
       turn' = [turn EXCEPT !.sizing = [done |-> TRUE, band |-> band, index |-> index]]
  /\ UNCHANGED <<pins, world, cache, peak>>

\* Both chains are in: the pins of this moment decide with them.
Assemble ==
  /\ turn.phase = "compiling" /\ turn.planning.done /\ turn.sizing.done
  /\ turn' = [phase |-> "compiled", pinned |-> pins,
              unsure |-> turn.planning.gate.asked /\ ~turn.planning.gate.confident /\ ~turn.planning.gate.prd,
              contract |-> CompileTask(turn.packet, turn.planning.gate, turn.planning.risk, turn.sizing.band,
                                       turn.sizing.index, pins, turn.out, ScopeFree)]
  /\ UNCHANGED <<pins, world, cache, peak>>

ClassOf(complexity) == [LOW |-> "quick", MEDIUM |-> "balanced", HIGH |-> "strong"][complexity]

\* The lane records the class the turn asked for.
Record ==
  /\ turn.phase = "compiled"
  /\ pins' = RecordExecutorFloor(pins, turn.contract.classed)
  /\ turn' = [turn EXCEPT !.phase = "recorded"]
  /\ peak' = IF pins.executor # Unset \/ turn.pinned.executor # Unset THEN peak
             ELSE HigherClass(ClassOf(turn.contract.complexity), peak)
  /\ UNCHANGED <<world, cache>>

------------------------------------------------------------ (* the route *)

RoutedTask(contract) ==
  [role |-> contract.executor, complexity |-> contract.complexity, index |-> contract.index]

\* The executor lane asks the router once per turn.  The role hook is asked for
\* the role's own model on the way, and renews its copy.
Route ==
  /\ turn.phase = "recorded" /\ ValidFile(world.file)
  /\ \E h \in Histories, a \in SiteAnswers :
       turn' = [phase |-> "routed", index |-> turn.contract.index,
                route |-> SelectRoute(world, cache, RoutedTask(turn.contract), h, a)]
  /\ cache' = Refreshed(cache, world)
  /\ UNCHANGED <<pins, world, peak>>

\* A ranking file that does not load fails the turn's route.
RouteFails ==
  /\ turn.phase = "recorded" /\ ~ValidFile(world.file)
  /\ turn' = Idle
  /\ UNCHANGED <<pins, world, cache, peak>>

TurnEnds ==
  /\ turn.phase = "routed"
  /\ turn' = Idle
  /\ UNCHANGED <<pins, world, cache, peak>>

-------------------------------------------------------- (* the operator *)

\* /route executor, /route reviewer, /route prd: at any moment, a turn's
\* compile included.
PinRoute ==
  /\ \E c \in PinCommands :
       /\ pins' = [pins EXCEPT ![c[1]] = c[2]]
       /\ Cardinality({f \in {"executor", "reviewer", "prd"} : pins'[f] # Unset}) <= MaxPins
  /\ UNCHANGED <<world, cache, turn, peak>>

\* /route reset clears the pins, the floor with them.
ResetRoute ==
  /\ pins # NoPins
  /\ pins' = NoPins /\ peak' = Unset
  /\ UNCHANGED <<world, cache, turn>>

\* /new, /resume, /fork between turns.
SwitchSession ==
  /\ turn.phase = "idle" /\ pins # NoPins
  /\ pins' = NoPins /\ peak' = Unset
  /\ UNCHANGED <<world, cache, turn>>

\* The footer's status line resolves a role: it renews the hook's copy.
ShowStatus ==
  /\ cache' = Refreshed(cache, world)
  /\ UNCHANGED <<pins, world, turn, peak>>

\* The operator edits the configuration, or the ranking file is rewritten.
Edit ==
  /\ turn.phase = "idle"
  /\ \E w \in Worlds \ {world} : world' = w
  /\ UNCHANGED <<pins, cache, turn, peak>>

RoutingNext ==
  \/ Prompt \/ PlanningChain \/ SizingChain \/ Assemble \/ Record
  \/ Route \/ RouteFails \/ TurnEnds
  \/ PinRoute \/ ResetRoute \/ SwitchSession \/ ShowStatus \/ Edit

-------------------------------------------------------- (* properties *)

Compiled == turn.phase \in {"compiled", "recorded"}

RoutingTypeOK ==
  /\ pins \in [executor : Classes \union {Unset}, reviewer : Reviewers \union {Unset},
               prd : {Unset, "force", "skip"}, floor : Classes \union {Unset}]
  /\ world \in Worlds
  /\ \A c, d \in cache : c = d
  /\ peak \in Classes \union {Unset}
  /\ turn.phase \in {"idle", "compiling", "compiled", "recorded", "routed"}
  /\ Compiled => /\ turn.contract.executor \in Classes
                 /\ turn.contract.reviewer \in Reviewers
                 /\ turn.contract.risk \in 0 .. 3
                 /\ turn.contract.index \in {30, 45, 55, 65, 75, 88, 92}

\* A short follow-up stays on the class that did the work: until a reset, no turn
\* of a session is classed below what the difficulty of an earlier one asked
\* for, though that one was routed around an outage to a lower class; only an
\* operator's pin goes below (pins.ts: the session floor).
FloorHolds ==
  turn.phase = "compiling" /\ peak # Unset =>
    LET routing == ApplyExecutorFloor(MatrixDefault(FALSE, "LOW", 0), pins) IN
    Rank[routing.executor] >= Rank[peak]

\* A gate that answered but was unsure lets a task through without a plan only
\* with more review: unless the operator pinned the reviewer, somebody reviews
\* it (gate.ts: the asymmetric resolution, and every step that carries
\* elevateReview to the matrix).
UnsureWorkIsWatched ==
  turn.phase = "compiled" /\ turn.unsure
    => /\ turn.contract.risk > 0
       /\ turn.pinned.reviewer = Unset => turn.contract.reviewer # "none"

\* What is dispatched clears the contract's floor on a backend that is switched
\* on, and the task goes to the user only when no model does: neither the
\* sites' answers nor the role's preference can name another (router.ts: the
\* clearing set).
NoneBelowTheBar ==
  turn.phase = "routed" =>
    LET able == {r \in world.file : Known(r.score) /\ r.score >= turn.index
                                         /\ BindingOf(world.file, world.config, r) \in world.config.enabled}
    IN  IF turn.route.escalation = "USER_INPUT" THEN able = {} /\ turn.route.selected = Null
        ELSE \E r \in able : /\ r.id = turn.route.selected
                             /\ BindingOf(world.file, world.config, r) = turn.route.backend

\* The copy the role hook keeps is never what decides: whatever was edited since
\* it was made, a role resolves, between turns and at the route, as if the
\* file were read now (capability/index.ts: the cache's identity).
CacheIsCurrent ==
  /\ RoutingTypeOK
  /\ turn.phase \in {"idle", "recorded"} =>
       \A role \in Classes : ResolveRole(world, cache, role) = ResolveRole(world, NoCache, role)

=============================================================================
