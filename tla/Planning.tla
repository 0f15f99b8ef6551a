------------------------------ MODULE Planning -------------------------------
(* How work is planned and its price measured: a turn's contract and route,   *)
(* the life of a PRD, or a benchmark of what rows of the configuration spend  *)
(* and deliver.  A behaviour is about one of the three.                       *)
EXTENDS TurnRouting

CONSTANTS Drafts, Capabilities, MaxId, Invocations, MaxCalls, MaxFaults, MaxRuns

\* What the parsers hand on: criteria and phases in their order.
ASSUME PrdAssumption ==
  /\ MaxId \in Nat \ {0, 1}
  /\ \A d \in Drafts : /\ d.criteria \in Seq([id : Nat, command : BOOLEAN])
                       /\ d.phases \in Seq([number : Nat, acs : SUBSET Nat, deps : SUBSET Nat])

\* A directory holds a name once; a budget is a number.
ASSUME RunAssumption ==
  \A i \in Invocations :
    /\ i.ids \in Seq(ToSet(i.ids)) /\ i.roster \in Seq(ToSet(i.roster)) /\ i.dirs \in Seq(ToSet(i.dirs))
    /\ \A j \in DOMAIN i.roster : i.roster[j].budget \in Int /\ i.roster[j].rated \in BOOLEAN
    /\ \A j, k \in DOMAIN i.dirs : i.dirs[j].dir = i.dirs[k].dir => j = k

VARIABLES about, active, done, stored, memory, asked,
          invoked, at, row, task, spent, flush, calls, store, drained, telemetry, ledger, report, golden,
          faults, life, paid, written

Prd == INSTANCE PrdLane
Bench == INSTANCE Bench

prdVars == <<active, done, stored, memory, asked>>

benchVars == <<invoked, at, row, task, spent, flush, calls, store, drained, telemetry, ledger, report, golden,
               faults, life, paid, written>>

planningVars == <<about, routingVars, prdVars, benchVars>>

PlanningInit ==
  /\ about \in {"turn", "prd", "bench"}
  /\ RoutingInit /\ Prd!Init /\ Bench!BenchInit
  /\ about # "turn" => world = CHOOSE w \in Worlds : TRUE
  /\ about # "prd" => active = {} /\ done = {}
  /\ about # "bench" => invoked = CHOOSE i \in Invocations : TRUE

PlanningNext ==
  /\ UNCHANGED about
  /\ \/ about = "turn" /\ RoutingNext /\ UNCHANGED <<prdVars, benchVars>>
     \/ about = "prd" /\ Prd!Next /\ UNCHANGED <<routingVars, benchVars>>
     \/ about = "bench" /\ Bench!BenchNext /\ UNCHANGED <<routingVars, prdVars>>

PlanningSpec == PlanningInit /\ [][PlanningNext]_planningVars

\* Follow-ups stay on the class that did the work, and work the gate was unsure
\* of is reviewed (src/compiler/pins.ts:115-131, src/compiler/gate.ts:137).
ClassesAreKept == about = "turn" => FloorHolds /\ UnsureWorkIsWatched

\* What is dispatched clears the bar, by the ranking as it is on disk
\* (src/routing/router.ts, src/capability/index.ts:160).
RoutesAreCurrent == about = "turn" => NoneBelowTheBar /\ CacheIsCurrent

\* An accepted plan never stalls, and the file holds what was decided of it
\* (src/prd/state.ts, src/prd/manager.ts).
PlansAreSound == about = "prd" => Prd!NothingStalls /\ Prd!StatusIsOnDisk

\* No plan is lost and no number is given twice (src/prd/creator.ts,
\* src/prd/commands.ts).
PlansAreKept == Prd!PlansAreKept

\* A report is the price of its rows and counts each attempt once
\* (src/bench/runner.ts, src/bench/metrics.ts, src/telemetry).
RunIsAccounted == about = "bench" => Bench!RunIsAccounted

==============================================================================
