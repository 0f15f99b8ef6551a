-------------------------------- MODULE Goal --------------------------------
(***************************************************************************)
(* The goal engine: the record on disk (src/goal/state.ts), the /goal      *)
(* command (src/goal/command.ts), and the boundary that is evaluated after *)
(* a turn (src/goal/boundary.ts, limits.ts, from-prd.ts), either once per  *)
(* prompt as the turn does it (src/commands/turn-lanes.ts) or in the       *)
(* continuation loop (runGoalLoop).  A boundary is one step up to the      *)
(* semantic questions; while those are answered the user may stop the goal *)
(* or set another, and the record file changes under the boundary.         *)
(*                                                                         *)
(* What a turn measures is a set of records as module Evidence has them.   *)
(* The todo list and the PRD are seen through the two reads the boundary   *)
(* makes: what is actionable or blocked, and which criteria remain.        *)
(***************************************************************************)
EXTENDS Evidence

CONSTANTS
  Goals,       \* the goal texts, as the clauses they split into
  Limits,      \* the caps a goal may be given; 0 is no cap
  Producible,  \* the kinds the workspace has a verifier for
  Measured,    \* the evidence a turn may end with, by the hash it verified
  NoGoal,
  MaxCost,     \* bound: what the session may cost
  MaxTurns,    \* bound: turns of an active goal without a turn cap
  MaxSets,     \* bound: goals set
  MaxChanges   \* bound: changes of the list and of the PRD

ASSUME GoalAssumption ==
  /\ Goals \subseteq [kinds : SUBSET SUBSET Kinds, criteria : SUBSET Ids, semantic : Nat]
  /\ Limits \subseteq [turns : Nat, cost : Nat]
  /\ Producible \subseteq Kinds
  /\ Measured \in [Contents -> SUBSET SUBSET Records]
  /\ MaxCost \in Nat /\ MaxTurns \in Nat /\ MaxSets \in Nat /\ MaxChanges \in Nat

GoalStates ==
  [text : [kinds : SUBSET SUBSET Kinds, criteria : SUBSET Ids, semantic : Nat],
   active : BOOLEAN, limits : [turns : Nat, cost : Nat], turns_used : Nat]

VARIABLES
  record,     \* .leanpi/goal.json
  pc,         \* idle, in a turn, at the boundary, or waiting for an answer
  loop,       \* whether runGoalLoop drives the turns
  turnState,  \* the boundary's own copy while it waits
  unasked,    \* semantic clauses not asked about yet
  answers,    \* what was answered so far
  evidence,   \* the records of the latest turn
  measured,   \* the hash its verification stamped them with
  workspace,
  cost,       \* what the session's runs cost so far
  remaining,  \* the PRD's criteria that are not VERIFIED
  work,       \* whether the todo list has an actionable, a blocked item
  stop,       \* what the last boundary decided
  sets, changes

turnVars == <<evidence, measured, workspace, cost>>
listVars == <<remaining, work, changes>>
askVars == <<turnState, unasked, answers>>
vars == <<record, pc, loop, askVars, turnVars, listVars, stop, sets>>

StopConditions ==
  {"GOAL_MET", "GOAL_IMPOSSIBLE", "BLOCKED", "BUDGET_EXCEEDED", "USER_STOPPED"}

TypeOK ==
  /\ record \in GoalStates \union {NoGoal}
  /\ pc \in {"idle", "turn", "boundary", "asking"} /\ loop \in BOOLEAN
  /\ turnState \in GoalStates \union {NoGoal}
  /\ pc = "asking" => turnState \in GoalStates
  /\ unasked \in Nat /\ answers \subseteq {"yes", "no", "undecided"}
  /\ evidence \subseteq Records /\ measured \in Contents /\ workspace \in Contents
  /\ cost \in Nat /\ remaining \subseteq Ids
  /\ work \in [actionable : BOOLEAN, blocked : BOOLEAN]
  /\ stop \in StopConditions \union {"none", "continue"}
  /\ sets \in Nat /\ changes \in Nat
-----------------------------------------------------------------------------
\* newGoalState.
NewGoal(text, limits) ==
  [text |-> text, active |-> TRUE, limits |-> limits, turns_used |-> 0]

\* A record of an earlier session may be on disk: the session it names is shown to
\* the user and read by no boundary.
Init ==
  /\ record \in {NoGoal} \union
       {NewGoal(text, limits) : text \in Goals, limits \in Limits}
  /\ pc = "idle" /\ loop = FALSE /\ turnState = NoGoal
  /\ unasked = 0 /\ answers = {} /\ evidence = {}
  /\ workspace \in Contents /\ measured = workspace
  /\ cost = 0 /\ remaining \in SUBSET Ids
  /\ work \in [actionable : BOOLEAN, blocked : BOOLEAN]
  /\ stop = "none" /\ sets = 0 /\ changes = 0
-----------------------------------------------------------------------------
(***************************************************************************)
(* The user and the rest of the session, at any moment.                    *)
(***************************************************************************)
Active(state) == state # NoGoal /\ state.active

\* /goal stop: also an earlier session's goal can be stopped.
UserStops ==
  /\ Active(record)
  /\ record' = [record EXCEPT !.active = FALSE]
  /\ UNCHANGED <<pc, loop, askVars, turnVars, listVars, stop, sets>>

Sets(text, limits) ==
  /\ sets < MaxSets
  /\ sets' = sets + 1
  /\ record' = NewGoal(text, limits)
  /\ UNCHANGED <<pc, loop, askVars, turnVars, listVars, stop>>

\* /goal <text>, with the caps given or configured.
UserSets == \E text \in Goals, limits \in Limits : Sets(text, limits)

\* Bare /goal shows a running goal and reports an earlier session's; without
\* either it derives one from the PRD's remaining criteria.
UserDerives ==
  /\ ~Active(record)
  /\ remaining # {}
  /\ \E limits \in Limits : Sets([kinds |-> {}, criteria |-> remaining, semantic |-> 0], limits)

Changed ==
  /\ changes < MaxChanges
  /\ changes' = changes + 1
  /\ UNCHANGED <<record, pc, loop, askVars, turnVars, stop, sets>>

\* Criteria are verified and reopened; items are added, closed and blocked.
PrdChanges == Changed /\ remaining' \in SUBSET Ids /\ UNCHANGED work

ListChanges ==
  /\ Changed
  /\ work' \in [actionable : BOOLEAN, blocked : BOOLEAN]
  /\ UNCHANGED remaining

\* A reviewer, a recovery round or the user edits after the verification.
Edit ==
  /\ pc \in {"boundary", "asking"}
  /\ workspace' \in Contents
  /\ UNCHANGED <<record, pc, loop, askVars, evidence, measured, cost, listVars, stop, sets>>
-----------------------------------------------------------------------------
(***************************************************************************)
(* Turns.                                                                  *)
(***************************************************************************)
Goto(place) == pc' = place /\ UNCHANGED <<sets, listVars>>

\* A prompt is a turn; the loop looks at the goal before its first one.
Prompt ==
  /\ pc = "idle" /\ loop' = FALSE
  /\ Goto("turn")
  /\ UNCHANGED <<record, askVars, turnVars, stop>>

StartLoop ==
  /\ pc = "idle" /\ record # NoGoal /\ loop' = TRUE
  /\ Goto("boundary")
  /\ UNCHANGED <<record, askVars, turnVars, stop>>

\* The executor's turn, seen from the boundary: it changes the workspace, ends
\* with the records of its verifications and their last hash, and costs.
RunTurn ==
  /\ pc = "turn"
  /\ Active(record) => record.turns_used <= MaxTurns
  /\ workspace' \in Contents
  /\ measured' = workspace'
  /\ evidence' \in Measured[measured']
  /\ cost' \in {c \in cost..(cost + 1) : c <= MaxCost}
  /\ Goto("boundary")
  /\ UNCHANGED <<record, loop, askVars, stop>>
-----------------------------------------------------------------------------
(***************************************************************************)
(* evaluateGoal.                                                           *)
(***************************************************************************)
\* The record with this boundary counted.
Counted == [record EXCEPT !.turns_used = @ + 1]

\* Mutant: the turn at the cap is still granted.
ExceededOffByOne(state) ==
  \/ state.limits.turns > 0 /\ state.turns_used > state.limits.turns
  \/ state.limits.cost > 0 /\ cost >= state.limits.cost

\* checkBudget, on the counted record.
Exceeded(state) ==
  \/ state.limits.turns > 0 /\ state.turns_used >= state.limits.turns
  \/ state.limits.cost > 0 /\ cost >= state.limits.cost

FreshPass(kind) ==
  \E r \in Fresh(evidence, measured) : r.kind = kind /\ r.status = "pass"

\* clauseSet: a goal that names a criterion is about every remaining one too.
CriterionClauses(text) ==
  IF text.criteria = {} THEN {} ELSE text.criteria \union remaining

\* resolveCriterionText: the proof gate's decision on the kinds that were measured.
Resolved(i) ==
  LET fresh == Attributed(Fresh(evidence, measured), i)
      required == {r.kind : r \in fresh}
  IN DecideCriterion(required, fresh, Attributed(Stale(evidence, measured), i),
       CoverageFallback(required, fresh), TRUE, FALSE) = "PASS"

Impossible(text) == \E clause \in text.kinds : ~(clause \subseteq Producible)

\* resolveMachineClause, over all of them.
MachineClausesHold(text) ==
  /\ \A clause \in text.kinds : \A kind \in clause : FreshPass(kind)
  /\ \A i \in CriterionClauses(text) : i \notin remaining /\ Resolved(i)

ClausesOf(text) == text.kinds # {} \/ CriterionClauses(text) # {} \/ text.semantic > 0

\* A boundary is over: what it decided is saved, and only the loop goes on.
Ends(decision, place) ==
  /\ stop' = decision
  /\ turnState' = NoGoal /\ unasked' = 0 /\ answers' = {}
  /\ Goto(place)
  /\ UNCHANGED <<loop, turnVars>>

StopNow(state, condition) ==
  /\ record' = [state EXCEPT !.active = FALSE]
  /\ Ends(condition, "idle")

\* Mutant: the boundary is not counted when the goal goes on.
KeepGoingUncounted(state) ==
  /\ record' = [state EXCEPT !.turns_used = @ - 1]
  /\ Ends("continue", IF loop THEN "turn" ELSE "idle")

KeepGoing(state) ==
  /\ record' = state
  /\ Ends("continue", IF loop THEN "turn" ELSE "idle")

\* continueOrBlock: a list is always wired.
ContinueOrBlock(state) ==
  \/ work.actionable /\ KeepGoing(state)
  \/ ~work.actionable /\ StopNow(state, "BLOCKED")

AtBoundary == pc = "boundary" /\ Active(record)

\* No goal is active: the turn has no boundary, and the loop is told it was stopped.
Inactive ==
  /\ pc = "boundary" /\ ~Active(record)
  /\ Ends(IF loop THEN "USER_STOPPED" ELSE "none", "idle")
  /\ UNCHANGED record

OverBudget ==
  /\ AtBoundary /\ Exceeded(Counted)
  /\ StopNow(Counted, "BUDGET_EXCEEDED")

Affordable == AtBoundary /\ ~Exceeded(Counted)

NamesNothing ==
  /\ Affordable /\ ~ClausesOf(record.text)
  /\ StopNow(Counted, "BLOCKED")

IsImpossible ==
  /\ Affordable /\ Impossible(record.text)
  /\ StopNow(Counted, "GOAL_IMPOSSIBLE")

Decidable == Affordable /\ ClausesOf(record.text) /\ ~Impossible(record.text)

Outstanding ==
  /\ Decidable /\ ~MachineClausesHold(record.text)
  /\ ContinueOrBlock(Counted)

Met ==
  /\ Decidable /\ MachineClausesHold(record.text) /\ record.text.semantic = 0
  /\ StopNow(Counted, "GOAL_MET")

\* Only a semantic clause survives: the boundary keeps its copy and waits.
Ask ==
  /\ Decidable /\ MachineClausesHold(record.text) /\ record.text.semantic > 0
  /\ turnState' = Counted /\ unasked' = record.text.semantic /\ answers' = {}
  /\ Goto("asking")
  /\ UNCHANGED <<record, loop, turnVars, stop>>

\* askSemanticClause: no client, a failure or an unaccepted answer is undecided.
Answered ==
  /\ pc = "asking" /\ unasked > 0
  /\ \E answer \in {"yes", "no", "undecided"} : answers' = answers \union {answer}
  /\ unasked' = unasked - 1
  /\ Goto(pc)
  /\ UNCHANGED <<record, loop, turnState, turnVars, stop>>

\* Mutant: one yes is enough.
ConcludeOnOneYes ==
  /\ pc = "asking" /\ unasked = 0
  /\ \/ "yes" \in answers /\ StopNow(turnState, "GOAL_MET")
     \/ "yes" \notin answers /\ "no" \in answers /\ ContinueOrBlock(turnState)
     \/ answers = {"undecided"} /\ StopNow(turnState, "BLOCKED")

\* Every clause was asked about; a refusal outranks an undecided clause.
Conclude ==
  /\ pc = "asking" /\ unasked = 0
  /\ \/ answers = {"yes"} /\ StopNow(turnState, "GOAL_MET")
     \/ "no" \in answers /\ ContinueOrBlock(turnState)
     \/ "no" \notin answers /\ "undecided" \in answers /\ StopNow(turnState, "BLOCKED")
-----------------------------------------------------------------------------
User == UserStops \/ UserSets \/ UserDerives

Boundary ==
  \/ Inactive \/ OverBudget \/ NamesNothing \/ IsImpossible \/ Outstanding
  \/ Met \/ Ask \/ Answered \/ Conclude

Next ==
  \/ User \/ PrdChanges \/ ListChanges \/ Edit
  \/ Prompt \/ StartLoop \/ RunTurn \/ Boundary

\* A turn and a client's answer are bounded by timeouts, so what was started ends.
Spec == Init /\ [][Next]_vars /\ WF_vars(RunTurn) /\ WF_vars(Boundary)
-----------------------------------------------------------------------------
(***************************************************************************)
(* Properties.                                                             *)
(***************************************************************************)
Within(state) == state.limits.turns > 0 => state.turns_used < state.limits.turns

\* A capped goal that is still active has not used its last turn, whoever wrote
\* the record last; and an exhausted budget costs no inference: a boundary that
\* asks the client is within both caps.
BudgetHolds ==
  /\ Active(record) => Within(record)
  /\ pc = "asking" =>
       /\ turnState.active /\ Within(turnState)
       /\ turnState.limits.cost > 0 => cost < turnState.limits.cost

\* What every machine clause of a goal needs to hold.
Proven(text) ==
  /\ \A clause \in text.kinds : \A kind \in clause :
       \E r \in evidence : r.kind = kind /\ r.status = "pass" /\ r.hash = measured
  /\ \A i \in text.criteria :
       /\ \E r \in evidence : i \in r.criterion /\ r.status = "pass" /\ r.hash = measured
       /\ \A r \in evidence : i \in r.criterion =>
            r.hash = measured /\ r.status \notin {"fail", "error"}

\* The client is only asked about a goal whose machine clauses are proven, and
\* what they rest on does not move under the questions.
AskedIsProven == pc = "asking" => Proven(turnState.text)

\* What the goal's record and its questions rest on at every step
\* (src/goal/boundary.ts:324-401).
GoalIsGrounded == TypeOK /\ BudgetHolds /\ AskedIsProven

Decides == pc \in {"boundary", "asking"} /\ pc' \in {"turn", "idle"}

Judged == IF pc = "asking" THEN turnState ELSE record

\* A goal is met only when each of its clauses holds on its own: its kinds have a
\* fresh pass, its criteria are proven without a contradiction or a stale record,
\* at the boundary none of the PRD's criteria remains, and every question about
\* it was answered yes.
MetIsProven ==
  [][Decides /\ stop' = "GOAL_MET" =>
       /\ Proven(Judged.text)
       /\ Judged.text.semantic > 0 => pc = "asking" /\ answers = {"yes"}
       /\ pc = "boundary" /\ record.text.criteria # {} => remaining = {}]_vars

\* The loop goes on only while there is something to do and a chance to do it: an
\* item of the list is actionable, and the workspace can produce every kind.
GoesOnForAReason ==
  [][Decides /\ stop' = "continue" =>
       /\ work.actionable
       /\ \A clause \in Judged.text.kinds : clause \subseteq Producible]_vars

\* A boundary meets a goal, or goes on with it, only for a reason
\* (src/goal/boundary.ts:339-427).
BoundaryIsJust == MetIsProven /\ GoesOnForAReason

\* The continuation loop ends by itself, unless its goal has no turn cap.
LoopEnds ==
  []<>(pc = "idle") \/ <>[](Active(record) /\ record.limits.turns = 0)
=============================================================================
