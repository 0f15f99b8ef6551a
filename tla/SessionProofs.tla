---------------------------- MODULE SessionProofs ----------------------------
(***************************************************************************)
(* Theorems about what a session keeps between its turns: its goal (module *)
(* Goal), the operator's pins and its recap (module Session).  Of the two  *)
(* specifications neither says anything of the other's variables.          *)
(*                                                                         *)
(* For every set of goals, caps, records and workspaces: the types, that   *)
(* no active goal is past its cap and no question is asked past a budget,  *)
(* that a goal is only met when each of its clauses is proven, and that a  *)
(* boundary goes on only for a reason.  For every set of models, ladders,  *)
(* branches and texts: what a restart comes back to, what a turn promises  *)
(* the operator, and that a recap is of the branch on screen.              *)
(***************************************************************************)
EXTENDS Goal, Session, FiniteSetTheorems, WellFoundedInduction, TLAPS

\* A record keeps its type when it is counted and when it is stopped.
LEMMA CountedType ==
  ASSUME record \in GoalStates
  PROVE  /\ Counted \in GoalStates
         /\ Counted.text = record.text /\ Counted.active = record.active
         /\ Counted.limits = record.limits
         /\ Counted.turns_used = record.turns_used + 1
  BY DEF Counted, GoalStates

LEMMA StoppedType ==
  ASSUME NEW state \in GoalStates
  PROVE  /\ [state EXCEPT !.active = FALSE] \in GoalStates
         /\ ~[state EXCEPT !.active = FALSE].active
  BY DEF GoalStates

LEMMA NewGoalType ==
  ASSUME NEW text \in [kinds : SUBSET SUBSET Kinds, criteria : SUBSET Ids, semantic : Nat],
         NEW limits \in [turns : Nat, cost : Nat]
  PROVE  NewGoal(text, limits) \in GoalStates
  BY DEF NewGoal, GoalStates

\* A criterion that resolves has a fresh pass of its own, no failure among its
\* fresh records and none from another state.
LEMMA ResolvedFacts ==
  ASSUME NEW i, Resolved(i)
  PROVE  /\ \E r \in evidence : i \in r.criterion /\ r.status = "pass" /\ r.hash = measured
         /\ \A r \in evidence : i \in r.criterion =>
              r.hash = measured /\ r.status \notin {"fail", "error"}
  <1> DEFINE fresh == Attributed(Fresh(evidence, measured), i)
             stale == Attributed(Stale(evidence, measured), i)
             required == {r.kind : r \in fresh}
  <1>1. DecideCriterion(required, fresh, stale, CoverageFallback(required, fresh),
          TRUE, FALSE) = "PASS"
    BY DEF Resolved
  <1>2. /\ Aggregate({r \in fresh : r.kind \in required}, stale) = "pass"
        /\ stale = {} /\ Covers(required, fresh)
    BY <1>1 DEF DecideCriterion
  <1>3. {r \in fresh : r.kind \in required} = fresh
    OBVIOUS
  <1>4. ~\E r \in fresh : r.status \in {"fail", "error"}
    BY <1>2, <1>3 DEF Aggregate
  <1>5. \E r \in fresh : r.status = "pass"
    BY <1>2 DEF Covers, Unsatisfied
  <1>6. \A r \in evidence : i \in r.criterion => r \in fresh
    BY <1>2 DEF Attributed, Fresh, Stale
  <1>7. \A r \in fresh : r \in evidence /\ i \in r.criterion /\ r.hash = measured
    BY DEF Attributed, Fresh
  <1> QED BY <1>4, <1>5, <1>6, <1>7

\* What the boundary calls machine clauses that hold is what Proven asks for.
LEMMA HoldIsProven ==
  ASSUME NEW text, MachineClausesHold(text)
  PROVE  /\ Proven(text)
         /\ text.criteria # {} => text.criteria \intersect remaining = {}
  <1>1. \A clause \in text.kinds : \A kind \in clause :
          \E r \in evidence : r.kind = kind /\ r.status = "pass" /\ r.hash = measured
    BY DEF MachineClausesHold, FreshPass, Fresh
  <1>2. \A i \in text.criteria : i \in CriterionClauses(text)
    BY DEF CriterionClauses
  <1>3. \A i \in text.criteria : i \notin remaining /\ Resolved(i)
    BY <1>2 DEF MachineClausesHold
  <1>4. \A i \in text.criteria :
          /\ \E r \in evidence : i \in r.criterion /\ r.status = "pass" /\ r.hash = measured
          /\ \A r \in evidence : i \in r.criterion =>
               r.hash = measured /\ r.status \notin {"fail", "error"}
    BY <1>3, ResolvedFacts
  <1> QED BY <1>1, <1>3, <1>4 DEF Proven
-----------------------------------------------------------------------------
\* What the induction carries: types, budgets and what is asked about.
GoalInv == TypeOK /\ BudgetHolds /\ AskedIsProven

LEMMA InitGoal == Init => GoalInv
<1> SUFFICES ASSUME Init PROVE GoalInv
  OBVIOUS
<1>1. record \in GoalStates \union {NoGoal}
  <2>1. ASSUME NEW text \in Goals, NEW limits \in Limits
        PROVE  NewGoal(text, limits) \in GoalStates
    BY GoalAssumption, NewGoalType DEF GoalAssumption
  <2>2. record = NoGoal \/ \E text \in Goals, limits \in Limits :
                             record = NewGoal(text, limits)
    BY DEF Init
  <2> QED
    BY <2>1, <2>2
<1>2. TypeOK
  <2>1. /\ pc = "idle" /\ loop = FALSE /\ turnState = NoGoal
        /\ unasked = 0 /\ answers = {} /\ evidence = {} /\ stop = "none"
        /\ cost = 0 /\ sets = 0 /\ changes = 0
    BY DEF Init
  <2>2. /\ workspace \in Contents /\ measured \in Contents /\ remaining \in SUBSET Ids
        /\ work \in [actionable : BOOLEAN, blocked : BOOLEAN]
    BY DEF Init
  <2> QED
    BY <1>1, <2>1, <2>2 DEF TypeOK
<1>3. Active(record) => Within(record)
  <2> SUFFICES ASSUME Active(record) PROVE Within(record)
    OBVIOUS
  <2>1. PICK text \in Goals, limits \in Limits : record = NewGoal(text, limits)
    BY DEF Init, Active
  <2>2. record.limits = limits /\ record.turns_used = 0
    BY <2>1 DEF NewGoal
  <2>3. limits.turns \in Nat
    BY GoalAssumption DEF GoalAssumption
  <2> QED
    BY <2>2, <2>3 DEF Within
<1>4. BudgetHolds /\ AskedIsProven
  BY <1>3 DEF Init, BudgetHolds, AskedIsProven
<1> QED
  BY <1>2, <1>4 DEF GoalInv

\* A boundary that ends leaves every variable but the record typed.
LEMMA EndsType ==
  ASSUME TypeOK, NEW decision \in StopConditions \union {"none", "continue"},
         NEW place \in {"idle", "turn"}, Ends(decision, place),
         record' \in GoalStates \union {NoGoal}
  PROVE  TypeOK'
  BY DEF TypeOK, Ends, Goto, listVars, turnVars

\* Whatever a boundary saves keeps the invariant: stopped, or counted and within.
LEMMA StopNowKeeps ==
  ASSUME TypeOK, NEW state \in GoalStates, NEW condition \in StopConditions,
         StopNow(state, condition)
  PROVE  GoalInv'
<1>1. record' \in GoalStates /\ ~record'.active
  BY StoppedType DEF StopNow
<1>2. TypeOK'
  BY <1>1, EndsType DEF StopNow
<1>3. pc' = "idle"
  BY DEF StopNow, Ends, Goto
<1> QED
  BY <1>1, <1>2, <1>3 DEF GoalInv, BudgetHolds, AskedIsProven, Active

LEMMA KeepGoingKeeps ==
  ASSUME TypeOK, NEW state \in GoalStates, Within(state), KeepGoing(state)
  PROVE  GoalInv'
<1>1. record' = state /\ pc' \in {"idle", "turn"}
  BY DEF KeepGoing, Ends, Goto
<1>2. TypeOK'
  BY <1>1, EndsType DEF KeepGoing
<1>3. Within(record')
  BY <1>1
<1> QED
  BY <1>1, <1>2, <1>3 DEF GoalInv, BudgetHolds, AskedIsProven, Within

LEMMA ContinueOrBlockKeeps ==
  ASSUME TypeOK, NEW state \in GoalStates, Within(state), ContinueOrBlock(state)
  PROVE  GoalInv'
  BY KeepGoingKeeps, StopNowKeeps DEF ContinueOrBlock, StopConditions

LEMMA StepGoal == GoalInv /\ [Next]_vars => GoalInv'
<1> SUFFICES ASSUME GoalInv, [Next]_vars PROVE GoalInv'
  OBVIOUS
<1> USE GoalAssumption DEF GoalAssumption
<1>t. TypeOK /\ BudgetHolds /\ AskedIsProven
  BY DEF GoalInv
<1>a. AtBoundary => record \in GoalStates /\ Counted \in GoalStates
                    /\ Counted.text = record.text /\ Counted.active
  BY <1>t, CountedType DEF AtBoundary, Active, TypeOK
<1>b. Affordable => Within(Counted) /\ (Counted.limits.cost > 0 => cost < Counted.limits.cost)
  <2> SUFFICES ASSUME Affordable PROVE Within(Counted) /\ (Counted.limits.cost > 0 => cost < Counted.limits.cost)
    OBVIOUS
  <2>1. Counted \in GoalStates /\ ~Exceeded(Counted)
    BY <1>a DEF Affordable
  <2>2. Counted.limits.turns \in Nat /\ Counted.limits.cost \in Nat
        /\ Counted.turns_used \in Nat /\ cost \in Nat
    BY <2>1, <1>t DEF GoalStates, TypeOK
  <2> QED
    BY <2>1, <2>2 DEF Exceeded, Within
<1>1. CASE UserStops
  <2>1. record \in GoalStates
    BY <1>t, <1>1 DEF UserStops, Active, TypeOK
  <2>2. record' \in GoalStates /\ ~record'.active
    BY <1>1, <2>1, StoppedType DEF UserStops
  <2>3. TypeOK'
    BY <1>t, <1>1, <2>2 DEF UserStops, TypeOK, askVars, turnVars, listVars
  <2> QED
    BY <1>t, <1>1, <2>2, <2>3 DEF UserStops, GoalInv, BudgetHolds, AskedIsProven, Active,
       Within, Proven, askVars, turnVars
<1>s. ASSUME NEW text \in [kinds : SUBSET SUBSET Kinds, criteria : SUBSET Ids, semantic : Nat],
             NEW limits \in Limits, Sets(text, limits)
      PROVE  GoalInv'
  <2>1. record' \in GoalStates /\ record'.limits = limits /\ record'.turns_used = 0
    BY <1>s, GoalAssumption, NewGoalType DEF Sets, GoalAssumption, NewGoal
  <2>2. TypeOK'
    BY <1>t, <1>s, <2>1 DEF Sets, TypeOK, askVars, turnVars, listVars
  <2>3. Within(record')
    BY <2>1 DEF Within
  <2> QED
    BY <1>t, <1>s, <2>2, <2>3 DEF Sets, GoalInv, BudgetHolds, AskedIsProven, Active,
       Within, Proven, askVars, turnVars
<1>2. CASE UserSets
  BY <1>2, <1>s DEF UserSets
<1>3. CASE UserDerives
  <2>1. [kinds |-> {}, criteria |-> remaining, semantic |-> 0]
          \in [kinds : SUBSET SUBSET Kinds, criteria : SUBSET Ids, semantic : Nat]
    BY <1>t DEF TypeOK
  <2> QED
    BY <1>3, <1>s, <2>1 DEF UserDerives
<1>4. CASE PrdChanges
  <2>1. TypeOK'
    BY <1>t, <1>4 DEF PrdChanges, Changed, TypeOK, askVars, turnVars
  <2> QED
    BY <1>t, <1>4, <2>1 DEF PrdChanges, Changed, GoalInv, BudgetHolds, AskedIsProven, Active,
       Within, Proven, askVars, turnVars
<1>5. CASE ListChanges
  <2>1. TypeOK'
    BY <1>t, <1>5 DEF ListChanges, Changed, TypeOK, askVars, turnVars
  <2> QED
    BY <1>t, <1>5, <2>1 DEF ListChanges, Changed, GoalInv, BudgetHolds, AskedIsProven, Active,
       Within, Proven, askVars, turnVars
<1>6. CASE Edit
  <2>1. TypeOK'
    BY <1>t, <1>6 DEF Edit, TypeOK, askVars, listVars
  <2> QED
    BY <1>t, <1>6, <2>1 DEF Edit, GoalInv, BudgetHolds, AskedIsProven, Active,
       Within, Proven, askVars
<1>7. CASE Prompt
  <2>1. TypeOK'
    BY <1>t, <1>7 DEF Prompt, Goto, TypeOK, askVars, turnVars, listVars
  <2> QED
    BY <1>t, <1>7, <2>1 DEF Prompt, Goto, GoalInv, BudgetHolds, AskedIsProven, Active, Within
<1>8. CASE StartLoop
  <2>1. TypeOK'
    BY <1>t, <1>8 DEF StartLoop, Goto, TypeOK, askVars, turnVars, listVars
  <2> QED
    BY <1>t, <1>8, <2>1 DEF StartLoop, Goto, GoalInv, BudgetHolds, AskedIsProven, Active, Within
<1>9. CASE RunTurn
  <2>1. evidence' \subseteq Records /\ measured' \in Contents /\ workspace' \in Contents
    BY <1>9 DEF RunTurn
  <2>2. cost' \in Nat
    BY <1>t, <1>9 DEF RunTurn, TypeOK
  <2>3. TypeOK'
    BY <1>t, <1>9, <2>1, <2>2 DEF RunTurn, Goto, TypeOK, askVars, listVars
  <2> QED
    BY <1>t, <1>9, <2>3 DEF RunTurn, Goto, GoalInv, BudgetHolds, AskedIsProven, Active, Within
<1>10. CASE Inactive
  <2>1. TypeOK'
    <3>1. (IF loop THEN "USER_STOPPED" ELSE "none") \in StopConditions \union {"none", "continue"}
      BY DEF StopConditions
    <3> QED
      BY <1>t, <1>10, <3>1, EndsType DEF Inactive, TypeOK
  <2> QED
    BY <1>t, <1>10, <2>1 DEF Inactive, Ends, Goto, GoalInv, BudgetHolds, AskedIsProven, Active, Within
<1>11. CASE OverBudget
  BY <1>t, <1>a, <1>11, StopNowKeeps DEF OverBudget, StopConditions
<1>12. CASE NamesNothing
  BY <1>t, <1>a, <1>12, StopNowKeeps DEF NamesNothing, Affordable, StopConditions
<1>13. CASE IsImpossible
  BY <1>t, <1>a, <1>13, StopNowKeeps DEF IsImpossible, Affordable, StopConditions
<1>14. CASE Outstanding
  BY <1>t, <1>a, <1>b, <1>14, ContinueOrBlockKeeps DEF Outstanding, Decidable, Affordable
<1>15. CASE Met
  BY <1>t, <1>a, <1>15, StopNowKeeps DEF Met, Decidable, Affordable, StopConditions
<1>16. CASE Ask
  <2>1. turnState' \in GoalStates /\ turnState' = Counted /\ turnState'.text = record.text
        /\ turnState'.active
    BY <1>a, <1>16 DEF Ask, Decidable, Affordable
  <2>2. Within(turnState') /\ (turnState'.limits.cost > 0 => cost < turnState'.limits.cost)
    BY <1>b, <1>16, <2>1 DEF Ask, Decidable
  <2>3. record.text.semantic \in Nat /\ record # NoGoal
    BY <1>t, <1>16 DEF Ask, Decidable, Affordable, AtBoundary, Active, TypeOK, GoalStates
  <2>4. TypeOK'
    BY <1>t, <1>16, <2>1, <2>3 DEF Ask, Goto, TypeOK, turnVars, listVars
  <2>5. Proven(record.text)
    BY <1>16, HoldIsProven DEF Ask
  <2>6. BudgetHolds'
    BY <1>t, <1>16, <2>1, <2>2 DEF Ask, Goto, BudgetHolds, Active, Within, turnVars
  <2>7. AskedIsProven'
    BY <1>16, <2>1, <2>5 DEF Ask, AskedIsProven, Proven, turnVars
  <2> QED
    BY <2>4, <2>6, <2>7 DEF GoalInv
<1>17. CASE Answered
  <2>1. TypeOK'
    BY <1>t, <1>17 DEF Answered, Goto, TypeOK, turnVars, listVars
  <2> QED
    BY <1>t, <1>17, <2>1 DEF Answered, Goto, GoalInv, BudgetHolds, AskedIsProven, Active,
       Within, Proven, turnVars
<1>18. CASE Conclude
  <2>1. turnState \in GoalStates /\ Within(turnState)
    BY <1>t, <1>18 DEF Conclude, TypeOK, BudgetHolds
  <2> QED
    BY <1>t, <1>18, <2>1, StopNowKeeps, ContinueOrBlockKeeps DEF Conclude, StopConditions
<1>19. CASE UNCHANGED vars
  BY <1>t, <1>19 DEF vars, GoalInv, TypeOK, BudgetHolds, AskedIsProven, Active, Within, Proven,
     askVars, turnVars, listVars
<1> QED
  BY <1>1, <1>2, <1>3, <1>4, <1>5, <1>6, <1>7, <1>8, <1>9, <1>10, <1>11, <1>12, <1>13, <1>14,
     <1>15, <1>16, <1>17, <1>18, <1>19 DEF Next, User, Boundary

\* The inductive invariant holds of every behaviour.
LEMMA InvariantHolds == Spec => []GoalInv
  BY InitGoal, StepGoal, PTL DEF Spec
-----------------------------------------------------------------------------
\* Every variable of the engine keeps its type, however the user, the list and
\* the PRD move while a boundary waits (src/goal/boundary.ts, state.ts).
THEOREM TypeCorrect == Spec => []TypeOK
<1>1. GoalInv => TypeOK
  BY DEF GoalInv
<1> QED
  BY <1>1, InvariantHolds, PTL

\* For every cap: an active goal has a turn left, and a boundary whose budget is
\* exhausted asks nothing (evaluateGoal, checkBudget).
THEOREM BudgetIsHeld == Spec => []BudgetHolds
<1>1. GoalInv => BudgetHolds
  BY DEF GoalInv
<1> QED
  BY <1>1, InvariantHolds, PTL

\* What a question rests on stays proven while it is asked (askSemanticClause).
THEOREM QuestionsRestOnProof == Spec => []AskedIsProven
<1>1. GoalInv => AskedIsProven
  BY DEF GoalInv
<1> QED
  BY <1>1, InvariantHolds, PTL

\* What MetIsProven asks of one step.
MetStep ==
  Decides /\ stop' = "GOAL_MET" =>
    /\ Proven(Judged.text)
    /\ Judged.text.semantic > 0 => pc = "asking" /\ answers = {"yes"}
    /\ pc = "boundary" /\ record.text.criteria # {} => remaining = {}

\* A boundary that goes on does not report the goal as met.
LEMMA OnlyMetMeets ==
  ASSUME GoalInv, [Next]_vars, Decides, stop' = "GOAL_MET"
  PROVE  Met \/ (Conclude /\ answers = {"yes"})
<1>1. pc \in {"boundary", "asking"} /\ pc' \in {"turn", "idle"} /\ pc' # pc
  BY DEF Decides
<1>2. ~UNCHANGED vars /\ ~Edit /\ ~PrdChanges /\ ~ListChanges /\ ~UserStops
  BY <1>1 DEF vars, Edit, PrdChanges, ListChanges, Changed, UserStops
<1>3. ~UserSets /\ ~UserDerives /\ ~Prompt /\ ~StartLoop /\ ~RunTurn
  BY <1>1 DEF UserSets, UserDerives, Sets, Prompt, StartLoop, RunTurn
<1>4. ~Ask /\ ~Answered
  BY <1>1 DEF Ask, Answered, Goto
<1>5. ~Inactive /\ ~OverBudget /\ ~NamesNothing /\ ~IsImpossible
  BY DEF Inactive, OverBudget, NamesNothing, IsImpossible, StopNow, Ends
<1>6. \A state : ~ContinueOrBlock(state)
  BY DEF ContinueOrBlock, KeepGoing, StopNow, Ends
<1>7. ~Outstanding
  BY <1>6 DEF Outstanding
<1>8. Conclude => answers = {"yes"}
  BY <1>6 DEF Conclude, StopNow, Ends
<1> QED
  BY <1>2, <1>3, <1>4, <1>5, <1>7, <1>8 DEF Next, User, Boundary

\* For every goal: it is met only when each of its clauses holds on its own
\* (evaluateGoal, resolveMachineClause, resolveCriterionText).
THEOREM MetIsProved == Spec => MetIsProven
<1>1. GoalInv /\ [Next]_vars => [MetStep]_vars
  <2> SUFFICES ASSUME GoalInv, [Next]_vars, Decides, stop' = "GOAL_MET"
               PROVE  /\ Proven(Judged.text)
                      /\ Judged.text.semantic > 0 => pc = "asking" /\ answers = {"yes"}
                      /\ pc = "boundary" /\ record.text.criteria # {} => remaining = {}
    BY DEF MetStep
  <2>1. CASE Met
    <3>1. pc = "boundary" /\ Judged = record /\ record.text.semantic = 0
      BY <2>1 DEF Met, Decidable, Affordable, AtBoundary, Judged
    <3>2. MachineClausesHold(record.text)
      BY <2>1 DEF Met
    <3>3. Proven(record.text)
      BY <3>2, HoldIsProven
    <3>4. record.text.criteria # {} => remaining = {}
      BY <3>2 DEF MachineClausesHold, CriterionClauses
    <3> QED
      BY <3>1, <3>3, <3>4
  <2>2. CASE Conclude /\ answers = {"yes"}
    <3>1. pc = "asking" /\ Judged = turnState
      BY <2>2 DEF Conclude, Judged
    <3> QED
      BY <2>2, <3>1 DEF GoalInv, AskedIsProven
  <2> QED
    BY <2>1, <2>2, OnlyMetMeets
<1> QED
  BY <1>1, InvariantHolds, PTL DEF Spec, MetIsProven, MetStep

\* The record and the questions stay grounded (boundary.ts:324-401).
THEOREM GoalsAreGrounded == Spec => []GoalIsGrounded
BY TypeCorrect, BudgetIsHeld, QuestionsRestOnProof, PTL DEF GoalIsGrounded
-----------------------------------------------------------------------------
\* What the boundary waits for answers about is a goal it found producible; the
\* copy it waits with does not move when the user sets another goal.
AskedIsPossible ==
  pc = "asking" => \A clause \in turnState.text.kinds : clause \subseteq Producible

LEMMA AskedPossibleStep ==
  GoalInv /\ AskedIsPossible /\ [Next]_vars => AskedIsPossible'
<1> SUFFICES ASSUME GoalInv, AskedIsPossible, [Next]_vars, pc' = "asking"
             PROVE  \A clause \in turnState'.text.kinds : clause \subseteq Producible
  BY DEF AskedIsPossible
<1>1. CASE Ask
  <2>1. Counted.text = record.text
    BY <1>1, CountedType DEF Ask, Decidable, Affordable, AtBoundary, Active, GoalInv, TypeOK
  <2>2. turnState' = Counted /\ ~Impossible(record.text)
    BY <1>1 DEF Ask, Decidable
  <2> QED
    BY <2>1, <2>2 DEF Impossible
<1>2. CASE pc = "asking" /\ UNCHANGED turnState
  BY <1>2 DEF AskedIsPossible
<1>3. CASE ~Ask /\ ~(pc = "asking" /\ UNCHANGED turnState)
  <2>1. ~User /\ ~PrdChanges /\ ~ListChanges /\ ~Edit /\ ~UNCHANGED vars
    BY <1>3 DEF User, UserStops, UserSets, UserDerives, Sets, PrdChanges, ListChanges,
       Changed, Edit, vars, askVars
  <2>2. ~Prompt /\ ~StartLoop /\ ~RunTurn /\ ~Answered
    BY <1>3 DEF Prompt, StartLoop, RunTurn, Answered, Goto
  <2>3. \A state, condition : ~StopNow(state, condition) /\ ~ContinueOrBlock(state)
    BY DEF StopNow, ContinueOrBlock, KeepGoing, Ends, Goto
  <2>4. ~Inactive
    BY DEF Inactive, Ends, Goto
  <2> QED
    BY <1>3, <2>1, <2>2, <2>3, <2>4 DEF Next, Boundary, OverBudget, NamesNothing,
       IsImpossible, Outstanding, Met, Conclude
<1> QED
  BY <1>1, <1>2, <1>3

\* A boundary that decides to go on goes on through the list.
LEMMA OnlyTheListGoesOn ==
  ASSUME GoalInv, [Next]_vars, Decides, stop' = "continue"
  PROVE  work.actionable /\ (Outstanding \/ Conclude)
<1>1. pc \in {"boundary", "asking"} /\ pc' \in {"turn", "idle"} /\ pc' # pc
  BY DEF Decides
<1>2. ~UNCHANGED vars /\ ~Edit /\ ~PrdChanges /\ ~ListChanges /\ ~UserStops
  BY <1>1 DEF vars, Edit, PrdChanges, ListChanges, Changed, UserStops
<1>3. ~UserSets /\ ~UserDerives /\ ~Prompt /\ ~StartLoop /\ ~RunTurn
  BY <1>1 DEF UserSets, UserDerives, Sets, Prompt, StartLoop, RunTurn
<1>4. ~Ask /\ ~Answered
  BY <1>1 DEF Ask, Answered, Goto
<1>5. \A state, condition : StopNow(state, condition) => condition = "continue"
  BY DEF StopNow, Ends
<1>6. ~OverBudget /\ ~NamesNothing /\ ~IsImpossible /\ ~Met /\ ~Inactive
  BY <1>5 DEF OverBudget, NamesNothing, IsImpossible, Met, Inactive, Ends
<1>7. \A state : ContinueOrBlock(state) => work.actionable
  BY <1>5 DEF ContinueOrBlock
<1>8. Outstanding \/ Conclude
  BY <1>2, <1>3, <1>4, <1>6 DEF Next, User, Boundary
<1>9. ~StopNow(turnState, "GOAL_MET") /\ ~StopNow(turnState, "BLOCKED")
  BY <1>5
<1> QED
  BY <1>7, <1>8, <1>9 DEF Outstanding, Conclude

\* What GoesOnForAReason asks of one step.
GoOnStep ==
  Decides /\ stop' = "continue" =>
    /\ work.actionable
    /\ \A clause \in Judged.text.kinds : clause \subseteq Producible

\* A boundary meets a goal or goes on with it only for a reason, for every goal,
\* every list and whatever the user does while questions are asked
\* (src/goal/boundary.ts:339-427).
THEOREM BoundariesAreJust == Spec => BoundaryIsJust
<1>1. Init => AskedIsPossible
  BY DEF Init, AskedIsPossible
<1>2. GoalInv /\ AskedIsPossible /\ [Next]_vars => [GoOnStep]_vars
  <2> SUFFICES ASSUME GoalInv, AskedIsPossible, [Next]_vars, Decides, stop' = "continue"
               PROVE  \A clause \in Judged.text.kinds : clause \subseteq Producible
    BY OnlyTheListGoesOn DEF GoOnStep
  <2>1. CASE Outstanding
    BY <2>1 DEF Outstanding, Decidable, Affordable, AtBoundary, Judged, Impossible
  <2>2. CASE Conclude
    BY <2>2 DEF Conclude, Judged, AskedIsPossible
  <2> QED
    BY <2>1, <2>2, OnlyTheListGoesOn
<1>3. Spec => []AskedIsPossible
  BY <1>1, AskedPossibleStep, InvariantHolds, PTL DEF Spec
<1>4. Spec => GoesOnForAReason
  BY <1>2, <1>3, InvariantHolds, PTL DEF Spec, GoesOnForAReason, GoOnStep
<1> QED
  BY <1>4, MetIsProved DEF BoundaryIsJust

------------------------------------------------- (* the operator's pins *)

Manuals ==
  [pi : [model : Models, level : Levels],
   pins : [model : Models \union {None}, previous : Models \union {None}, effort : Levels \union {None}],
   applied : [model : Models \union {None}, level : Levels \union {None}],
   marker : Levels \union {None},
   file : [model : Models \union {None}, effort : Levels \union {None}]]

\* The file says what is pinned.
Kept(m) == Remember => m.file = [model |-> m.pins.model, effort |-> m.pins.effort]

\* What every handler but a command's own leaves alone: the pinned model, and the
\* file if it says what is pinned.
Follows(n, m) == n \in Manuals /\ n.pins.model = m.pins.model /\ (Kept(m) => Kept(n))

LEMMA RecordType ==
  ASSUME NEW m \in Manuals
  PROVE  ManualOK(m) /\ Follows(m, m)
BY DEF Manuals, ManualOK, Follows

LEMMA Following ==
  ASSUME NEW k, NEW m, NEW n, Follows(n, m), Follows(k, n)
  PROVE  Follows(k, m)
BY DEF Follows

LEMMA Remembers ==
  ASSUME NEW m \in Manuals, NEW model \in Models \union {None}, NEW effort \in Levels \union {None}
  PROVE  LET n == RememberManual(m, model, effort) IN
         /\ n \in Manuals /\ n.pi = m.pi /\ n.pins = m.pins /\ n.applied = m.applied /\ n.marker = m.marker
         /\ Remember => n.file = [model |-> model, effort |-> effort]
<1>1. CASE [model |-> model, effort |-> effort] = NoFile
  BY <1>1 DEF RememberManual, Manuals, NoFile
<1>2. CASE [model |-> model, effort |-> effort] # NoFile
  BY <1>2 DEF RememberManual, Manuals, NoFile
<1> QED
  BY <1>1, <1>2

\* Whatever is saved with the pins in force is what the file then says.
LEMMA RemembersPins ==
  ASSUME NEW m \in Manuals
  PROVE  /\ RememberPins(m) \in Manuals /\ Kept(RememberPins(m))
         /\ RememberPins(m).pi = m.pi /\ RememberPins(m).pins = m.pins
<1>1. m.pins.model \in Models \union {None} /\ m.pins.effort \in Levels \union {None}
  BY DEF Manuals
<1> DEFINE n == RememberManual(m, m.pins.model, m.pins.effort)
<1>2. /\ n \in Manuals /\ n.pi = m.pi /\ n.pins = m.pins
      /\ Remember => n.file = [model |-> m.pins.model, effort |-> m.pins.effort]
  BY <1>1, Remembers
<1>3. RememberPins(m) = n
  BY DEF RememberPins
<1> HIDE DEF n
<1> QED
  BY <1>2, <1>3 DEF Kept

LEMMA PinsEffort ==
  ASSUME NEW m \in Manuals, NEW level \in Levels \union {None}
  PROVE  LET n == PinEffort(m, level) IN
         Follows(n, m) /\ Kept(n) /\ n.pi = m.pi /\ n.pins = [m.pins EXCEPT !.effort = level]
<1> DEFINE p == [m EXCEPT !.pins.effort = level]
<1>1. p \in Manuals /\ p.pi = m.pi /\ p.pins = [m.pins EXCEPT !.effort = level]
  BY DEF Manuals
<1>2. PinEffort(m, level) = RememberPins(p)
  BY DEF PinEffort
<1>3. p.pins.model = m.pins.model
  BY <1>1 DEF Manuals
<1> HIDE DEF p
<1> QED
  BY <1>1, <1>2, <1>3, RemembersPins DEF Follows

\* The event moves nothing but what is recorded of it; one that LeanPi caused
\* pins nothing.
LEMMA EventFollows ==
  ASSUME NEW m \in Manuals, NEW previous \in Levels
  PROVE  LET n == ThinkingLevelSelect(m, previous) IN
         Follows(n, m) /\ n.pi = m.pi /\ (m.marker = m.pi.level => n.pins = m.pins)
<1> DEFINE base == IF m.applied.model = None THEN At(m.pi.model, previous) ELSE m.applied
           seen == [m EXCEPT !.applied = base, !.marker = None]
           moved == [seen EXCEPT !.applied = m.pi]
<1>1. /\ seen \in Manuals /\ seen.pi = m.pi /\ seen.pins = m.pins /\ seen.file = m.file
      /\ m.pi.level \in Levels /\ base.model \in Models \union {None}
  BY DEF Manuals, At
<1>2. \/ ThinkingLevelSelect(m, previous) \in {seen, moved}
      \/ ThinkingLevelSelect(m, previous) = PinEffort(seen, m.pi.level) /\ m.marker # m.pi.level
  BY DEF ThinkingLevelSelect
<1> HIDE DEF base, seen
<1>3. moved \in Manuals /\ moved.pi = m.pi /\ moved.pins = m.pins /\ moved.file = m.file
  BY <1>1 DEF Manuals
<1> HIDE DEF moved
<1>4. Follows(seen, m) /\ Follows(moved, m)
  BY <1>1, <1>3 DEF Follows, Kept
<1>5. CASE ThinkingLevelSelect(m, previous) \in {seen, moved}
  BY <1>1, <1>3, <1>4, <1>5
<1>6. CASE ThinkingLevelSelect(m, previous) = PinEffort(seen, m.pi.level) /\ m.marker # m.pi.level
  <2>1. Follows(PinEffort(seen, m.pi.level), seen) /\ PinEffort(seen, m.pi.level).pi = m.pi
    BY <1>1, PinsEffort
  <2> QED
    BY <1>4, <1>6, <2>1, Following
<1> QED
  BY <1>2, <1>5, <1>6

LEMMA ModelIsSet ==
  ASSUME NEW m \in Manuals, NEW model \in Models
  PROVE  LET n == SetModel(m, model) IN Follows(n, m) /\ n.pi.model = model
<1> DEFINE switched == [m EXCEPT !.pi = At(model, Default[model])]
<1>1. Default[model] \in Levels /\ m.pi.level \in Levels
  BY ManualAssumption DEF Manuals
<1>2. /\ switched \in Manuals /\ switched.pi = At(model, Default[model]) /\ switched.pins = m.pins
      /\ switched.file = m.file
  BY <1>1 DEF Manuals, At
<1>3. \/ SetModel(m, model) = m /\ model = m.pi.model
      \/ SetModel(m, model) \in {switched, ThinkingLevelSelect(switched, m.pi.level)}
  BY DEF SetModel
<1> HIDE DEF switched
<1>4. Follows(switched, m) /\ switched.pi.model = model
  BY <1>2 DEF Follows, Kept, At
<1>5. LET n == ThinkingLevelSelect(switched, m.pi.level) IN Follows(n, m) /\ n.pi.model = model
  BY <1>1, <1>2, <1>4, EventFollows, Following
<1> QED
  BY <1>3, <1>4, <1>5, RecordType

\* Pi keeps a step of the model it is on.
LEMMA PiHoldsAStep ==
  ASSUME NEW m \in Manuals, NEW level \in Levels
  PROVE  HeldLevel(m, level) \in Levels
<1>1. m.pi.model \in Models
  BY DEF Manuals
<1> QED
  BY <1>1, ManualAssumption DEF HeldLevel

\* An install leaves the pins and the file alone, and a marker where it moved Pi.
LEMMA LevelIsInstalled ==
  ASSUME NEW m \in Manuals, NEW level \in Levels
  PROVE  LET n == Install(m, level) IN
         /\ Follows(n, m) /\ n.pins = m.pins
         /\ n.pi.model = m.pi.model /\ n.pi.level = HeldLevel(m, level)
         /\ n.pi.level # m.pi.level => n.marker = n.pi.level
<1> DEFINE held == HeldLevel(m, level)
           mark == NoteInstalled(m.pi.level, held)
           n == [m EXCEPT !.pi.level = held, !.marker = mark]
<1>1. held \in Levels
  BY PiHoldsAStep
<1>2. Install(m, level) = n
  BY DEF Install
<1> HIDE DEF held
<1>3. mark \in Levels \union {None} /\ (held # m.pi.level => mark = held)
  BY <1>1 DEF NoteInstalled
<1> HIDE DEF mark
<1>4. /\ n \in Manuals /\ n.pins = m.pins /\ n.file = m.file
      /\ n.pi.model = m.pi.model /\ n.pi.level = held /\ n.marker = mark
  BY <1>1, <1>3 DEF Manuals
<1> HIDE DEF n
<1> QED
  BY <1>2, <1>3, <1>4 DEF Follows, Kept, held

LEMMA EventIsDelivered ==
  ASSUME NEW m \in Manuals, NEW previous \in Levels
  PROVE  LET n == Delivered(m, previous) IN
         /\ Follows(n, m) /\ n.pi = m.pi
         /\ (m.pi.level # previous => m.marker = m.pi.level) => n.pins = m.pins
BY EventFollows, RecordType DEF Delivered

LEMMA PiMoves ==
  ASSUME NEW m \in Manuals, NEW level \in Levels
  PROVE  Follows([m EXCEPT !.pi.level = level], m)
BY DEF Manuals, Follows, Kept

\* The operator picks a level.
LEMMA PickFollows ==
  ASSUME NEW m \in Manuals, NEW level \in Levels
  PROVE  Follows(PickLevel(m, level), m) /\ Follows(Effort(m, level), m)
<1> DEFINE kept == HeldLevel(m, level)
           moved == [m EXCEPT !.pi.level = kept]
<1>0. kept \in Levels
  BY PiHoldsAStep
<1> HIDE DEF kept
<1>1. Follows(moved, m) /\ moved \in Manuals /\ m.pi.level \in Levels
  BY <1>0, PiMoves DEF Follows, Manuals
<1> HIDE DEF moved
<1>2. Follows(Delivered(moved, m.pi.level), m)
  BY <1>1, EventIsDelivered, Following
<1>3. Follows(PinEffort(moved, kept), m)
  BY <1>0, <1>1, PinsEffort, Following
<1>4. Follows(Delivered(PinEffort(moved, kept), m.pi.level), m)
  <2> DEFINE p == PinEffort(moved, kept)
  <2>1. p \in Manuals
    BY <1>3 DEF Follows
  <2> HIDE DEF p
  <2>2. Follows(Delivered(p, m.pi.level), p)
    BY <1>1, <2>1, EventIsDelivered
  <2> QED
    BY <1>3, <2>2, Following DEF p
<1> QED
  BY <1>2, <1>4 DEF PickLevel, Effort, moved, kept

LEMMA PinStartsFollows ==
  ASSUME NEW m \in Manuals, NEW model \in Models
  PROVE  Follows(PinStarts(m, model), m)
<1> DEFINE kept == [m EXCEPT !.pins.previous = IF m.pins.model = None THEN m.pi.model ELSE @]
<1>1. Follows(kept, m) /\ kept \in Manuals
  BY DEF Manuals, Follows, Kept
<1>2. PinStarts(m, model) = SetModel(kept, model)
  BY DEF PinStarts
<1> HIDE DEF kept
<1> QED
  BY <1>1, <1>2, ModelIsSet, Following

\* The pin comes to rest: whatever the file said, it says the pins now.
LEMMA PinRests ==
  ASSUME NEW m \in Manuals, NEW model \in Models
  PROVE  /\ PinModel(m, model) \in Manuals /\ Kept(PinModel(m, model)) /\ PinModel(m, model).pins.model = model
         /\ RememberPins([m EXCEPT !.pins.model = model]) = PinModel(m, model)
<1>1. [m EXCEPT !.pins.model = model] \in Manuals /\ [m EXCEPT !.pins.model = model].pins.model = model
  BY DEF Manuals
<1> QED
  BY <1>1, RemembersPins DEF PinModel

LEMMA PinIsCleared ==
  ASSUME NEW m \in Manuals
  PROVE  ClearPin(m) \in Manuals /\ ClearPin(m).pins.model = None
BY DEF ClearPin, Manuals

LEMMA AutoRests ==
  ASSUME NEW m \in Manuals, m.pins.model = None, NEW previous \in Models \union {None}
  PROVE  Return(m, previous) \in Manuals /\ Kept(Return(m, previous))
<1> DEFINE back == IF previous = None THEN m ELSE SetModel(m, previous)
<1>1. back \in Manuals /\ back.pins.model = None
  BY ModelIsSet, RecordType DEF Follows
<1>2. Return(m, previous) = RememberManual(back, None, back.pins.effort)
  BY DEF Return
<1> HIDE DEF back
<1>3. back.pins.effort \in Levels \union {None}
  BY <1>1 DEF Manuals
<1> DEFINE n == RememberManual(back, None, back.pins.effort)
<1>4. /\ n \in Manuals /\ n.pins = back.pins
      /\ Remember => n.file = [model |-> None, effort |-> back.pins.effort]
  BY <1>1, <1>3, Remembers
<1> HIDE DEF n
<1> QED
  BY <1>1, <1>2, <1>4 DEF Kept, n

LEMMA ResetFollows ==
  ASSUME NEW m \in Manuals
  PROVE  Follows(RouteReset(m), m)
<1> DEFINE p == [m EXCEPT !.pins.effort = None, !.marker = None]
<1>1. p \in Manuals /\ p.pins.model = m.pins.model
  BY DEF Manuals
<1>2. RouteReset(m) = RememberPins(p)
  BY DEF RouteReset
<1> HIDE DEF p
<1> QED
  BY <1>1, <1>2, RemembersPins DEF Follows

LEMMA StartFollows ==
  ASSUME NEW m \in Manuals
  PROVE  Follows(SessionStart(m), m)
<1> DEFINE kept == IF m.pins.model # None /\ m.pins.previous = None THEN [m EXCEPT !.pins.previous = m.pi.model] ELSE m
           on   == IF kept.pins.model = None THEN kept ELSE SetModel(kept, kept.pins.model)
           to   == Install(on, on.pins.effort)
<1>1. Follows(kept, m) /\ kept \in Manuals
  BY DEF Manuals, Follows, Kept
<1>2. Follows(on, m) /\ on \in Manuals
  <2> HIDE DEF kept
  <2>1. kept.pins.model # None => kept.pins.model \in Models
    BY <1>1 DEF Manuals
  <2> QED
    BY <1>1, <2>1, ModelIsSet, Following DEF Follows
<1>3. CASE on.pins.effort = None
  BY <1>2, <1>3 DEF SessionStart
<1>4. CASE on.pins.effort # None
  <2>1. SessionStart(m) = Delivered(to, on.pi.level)
    BY <1>4 DEF SessionStart
  <2> HIDE DEF kept, on
  <2>2. on.pins.effort \in Levels /\ on.pi.level \in Levels
    BY <1>2, <1>4 DEF Manuals
  <2>3. Follows(to, on)
    BY <1>2, <2>2, LevelIsInstalled
  <2> HIDE DEF to
  <2>4. Follows(Delivered(to, on.pi.level), to)
    BY <2>2, <2>3, EventIsDelivered DEF Follows
  <2> QED
    BY <1>2, <2>1, <2>3, <2>4, Following
<1> QED
  BY <1>3, <1>4

LEMMA SwitchFollows ==
  ASSUME NEW m \in Manuals
  PROVE  Follows(SessionSwitch(m), m)
<1>1. [m EXCEPT !.marker = None] \in Manuals /\ Follows([m EXCEPT !.marker = None], m)
  BY DEF Manuals, Follows, Kept
<1> QED
  BY <1>1, StartFollows, Following DEF SessionSwitch

\* A restart comes back to what the file says.
LEMMA RestartIsKept ==
  ASSUME NEW file \in [model : Models \union {None}, effort : Levels \union {None}]
  PROVE  Started(file) \in Manuals /\ Kept(Started(file))
<1> DEFINE m == Restarted([pi |-> Home, applied |-> At(None, None), marker |-> None, file |-> file, pins |-> Unpinned], Home)
<1>1. m \in Manuals /\ Kept(m)
  BY SessionAssumption DEF Restarted, Manuals, Kept, At, Unpinned
<1>2. Started(file) = SessionStart(m)
  BY DEF Started
<1> HIDE DEF m
<1> QED
  BY <1>1, <1>2, StartFollows DEF Follows

--------------------------------------------------------- (* the turn *)

Phases == {"idle", "lanes", "compiling", "running", "ended", "settling"}

Runs ==
  [phase : Phases, class : Classes \union {"balanced"}, contract : BOOLEAN, pending : BOOLEAN,
   pinned : BOOLEAN, retried : BOOLEAN, backend : Models \union {None}, billed : {0, 1}]

Commands ==
  {NoCommand} \union [kind : {"pin"}, model : Models] \union [kind : {"auto"}, model : Models \union {None}]

\* A turn that was sent somewhere is on a model, and is pending if it compiled a
\* task; it has no record before its end.
RunOK(r) ==
  /\ r \in Runs
  /\ r.phase \in {"compiling", "running", "ended", "settling"} => r.class \in Classes
  /\ r.phase \in {"running", "ended", "settling"} => r.backend \in Models /\ (r.contract => r.pending)
  /\ r.phase # "idle" => r.billed = 0

\* While /model auto waits for Pi no model is pinned; whenever it does not the file
\* says what is pinned.
PinsOK(m, c) ==
  /\ m \in Manuals
  /\ c.kind = "auto" => m.pins.model = None
  /\ c.kind # "auto" => Kept(m)

TurnInv ==
  /\ PinsOK(manual, command) /\ limited \subseteq Models /\ RunOK(run)
  /\ command \in Commands /\ handed \in BOOLEAN

LEMMA FollowsIsOK ==
  ASSUME NEW n, NEW m, NEW c, PinsOK(m, c), Follows(n, m)
  PROVE  PinsOK(n, c)
BY DEF PinsOK, Follows

LEMMA NoRunIsOK == RunOK(NoRun)
BY DEF RunOK, NoRun, Runs, Phases

LEMMA LadderHasModels ==
  ASSUME NEW class \in Classes, NEW unavailable
  PROVE  ResolveRoleAvoiding(class, unavailable) \in Models
<1> DEFINE first(i) == /\ Chain[class][i] \notin unavailable
                       /\ \A j \in 1..i-1 : Chain[class][j] \in unavailable
           k == CHOOSE i \in DOMAIN Chain[class] : first(i)
<1>1. 1 \in DOMAIN Chain[class] /\ \A i \in DOMAIN Chain[class] : Chain[class][i] \in Models
  BY SessionAssumption DEF Classes
<1>2. (\E i \in DOMAIN Chain[class] : first(i)) => k \in DOMAIN Chain[class]
  <2> HIDE DEF first
  <2> QED
    OBVIOUS
<1>3. ResolveRoleAvoiding(class, unavailable) = IF \E i \in DOMAIN Chain[class] : first(i) THEN Chain[class][k] ELSE Chain[class][1]
  BY DEF ResolveRoleAvoiding
<1> HIDE DEF first, k
<1> QED
  BY <1>1, <1>2, <1>3

LEMMA TurnStarts == SessionInit => TurnInv
<1> SUFFICES ASSUME SessionInit PROVE TurnInv
  OBVIOUS
<1>1. NoFile \in [model : Models \union {None}, effort : Levels \union {None}]
  BY DEF NoFile
<1>2. manual \in Manuals /\ Kept(manual)
  BY <1>1, RestartIsKept DEF SessionInit
<1> QED
  BY <1>2, NoRunIsOK DEF SessionInit, TurnInv, PinsOK, Commands, NoCommand, None

\* The turn begins: a level held by hand is pinned.
LEMMA BeginsOK ==
  ASSUME TurnInv, BeforeAgentStart
  PROVE  Follows(manual', manual) /\ RunOK(run') /\ limited' \subseteq Models /\ run.phase = "idle"
<1>1. manual \in Manuals /\ manual.pi.level \in Levels
  BY DEF TurnInv, PinsOK, Manuals
<1>2. Follows(manual', manual)
  BY <1>1, PinsEffort, RecordType DEF BeforeAgentStart
<1>3. PICK class \in Classes, contract \in BOOLEAN :
        run' = [NoRun EXCEPT !.phase = "compiling", !.class = class, !.contract = contract]
  BY DEF BeforeAgentStart
<1>4. RunOK(run')
  BY <1>3 DEF RunOK, NoRun, Runs, Phases
<1> QED
  BY <1>2, <1>4 DEF BeforeAgentStart, TurnInv

\* Pi is put on the turn's model and then on its level.
LEMMA InstallsOK ==
  ASSUME TurnInv, Installed
  PROVE  /\ Follows(manual', manual) /\ RunOK(run') /\ limited' \subseteq Models
         /\ run.phase = "compiling" /\ run'.phase = "running"
         /\ RunsAtThePick
<1> DEFINE installs == ~OwnsTurn /\ (PinnedNow(manual) \/ run.contract)
           model    == IF PinnedNow(manual) THEN manual.pins.model ELSE ResolveRoleAvoiding(run.class, limited)
<1>1. manual \in Manuals /\ RunOK(run) /\ run \in Runs
  BY DEF TurnInv, PinsOK, RunOK
<1>2. model \in Models
  <2>1. PinnedNow(manual) => manual.pins.model \in Models
    BY <1>1 DEF PinnedNow, Manuals
  <2>2. run.class \in Classes
    BY <1>1 DEF RunOK, Installed
  <2> QED
    BY <2>1, <2>2, LadderHasModels
<1>3. PICK taken \in BOOLEAN :
        LET on == IF installs /\ taken THEN SetModel(manual, model) ELSE manual IN
        \E level \in IF installs THEN TurnLevels(on) ELSE {None} :
          LET to   == IF level = None THEN on ELSE Install(on, level)
              left == IF OwnsTurn THEN to ELSE [to EXCEPT !.applied = to.pi]
          IN  /\ manual' = Delivered(left, on.pi.level)
              /\ run' = [run EXCEPT !.phase = "running", !.pending = run.contract \/ ~OwnsTurn,
                                    !.pinned = PinnedNow(manual),
                                    !.backend = IF installs THEN model ELSE on.pi.model]
  BY DEF Installed
<1> DEFINE on == IF installs /\ taken THEN SetModel(manual, model) ELSE manual
<1>4. Follows(on, manual) /\ on \in Manuals /\ on.pi.level \in Levels /\ on.pi.model \in Models
  <2> HIDE DEF model
  <2>1. Follows(on, manual)
    BY <1>1, <1>2, ModelIsSet, RecordType
  <2> QED
    BY <2>1 DEF Follows, Manuals
<1>5. PICK level \in IF installs THEN TurnLevels(on) ELSE {None} :
          LET to   == IF level = None THEN on ELSE Install(on, level)
              left == IF OwnsTurn THEN to ELSE [to EXCEPT !.applied = to.pi]
          IN  /\ manual' = Delivered(left, on.pi.level)
              /\ run' = [run EXCEPT !.phase = "running", !.pending = run.contract \/ ~OwnsTurn,
                                    !.pinned = PinnedNow(manual),
                                    !.backend = IF installs THEN model ELSE on.pi.model]
  BY <1>3
<1> DEFINE to   == IF level = None THEN on ELSE Install(on, level)
           left == IF OwnsTurn THEN to ELSE [to EXCEPT !.applied = to.pi]
<1> HIDE DEF model, on
<1>6. level \in Levels \union {None} /\ (installs /\ on.pins.effort # None => level = on.pins.effort)
  BY <1>4 DEF TurnLevels, Manuals
<1>7. /\ Follows(to, on) /\ to.pins = on.pins /\ to.pi.model = on.pi.model
      /\ level # None => to.pi.level = HeldLevel(on, level)
      /\ to.pi.level # on.pi.level => to.marker = to.pi.level
  <2>1. CASE level # None
    <3>1. to = Install(on, level) /\ level \in Levels
      BY <1>6, <2>1
    <3> HIDE DEF to, installs
    <3> QED
      BY <1>4, <3>1, LevelIsInstalled
  <2>2. CASE level = None
    BY <1>4, <2>2, RecordType
  <2> QED
    BY <2>1, <2>2
<1>8. manual' = Delivered(left, on.pi.level)
  BY <1>5
<1>9. /\ run' = [run EXCEPT !.phase = "running", !.pending = run.contract \/ ~OwnsTurn,
                            !.pinned = PinnedNow(manual), !.backend = IF installs THEN model ELSE on.pi.model]
  BY <1>5
<1> HIDE DEF to
<1>10. Follows(left, to) /\ left.pins = to.pins /\ left.pi = to.pi /\ left.marker = to.marker /\ left \in Manuals
  BY <1>7 DEF Follows, Manuals, Kept
<1> HIDE DEF left
<1>11. Follows(manual', left) /\ manual'.pi = left.pi /\ manual'.pins = on.pins
  BY <1>4, <1>7, <1>8, <1>10, EventIsDelivered
<1>12. Follows(manual', manual)
  BY <1>4, <1>7, <1>10, <1>11, Following
<1>13. run'.phase = "running" /\ RunOK(run')
  BY <1>1, <1>2, <1>4, <1>9 DEF RunOK, Runs, Phases, PinnedNow, OwnsTurn, Installed
<1>14. RunsAtThePick
  <2> SUFFICES ASSUME manual'.pins.effort # None, ~OwnsTurn, run.contract \/ manual.pins.model # None
               PROVE  manual'.pi.level = HeldLevel(manual', manual'.pins.effort)
    BY DEF RunsAtThePick
  <2>1. installs
    BY DEF PinnedNow
  <2> HIDE DEF installs
  <2>2. level = manual'.pins.effort /\ level # None
    BY <2>1, <1>6, <1>11
  <2>3. manual'.pi.level = HeldLevel(on, level) /\ manual'.pi.model = on.pi.model
    BY <2>2, <1>7, <1>10, <1>11
  <2> QED
    BY <2>2, <2>3 DEF HeldLevel
<1> QED
  BY <1>12, <1>13, <1>14 DEF Installed, TurnInv

\* A pinned alias takes the name of the model it turned out to run.
LEMMA EndsOK ==
  ASSUME TurnInv, AgentEnd
  PROVE  /\ PinsOK(manual', command) /\ RunOK(run') /\ limited' \subseteq Models
         /\ run.phase = "running" /\ run'.phase = "ended"
<1>1. manual \in Manuals /\ RunOK(run) /\ PinsOK(manual, command)
  BY DEF TurnInv, PinsOK
<1>2. run' = [run EXCEPT !.phase = "ended"] /\ run.phase = "running" /\ limited' = limited
  BY DEF AgentEnd
<1>3. RunOK(run') /\ run'.phase = "ended"
  BY <1>1, <1>2 DEF RunOK, Runs, Phases
<1>4. CASE manual' = manual
  BY <1>1, <1>2, <1>3, <1>4 DEF TurnInv
<1>5. CASE manual' # manual
  <2> DEFINE full == FullName[manual.pins.model]
             pinned == RememberPins([manual EXCEPT !.pins.model = full])
  <2>1. manual.pins.model \in DOMAIN FullName /\ manual' = SetModel(pinned, full)
    BY <1>5 DEF AgentEnd
  <2>2. full \in Models /\ command.kind # "auto"
    BY <1>1, <2>1, SessionAssumption, ManualAssumption DEF PinsOK
  <2> HIDE DEF full
  <2>3. pinned \in Manuals /\ Kept(pinned)
    BY <1>1, <2>2, PinRests
  <2> HIDE DEF pinned
  <2>4. Follows(manual', pinned)
    BY <2>1, <2>2, <2>3, ModelIsSet
  <2> QED
    BY <1>2, <1>3, <2>2, <2>3, <2>4 DEF PinsOK, Follows, TurnInv
<1> QED
  BY <1>4, <1>5

\* A refusal is retried, or the turn settles.
LEMMA SettlesOK ==
  ASSUME TurnInv, BeforeSettle
  PROVE  /\ Follows(manual', manual) /\ RunOK(run') /\ limited' \subseteq Models
         /\ run.phase = "ended" /\ run'.phase \in {"running", "settling"}
         /\ FallbackIsFree /\ (run.pinned => manual' = manual)
<1>1. manual \in Manuals /\ RunOK(run) /\ run \in Runs /\ limited \subseteq Models
  BY DEF TurnInv, PinsOK, RunOK
<1>2. run.phase = "ended" /\ run.class \in Classes /\ run.backend \in Models
  BY <1>1 DEF BeforeSettle, RunOK
<1>3. PICK refused \in BOOLEAN, taken \in BOOLEAN :
       LET limit  == refused /\ run.pending
           marked == IF limit /\ ~run.pinned THEN limited \union {run.backend} ELSE limited
           model  == ResolveRoleAvoiding(run.class, marked)
           again  == limit /\ MayFallBack(run) /\ model # run.backend /\ model \notin marked /\ taken
       IN  /\ limited' = marked
           /\ manual' = IF again THEN SetModel(manual, model) ELSE manual
           /\ run' = IF again THEN [run EXCEPT !.phase = "running", !.retried = TRUE, !.backend = model]
                      ELSE [run EXCEPT !.phase = "settling"]
  BY DEF BeforeSettle
<1> DEFINE limit  == refused /\ run.pending
           marked == IF limit /\ ~run.pinned THEN limited \union {run.backend} ELSE limited
           model  == ResolveRoleAvoiding(run.class, marked)
           again  == limit /\ MayFallBack(run) /\ model # run.backend /\ model \notin marked /\ taken
<1>4. /\ limited' = marked
      /\ manual' = IF again THEN SetModel(manual, model) ELSE manual
      /\ run' = IF again THEN [run EXCEPT !.phase = "running", !.retried = TRUE, !.backend = model]
                 ELSE [run EXCEPT !.phase = "settling"]
  BY <1>3
<1>5. model \in Models
  BY <1>2, LadderHasModels
<1>6. marked \subseteq Models
  BY <1>1, <1>2
<1>7. again => run.backend \in marked /\ ~run.pinned /\ ~run.retried /\ manual.pins.model = None /\ model \notin marked
  BY DEF MayFallBack
<1> HIDE DEF model, marked, again
<1>8. Follows(SetModel(manual, model), manual) /\ SetModel(manual, model).pi.model = model
  BY <1>1, <1>5, ModelIsSet
<1>9. CASE again
  <2>1. run' = [run EXCEPT !.phase = "running", !.retried = TRUE, !.backend = model]
    BY <1>4, <1>9
  <2>2. RunOK(run') /\ run'.phase = "running" /\ run'.backend = model
    BY <1>1, <1>2, <1>5, <2>1 DEF RunOK, Runs, Phases
  <2>3. FallbackIsFree
    BY <1>4, <1>7, <1>8, <1>9, <2>2 DEF FallbackIsFree
  <2> QED
    BY <1>2, <1>4, <1>6, <1>7, <1>8, <1>9, <2>2, <2>3
<1>10. CASE ~again
  <2>1. run' = [run EXCEPT !.phase = "settling"] /\ manual' = manual
    BY <1>4, <1>10
  <2>2. RunOK(run') /\ run'.phase = "settling"
    BY <1>1, <1>2, <2>1 DEF RunOK, Runs, Phases
  <2> QED
    BY <1>1, <1>2, <1>4, <1>6, <2>1, <2>2, RecordType DEF FallbackIsFree
<1> QED
  BY <1>9, <1>10

\* A turn ends with its record.
LEMMA RecordsOK ==
  ASSUME TurnInv, OwnTurnEnds \/ AgentSettled
  PROVE  /\ RunOK(run') /\ run'.phase = "idle" /\ manual' = manual /\ limited' = limited
         /\ run.phase \in {"lanes", "settling"} /\ BilledOnce
         /\ run.phase = "settling" => run' = [NoRun EXCEPT !.contract = run.contract, !.billed = IF run.contract THEN 1 ELSE 0]
<1>1. RunOK(run) /\ run \in Runs
  BY DEF TurnInv, RunOK
<1>2. CASE OwnTurnEnds
  <2>1. run.phase = "lanes" /\ run' = [run EXCEPT !.phase = "idle", !.billed = IF run.contract THEN 1 ELSE 0]
    BY <1>2 DEF OwnTurnEnds
  <2>2. RunOK(run') /\ run'.phase = "idle" /\ run'.billed = IF run.contract THEN 1 ELSE 0
    BY <1>1, <2>1 DEF RunOK, Runs, Phases
  <2> QED
    BY <1>2, <2>1, <2>2 DEF OwnTurnEnds, BilledOnce
<1>3. CASE AgentSettled
  <2>1. run.phase = "settling" /\ run.billed = 0 /\ (run.contract => run.pending) /\ run.contract \in BOOLEAN
    BY <1>1, <1>3 DEF AgentSettled, RunOK, Runs
  <2> DEFINE bill == run.billed + IF run.pending /\ run.contract THEN 1 ELSE 0
  <2>2. run' = [NoRun EXCEPT !.contract = run.contract, !.billed = IF run.contract THEN 1 ELSE 0]
    <3>1. run' = [NoRun EXCEPT !.contract = run.contract, !.billed = bill]
      BY <1>3 DEF AgentSettled
    <3>2. bill = IF run.contract THEN 1 ELSE 0
      BY <2>1
    <3> QED
      BY <3>1, <3>2
  <2>3. RunOK(run') /\ run'.phase = "idle" /\ run'.billed = IF run.contract THEN 1 ELSE 0
    BY <2>1, <2>2 DEF RunOK, Runs, Phases, NoRun
  <2> QED
    BY <1>3, <2>1, <2>2, <2>3 DEF AgentSettled, BilledOnce
<1> QED
  BY <1>2, <1>3

TurnStep == PinnedTurnStays /\ RunsAtThePick /\ FallbackIsFree /\ BilledOnce

\* A step that leaves the turn's record alone breaks none of its promises.
LEMMA NoTurnNoBreach ==
  ASSUME run' = run
  PROVE  TurnStep
BY DEF TurnStep, PinnedTurnStays, RunsAtThePick, FallbackIsFree, BilledOnce

\* The hooks of a turn.
LEMMA HooksKeep ==
  ASSUME TurnInv, Hooks, handed' = (handed /\ manual'.pi.model = manual.pi.model)
  PROVE  TurnInv' /\ TurnStep
<1>1. command' = command /\ command \in Commands /\ handed' \in BOOLEAN
  BY DEF Hooks, TurnInv
<1>2. PinsOK(manual, command) /\ RunOK(run) /\ limited \subseteq Models
  BY DEF TurnInv
<1>3. ASSUME Follows(manual', manual) \/ manual' = manual \/ PinsOK(manual', command), RunOK(run'), limited' \subseteq Models
      PROVE  TurnInv'
  <2>1. PinsOK(manual', command)
    BY <1>2, <1>3, FollowsIsOK
  <2> QED
    BY <1>1, <1>3, <2>1 DEF TurnInv
<1>4. CASE OwnTurn
  <2>1. PICK contract \in BOOLEAN : run' = [NoRun EXCEPT !.phase = "lanes", !.contract = contract]
    BY <1>4 DEF OwnTurn
  <2>2. RunOK(run') /\ run'.phase = "lanes" /\ run.phase = "idle"
    BY <1>4, <2>1 DEF RunOK, NoRun, Runs, Phases, OwnTurn
  <2>3. TurnStep
    BY <2>2 DEF TurnStep, PinnedTurnStays, RunsAtThePick, FallbackIsFree, BilledOnce
  <2> QED
    BY <1>2, <1>3, <1>4, <2>2, <2>3 DEF OwnTurn
<1>5. CASE OwnTurnEnds \/ AgentSettled
  <2>1. /\ RunOK(run') /\ run'.phase = "idle" /\ manual' = manual /\ limited' = limited
        /\ run.phase \in {"lanes", "settling"} /\ BilledOnce
    BY <1>5, RecordsOK
  <2>2. TurnStep
    BY <2>1 DEF TurnStep, PinnedTurnStays, RunsAtThePick, FallbackIsFree
  <2> QED
    BY <1>2, <1>3, <2>1, <2>2
<1>6. CASE BeforeAgentStart
  <2>1. Follows(manual', manual) /\ RunOK(run') /\ limited' \subseteq Models /\ run.phase = "idle"
    BY <1>6, BeginsOK
  <2>2. TurnStep
    BY <2>1 DEF TurnStep, PinnedTurnStays, RunsAtThePick, FallbackIsFree, BilledOnce
  <2> QED
    BY <1>3, <2>1, <2>2
<1>7. CASE Installed
  <2>1. /\ Follows(manual', manual) /\ RunOK(run') /\ limited' \subseteq Models
        /\ run.phase = "compiling" /\ run'.phase = "running" /\ RunsAtThePick
    BY <1>7, InstallsOK
  <2>2. TurnStep
    BY <2>1 DEF TurnStep, PinnedTurnStays, FallbackIsFree, BilledOnce
  <2> QED
    BY <1>3, <2>1, <2>2
<1>8. CASE AgentEnd
  <2>1. /\ PinsOK(manual', command) /\ RunOK(run') /\ limited' \subseteq Models
        /\ run.phase = "running" /\ run'.phase = "ended"
    BY <1>8, EndsOK
  <2>2. TurnStep
    BY <2>1 DEF TurnStep, PinnedTurnStays, RunsAtThePick, FallbackIsFree, BilledOnce
  <2> QED
    BY <1>3, <2>1, <2>2
<1>9. CASE BeforeSettle
  <2>1. /\ Follows(manual', manual) /\ RunOK(run') /\ limited' \subseteq Models
        /\ run.phase = "ended" /\ run'.phase \in {"running", "settling"}
        /\ FallbackIsFree /\ (run.pinned => manual' = manual)
    BY <1>9, SettlesOK
  <2>2. TurnStep
    BY <2>1 DEF TurnStep, PinnedTurnStays, RunsAtThePick, BilledOnce
  <2> QED
    BY <1>3, <2>1, <2>2
<1>10. CASE CooldownEnds
  <2>1. limited' \subseteq limited /\ UNCHANGED <<manual, run>>
    BY <1>10 DEF CooldownEnds
  <2> QED
    BY <1>2, <1>3, <2>1, NoTurnNoBreach
<1> QED
  BY <1>4, <1>5, <1>6, <1>7, <1>8, <1>9, <1>10 DEF Hooks

\* The operator's commands, what they do at once and what they do once Pi has
\* moved.
LEMMA CommandsKeep ==
  ASSUME TurnInv, Pin \/ Automatic \/ CommandEnds, handed' = FALSE, UNCHANGED <<limited, run>>
  PROVE  TurnInv' /\ TurnStep
<1>1. manual \in Manuals /\ PinsOK(manual, command) /\ command \in Commands
  BY DEF TurnInv, PinsOK
<1>2. SUFFICES PinsOK(manual', command') /\ command' \in Commands
  BY NoTurnNoBreach DEF TurnInv
<1>3. CASE Pin
  <2>1. PICK model \in Picks : manual' = PinStarts(manual, model) /\ command' = [kind |-> "pin", model |-> model]
    BY <1>3 DEF Pin
  <2>2. Follows(manual', manual) /\ model \in Models
    BY <1>1, <2>1, SessionAssumption, PinStartsFollows
  <2>3. command.kind # "auto"
    BY <1>3 DEF Pin, NoCommand, None
  <2> QED
    BY <1>1, <2>1, <2>2, <2>3 DEF PinsOK, Follows, Commands
<1>4. CASE Automatic
  <2>1. manual' = ClearPin(manual) /\ command' = [kind |-> "auto", model |-> manual.pins.previous]
    BY <1>4 DEF Automatic
  <2>2. manual' \in Manuals /\ manual'.pins.model = None /\ manual.pins.previous \in Models \union {None}
    BY <1>1, <2>1, PinIsCleared DEF Manuals
  <2> QED
    BY <2>1, <2>2 DEF PinsOK, Commands
<1>5. CASE CommandEnds
  <2>1. command # NoCommand /\ command' = NoCommand
    BY <1>5 DEF CommandEnds
  <2>2. SUFFICES manual' \in Manuals /\ Kept(manual')
    BY <2>1 DEF PinsOK, Commands, NoCommand, None
  <2>3. CASE command.kind = "pin"
    <3>1. command.model \in Models /\ manual' = PinModel(manual, command.model)
      BY <1>1, <1>5, <2>1, <2>3 DEF CommandEnds, Commands
    <3> QED
      BY <1>1, <3>1, PinRests
  <2>4. CASE command.kind = "auto"
    <3>1. /\ command.model \in Models \union {None} /\ manual.pins.model = None
          /\ manual' = Return(manual, command.model)
      BY <1>1, <1>5, <2>1, <2>4 DEF CommandEnds, Commands, PinsOK
    <3> QED
      BY <1>1, <3>1, AutoRests
  <2> QED
    BY <1>1, <2>1, <2>3, <2>4 DEF Commands
<1> QED
  BY <1>3, <1>4, <1>5

\* What the operator picks, hands back and switches to.
LEMMA PicksKeep ==
  ASSUME TurnInv, Picking \/ HandBack \/ Switch, UNCHANGED <<limited, run, command>>
  PROVE  TurnInv' /\ TurnStep
<1>1. manual \in Manuals /\ PinsOK(manual, command)
  BY DEF TurnInv, PinsOK
<1>2. Follows(manual', manual)
  <2>1. CASE Picking
    BY <1>1, <2>1, PickFollows DEF Picking
  <2>2. CASE HandBack
    BY <1>1, <2>2, ResetFollows DEF HandBack
  <2>3. CASE Switch
    BY <1>1, <2>3, SwitchFollows DEF Switch
  <2> QED
    BY <2>1, <2>2, <2>3
<1>3. handed' \in BOOLEAN
  BY DEF TurnInv, Picking, HandBack, Switch
<1>4. PinsOK(manual', command)
  BY <1>1, <1>2, FollowsIsOK
<1> QED
  BY <1>3, <1>4, NoTurnNoBreach DEF TurnInv

LEMMA RestartKeeps ==
  ASSUME TurnInv, Restart
  PROVE  TurnInv' /\ TurnStep
<1>1. manual.file \in [model : Models \union {None}, effort : Levels \union {None}]
  BY DEF TurnInv, PinsOK, Manuals
<1>2. manual' \in Manuals /\ Kept(manual')
  BY <1>1, RestartIsKept DEF Restart
<1>3. TurnInv'
  BY <1>2, NoRunIsOK DEF Restart, TurnInv, PinsOK, Commands, NoCommand, None
<1>4. run' = NoRun /\ run'.phase = "idle"
  BY DEF Restart, NoRun
<1>5. TurnStep
  BY <1>4 DEF TurnStep, PinnedTurnStays, RunsAtThePick, FallbackIsFree, BilledOnce
<1> QED
  BY <1>3, <1>5

LEMMA TurnsKeep == TurnInv /\ [SessionNext]_sessionVars => TurnInv' /\ [TurnStep]_sessionVars
<1> SUFFICES ASSUME TurnInv, [SessionNext]_sessionVars PROVE TurnInv' /\ [TurnStep]_sessionVars
  OBVIOUS
<1>1. CASE UNCHANGED modelVars
  BY <1>1, NoTurnNoBreach DEF modelVars, TurnInv
<1>2. CASE Turns
  BY <1>2, HooksKeep, CommandsKeep, PicksKeep, RestartKeeps DEF Turns
<1> QED
  BY <1>1, <1>2 DEF SessionNext, sessionVars

LEMMA TurnsAlways == SessionSpec => []TurnInv
BY TurnStarts, TurnsKeep, PTL DEF SessionSpec

\* Whatever the operator types and picks while a turn runs or Pi is awaited, and
\* whenever the process ends: with no command under way, what a restart comes back
\* to is the Manual pins in force (src/commands/model.ts:101-194: rememberManual at
\* every place that sets a pin).
THEOREM RestartsKeepManual == SessionSpec => []RestartKeepsManual
<1>1. TurnInv => RestartKeepsManual
  <2> SUFFICES ASSUME TurnInv PROVE RestartKeepsManual
    OBVIOUS
  <2>1. SessionTypeOK
    BY RecordType DEF TurnInv, PinsOK, RunOK, Runs, Phases, Commands, NoCommand, SessionTypeOK
  <2>2. command = NoCommand => Kept(manual)
    BY DEF TurnInv, PinsOK, NoCommand, None
  <2> QED
    BY <2>1, <2>2 DEF RestartKeepsManual, Kept
<1> QED
  BY <1>1, TurnsAlways, PTL

\* A pinned turn is not moved, a turn runs at the level that is pinned or the step
\* its model has for it, a quota fallback happens once and to a backend not known
\* to be limited, and a settled turn has one record, for every ladder, every way
\* Pi clamps a level and every order of hooks and commands (src/index.ts:921-1182).
THEOREM TurnsKeepTheirPlace == SessionSpec => TurnKeepsItsPlace
<1>1. TurnInv /\ [SessionNext]_sessionVars => [TurnStep]_sessionVars
  BY TurnsKeep
<1> QED
  BY <1>1, TurnsAlways, PTL DEF SessionSpec, TurnKeepsItsPlace, TurnStep

-------------------------------------------------------- (* the recap *)

Entries == [kind : {"turn", "input", "recap"}, text : Texts]

\* What was asked and done is among the first n entries of a branch; unless slack,
\* no other turn was recorded among them since.
Recorded(entries, n, text, slack) ==
  \E i \in 1 .. n :
     /\ entries[i].kind \in {"turn", "input"} /\ entries[i].text = text
     /\ ~slack => \A j \in i+1 .. n : entries[j].kind = "input" => entries[j].text = text

\* Every recap of a branch was of its newest turn when it was written.
Grounded(entries, slack) ==
  \A k \in 1 .. Len(entries) : entries[k].kind = "recap" => Recorded(entries, k, entries[k].text, slack)

Branch(entries, slack) ==
  entries \in Seq(Entries) /\ Len(entries) <= MaxEntries /\ Grounded(entries, slack)

\* What /recap would redo or replay of r.
Redo(r) == IF r.lastTurn # Nothing THEN r.lastTurn ELSE r.cache

Shows(r, entries, slack) ==
  /\ r.shown # Nothing => Recorded(entries, Len(entries), r.shown, slack)
  /\ Redo(r) # Nothing => Recorded(entries, Len(entries), Redo(r), slack)

\* What a call that still counts will show when it is answered.
Promises(cs, entries, slack) ==
  \A c \in cs : c.live => Recorded(entries, Len(entries), c.text, slack)

Shown == [enabled : BOOLEAN, lastTurn : Texts \union {Nothing}, cache : Texts \union {Nothing},
          shown : Texts \union {Nothing}]

RecapInv ==
  /\ tree = [b \in Branches |-> tree[b]] /\ here \in Branches /\ turning \in BOOLEAN /\ late \in BOOLEAN
  /\ recap \in Shown /\ calls \subseteq [text : Texts, live : BOOLEAN]
  /\ \A b \in Branches : Branch(tree[b], late)
  /\ Shows(recap, tree[here], late) /\ Promises(calls, tree[here], late)
  /\ turning /\ ~late => recap.shown = Nothing /\ \A c \in calls : ~c.live

\* A set of numbers up to n has a greatest.
LEMMA HasGreatest ==
  ASSUME NEW n \in Nat, NEW S \in SUBSET (0 .. n), S # {}
  PROVE  \E m \in S : \A x \in S : m >= x
<1> DEFINE D == {d \in Nat : n - d \in S}
<1>1. D \subseteq Nat /\ D # {}
  <2>1. PICK x \in S : TRUE
    OBVIOUS
  <2>2. n - x \in Nat /\ n - (n - x) = x
    BY <2>1
  <2> QED
    BY <2>1, <2>2
<1> HIDE DEF D
<1>2. PICK d \in D : \A e \in D : ~(<<e, d>> \in OpToRel(<, Nat))
  BY <1>1, NatLessThanWellFounded, WFMin
<1>3. \A e \in D : ~(e < d)
  BY <1>1, <1>2 DEF OpToRel
<1>4. d \in Nat /\ n - d \in S
  BY <1>2 DEF D
<1>5. ASSUME NEW x \in S PROVE n - d >= x
  <2>1. x \in Int /\ n - x \in Nat /\ n - (n - x) = x
    BY <1>5
  <2>2. n - x \in D
    BY <1>5, <2>1 DEF D
  <2>3. ~(n - x < d)
    BY <1>3, <2>2
  <2> QED
    BY <1>4, <2>1, <2>3
<1> QED
  BY <1>4, <1>5

LEMMA LastIs ==
  ASSUME NEW entries \in Seq(Entries), NEW kinds
  PROVE  LET k == LastOf(entries, kinds) IN
         /\ k \in 0 .. Len(entries)
         /\ k # 0 => k \in DOMAIN entries /\ entries[k].kind \in kinds
         /\ \A i \in 1 .. Len(entries) : entries[i].kind \in kinds => i <= k
<1> DEFINE S == {0} \union {i \in DOMAIN entries : entries[i].kind \in kinds}
<1>1. Len(entries) \in Nat /\ DOMAIN entries = 1 .. Len(entries)
  OBVIOUS
<1>2. S \subseteq 0 .. Len(entries) /\ S # {}
  BY <1>1
<1>3. LastOf(entries, kinds) = Max(S)
  BY DEF LastOf
<1>4. Max(S) \in S /\ \A i \in S : Max(S) >= i
  <2> HIDE DEF S
  <2>1. \E m \in S : \A x \in S : m >= x
    BY <1>1, <1>2, HasGreatest
  <2> QED
    BY <2>1 DEF Max
<1>5. \A i \in S : i <= Max(S)
  <2> HIDE DEF S
  <2> QED
    BY <1>1, <1>2, <1>4
<1> QED
  BY <1>1, <1>2, <1>3, <1>4, <1>5

LEMMA Appended ==
  ASSUME NEW entries \in Seq(Entries), NEW e \in Entries
  PROVE  LET more == Append(entries, e) IN
         /\ more \in Seq(Entries) /\ Len(more) = Len(entries) + 1 /\ Len(entries) \in Nat
         /\ more[Len(entries) + 1] = e /\ \A i \in 1 .. Len(entries) : more[i] = entries[i]
OBVIOUS

\* What was recorded stays recorded when anything but another turn's input comes.
LEMMA StaysRecorded ==
  ASSUME NEW entries \in Seq(Entries), NEW e \in Entries, NEW text, NEW slack \in BOOLEAN,
         Recorded(entries, Len(entries), text, slack), slack \/ e.kind # "input" \/ e.text = text
  PROVE  Recorded(Append(entries, e), Len(Append(entries, e)), text, slack)
<1> DEFINE more == Append(entries, e)
           n == Len(entries)
<1>1. /\ Len(more) = n + 1 /\ n \in Nat
      /\ more[n + 1] = e /\ \A i \in 1 .. n : more[i] = entries[i]
  BY Appended
<1>2. PICK i \in 1 .. n :
        /\ entries[i].kind \in {"turn", "input"} /\ entries[i].text = text
        /\ ~slack => \A j \in i+1 .. n : entries[j].kind = "input" => entries[j].text = text
  BY DEF Recorded
<1> HIDE DEF more, n
<1>3. i \in 1 .. n + 1 /\ more[i] = entries[i]
  BY <1>1
<1>4. ASSUME ~slack, NEW j \in i+1 .. n + 1, more[j].kind = "input" PROVE more[j].text = text
  <2>1. CASE j = n + 1
    BY <1>1, <1>4, <2>1
  <2>2. CASE j # n + 1
    <3>1. j \in i + 1 .. n /\ j \in 1 .. n
      BY <1>1, <1>2, <2>2
    <3> QED
      BY <1>1, <1>2, <1>4, <3>1
  <2> QED
    BY <2>1, <2>2
<1> QED
  BY <1>1, <1>2, <1>3, <1>4 DEF Recorded, more

LEMMA NowRecorded ==
  ASSUME NEW entries \in Seq(Entries), NEW e \in Entries, NEW slack \in BOOLEAN, e.kind # "recap"
  PROVE  Recorded(Append(entries, e), Len(Append(entries, e)), e.text, slack)
<1> DEFINE more == Append(entries, e)
           n == Len(entries)
<1>1. Len(more) = n + 1 /\ n \in Nat /\ more[n + 1] = e
  BY Appended
<1>2. e.kind \in {"turn", "input"}
  BY DEF Entries
<1> HIDE DEF more, n
<1>3. n + 1 \in 1 .. n + 1 /\ \A j \in n + 1 + 1 .. n + 1 : FALSE
  BY <1>1
<1> QED
  BY <1>1, <1>2, <1>3 DEF Recorded, more

\* A recap that is appended is of what is recorded.
LEMMA StaysGrounded ==
  ASSUME NEW entries \in Seq(Entries), NEW e \in Entries, NEW slack \in BOOLEAN, Grounded(entries, slack),
         e.kind = "recap" => Recorded(entries, Len(entries), e.text, slack)
  PROVE  Grounded(Append(entries, e), slack)
<1> DEFINE more == Append(entries, e)
           n == Len(entries)
<1>1. /\ Len(more) = n + 1 /\ n \in Nat
      /\ more[n + 1] = e /\ \A i \in 1 .. n : more[i] = entries[i]
  BY Appended
<1>2. SUFFICES ASSUME NEW k \in 1 .. n + 1, more[k].kind = "recap" PROVE Recorded(more, k, more[k].text, slack)
  BY <1>1 DEF Grounded
<1>3. CASE k = n + 1
  BY <1>1, <1>2, <1>3, StaysRecorded
<1>4. CASE k # n + 1
  <2>1. k \in 1 .. n /\ more[k] = entries[k]
    BY <1>1, <1>4
  <2>2. Recorded(entries, k, entries[k].text, slack)
    BY <1>2, <2>1 DEF Grounded
  <2>3. \A i \in 1 .. k : more[i] = entries[i]
    BY <1>1, <2>1
  <2> HIDE DEF more
  <2> QED
    BY <1>1, <2>1, <2>2, <2>3 DEF Recorded
<1> QED
  BY <1>3, <1>4

LEMMA PrefixGrounded ==
  ASSUME NEW entries, NEW slack, Branch(entries, slack), NEW n \in 0 .. Len(entries)
  PROVE  Branch(SubSeq(entries, 1, n), slack)
<1> DEFINE less == SubSeq(entries, 1, n)
<1>1. /\ less \in Seq(Entries) /\ Len(less) = n /\ \A i \in 1 .. n : less[i] = entries[i]
      /\ Len(entries) \in Nat
  BY DEF Branch
<1>2. n <= MaxEntries
  BY <1>1, RecapAssumption DEF Branch
<1> HIDE DEF less
<1>3. ASSUME NEW k \in 1 .. n, less[k].kind = "recap" PROVE Recorded(less, k, less[k].text, slack)
  <2>1. k \in 1 .. Len(entries) /\ entries[k] = less[k]
    BY <1>1
  <2>2. Recorded(entries, k, less[k].text, slack)
    BY <1>3, <2>1 DEF Branch, Grounded
  <2>3. \A i \in 1 .. k : less[i] = entries[i]
    BY <1>1
  <2> QED
    BY <1>1, <2>2, <2>3 DEF Recorded
<1> QED
  BY <1>1, <1>2, <1>3 DEF Branch, Grounded, less

\* What a branch shows when it becomes the active one is of its newest turn.
LEMMA RestoredShows ==
  ASSUME NEW r \in Shown, NEW entries, NEW slack \in BOOLEAN, Branch(entries, slack)
  PROVE  Restored(Reset(r), entries) \in Shown /\ Shows(Restored(Reset(r), entries), entries, slack)
<1> DEFINE b == Reset(r)
           saved == NewestSaved(entries)
           pair == LatestCompletedTurn(entries)
           at == LastOf(entries, {"input", "recap"})
           n == Len(entries)
<1>1. entries \in Seq(Entries) /\ n \in Nat /\ \A i \in 1 .. n : entries[i] \in Entries
  BY DEF Branch
<1>2. b \in Shown /\ b.shown = Nothing /\ b.lastTurn = Nothing /\ b.cache = Nothing
  BY DEF Reset, Shown
<1>3. /\ pair \in 0 .. n /\ (pair # 0 => entries[pair].kind = "turn")
  BY <1>1, LastIs DEF LatestCompletedTurn
<1>4. /\ at \in 0 .. n /\ (at # 0 => entries[at].kind \in {"input", "recap"})
      /\ \A i \in 1 .. n : entries[i].kind \in {"input", "recap"} => i <= at
  BY <1>1, LastIs
<1>5. saved = IF at < pair THEN 0 ELSE at
  BY DEF NewestSaved
<1> DEFINE shows == [b EXCEPT !.shown = entries[saved].text, !.cache = entries[saved].text]
           newest == IF saved # 0 THEN saved ELSE pair
           redoes == [b EXCEPT !.lastTurn = entries[newest].text, !.cache = Nothing]
<1>6. Restored(b, entries) = IF saved # 0 /\ entries[saved].kind = "recap" THEN shows
                             ELSE IF saved # 0 \/ pair # 0 THEN redoes ELSE b
  BY DEF Restored
<1> HIDE DEF b, saved, pair, at
<1>7. CASE saved # 0 /\ entries[saved].kind = "recap"
  <2>1. saved = at /\ at \in 1 .. n
    BY <1>1, <1>4, <1>5, <1>7
  <2> DEFINE text == entries[at].text
  <2>2. text \in Texts /\ Recorded(entries, at, text, slack)
    BY <1>1, <1>7, <2>1 DEF Branch, Grounded, Entries
  <2>3. Recorded(entries, n, text, slack)
    <3> HIDE DEF text, n
    <3>1. PICK i \in 1 .. at :
            /\ entries[i].kind \in {"turn", "input"} /\ entries[i].text = text
            /\ ~slack => \A j \in i+1 .. at : entries[j].kind = "input" => entries[j].text = text
      BY <2>2 DEF Recorded
    <3>2. i \in 1 .. n
      BY <1>1, <2>1
    <3>3. ASSUME ~slack, NEW j \in i+1 .. n, entries[j].kind = "input" PROVE entries[j].text = text
      <4>1. j \in 1 .. n
        BY <1>1, <2>1, <3>1
      <4>2. j <= at
        BY <1>4, <3>3, <4>1
      <4>3. j \in i + 1 .. at
        BY <1>1, <2>1, <3>1, <4>2
      <4> QED
        BY <3>1, <3>3, <4>3
    <3> QED
      BY <3>1, <3>2, <3>3 DEF Recorded
  <2>4. /\ Restored(b, entries) = shows /\ shows \in Shown
        /\ shows.shown = text /\ shows.cache = text /\ shows.lastTurn = Nothing
    BY <1>2, <1>6, <1>7, <2>1, <2>2 DEF Shown
  <2> HIDE DEF shows, text
  <2> QED
    BY <2>3, <2>4 DEF Shows, Redo, b
<1>8. CASE ~(saved # 0 /\ entries[saved].kind = "recap") /\ (saved # 0 \/ pair # 0)
  <2>1. newest \in 1 .. n /\ entries[newest].kind \in {"turn", "input"}
    BY <1>1, <1>3, <1>4, <1>5, <1>8
  <2>2. \A j \in newest + 1 .. n : entries[j].kind # "input"
    BY <1>1, <1>3, <1>4, <1>5, <1>8
  <2> HIDE DEF newest
  <2> DEFINE text == entries[newest].text
  <2>3. text \in Texts
    BY <1>1, <2>1 DEF Entries
  <2>4. Recorded(entries, n, text, slack)
    BY <2>1, <2>2 DEF Recorded
  <2>5. /\ Restored(b, entries) = redoes /\ redoes \in Shown
        /\ redoes.shown = Nothing /\ redoes.lastTurn = text /\ redoes.cache = Nothing
    BY <1>2, <1>6, <1>8, <2>3 DEF Shown
  <2> HIDE DEF redoes, text
  <2> QED
    BY <2>4, <2>5 DEF Shows, Redo, b
<1>9. CASE saved = 0 /\ pair = 0
  BY <1>2, <1>6, <1>9 DEF Shows, Redo, b
<1> QED
  BY <1>7, <1>8, <1>9

LEMMA RecapStarts == SessionInit => RecapInv
<1> SUFFICES ASSUME SessionInit PROVE RecapInv
  OBVIOUS
<1>1. RecapInit
  BY DEF SessionInit
<1>2. Branch(<<>>, late)
  BY RecapAssumption DEF Branch, Grounded
<1>3. recap \in Shown /\ Redo(recap) = Nothing /\ recap.shown = Nothing
  BY <1>1 DEF RecapInit, Shown, Redo
<1> QED
  BY <1>1, <1>2, <1>3 DEF RecapInit, RecapInv, Shows, Promises

\* What the screen, the recap and the calls say survives a longer branch.
LEMMA LongerBranch ==
  ASSUME NEW entries \in Seq(Entries), NEW e \in Entries, NEW r, NEW cs, NEW slack \in BOOLEAN,
         slack \/ e.kind # "input"
  PROVE  /\ Shows(r, entries, slack) => Shows(r, Append(entries, e), slack)
         /\ Promises(cs, entries, slack) => Promises(cs, Append(entries, e), slack)
<1>1. ASSUME NEW text, Recorded(entries, Len(entries), text, slack)
      PROVE  Recorded(Append(entries, e), Len(Append(entries, e)), text, slack)
  BY <1>1, StaysRecorded
<1> QED
  BY <1>1 DEF Shows, Promises

LEMMA LongerIsBranch ==
  ASSUME NEW entries, NEW e \in Entries, NEW slack \in BOOLEAN, Branch(entries, slack), Room(entries),
         e.kind = "recap" => Recorded(entries, Len(entries), e.text, slack)
  PROVE  Branch(Append(entries, e), slack)
<1>1. entries \in Seq(Entries) /\ Len(entries) \in Nat /\ MaxEntries \in Nat
  BY RecapAssumption DEF Branch
<1>2. Append(entries, e) \in Seq(Entries) /\ Len(Append(entries, e)) = Len(entries) + 1
  BY <1>1, Appended
<1>3. Len(Append(entries, e)) <= MaxEntries
  BY <1>1, <1>2 DEF Room
<1> QED
  BY <1>1, <1>2, <1>3, StaysGrounded DEF Branch

LEMMA EntryType ==
  ASSUME NEW kind \in {"turn", "input", "recap"}, NEW text \in Texts
  PROVE  Entry(kind, text) \in Entries /\ Entry(kind, text).kind = kind /\ Entry(kind, text).text = text
BY DEF Entry, Entries

\* No call in flight counts once the next id is taken.
LEMMA BumpedPromises ==
  ASSUME NEW cs \in SUBSET [text : Texts, live : BOOLEAN], NEW entries, NEW slack
  PROVE  /\ Bumped(cs) \subseteq [text : Texts, live : BOOLEAN] /\ \A c \in Bumped(cs) : ~c.live
         /\ Promises(Bumped(cs), entries, slack)
<1>1. Bumped(cs) \subseteq [text : Texts, live : BOOLEAN] /\ \A c \in Bumped(cs) : ~c.live
  BY DEF Bumped
<1> QED
  BY <1>1 DEF Promises

LEMMA GeneratedPromises ==
  ASSUME RecapInv, NEW text \in Texts, NEW entries, NEW slack, Recorded(entries, Len(entries), text, slack),
         Promises(calls, entries, slack) \/ recap.enabled
  PROVE  Generate(text) \subseteq [text : Texts, live : BOOLEAN] /\ Promises(Generate(text), entries, slack)
<1>1. calls \in SUBSET [text : Texts, live : BOOLEAN]
  BY DEF RecapInv
<1>2. CASE recap.enabled
  <2>1. Generate(text) = Bumped(calls) \union {[text |-> text, live |-> TRUE]}
    BY <1>2 DEF Generate
  <2>2. Bumped(calls) \subseteq [text : Texts, live : BOOLEAN] /\ \A c \in Bumped(calls) : ~c.live
    BY <1>1, BumpedPromises
  <2> DEFINE old == Bumped(calls)
             new == [text |-> text, live |-> TRUE]
  <2>3. new \in [text : Texts, live : BOOLEAN] /\ new.text = text
    OBVIOUS
  <2>4. Generate(text) = old \union {new} /\ old \subseteq [text : Texts, live : BOOLEAN]
        /\ \A c \in old : ~c.live
    BY <2>1, <2>2
  <2> HIDE DEF old, new
  <2>5. Generate(text) \subseteq [text : Texts, live : BOOLEAN]
    BY <2>3, <2>4
  <2>6. ASSUME NEW c \in Generate(text), c.live PROVE Recorded(entries, Len(entries), c.text, slack)
    <3>1. c = new
      BY <2>4, <2>6
    <3>2. c.text = text
      BY <2>3, <3>1
    <3> QED
      BY <3>2
  <2> QED
    BY <2>5, <2>6 DEF Promises
<1>3. CASE ~recap.enabled
  BY <1>1, <1>3 DEF Generate
<1> QED
  BY <1>2, <1>3

LEMMA HereIsBranch == RecapInv => Branch(tree[here], late) /\ tree[here] \in Seq(Entries)
BY DEF RecapInv, Branch

\* The branches after the active one has changed.
LEMMA HereChanges ==
  ASSUME RecapInv, NEW entries, Branch(entries, late), tree' = [tree EXCEPT ![here] = entries], here' = here
  PROVE  /\ tree' = [b \in Branches |-> tree'[b]] /\ tree'[here'] = entries
         /\ \A b \in Branches : Branch(tree'[b], late)
BY DEF RecapInv

\* A prompt hides what is shown and drops what would be.
LEMMA PromptKeeps == RecapInv /\ Prompted => RecapInv'
<1> SUFFICES ASSUME RecapInv, Prompted PROVE RecapInv'
  OBVIOUS
<1>1. UNCHANGED <<tree, here, late>> /\ turning' = TRUE /\ recap' = [recap EXCEPT !.shown = Nothing] /\ calls' = Bumped(calls)
  BY DEF Prompted, Hidden
<1>2. recap' \in Shown /\ recap'.shown = Nothing /\ Redo(recap') = Redo(recap)
  BY <1>1 DEF RecapInv, Shown, Redo
<1>3. /\ calls' \subseteq [text : Texts, live : BOOLEAN] /\ \A c \in calls' : ~c.live
      /\ Promises(calls', tree[here], late)
  BY <1>1, BumpedPromises DEF RecapInv
<1>4. Shows(recap', tree[here], late)
  BY <1>2 DEF RecapInv, Shows
<1> QED
  BY <1>1, <1>2, <1>3, <1>4 DEF RecapInv

\* The turn's pair and its record are appended, in this order.
LEMMA SettleKeeps == RecapInv /\ Settle => RecapInv'
<1> SUFFICES ASSUME RecapInv, Settle PROVE RecapInv'
  OBVIOUS
<1> DEFINE Before(native, text) == IF native THEN Append(tree[here], Entry("turn", text)) ELSE tree[here]
<1>1. /\ turning /\ turning' = FALSE /\ here' = here /\ late' = late /\ late \in BOOLEAN
      /\ recap \in Shown /\ calls \subseteq [text : Texts, live : BOOLEAN]
      /\ ~late => recap.shown = Nothing /\ \A c \in calls : ~c.live
  BY DEF RecapInv, Settle
<1>2. PICK text \in Texts, native \in BOOLEAN, recorded \in BOOLEAN :
        IF recorded /\ recap.lastTurn # text
        THEN /\ Room(Before(native, text))
             /\ tree' = [tree EXCEPT ![here] = Append(Before(native, text), Entry("input", text))]
             /\ recap' = [recap EXCEPT !.lastTurn = text]
             /\ calls' = Generate(text)
        ELSE /\ Len(Before(native, text)) <= MaxEntries
             /\ tree' = [tree EXCEPT ![here] = Before(native, text)]
             /\ UNCHANGED <<recap, calls>>
  BY DEF Settle
<1> DEFINE before == Before(native, text)
           after == Append(before, Entry("input", text))
<1>3. Branch(tree[here], late) /\ tree[here] \in Seq(Entries)
  BY HereIsBranch
<1>4. before \in Seq(Entries) /\ Len(before) \in Nat /\ Grounded(before, late)
  BY <1>1, <1>3, EntryType, Appended, StaysGrounded DEF Branch
<1>5. Shows(recap, before, late) /\ Promises(calls, before, late)
  <2>1. Shows(recap, tree[here], late) /\ Promises(calls, tree[here], late)
    BY DEF RecapInv
  <2> QED
    BY <1>1, <1>3, <2>1, EntryType, LongerBranch
<1> HIDE DEF before
<1>6. CASE recorded /\ recap.lastTurn # text
  <2>1. /\ Room(before) /\ tree' = [tree EXCEPT ![here] = after]
        /\ recap' = [recap EXCEPT !.lastTurn = text] /\ calls' = Generate(text)
    BY <1>2, <1>6 DEF before
  <2>2. Len(before) <= MaxEntries
    BY <1>4, <2>1, RecapAssumption DEF Room
  <2>3. Branch(after, late)
    BY <1>1, <1>4, <2>1, <2>2, EntryType, LongerIsBranch DEF Branch
  <2>4. Recorded(after, Len(after), text, late)
    BY <1>1, <1>4, EntryType, NowRecorded
  <2> DEFINE asked == Entry("input", text)
  <2>asked. asked \in Entries /\ after = Append(before, asked)
    BY EntryType
  <2>5. Promises(calls, after, late)
    <3>1. CASE late
      <4> HIDE DEF asked, after
      <4> QED
        BY <1>1, <1>4, <1>5, <2>asked, <3>1, LongerBranch
    <3>2. CASE ~late
      BY <1>1, <3>2 DEF Promises
    <3> QED
      BY <3>1, <3>2
  <2>6. /\ recap' \in Shown /\ recap'.shown = recap.shown /\ Redo(recap') = text
    BY <1>1, <2>1, RecapAssumption DEF Shown, Redo
  <2>7. Shows(recap', after, late)
    <3>1. CASE late
      <4>1. Shows(recap, after, late)
        <5> HIDE DEF asked, after
        <5> QED
          BY <1>1, <1>4, <1>5, <2>asked, <3>1, LongerBranch
      <4> QED
        BY <2>4, <2>6, <4>1 DEF Shows
    <3>2. CASE ~late
      BY <1>1, <2>4, <2>6, <3>2 DEF Shows
    <3> QED
      BY <3>1, <3>2
  <2> HIDE DEF after
  <2>8. /\ tree' = [b \in Branches |-> tree'[b]] /\ tree'[here'] = after
        /\ \A b \in Branches : Branch(tree'[b], late)
    BY <1>1, <2>1, <2>3, HereChanges
  <2>9. calls' \subseteq [text : Texts, live : BOOLEAN] /\ Promises(calls', after, late)
    BY <2>1, <2>4, <2>5, GeneratedPromises
  <2> QED
    BY <1>1, <2>6, <2>7, <2>8, <2>9 DEF RecapInv
<1>7. CASE ~(recorded /\ recap.lastTurn # text)
  <2>1. /\ Len(before) <= MaxEntries /\ tree' = [tree EXCEPT ![here] = before] /\ UNCHANGED <<recap, calls>>
    BY <1>2, <1>7 DEF before
  <2>2. Branch(before, late)
    BY <1>4, <2>1 DEF Branch
  <2>3. /\ tree' = [b \in Branches |-> tree'[b]] /\ tree'[here'] = before
        /\ \A b \in Branches : Branch(tree'[b], late)
    BY <1>1, <2>1, <2>2, HereChanges
  <2> QED
    BY <1>1, <1>5, <2>1, <2>3 DEF RecapInv
<1> QED
  BY <1>6, <1>7

\* An answer that still counts is of what is recorded, and is appended to it.
LEMMA ReplyKeeps == RecapInv /\ Reply => RecapInv'
<1> SUFFICES ASSUME RecapInv, Reply PROVE RecapInv'
  OBVIOUS
<1>1. PICK c \in calls, parsed \in BOOLEAN :
       /\ calls' = calls \ {c}
       /\ IF c.live /\ parsed
          THEN /\ Room(tree[here])
               /\ recap' = [recap EXCEPT !.shown = c.text, !.cache = c.text]
               /\ tree' = [tree EXCEPT ![here] = Append(@, Entry("recap", c.text))]
          ELSE UNCHANGED <<tree, recap>>
  BY DEF Reply
<1>2. /\ UNCHANGED <<here, turning, late>> /\ late \in BOOLEAN /\ here \in Branches /\ recap \in Shown
      /\ calls \subseteq [text : Texts, live : BOOLEAN] /\ tree = [b \in Branches |-> tree[b]]
      /\ Shows(recap, tree[here], late) /\ Promises(calls, tree[here], late)
  BY DEF RecapInv, Reply
<1>3. CASE ~(c.live /\ parsed)
  BY <1>1, <1>2, <1>3 DEF RecapInv, Promises
<1>4. CASE c.live /\ parsed
  <2> DEFINE text == c.text
             e == Entry("recap", text)
             after == Append(tree[here], e)
  <2>1. /\ text \in Texts /\ Recorded(tree[here], Len(tree[here]), text, late)
        /\ e \in Entries /\ e.kind = "recap" /\ e.text = text
    BY <1>2, <1>4, EntryType DEF Promises
  <2>2. Branch(tree[here], late) /\ tree[here] \in Seq(Entries)
    BY HereIsBranch
  <2>3. /\ Room(tree[here]) /\ recap' = [recap EXCEPT !.shown = text, !.cache = text]
        /\ tree' = [tree EXCEPT ![here] = after]
    BY <1>1, <1>2, <1>4
  <2> HIDE DEF text, e
  <2>4. Branch(after, late)
    BY <1>2, <2>1, <2>2, <2>3, LongerIsBranch
  <2>5. /\ Shows(recap, after, late) /\ Promises(calls, after, late)
        /\ Recorded(after, Len(after), text, late)
    BY <1>2, <2>1, <2>2, LongerBranch, StaysRecorded
  <2> HIDE DEF after
  <2>6. /\ tree' = [b \in Branches |-> tree'[b]] /\ tree'[here'] = after
        /\ \A b \in Branches : Branch(tree'[b], late)
    BY <1>2, <2>3, <2>4, HereChanges
  <2>7. /\ recap' \in Shown /\ recap'.shown = text
        /\ Redo(recap') = IF recap.lastTurn # Nothing THEN Redo(recap) ELSE text
    BY <1>2, <2>1, <2>3 DEF Shown, Redo
  <2>8. Shows(recap', after, late)
    BY <2>5, <2>7 DEF Shows
  <2>9. late \/ ~turning
    BY <1>4 DEF RecapInv
  <2> QED
    BY <1>1, <1>2, <2>5, <2>6, <2>7, <2>8, <2>9 DEF RecapInv, Promises
<1> QED
  BY <1>3, <1>4

\* The record may be behind once /recap was typed while a turn ran.
LEMMA Slackens ==
  ASSUME NEW entries, NEW n, NEW text, NEW slack, Recorded(entries, n, text, slack)
  PROVE  Recorded(entries, n, text, TRUE)
BY DEF Recorded

LEMMA RegenerateKeeps == RecapInv /\ Regenerate => RecapInv'
<1> SUFFICES ASSUME RecapInv, Regenerate PROVE RecapInv'
  OBVIOUS
<1>1. /\ UNCHANGED <<tree, here, turning>> /\ late' = (late \/ turning) /\ late' \in BOOLEAN /\ recap.enabled
      /\ late \in BOOLEAN /\ turning \in BOOLEAN /\ recap \in Shown
      /\ Shows(recap, tree[here], late) /\ Promises(calls, tree[here], late)
  BY DEF RecapInv, Regenerate
<1>2. late' \in {late, TRUE}
  BY <1>1
<1>3. ASSUME NEW entries, NEW n, NEW text, Recorded(entries, n, text, late) PROVE Recorded(entries, n, text, late')
  BY <1>2, <1>3, Slackens
<1>4. /\ \A b \in Branches : Branch(tree'[b], late')
      /\ Shows(recap, tree[here], late') /\ Promises(calls, tree[here], late')
  BY <1>1, <1>3 DEF RecapInv, Branch, Grounded, Shows, Promises
<1>5. turning => late'
  BY <1>1
<1>6. CASE recap.lastTurn # Nothing
  <2> DEFINE text == recap.lastTurn
  <2>1. calls' = Generate(text) /\ recap' = recap
    BY <1>6 DEF Regenerate
  <2>2. text \in Texts /\ Recorded(tree[here], Len(tree[here]), text, late')
    BY <1>1, <1>4, <1>6 DEF Shown, Shows, Redo
  <2> HIDE DEF text
  <2>3. calls' \subseteq [text : Texts, live : BOOLEAN] /\ Promises(calls', tree[here], late')
    BY <1>1, <2>1, <2>2, GeneratedPromises
  <2> QED
    BY <1>1, <1>4, <1>5, <2>1, <2>3 DEF RecapInv
<1>7. CASE recap.lastTurn = Nothing
  <2>1. recap' = [recap EXCEPT !.shown = recap.cache] /\ calls' = calls
    BY <1>7 DEF Regenerate
  <2>2. recap' \in Shown /\ recap'.shown = Redo(recap) /\ Redo(recap') = Redo(recap)
    BY <1>1, <1>7, <2>1 DEF Shown, Redo
  <2>3. Shows(recap', tree[here], late')
    BY <1>4, <2>2 DEF Shows
  <2> QED
    BY <1>1, <1>4, <1>5, <2>1, <2>2, <2>3 DEF RecapInv
<1> QED
  BY <1>6, <1>7

LEMMA SetEnabledKeeps == RecapInv /\ SetEnabled => RecapInv'
<1> SUFFICES ASSUME RecapInv, SetEnabled PROVE RecapInv'
  OBVIOUS
<1>1. recap' = [recap EXCEPT !.enabled = ~@] /\ UNCHANGED <<tree, here, calls, turning, late>> /\ recap \in Shown
  BY DEF SetEnabled, RecapInv
<1>2. recap' \in Shown /\ recap'.shown = recap.shown /\ Redo(recap') = Redo(recap)
  BY <1>1 DEF Shown, Redo
<1> QED
  BY <1>1, <1>2 DEF RecapInv, Shows

\* The operator moves: what is shown is what the branch moved to says.
LEMMA NavigateKeeps == RecapInv /\ Navigate => RecapInv'
<1> SUFFICES ASSUME RecapInv, Navigate PROVE RecapInv'
  OBVIOUS
<1>1. /\ ~turning /\ UNCHANGED <<turning, late>> /\ calls' = Bumped(calls)
      /\ recap' = Restored(Reset(recap), tree'[here']) /\ late \in BOOLEAN /\ recap \in Shown
      /\ tree = [b \in Branches |-> tree[b]] /\ \A b \in Branches : Branch(tree[b], late)
  BY DEF Navigate, RecapInv
<1>2. /\ here' \in Branches /\ tree' = [b \in Branches |-> tree'[b]]
      /\ \A b \in Branches : Branch(tree'[b], late)
  <2>1. PICK b \in Branches :
          \/ here' = b /\ UNCHANGED tree
          \/ /\ b # here /\ here' = b
             /\ \E n \in 0..Len(tree[here]) : tree' = [tree EXCEPT ![b] = SubSeq(tree[here], 1, n)]
    BY DEF Navigate
  <2>2. CASE UNCHANGED tree
    BY <1>1, <2>1, <2>2
  <2>3. ASSUME NEW n \in 0..Len(tree[here]), tree' = [tree EXCEPT ![b] = SubSeq(tree[here], 1, n)]
        PROVE  tree' = [x \in Branches |-> tree'[x]] /\ \A x \in Branches : Branch(tree'[x], late)
    <3> DEFINE less == SubSeq(tree[here], 1, n)
    <3>1. Branch(less, late)
      BY <2>3, HereIsBranch, PrefixGrounded
    <3> HIDE DEF less
    <3>2. tree' = [tree EXCEPT ![b] = less]
      BY <2>3 DEF less
    <3> QED
      BY <1>1, <3>1, <3>2
  <2> QED
    BY <1>1, <2>1, <2>2, <2>3
<1>3. recap' \in Shown /\ Shows(recap', tree'[here'], late)
  BY <1>1, <1>2, RestoredShows
<1>4. calls' \subseteq [text : Texts, live : BOOLEAN] /\ Promises(calls', tree'[here'], late)
  BY <1>1, BumpedPromises DEF RecapInv
<1> QED
  BY <1>1, <1>2, <1>3, <1>4 DEF RecapInv

LEMMA RecapKeeps == RecapInv /\ [SessionNext]_sessionVars => RecapInv'
<1>1. RecapInv /\ UNCHANGED recapVars => RecapInv'
  BY DEF recapVars, RecapInv
<1> QED
  BY <1>1, PromptKeeps, SettleKeeps, ReplyKeeps, RegenerateKeeps, SetEnabledKeeps, NavigateKeeps
     DEF SessionNext, RecapNext, sessionVars

\* What is recorded is of this branch, and of its newest turn but for slack.
LEMMA RecordedIsHere ==
  ASSUME RecapInv, NEW text \in Texts, Recorded(tree[here], Len(tree[here]), text, late)
  PROVE  OnThisBranch(text) /\ (~late => NewestOfThisBranch(text))
<1> DEFINE entries == tree[here]
<1>1. entries \in Seq(Entries) /\ Len(entries) \in Nat /\ DOMAIN entries = 1 .. Len(entries)
  BY HereIsBranch
<1>2. PICK i \in 1 .. Len(entries) :
        /\ entries[i].kind \in {"turn", "input"} /\ entries[i].text = text
        /\ ~late => \A j \in i+1 .. Len(entries) : entries[j].kind = "input" => entries[j].text = text
  BY DEF Recorded
<1>3. entries[i] \in Entries /\ entries[i] \in ToSet(entries)
  BY <1>1, <1>2 DEF ToSet
<1>4. entries[i] \in {Entry("turn", text), Entry("input", text)}
  BY <1>2, <1>3 DEF Entries, Entry
<1>5. OnThisBranch(text)
  BY <1>2, <1>3 DEF OnThisBranch
<1>6. ~late => NewestOfThisBranch(text)
  BY <1>1, <1>2, <1>4 DEF NewestOfThisBranch
<1> QED
  BY <1>5, <1>6

\* Whatever runs late, is hidden, typed or moved away from meanwhile: the recap on
\* screen and the one /recap would give are of the branch the session is on, and of
\* its newest recorded turn unless /recap was typed while one ran
\* (src/recap/index.ts:297-456: the run id, clear, reset and restore).
THEOREM RecapsAreOfThisBranch == SessionSpec => []RecapIsOfThisBranch
<1>1. RecapInv => RecapIsOfThisBranch
  <2> SUFFICES ASSUME RecapInv PROVE RecapIsOfThisBranch
    OBVIOUS
  <2>1. /\ recap \in Shown /\ Shows(recap, tree[here], late) /\ Redone = Redo(recap)
    BY DEF RecapInv, Redone, Redo
  <2>2. RecapTypeOK
    <3>1. ASSUME NEW b \in Branches, NEW e \in ToSet(tree[b]) PROVE e.text \in Texts
      <4>1. tree[b] \in Seq(Entries)
        BY <3>1 DEF RecapInv, Branch
      <4>2. e \in Entries
        BY <3>1, <4>1 DEF ToSet
      <4> QED
        BY <4>2 DEF Entries
    <3>2. \A b \in Branches : Len(tree[b]) <= MaxEntries
      BY DEF RecapInv, Branch
    <3> QED
      BY <2>1, <3>1, <3>2 DEF RecapInv, Shown, RecapTypeOK
  <2>3. ASSUME NEW text \in {recap.shown, Redone} \ {Nothing}
        PROVE  OnThisBranch(text) /\ (~late => NewestOfThisBranch(text))
    <3>1. text \in Texts
      BY <2>1, <2>3 DEF Shown, Redo
    <3>2. Recorded(tree[here], Len(tree[here]), text, late)
      BY <2>1, <2>3 DEF Shows
    <3> QED
      BY <3>1, <3>2, RecordedIsHere
  <2> QED
    BY <2>2, <2>3 DEF RecapInv, RecapIsOfThisBranch
<1> QED
  BY <1>1, RecapStarts, RecapKeeps, PTL DEF SessionSpec

=============================================================================
