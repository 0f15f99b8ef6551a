-------------------------- MODULE ExecutorProofs --------------------------
(***************************************************************************)
(* Theorems of the executor lane, for every pool, every set of contracts   *)
(* and every answer of the workers, the reviewers and the decision sites.  *)
(***************************************************************************)
EXTENDS Executor, TLAPS

\* The ladder leads to a worker role from any role.
LEMMA StepRoleIsWorkerRole ==
  ASSUME NEW r  PROVE  StepRole(r) \in WorkerRoles
  BY DEF StepRole, WorkerRoles

\* A row is added at the end and nothing else changes: the history stays a
\* sequence of rows, one longer.
LEMMA RecordAttemptType ==
  ASSUME NEW h \in Seq(HistoryRows(AllSignatures)),
         NEW how \in Strategies, NEW sig \in AllSignatures
  PROVE  /\ RecordAttempt(h, how, sig) \in Seq(HistoryRows(AllSignatures))
         /\ Len(RecordAttempt(h, how, sig)) = Len(h) + 1
         /\ \A i \in DOMAIN h : /\ i \in DOMAIN RecordAttempt(h, how, sig)
                                /\ RecordAttempt(h, how, sig)[i] = h[i]
         /\ RecordAttempt(h, how, sig)[Len(h) + 1].sig = sig
         /\ RecordAttempt(h, how, sig) # <<>>
  BY DEF RecordAttempt, HistoryRows

\* The backend a chain or a review selects is one of the pool's, is enabled,
\* and is not one of those the caller excluded.
LEMMA SelectedIsInPool ==
  ASSUME NEW b, NEW exclude, NEW r, IsFirst(b, Selectable(r, exclude))
  PROVE  b \in Enabled /\ b \notin exclude
  BY DEF IsFirst, Selectable

\* A role list yields a role that exists.
LEMMA FirstRoleOfList ==
  ASSUME NEW list \in RoleList, NEW r \in WorkerRoles \union ReviewRoles
  PROVE  RoleOn(list, r) \in WorkerRoles \union ReviewRoles
  BY DEF RoleOn, RoleList, RolesOf

\* The types, and who is waited for where.
Types == TypeOK /\ PlaceOK

\* A turn starts out with its types and waits for nobody.
LEMMA InitTypes == Init => Types
<1> SUFFICES ASSUME Init  PROVE Types
  OBVIOUS
<1> USE DEF Init
<1>1. PICK c \in Contracts : contract = c /\ role = c.role
  OBVIOUS
<1>2. c.role \in WorkerRoles
  BY ExecutorAssumption DEF Contract
<1>3. PoolTypeOK
  BY PoolAssumption DEF PoolInit, PoolTypeOK
<1>4. TurnTypes
  BY <1>1 DEF TurnTypes, Places, Endings
<1>5. BudgetTypes
  BY DEF BudgetTypes
<1>6. RetryTypes
  BY DEF RetryTypes, Strategies
<1>7. RouteTypes
  BY <1>1, <1>2 DEF RouteTypes
<1>8. SendTypes
  BY DEF SendTypes, Directives
<1>9. ChangeTypes
  BY DEF ChangeTypes, Levels
<1>10. PlaceOK
  BY <1>1, <1>2 DEF PlaceOK
<1> QED
  BY <1>3, <1>4, <1>5, <1>6, <1>7, <1>8, <1>9, <1>10 DEF Types, TypeOK

\* A type group holds after every step that leaves its variables alone.
LEMMA Unchanged ==
  /\ PoolTypeOK /\ UNCHANGED poolVars => PoolTypeOK'
  /\ TurnTypes /\ UNCHANGED turnVars => TurnTypes'
  /\ BudgetTypes /\ UNCHANGED budgetVars => BudgetTypes'
  /\ RetryTypes /\ UNCHANGED retryVars => RetryTypes'
  /\ RouteTypes /\ UNCHANGED routeVars => RouteTypes'
  /\ SendTypes /\ UNCHANGED sendVars => SendTypes'
  /\ ChangeTypes /\ UNCHANGED changeVars => ChangeTypes'
  BY DEF PoolTypeOK, poolVars, TurnTypes, turnVars, BudgetTypes, budgetVars,
         RetryTypes, retryVars, RouteTypes, routeVars, SendTypes, sendVars,
         ChangeTypes, changeVars

\* Every step keeps the types and the knowledge of who is waited for.
LEMMA StepTypes == Types /\ [Next]_vars => Types'
<1> SUFFICES ASSUME Types, [Next]_vars  PROVE Types'
  OBVIOUS
<1> USE DEF Types, TypeOK
<1>1. CASE Start
  <2>1. TurnTypes'
    BY <1>1 DEF Start, TurnTypes, Goto, Places
  <2>2. RouteTypes'
    <3>1. CASE UNCHANGED <<preferred, held, role, excluded>>
      BY <3>1 DEF RouteTypes
    <3>2. ASSUME NEW b \in Enabled, NEW list \in {BoundRoles[b], ModelRoles[b]},
                 preferred' = b, held' = TRUE, role' = RoleOn(list, role),
                 excluded' = excluded
          PROVE  RouteTypes'
      <4>1. b \in Backends /\ list \in RoleList
        BY <3>2, ExecutorAssumption, PoolAssumption
      <4> QED
        BY <3>2, <4>1, FirstRoleOfList DEF RouteTypes
    <3> QED
      BY <1>1, <3>1, <3>2 DEF Start
  <2>3. PlaceOK'
    BY <1>1 DEF Start, PlaceOK, Goto, sendVars
  <2> QED
    BY <1>1, <2>1, <2>2, <2>3, Unchanged DEF Start
<1>2. CASE BudgetSpent
  <2>1. TurnTypes'
    BY <1>2 DEF BudgetSpent, TurnTypes, Finish, Places, Endings, BlockReasons
  <2>2. PlaceOK'
    BY <1>2 DEF BudgetSpent, PlaceOK, Finish, sendVars
  <2> QED
    BY <1>2, <2>1, <2>2, Unchanged DEF BudgetSpent
<1>3. CASE BeginAttempt
  <2>1. TurnTypes'
    BY <1>3 DEF BeginAttempt, TurnTypes, Goto, Places
  <2>2. BudgetTypes'
    BY <1>3 DEF BeginAttempt, BudgetTypes
  <2>3. SendTypes'
    BY <1>3 DEF BeginAttempt, SendTypes, RouteTypes, Packets, Directives
  <2>4. PlaceOK'
    BY <1>3 DEF BeginAttempt, PlaceOK, Goto
  <2> QED
    BY <1>3, <2>1, <2>2, <2>3, <2>4, Unchanged DEF BeginAttempt
<1>4. CASE Dispatch
  <2>1. TurnTypes'
    BY <1>4 DEF Dispatch, TurnTypes, Goto, Places
  <2>2. SendTypes'
    BY <1>4 DEF Dispatch, SendTypes
  <2>3. PlaceOK'
    BY <1>4 DEF Dispatch, PlaceOK, Goto
  <2> QED
    BY <1>4, <2>1, <2>2, <2>3, Unchanged DEF Dispatch
<1>5. CASE ChainExhausted
  <2>1. TurnTypes'
    BY <1>5 DEF ChainExhausted, TurnTypes, Finish, Places, Endings, BlockReasons
  <2>2. RetryTypes'
    BY <1>5, RecordAttemptType DEF ChainExhausted, RetryTypes, AllSignatures
  <2>3. SendTypes'
    BY <1>5 DEF ChainExhausted, SendTypes
  <2>4. PlaceOK'
    BY <1>5 DEF ChainExhausted, PlaceOK, Finish
  <2> QED
    BY <1>5, <2>1, <2>2, <2>3, <2>4, Unchanged DEF ChainExhausted
<1>6. CASE \E kind \in FailureKinds : WorkerFails(kind)
  <2>1. PICK kind \in FailureKinds : WorkerFails(kind)
    BY <1>6
  <2>2. PoolTypeOK'
    BY <2>1 DEF WorkerFails, PoolTypeOK, MarkIfLimited, poolVars, PlaceOK
  <2>3. TurnTypes'
    BY <2>1 DEF WorkerFails, TurnTypes, Goto, Places
  <2>4. SendTypes'
    BY <2>1 DEF WorkerFails, SendTypes, PlaceOK
  <2>5. PlaceOK'
    BY <2>1 DEF WorkerFails, PlaceOK, Goto
  <2> QED
    BY <2>1, <2>2, <2>3, <2>4, <2>5, Unchanged DEF WorkerFails
<1>7. CASE \E files \in SUBSET Files, unk \in BOOLEAN : WorkerAnswers(files, unk)
  <2>1. PICK files \in SUBSET Files, unk \in BOOLEAN : WorkerAnswers(files, unk)
    BY <1>7
  <2>2. TurnTypes'
    BY <2>1 DEF WorkerAnswers, TurnTypes, Goto, Places
  <2>3. SendTypes'
    BY <2>1 DEF WorkerAnswers, SendTypes
  <2>4. ChangeTypes'
    BY <2>1 DEF WorkerAnswers, ChangeTypes, TaskOwned
  <2>5. PlaceOK'
    BY <2>1 DEF WorkerAnswers, PlaceOK, Goto
  <2> QED
    BY <2>1, <2>2, <2>3, <2>4, <2>5, Unchanged DEF WorkerAnswers
<1>8. CASE VerifyPasses
  <2>1. TurnTypes'
    BY <1>8 DEF VerifyPasses, TurnTypes, Goto, Places
  <2>2. PlaceOK'
    BY <1>8 DEF VerifyPasses, PlaceOK, Goto, sendVars
  <2> QED
    BY <1>8, <2>1, <2>2, Unchanged DEF VerifyPasses
<1>9. CASE \E sig \in Signatures, records \in (SUBSET RecordKeys) \ {{}} : VerifyFails(sig, records)
  <2>1. PICK sig \in Signatures, records \in (SUBSET RecordKeys) \ {{}} : VerifyFails(sig, records)
    BY <1>9
  <2>2. TurnTypes'
    BY <2>1 DEF VerifyFails, TurnTypes, Goto, Finish, Places, Endings, BlockReasons
  <2>3. BudgetTypes'
    BY <2>1 DEF VerifyFails, BudgetTypes
  <2>4. RetryTypes'
    BY <2>1, RecordAttemptType DEF VerifyFails, RetryTypes, AllSignatures
  <2>5. PlaceOK'
    BY <2>1 DEF VerifyFails, PlaceOK, Goto, Finish, sendVars
  <2> QED
    BY <2>1, <2>2, <2>3, <2>4, <2>5, Unchanged DEF VerifyFails
<1>10. CASE RetryRefused
  <2>1. TurnTypes'
    BY <1>10 DEF RetryRefused, TurnTypes, Finish, Places, Endings, BlockReasons
  <2>2. PlaceOK'
    BY <1>10 DEF RetryRefused, PlaceOK, Finish, sendVars
  <2> QED
    BY <1>10, <2>1, <2>2, Unchanged DEF RetryRefused
<1>11. CASE \E environment \in BOOLEAN : RetryGranted(environment)
  <2>1. PICK environment \in BOOLEAN : RetryGranted(environment)
    BY <1>11
  <2>2. TurnTypes'
    BY <2>1 DEF RetryGranted, TurnTypes, Goto, Places
  <2>3. RetryTypes'
    BY <2>1 DEF RetryGranted, RetryTypes, Strategies
  <2>4. RouteTypes'
    BY <2>1 DEF RetryGranted, RouteTypes, RouteSurvives, PlaceOK
  <2>5. PlaceOK'
    BY <2>1 DEF RetryGranted, PlaceOK, Goto, sendVars
  <2> QED
    BY <2>1, <2>2, <2>3, <2>4, <2>5, Unchanged DEF RetryGranted
<1>12. CASE \E category \in Categories : EscalationStops(category)
  <2>1. PICK category \in Categories : EscalationStops(category)
    BY <1>12
  <2>2. TurnTypes'
    BY <2>1 DEF EscalationStops, TurnTypes, Finish, Places, Endings, BlockReasons
  <2>3. PlaceOK'
    BY <2>1 DEF EscalationStops, PlaceOK, Finish, sendVars
  <2> QED
    BY <2>1, <2>2, <2>3, Unchanged DEF EscalationStops
<1>13. CASE \E category \in Categories : EscalationContinues(category)
  <2>1. PICK category \in Categories : EscalationContinues(category)
    BY <1>13
  <2>2. TurnTypes'
    BY <2>1 DEF EscalationContinues, TurnTypes, Goto, Places
  <2>3. RetryTypes'
    BY <2>1 DEF EscalationContinues, RetryTypes, Strategies
  <2>4. RouteTypes'
    BY <2>1, StepRoleIsWorkerRole DEF EscalationContinues, RouteTypes, NextRole, BackendsBurned, PlaceOK
  <2>5. SendTypes'
    BY <2>1 DEF EscalationContinues, SendTypes, DirectiveOf, Directives
  <2>6. PlaceOK'
    BY <2>1 DEF EscalationContinues, PlaceOK, Goto
  <2> QED
    BY <2>1, <2>2, <2>3, <2>4, <2>5, <2>6, Unchanged DEF EscalationContinues
<1>14. CASE ReviewSkipped
  <2>1. TurnTypes'
    BY <1>14 DEF ReviewSkipped, TurnTypes, Finish, Places, Endings
  <2>2. ChangeTypes'
    BY <1>14 DEF ReviewSkipped, ChangeTypes, Levels
  <2>3. PlaceOK'
    BY <1>14 DEF ReviewSkipped, PlaceOK, Finish, sendVars
  <2> QED
    BY <1>14, <2>1, <2>2, <2>3, Unchanged DEF ReviewSkipped
<1>15. CASE ReviewPasses
  <2>1. TurnTypes'
    BY <1>15 DEF ReviewPasses, TurnTypes, Finish, Places, Endings
  <2>2. SendTypes'
    BY <1>15 DEF ReviewPasses, SendTypes
  <2>3. PlaceOK'
    BY <1>15 DEF ReviewPasses, PlaceOK, Finish
  <2> QED
    BY <1>15, <2>1, <2>2, <2>3, Unchanged DEF ReviewPasses
<1>16. CASE AdviceStarts
  <2>1. TurnTypes'
    BY <1>16 DEF AdviceStarts, TurnTypes, Goto, Places
  <2>2. SendTypes'
    BY <1>16 DEF AdviceStarts, SendTypes
  <2>3. PlaceOK'
    BY <1>16 DEF AdviceStarts, PlaceOK, Goto
  <2> QED
    BY <1>16, <2>1, <2>2, <2>3, Unchanged DEF AdviceStarts
<1>17. CASE NoAdviser
  <2>1. TurnTypes'
    BY <1>17 DEF NoAdviser, TurnTypes, Goto, Places
  <2>2. PlaceOK'
    BY <1>17 DEF NoAdviser, PlaceOK, Goto, sendVars
  <2> QED
    BY <1>17, <2>1, <2>2, Unchanged DEF NoAdviser
<1>18. CASE \E l \in Levels : ReviewStarts(l)
  <2>1. PICK l \in Levels : ReviewStarts(l)
    BY <1>18
  <2>2. TurnTypes'
    BY <2>1 DEF ReviewStarts, TurnTypes, Goto, Places
  <2>3. SendTypes'
    BY <2>1 DEF ReviewStarts, SendTypes
  <2>4. ChangeTypes'
    BY <2>1 DEF ReviewStarts, ChangeTypes
  <2>5. PlaceOK'
    BY <2>1 DEF ReviewStarts, PlaceOK, Goto
  <2> QED
    BY <2>1, <2>2, <2>3, <2>4, <2>5, Unchanged DEF ReviewStarts
<1>19. CASE \E l \in Levels : NoReviewer(l)
  <2>1. PICK l \in Levels : NoReviewer(l)
    BY <1>19
  <2>2. TurnTypes'
    BY <2>1 DEF NoReviewer, TurnTypes, ReviewNotPassed, Goto, Finish, Places, Endings, BlockReasons
  <2>3. BudgetTypes'
    BY <2>1 DEF NoReviewer, BudgetTypes, ReviewNotPassed
  <2>4. RetryTypes'
    BY <2>1, RecordAttemptType DEF NoReviewer, RetryTypes, ReviewNotPassed, AllSignatures, Strategies
  <2>5. RouteTypes'
    BY <2>1 DEF NoReviewer, RouteTypes, ReviewNotPassed, routeVars
  <2>6. SendTypes'
    BY <2>1 DEF NoReviewer, SendTypes, ReviewNotPassed, Directives
  <2>7. ChangeTypes'
    BY <2>1 DEF NoReviewer, ChangeTypes, ReviewNotPassed
  <2>8. PlaceOK'
    BY <2>1 DEF NoReviewer, PlaceOK, ReviewNotPassed, Goto, Finish
  <2> QED
    BY <2>1, <2>2, <2>3, <2>4, <2>5, <2>6, <2>7, <2>8, Unchanged DEF NoReviewer, ReviewNotPassed
<1>20. CASE \E kind \in FailureKinds \union {"none"} : ReviewFails(kind)
  <2>1. PICK kind \in FailureKinds \union {"none"} : ReviewFails(kind)
    BY <1>20
  <2>2. PoolTypeOK'
    BY <2>1 DEF ReviewFails, PoolTypeOK, SignalUnmarked, PlaceOK
  <2>3. TurnTypes'
    BY <2>1 DEF ReviewFails, TurnTypes, ReviewNotPassed, Goto, Finish, Places, Endings, BlockReasons
  <2>4. BudgetTypes'
    BY <2>1 DEF ReviewFails, BudgetTypes, ReviewNotPassed
  <2>5. RetryTypes'
    BY <2>1, RecordAttemptType DEF ReviewFails, RetryTypes, ReviewNotPassed, AllSignatures, Strategies
  <2>6. RouteTypes'
    BY <2>1 DEF ReviewFails, RouteTypes, ReviewNotPassed, routeVars
  <2>7. SendTypes'
    BY <2>1 DEF ReviewFails, SendTypes, ReviewNotPassed, Directives
  <2>8. ChangeTypes'
    BY <2>1 DEF ReviewFails, ChangeTypes, ReviewNotPassed
  <2>9. PlaceOK'
    BY <2>1 DEF ReviewFails, PlaceOK, ReviewNotPassed, Goto, Finish
  <2> QED
    BY <2>1, <2>2, <2>3, <2>4, <2>5, <2>6, <2>7, <2>8, <2>9, Unchanged DEF ReviewFails, ReviewNotPassed
<1>21. CASE \E kind \in FailureKinds \union {"none"} : AdviceEnds(kind)
  <2>1. PICK kind \in FailureKinds \union {"none"} : AdviceEnds(kind)
    BY <1>21
  <2>2. PoolTypeOK'
    BY <2>1 DEF AdviceEnds, PoolTypeOK, SignalUnmarked, PlaceOK
  <2>3. TurnTypes'
    BY <2>1 DEF AdviceEnds, TurnTypes, Goto, Places
  <2>4. SendTypes'
    BY <2>1 DEF AdviceEnds, SendTypes
  <2>5. PlaceOK'
    BY <2>1 DEF AdviceEnds, PlaceOK, Goto
  <2> QED
    BY <2>1, <2>2, <2>3, <2>4, <2>5, Unchanged DEF AdviceEnds
<1>22. CASE NextTurn
  <2>1. TurnTypes'
    BY <1>22 DEF NextTurn, TurnTypes, Places, Endings
  <2>2. BudgetTypes'
    BY <1>22 DEF NextTurn, BudgetTypes
  <2>3. RetryTypes'
    BY <1>22 DEF NextTurn, RetryTypes, Strategies
  <2>4. RouteTypes'
    BY <1>22, ExecutorAssumption DEF NextTurn, RouteTypes, Contract
  <2>5. SendTypes'
    BY <1>22 DEF NextTurn, SendTypes, Directives
  <2>6. ChangeTypes'
    BY <1>22 DEF NextTurn, ChangeTypes, Levels
  <2>7. PlaceOK'
    BY <1>22 DEF NextTurn, PlaceOK
  <2> QED
    BY <1>22, <2>1, <2>2, <2>3, <2>4, <2>5, <2>6, <2>7, Unchanged DEF NextTurn
<1>23. CASE CoolDown
  <2>1. PoolTypeOK'
    BY <1>23 DEF CoolDown, PoolTypeOK, CooldownExpires
  <2>2. PlaceOK'
    BY <1>23 DEF CoolDown, PlaceOK, turnVars, sendVars
  <2> QED
    BY <1>23, <2>1, <2>2, Unchanged DEF CoolDown
<1>24. CASE UNCHANGED vars
  BY <1>24, Unchanged DEF vars, PlaceOK, turnVars, sendVars
<1> QED
  BY <1>1, <1>2, <1>3, <1>4, <1>5, <1>6, <1>7, <1>8, <1>9, <1>10, <1>11, <1>12, <1>13, <1>14, <1>15, <1>16, <1>17, <1>18, <1>19, <1>20, <1>21, <1>22, <1>23, <1>24 DEF Next, Step, Attempt, Judge, Review

\* The variables of the lane hold what their declarations say in every state of
\* every run, for every pool and every set of contracts.
THEOREM TypeCorrect == Spec => []TypeOK
<1>1. Init => Types
  BY InitTypes
<1>2. Types /\ [Next]_vars => Types'
  BY StepTypes
<1>3. Types => TypeOK
  BY DEF Types
<1> QED
  BY <1>1, <1>2, <1>3, PTL DEF Spec

\* The policy escalates only while the contract has an escalation left.
LEMMA EscalateNeedsBudget ==
  ASSUME NEW h, NEW sig, NEW fresh, NEW spent, NEW may,
         Decision(h, sig, fresh, spent, may) = "escalate"
  PROVE  may
<1>1. CASE Escalates(h, sig, fresh, spent, may)
  BY <1>1 DEF Escalates
<1>2. CASE ~Escalates(h, sig, fresh, spent, may)
  BY <1>2 DEF Decision
<1> QED
  BY <1>1, <1>2

\* The ceilings, and how many review rounds are left, hold together.
Budgets == BudgetsHeld /\ RoundsLeft

\* Every step keeps the ceilings.
LEMMA StepBudgets == Types /\ Budgets /\ [Next]_vars => Budgets'
<1> SUFFICES ASSUME Types, Budgets, [Next]_vars
             PROVE  Budgets'
  OBVIOUS
<1> USE DEF Types, Budgets, BudgetsHeld, RoundsLeft, TypeOK, BudgetTypes, TurnTypes, Contract, BudgetUsedUp, PlaceOK, Goto, Finish, turnVars, budgetVars, retryVars, routeVars, sendVars, changeVars
<1>1. CASE Start
  BY <1>1 DEF Start
<1>2. CASE BudgetSpent
  BY <1>2 DEF BudgetSpent
<1>3. CASE BeginAttempt
  BY <1>3, ExecutorAssumption DEF BeginAttempt
<1>4. CASE Dispatch
  BY <1>4 DEF Dispatch
<1>5. CASE ChainExhausted
  BY <1>5 DEF ChainExhausted
<1>6. CASE \E kind \in FailureKinds : WorkerFails(kind)
  BY <1>6 DEF WorkerFails
<1>7. CASE \E files \in SUBSET Files, unk \in BOOLEAN : WorkerAnswers(files, unk)
  BY <1>7 DEF WorkerAnswers
<1>8. CASE VerifyPasses
  BY <1>8 DEF VerifyPasses
<1>9. CASE \E sig \in Signatures, records \in (SUBSET RecordKeys) \ {{}} : VerifyFails(sig, records)
  <2>1. PICK sig \in Signatures, records \in (SUBSET RecordKeys) \ {{}} : VerifyFails(sig, records)
    BY <1>9
  <2>2. UNCHANGED <<contract, attemptsUsed, reviewRounds>> /\ pc # "done"
    BY <2>1 DEF VerifyFails
  <2>3. \/ UNCHANGED escalationsUsed
        \/ MayEscalate /\ escalationsUsed' = escalationsUsed + 1
    BY <2>1, EscalateNeedsBudget DEF VerifyFails
  <2>4. contract.escalations \in Nat
    BY ExecutorAssumption
  <2> QED
    BY <2>2, <2>3, <2>4 DEF MayEscalate
<1>10. CASE RetryRefused
  BY <1>10 DEF RetryRefused
<1>11. CASE \E environment \in BOOLEAN : RetryGranted(environment)
  BY <1>11 DEF RetryGranted
<1>12. CASE \E category \in Categories : EscalationStops(category)
  BY <1>12 DEF EscalationStops
<1>13. CASE \E category \in Categories : EscalationContinues(category)
  BY <1>13 DEF EscalationContinues
<1>14. CASE ReviewSkipped
  BY <1>14 DEF ReviewSkipped
<1>15. CASE ReviewPasses
  BY <1>15 DEF ReviewPasses
<1>16. CASE AdviceStarts
  BY <1>16 DEF AdviceStarts
<1>17. CASE NoAdviser
  BY <1>17 DEF NoAdviser
<1>18. CASE \E l \in Levels : ReviewStarts(l)
  BY <1>18 DEF ReviewStarts
<1>19. CASE \E l \in Levels : NoReviewer(l)
  <2>1. PICK l \in Levels : NoReviewer(l)
    BY <1>19
  <2>2. contract' = contract /\ attemptsUsed' = attemptsUsed /\ escalationsUsed' = escalationsUsed
    BY <2>1 DEF NoReviewer, ReviewNotPassed
  <2>3. pc # "done" /\ reviewRounds \in Nat /\ reviewRounds' = reviewRounds + 1
    BY <2>1 DEF NoReviewer, ReviewNotPassed
  <2>4. contract.rounds \in Nat
    BY ExecutorAssumption
  <2>5. reviewRounds' < contract.rounds \/ pc' = "done"
    BY <2>1 DEF NoReviewer, ReviewNotPassed
  <2> QED
    BY <2>2, <2>3, <2>4, <2>5
<1>20. CASE \E kind \in FailureKinds \union {"none"} : ReviewFails(kind)
  <2>1. PICK kind \in FailureKinds \union {"none"} : ReviewFails(kind)
    BY <1>20
  <2>2. contract' = contract /\ attemptsUsed' = attemptsUsed /\ escalationsUsed' = escalationsUsed
    BY <2>1 DEF ReviewFails, ReviewNotPassed
  <2>3. pc # "done" /\ reviewRounds \in Nat /\ reviewRounds' = reviewRounds + 1
    BY <2>1 DEF ReviewFails, ReviewNotPassed
  <2>4. contract.rounds \in Nat
    BY ExecutorAssumption
  <2>5. reviewRounds' < contract.rounds \/ pc' = "done"
    BY <2>1 DEF ReviewFails, ReviewNotPassed
  <2> QED
    BY <2>2, <2>3, <2>4, <2>5
<1>21. CASE \E kind \in FailureKinds \union {"none"} : AdviceEnds(kind)
  BY <1>21 DEF AdviceEnds
<1>22. CASE NextTurn
  BY <1>22, ExecutorAssumption DEF NextTurn
<1>23. CASE CoolDown
  BY <1>23 DEF CoolDown
<1>24. CASE UNCHANGED vars
  BY <1>24 DEF vars
<1> QED
  BY <1>1, <1>2, <1>3, <1>4, <1>5, <1>6, <1>7, <1>8, <1>9, <1>10, <1>11, <1>12, <1>13, <1>14, <1>15, <1>16, <1>17, <1>18, <1>19, <1>20, <1>21, <1>22, <1>23, <1>24
     DEF Next, Step, Attempt, Judge, Review

\* What one more row does to the history.
LEMMA RowAdded ==
  ASSUME RetryTypes, NEW how \in Strategies, NEW sig \in AllSignatures,
         history' = RecordAttempt(history, how, sig)
  PROVE  /\ Len(history) \in Nat
         /\ Len(history') = Len(history) + 1
         /\ history' # <<>>
         /\ LastSig' = sig
<1>1. history \in Seq(HistoryRows(AllSignatures))
  BY DEF RetryTypes
<1> QED
  BY <1>1, RecordAttemptType DEF LastSig

\* Every attempt gets one row: the places of an attempt and the places between
\* two attempts keep count of it.
LEMMA StepAccounting == Types /\ AttemptAccounting /\ [Next]_vars => AttemptAccounting'
<1> SUFFICES ASSUME Types, AttemptAccounting, [Next]_vars
             PROVE  AttemptAccounting'
  OBVIOUS
<1> USE DEF Types, AttemptAccounting, InAttempt, BetweenAttempts, TypeOK, BudgetTypes, PlaceOK, Goto, Finish, turnVars, budgetVars, retryVars, routeVars, sendVars, changeVars
<1>1. CASE Start
  BY <1>1 DEF Start
<1>2. CASE BudgetSpent
  BY <1>2 DEF BudgetSpent
<1>3. CASE BeginAttempt
  BY <1>3 DEF BeginAttempt, RetryTypes
<1>4. CASE Dispatch
  BY <1>4 DEF Dispatch
<1>5. CASE ChainExhausted
  <2>1. strategy \in Strategies /\ WorkerSig \in AllSignatures
    BY DEF RetryTypes, AllSignatures
  <2>2. Len(history) \in Nat /\ Len(history') = Len(history) + 1
    BY <1>5, <2>1, RowAdded DEF ChainExhausted
  <2>3. pc' = "done" /\ ending' = "exhausted" /\ UNCHANGED escalationsUsed
    BY <1>5 DEF ChainExhausted
  <2> QED
    BY <2>2, <2>3
<1>6. CASE \E kind \in FailureKinds : WorkerFails(kind)
  BY <1>6 DEF WorkerFails
<1>7. CASE \E files \in SUBSET Files, unk \in BOOLEAN : WorkerAnswers(files, unk)
  BY <1>7 DEF WorkerAnswers
<1>8. CASE VerifyPasses
  BY <1>8 DEF VerifyPasses
<1>9. CASE \E sig \in Signatures, records \in (SUBSET RecordKeys) \ {{}} : VerifyFails(sig, records)
  <2>1. PICK sig \in Signatures, records \in (SUBSET RecordKeys) \ {{}} : VerifyFails(sig, records)
    BY <1>9
  <2>2. Len(history') = Len(history) + 1 /\ Len(history) \in Nat
    <3>1. sig \in AllSignatures /\ strategy \in Strategies
      BY <2>1 DEF AllSignatures, RetryTypes
    <3>2. history' = RecordAttempt(history, strategy, sig)
      BY <2>1 DEF VerifyFails
    <3> QED
      BY <3>1, <3>2, RowAdded
  <2>3. attemptsUsed' = attemptsUsed /\ attemptsUsed = Len(history) + 1
    BY <2>1 DEF VerifyFails
  <2>4. escalationsUsed' = escalationsUsed \/ escalationsUsed' = escalationsUsed + 1
    BY <2>1 DEF VerifyFails
  <2>5. /\ pc' \in {"classify", "escalating", "done"}
        /\ ending' \notin {"completed", "review"}
    BY <2>1 DEF VerifyFails
  <2> QED
    BY <2>2, <2>3, <2>4, <2>5
<1>10. CASE RetryRefused
  BY <1>10 DEF RetryRefused
<1>11. CASE \E environment \in BOOLEAN : RetryGranted(environment)
  BY <1>11 DEF RetryGranted
<1>12. CASE \E category \in Categories : EscalationStops(category)
  BY <1>12 DEF EscalationStops
<1>13. CASE \E category \in Categories : EscalationContinues(category)
  BY <1>13 DEF EscalationContinues
<1>14. CASE ReviewSkipped
  BY <1>14 DEF ReviewSkipped
<1>15. CASE ReviewPasses
  BY <1>15 DEF ReviewPasses
<1>16. CASE AdviceStarts
  BY <1>16 DEF AdviceStarts
<1>17. CASE NoAdviser
  BY <1>17 DEF NoAdviser
<1>18. CASE \E l \in Levels : ReviewStarts(l)
  BY <1>18 DEF ReviewStarts
<1>19. CASE \E l \in Levels : NoReviewer(l)
  <2>1. PICK l \in Levels : NoReviewer(l)
    BY <1>19
  <2>2. /\ attemptsUsed' = attemptsUsed /\ attemptsUsed = Len(history) + 1
        /\ escalationsUsed' = escalationsUsed
    BY <2>1 DEF NoReviewer, ReviewNotPassed
  <2>3. CASE pc' = "done"
    BY <2>1, <2>2, <2>3 DEF NoReviewer, ReviewNotPassed
  <2>4. CASE pc' # "done"
    <3>1. pc' = "attempt" /\ ending' = "running" /\ history' = RecordAttempt(history, "reassess", ReviewSig)
      BY <2>1, <2>4 DEF NoReviewer, ReviewNotPassed
    <3>2. Len(history') = Len(history) + 1 /\ Len(history) \in Nat
      <4>1. "reassess" \in Strategies /\ ReviewSig \in AllSignatures
        BY DEF Strategies, AllSignatures
      <4> QED
        BY <3>1, <4>1, RowAdded
    <3> QED
      BY <2>2, <3>1, <3>2
  <2> QED
    BY <2>3, <2>4
<1>20. CASE \E kind \in FailureKinds \union {"none"} : ReviewFails(kind)
  <2>1. PICK kind \in FailureKinds \union {"none"} : ReviewFails(kind)
    BY <1>20
  <2>2. /\ attemptsUsed' = attemptsUsed /\ attemptsUsed = Len(history) + 1
        /\ escalationsUsed' = escalationsUsed
    BY <2>1 DEF ReviewFails, ReviewNotPassed
  <2>3. CASE pc' = "done"
    BY <2>1, <2>2, <2>3 DEF ReviewFails, ReviewNotPassed
  <2>4. CASE pc' # "done"
    <3>1. pc' = "attempt" /\ ending' = "running" /\ history' = RecordAttempt(history, "reassess", ReviewSig)
      BY <2>1, <2>4 DEF ReviewFails, ReviewNotPassed
    <3>2. Len(history') = Len(history) + 1 /\ Len(history) \in Nat
      <4>1. "reassess" \in Strategies /\ ReviewSig \in AllSignatures
        BY DEF Strategies, AllSignatures
      <4> QED
        BY <3>1, <4>1, RowAdded
    <3> QED
      BY <2>2, <3>1, <3>2
  <2> QED
    BY <2>3, <2>4
<1>21. CASE \E kind \in FailureKinds \union {"none"} : AdviceEnds(kind)
  BY <1>21 DEF AdviceEnds
<1>22. CASE NextTurn
  BY <1>22 DEF NextTurn
<1>23. CASE CoolDown
  BY <1>23 DEF CoolDown
<1>24. CASE UNCHANGED vars
  BY <1>24 DEF vars
<1> QED
  BY <1>1, <1>2, <1>3, <1>4, <1>5, <1>6, <1>7, <1>8, <1>9, <1>10, <1>11, <1>12, <1>13, <1>14, <1>15, <1>16, <1>17, <1>18, <1>19, <1>20, <1>21, <1>22, <1>23, <1>24
     DEF Next, Step, Attempt, Judge, Review

\* The route and the burned backends.
RouteInv == RouteDiscipline /\ BurnedStaysOut /\ RouteAtStart

\* A chain selects neither a burned backend nor, on a held route, another one.
LEMMA StepRoute == Types /\ RouteInv /\ [Next]_vars => RouteInv'
<1> SUFFICES ASSUME Types, RouteInv, [Next]_vars
             PROVE  RouteInv'
  OBVIOUS
<1> USE DEF Types, RouteInv, RouteDiscipline, BurnedStaysOut, RouteAtStart, TypeOK, RouteTypes, PlaceOK, Goto, Finish, turnVars, budgetVars, retryVars, routeVars, sendVars, changeVars
<1>1. CASE Start
  BY <1>1, PoolAssumption DEF Start
<1>2. CASE BudgetSpent
  BY <1>2 DEF BudgetSpent
<1>3. CASE BeginAttempt
  BY <1>3 DEF BeginAttempt
<1>4. CASE Dispatch
  BY <1>4, SelectedIsInPool, PoolAssumption DEF Dispatch, ChainExcludes, RouteExclusions
<1>5. CASE ChainExhausted
  BY <1>5 DEF ChainExhausted
<1>6. CASE \E kind \in FailureKinds : WorkerFails(kind)
  BY <1>6 DEF WorkerFails
<1>7. CASE \E files \in SUBSET Files, unk \in BOOLEAN : WorkerAnswers(files, unk)
  BY <1>7 DEF WorkerAnswers
<1>8. CASE VerifyPasses
  BY <1>8 DEF VerifyPasses
<1>9. CASE \E sig \in Signatures, records \in (SUBSET RecordKeys) \ {{}} : VerifyFails(sig, records)
  BY <1>9 DEF VerifyFails
<1>10. CASE RetryRefused
  BY <1>10 DEF RetryRefused
<1>11. CASE \E environment \in BOOLEAN : RetryGranted(environment)
  <2>1. PICK environment \in BOOLEAN : RetryGranted(environment)
    BY <1>11
  <2>2. /\ pc' = "attempt" /\ preferred' = preferred
        /\ held' => held
    BY <2>1 DEF RetryGranted, RouteSurvives
  <2>3. ASSUME held', NEW b \in excluded', b \notin excluded  PROVE b # preferred
    BY <2>1, <2>3 DEF RetryGranted, RouteSurvives
  <2> QED
    BY <2>2, <2>3
<1>12. CASE \E category \in Categories : EscalationStops(category)
  BY <1>12 DEF EscalationStops
<1>13. CASE \E category \in Categories : EscalationContinues(category)
  BY <1>13 DEF EscalationContinues
<1>14. CASE ReviewSkipped
  BY <1>14 DEF ReviewSkipped
<1>15. CASE ReviewPasses
  BY <1>15 DEF ReviewPasses
<1>16. CASE AdviceStarts
  BY <1>16 DEF AdviceStarts
<1>17. CASE NoAdviser
  BY <1>17 DEF NoAdviser
<1>18. CASE \E l \in Levels : ReviewStarts(l)
  BY <1>18 DEF ReviewStarts
<1>19. CASE \E l \in Levels : NoReviewer(l)
  BY <1>19 DEF NoReviewer, ReviewNotPassed
<1>20. CASE \E kind \in FailureKinds \union {"none"} : ReviewFails(kind)
  BY <1>20 DEF ReviewFails, ReviewNotPassed
<1>21. CASE \E kind \in FailureKinds \union {"none"} : AdviceEnds(kind)
  BY <1>21 DEF AdviceEnds
<1>22. CASE NextTurn
  BY <1>22 DEF NextTurn
<1>23. CASE CoolDown
  BY <1>23 DEF CoolDown
<1>24. CASE UNCHANGED vars
  BY <1>24 DEF vars
<1> QED
  BY <1>1, <1>2, <1>3, <1>4, <1>5, <1>6, <1>7, <1>8, <1>9, <1>10, <1>11, <1>12, <1>13, <1>14, <1>15, <1>16, <1>17, <1>18, <1>19, <1>20, <1>21, <1>22, <1>23, <1>24
     DEF Next, Step, Attempt, Judge, Review

\* The directive of the next attempt and the one in the packet.
DirectiveInv == DirectiveForOneAttempt /\ DirectivePlanned

\* A directive is planned at an escalation or a rejected review, is sent with the
\* next attempt and is gone after it.
LEMMA StepDirective == Types /\ DirectiveInv /\ [Next]_vars => DirectiveInv'
<1> SUFFICES ASSUME Types, DirectiveInv, [Next]_vars
             PROVE  DirectiveInv'
  OBVIOUS
<1> USE DEF Types, DirectiveInv, DirectiveForOneAttempt, DirectivePlanned, InAttempt, TypeOK, PlaceOK, Goto, Finish, turnVars, budgetVars, retryVars, routeVars, sendVars, changeVars
<1>1. CASE Start
  BY <1>1 DEF Start, LastSig, Categories
<1>2. CASE BudgetSpent
  BY <1>2 DEF BudgetSpent
<1>3. CASE BeginAttempt
  BY <1>3 DEF BeginAttempt, LastSig, Categories
<1>4. CASE Dispatch
  BY <1>4 DEF Dispatch, LastSig, Categories
<1>5. CASE ChainExhausted
  BY <1>5 DEF ChainExhausted
<1>6. CASE \E kind \in FailureKinds : WorkerFails(kind)
  BY <1>6 DEF WorkerFails, LastSig, Categories
<1>7. CASE \E files \in SUBSET Files, unk \in BOOLEAN : WorkerAnswers(files, unk)
  BY <1>7 DEF WorkerAnswers, LastSig, Categories
<1>8. CASE VerifyPasses
  BY <1>8 DEF VerifyPasses, LastSig, Categories
<1>9. CASE \E sig \in Signatures, records \in (SUBSET RecordKeys) \ {{}} : VerifyFails(sig, records)
  <2>1. PICK sig \in Signatures, records \in (SUBSET RecordKeys) \ {{}} : VerifyFails(sig, records)
    BY <1>9
  <2>2. history' # <<>> /\ LastSig' # ReviewSig
    <3>1. sig \in AllSignatures /\ strategy \in Strategies /\ sig # ReviewSig
      BY <2>1, ExecutorAssumption DEF AllSignatures, RetryTypes
    <3>2. history' = RecordAttempt(history, strategy, sig)
      BY <2>1 DEF VerifyFails
    <3> QED
      BY <3>1, <3>2, RowAdded
  <2>3. pc' \in {"classify", "escalating", "done"} /\ directive' = "none"
    BY <2>1 DEF VerifyFails
  <2> QED
    BY <2>2, <2>3
<1>10. CASE RetryRefused
  BY <1>10 DEF RetryRefused
<1>11. CASE \E environment \in BOOLEAN : RetryGranted(environment)
  BY <1>11 DEF RetryGranted, LastSig, Categories
<1>12. CASE \E category \in Categories : EscalationStops(category)
  BY <1>12 DEF EscalationStops
<1>13. CASE \E category \in Categories : EscalationContinues(category)
  <2>1. PICK category \in Categories : EscalationContinues(category)
    BY <1>13
  <2>2. /\ pc' \in {"attempt", "advise"} /\ strategy' = "escalate" /\ history' = history
        /\ directive' = DirectiveOf(category)
    BY <2>1 DEF EscalationContinues
  <2>3. pc' = "advise" => category = "STRONG_REVIEW"
    BY <2>1 DEF EscalationContinues
  <2>4. directive' # "review_fix" /\ (pc' = "advise" => directive' \in Categories)
    BY <2>2, <2>3 DEF DirectiveOf, Categories
  <2>5. history # <<>> /\ LastSig # ReviewSig
    BY <2>1 DEF EscalationContinues
  <2>6. history' # <<>> /\ LastSig' # ReviewSig
    BY <2>2, <2>5 DEF LastSig
  <2> QED
    BY <2>2, <2>4, <2>6
<1>14. CASE ReviewSkipped
  BY <1>14 DEF ReviewSkipped
<1>15. CASE ReviewPasses
  BY <1>15 DEF ReviewPasses
<1>16. CASE AdviceStarts
  BY <1>16 DEF AdviceStarts, LastSig, Categories
<1>17. CASE NoAdviser
  BY <1>17 DEF NoAdviser, LastSig, Categories
<1>18. CASE \E l \in Levels : ReviewStarts(l)
  BY <1>18 DEF ReviewStarts, LastSig, Categories
<1>19. CASE \E l \in Levels : NoReviewer(l)
  <2>1. PICK l \in Levels : NoReviewer(l)
    BY <1>19
  <2>2. CASE pc' = "done"
    BY <2>2
  <2>3. CASE pc' # "done"
    <3>1. /\ pc' = "attempt" /\ directive' = "review_fix"
          /\ history' = RecordAttempt(history, "reassess", ReviewSig)
      BY <2>1, <2>3 DEF NoReviewer, ReviewNotPassed
    <3>2. history' # <<>> /\ LastSig' = ReviewSig
      <4>1. "reassess" \in Strategies /\ ReviewSig \in AllSignatures
        BY DEF Strategies, AllSignatures
      <4> QED
        BY <3>1, <4>1, RowAdded
    <3>3. "review_fix" \notin Categories
      BY DEF Categories
    <3> QED
      BY <3>1, <3>2, <3>3
  <2> QED
    BY <2>2, <2>3
<1>20. CASE \E kind \in FailureKinds \union {"none"} : ReviewFails(kind)
  <2>1. PICK kind \in FailureKinds \union {"none"} : ReviewFails(kind)
    BY <1>20
  <2>2. CASE pc' = "done"
    BY <2>2
  <2>3. CASE pc' # "done"
    <3>1. /\ pc' = "attempt" /\ directive' = "review_fix"
          /\ history' = RecordAttempt(history, "reassess", ReviewSig)
      BY <2>1, <2>3 DEF ReviewFails, ReviewNotPassed
    <3>2. history' # <<>> /\ LastSig' = ReviewSig
      <4>1. "reassess" \in Strategies /\ ReviewSig \in AllSignatures
        BY DEF Strategies, AllSignatures
      <4> QED
        BY <3>1, <4>1, RowAdded
    <3>3. "review_fix" \notin Categories
      BY DEF Categories
    <3> QED
      BY <3>1, <3>2, <3>3
  <2> QED
    BY <2>2, <2>3
<1>21. CASE \E kind \in FailureKinds \union {"none"} : AdviceEnds(kind)
  BY <1>21 DEF AdviceEnds, LastSig, Categories
<1>22. CASE NextTurn
  BY <1>22 DEF NextTurn, LastSig, Categories
<1>23. CASE CoolDown
  BY <1>23 DEF CoolDown, LastSig, Categories
<1>24. CASE UNCHANGED vars
  BY <1>24 DEF vars, LastSig
<1> QED
  BY <1>1, <1>2, <1>3, <1>4, <1>5, <1>6, <1>7, <1>8, <1>9, <1>10, <1>11, <1>12, <1>13, <1>14, <1>15, <1>16, <1>17, <1>18, <1>19, <1>20, <1>21, <1>22, <1>23, <1>24
     DEF Next, Step, Attempt, Judge, Review

\* A sensitive change after a failed attempt leaves one review level.
LEMMA SensitiveFloor ==
  ASSUME owned \intersect Sensitive # {}, history # <<>>
  PROVE  PossibleLevels \subseteq {"STRONG_REVIEW"}
<1>1. ReviewFloor = "STRONG_REVIEW"
  BY DEF ReviewFloor
<1>2. owned # {}
  OBVIOUS
<1>3. \A l \in Levels : HigherLevel("STRONG_REVIEW", l) = "STRONG_REVIEW"
  BY DEF HigherLevel, Rank, Levels
<1>4. "QUICK_REVIEW" \in Levels
  BY DEF Levels
<1> QED
  BY <1>1, <1>2, <1>3, <1>4 DEF PossibleLevels

\* The level under review is one the floor allows.
LevelInv == LevelInForce /\ SensitiveRetryStronglyReviewed

\* The floor is in force from the moment the review starts to the end of the turn.
LEMMA StepLevel == Types /\ LevelInv /\ [Next]_vars => LevelInv'
<1> SUFFICES ASSUME Types, LevelInv, [Next]_vars
             PROVE  LevelInv'
  OBVIOUS
<1> USE DEF Types, LevelInv, LevelInForce, SensitiveRetryStronglyReviewed, TypeOK, PlaceOK, Goto, Finish, turnVars, budgetVars, retryVars, routeVars, sendVars, changeVars
<1>1. CASE Start
  BY <1>1 DEF Start
<1>2. CASE BudgetSpent
  BY <1>2 DEF BudgetSpent
<1>3. CASE BeginAttempt
  BY <1>3 DEF BeginAttempt
<1>4. CASE Dispatch
  BY <1>4 DEF Dispatch
<1>5. CASE ChainExhausted
  BY <1>5 DEF ChainExhausted
<1>6. CASE \E kind \in FailureKinds : WorkerFails(kind)
  BY <1>6 DEF WorkerFails
<1>7. CASE \E files \in SUBSET Files, unk \in BOOLEAN : WorkerAnswers(files, unk)
  BY <1>7 DEF WorkerAnswers
<1>8. CASE VerifyPasses
  BY <1>8 DEF VerifyPasses
<1>9. CASE \E sig \in Signatures, records \in (SUBSET RecordKeys) \ {{}} : VerifyFails(sig, records)
  BY <1>9 DEF VerifyFails
<1>10. CASE RetryRefused
  BY <1>10 DEF RetryRefused
<1>11. CASE \E environment \in BOOLEAN : RetryGranted(environment)
  BY <1>11 DEF RetryGranted
<1>12. CASE \E category \in Categories : EscalationStops(category)
  BY <1>12 DEF EscalationStops
<1>13. CASE \E category \in Categories : EscalationContinues(category)
  BY <1>13 DEF EscalationContinues
<1>14. CASE ReviewSkipped
  <2>1. /\ ending' = "completed" /\ pc' = "done"
        /\ owned' = owned /\ history' = history
        /\ "NO_SEMANTIC_REVIEW" \in PossibleLevels
    BY <1>14 DEF ReviewSkipped
  <2> QED
    BY <2>1, SensitiveFloor
<1>15. CASE ReviewPasses
  <2>1. /\ ending' = "completed" /\ pc' = "done" /\ level' = level
        /\ owned' = owned /\ history' = history
    BY <1>15 DEF ReviewPasses
  <2>2. level \in PossibleLevels
    BY <1>15 DEF ReviewPasses
  <2> QED
    BY <2>1, <2>2, SensitiveFloor
<1>16. CASE AdviceStarts
  BY <1>16 DEF AdviceStarts
<1>17. CASE NoAdviser
  BY <1>17 DEF NoAdviser
<1>18. CASE \E l \in Levels : ReviewStarts(l)
  <2>1. PICK l \in Levels : ReviewStarts(l)
    BY <1>18
  <2>2. /\ pc' = "reviewing" /\ ending' = "running"
        /\ level' \in PossibleLevels
        /\ UNCHANGED <<contract, owned, unknown, history>>
    BY <2>1 DEF ReviewStarts
  <2>3. PossibleLevels' = PossibleLevels
    BY <2>2 DEF PossibleLevels, ReviewFloor
  <2> QED
    BY <2>2, <2>3
<1>19. CASE \E l \in Levels : NoReviewer(l)
  BY <1>19 DEF NoReviewer, ReviewNotPassed
<1>20. CASE \E kind \in FailureKinds \union {"none"} : ReviewFails(kind)
  BY <1>20 DEF ReviewFails, ReviewNotPassed
<1>21. CASE \E kind \in FailureKinds \union {"none"} : AdviceEnds(kind)
  BY <1>21 DEF AdviceEnds
<1>22. CASE NextTurn
  BY <1>22 DEF NextTurn
<1>23. CASE CoolDown
  <2>1. UNCHANGED <<contract, owned, unknown, history, level, pc, ending>>
    BY <1>23 DEF CoolDown
  <2>2. PossibleLevels' = PossibleLevels
    BY <2>1 DEF PossibleLevels, ReviewFloor
  <2> QED
    BY <2>1, <2>2
<1>24. CASE UNCHANGED vars
  <2>1. UNCHANGED <<contract, owned, unknown, history, level, pc, ending>>
    BY <1>24 DEF vars
  <2>2. PossibleLevels' = PossibleLevels
    BY <2>1 DEF PossibleLevels, ReviewFloor
  <2> QED
    BY <2>1, <2>2
<1> QED
  BY <1>1, <1>2, <1>3, <1>4, <1>5, <1>6, <1>7, <1>8, <1>9, <1>10, <1>11, <1>12, <1>13, <1>14, <1>15, <1>16, <1>17, <1>18, <1>19, <1>20, <1>21, <1>22, <1>23, <1>24
     DEF Next, Step, Attempt, Judge, Review

\* A change calls for a review if the contract names a reviewer or no site
\* answers.
LEMMA ChangedFloor ==
  ASSUME TypeOK, unknown \/ owned # {}, contract.reviewer # "none" \/ ~contract.jev
  PROVE  "NO_SEMANTIC_REVIEW" \notin PossibleLevels
<1>1. contract.reviewer \in ReviewerClasses /\ contract.jev \in BOOLEAN
  BY ExecutorAssumption DEF ExecutorAssumption, TypeOK, TurnTypes, Contract
<1>2. \A f \in {"QUICK_REVIEW", "STRONG_REVIEW"}, l \in Levels : HigherLevel(f, l) # "NO_SEMANTIC_REVIEW"
  BY DEF HigherLevel, Rank, Levels
<1>3. \A f \in Levels : HigherLevel(f, "QUICK_REVIEW") # "NO_SEMANTIC_REVIEW"
  BY DEF HigherLevel, Rank, Levels
<1>4. ReviewFloor \in Levels
  BY DEF ReviewFloor, Levels
<1>5. CASE contract.reviewer # "none"
  <2>1. ReviewFloor \in {"QUICK_REVIEW", "STRONG_REVIEW"}
    BY <1>1, <1>5 DEF ReviewFloor, ReviewerClasses
  <2>2. (IF contract.jev THEN Levels ELSE {"QUICK_REVIEW"}) \subseteq Levels
    BY DEF Levels
  <2> QED
    BY <1>2, <2>1, <2>2 DEF PossibleLevels
<1>6. CASE ~contract.jev
  BY <1>3, <1>4, <1>6 DEF PossibleLevels
<1> QED
  BY <1>5, <1>6

\* An edit of any attempt stays in the change set the floor is asked about.
EditsRemembered == edited => unknown \/ owned # {}

EditsInv == LevelInForce /\ EditsRemembered /\ NoOpRetryStillReviewed

\* Only a worker's answer adds an edit, and only two steps complete a turn.
LEMMA StepEdits == Types /\ LevelInv /\ EditsInv /\ [Next]_vars => EditsInv'
<1> SUFFICES ASSUME Types, LevelInv, EditsInv, [Next]_vars
             PROVE  EditsRemembered' /\ NoOpRetryStillReviewed'
  BY StepLevel DEF EditsInv, LevelInv
<1> USE DEF Types, EditsInv, EditsRemembered, NoOpRetryStillReviewed, PlaceOK, Goto, Finish, turnVars, changeVars
<1> TypeOK
  OBVIOUS
<1>1. CASE Start
  BY <1>1 DEF Start
<1>2. CASE BudgetSpent
  BY <1>2 DEF BudgetSpent
<1>3. CASE BeginAttempt
  BY <1>3 DEF BeginAttempt
<1>4. CASE Dispatch
  BY <1>4 DEF Dispatch
<1>5. CASE ChainExhausted
  BY <1>5 DEF ChainExhausted
<1>6. CASE \E kind \in FailureKinds : WorkerFails(kind)
  BY <1>6 DEF WorkerFails
<1>7. CASE \E files \in SUBSET Files, unk \in BOOLEAN : WorkerAnswers(files, unk)
  BY <1>7 DEF WorkerAnswers, TaskOwned
<1>8. CASE VerifyPasses
  BY <1>8 DEF VerifyPasses
<1>9. CASE \E sig \in Signatures, records \in (SUBSET RecordKeys) \ {{}} : VerifyFails(sig, records)
  BY <1>9 DEF VerifyFails
<1>10. CASE RetryRefused
  BY <1>10 DEF RetryRefused
<1>11. CASE \E environment \in BOOLEAN : RetryGranted(environment)
  BY <1>11 DEF RetryGranted
<1>12. CASE \E category \in Categories : EscalationStops(category)
  BY <1>12 DEF EscalationStops
<1>13. CASE \E category \in Categories : EscalationContinues(category)
  BY <1>13 DEF EscalationContinues
<1>14. CASE ReviewSkipped
  <2>1. UNCHANGED <<owned, unknown, edited, contract>> /\ "NO_SEMANTIC_REVIEW" \in PossibleLevels
    BY <1>14 DEF ReviewSkipped
  <2> QED
    BY <2>1, ChangedFloor
<1>15. CASE ReviewPasses
  <2>1. UNCHANGED <<owned, unknown, edited, contract, level>> /\ level \in PossibleLevels
    BY <1>15 DEF ReviewPasses, LevelInForce
  <2> QED
    BY <2>1, ChangedFloor
<1>16. CASE AdviceStarts
  BY <1>16 DEF AdviceStarts
<1>17. CASE NoAdviser
  BY <1>17 DEF NoAdviser
<1>18. CASE \E l \in Levels : ReviewStarts(l)
  BY <1>18 DEF ReviewStarts
<1>19. CASE \E l \in Levels : NoReviewer(l)
  BY <1>19 DEF NoReviewer, ReviewNotPassed
<1>20. CASE \E kind \in FailureKinds \union {"none"} : ReviewFails(kind)
  BY <1>20 DEF ReviewFails, ReviewNotPassed
<1>21. CASE \E kind \in FailureKinds \union {"none"} : AdviceEnds(kind)
  BY <1>21 DEF AdviceEnds
<1>22. CASE NextTurn
  BY <1>22 DEF NextTurn
<1>23. CASE CoolDown
  BY <1>23 DEF CoolDown
<1>24. CASE UNCHANGED vars
  BY <1>24 DEF vars
<1> QED
  BY <1>1, <1>2, <1>3, <1>4, <1>5, <1>6, <1>7, <1>8, <1>9, <1>10, <1>11, <1>12, <1>13, <1>14, <1>15, <1>16, <1>17, <1>18, <1>19, <1>20, <1>21, <1>22, <1>23, <1>24
     DEF Next, Step, Attempt, Judge, Review

\* No step of a turn takes back what it learned.
LEMMA StepLearns == Types /\ [Next]_vars /\ pc # "done" => Learned
<1> SUFFICES ASSUME Types, [Next]_vars, pc # "done"
             PROVE  Learned
  OBVIOUS
<1> USE DEF Types, Learned, TypeOK, PlaceOK, Goto, Finish, turnVars, budgetVars, retryVars, routeVars, sendVars, changeVars
<1>1. CASE Start
  BY <1>1 DEF Start
<1>2. CASE BudgetSpent
  BY <1>2 DEF BudgetSpent
<1>3. CASE BeginAttempt
  BY <1>3 DEF BeginAttempt
<1>4. CASE Dispatch
  BY <1>4 DEF Dispatch
<1>5. CASE ChainExhausted
  <2>1. /\ WorkerSig \in AllSignatures /\ strategy \in Strategies
        /\ history \in Seq(HistoryRows(AllSignatures))
    BY DEF AllSignatures, RetryTypes
  <2>2. history' = RecordAttempt(history, strategy, WorkerSig)
    BY <1>5 DEF ChainExhausted
  <2>3. \A i \in DOMAIN history : i \in DOMAIN history' /\ history'[i] = history[i]
    BY <2>1, <2>2, RecordAttemptType
  <2> QED
    BY <1>5, <2>3 DEF ChainExhausted
<1>6. CASE \E kind \in FailureKinds : WorkerFails(kind)
  BY <1>6 DEF WorkerFails
<1>7. CASE \E files \in SUBSET Files, unk \in BOOLEAN : WorkerAnswers(files, unk)
  <2>1. PICK files \in SUBSET Files, unk \in BOOLEAN : WorkerAnswers(files, unk)
    BY <1>7
  <2>2. UNCHANGED <<excluded, seen, history, held>>
    BY <2>1 DEF WorkerAnswers
  <2>3. owned \subseteq owned'
    BY <2>1 DEF WorkerAnswers, TaskOwned
  <2>4. unknown => unknown'
    BY <2>1, Zenon DEF WorkerAnswers
  <2> QED
    BY <2>2, <2>3, <2>4
<1>8. CASE VerifyPasses
  BY <1>8 DEF VerifyPasses
<1>9. CASE \E sig \in Signatures, records \in (SUBSET RecordKeys) \ {{}} : VerifyFails(sig, records)
  <2>1. PICK sig \in Signatures, records \in (SUBSET RecordKeys) \ {{}} : VerifyFails(sig, records)
    BY <1>9
  <2>2. /\ sig \in AllSignatures /\ strategy \in Strategies
        /\ history \in Seq(HistoryRows(AllSignatures))
    BY <2>1 DEF AllSignatures, RetryTypes
  <2>3. history' = RecordAttempt(history, strategy, sig)
    BY <2>1 DEF VerifyFails
  <2>4. \A i \in DOMAIN history : i \in DOMAIN history' /\ history'[i] = history[i]
    BY <2>2, <2>3, RecordAttemptType
  <2> QED
    BY <2>1, <2>4 DEF VerifyFails
<1>10. CASE RetryRefused
  BY <1>10 DEF RetryRefused
<1>11. CASE \E environment \in BOOLEAN : RetryGranted(environment)
  <2>1. PICK environment \in BOOLEAN : RetryGranted(environment)
    BY <1>11
  <2>2. UNCHANGED <<owned, unknown, seen, history>>
    BY <2>1 DEF RetryGranted
  <2>3. excluded \subseteq excluded'
    BY <2>1 DEF RetryGranted
  <2>4. ~held => ~held'
    <3>1. CASE environment
      BY <2>1, <3>1, Zenon DEF RetryGranted, RouteSurvives
    <3>2. CASE ~environment
      BY <2>1, <3>2 DEF RetryGranted
    <3> QED
      BY <3>1, <3>2
  <2> QED
    BY <2>2, <2>3, <2>4
<1>12. CASE \E category \in Categories : EscalationStops(category)
  BY <1>12 DEF EscalationStops
<1>13. CASE \E category \in Categories : EscalationContinues(category)
  BY <1>13 DEF EscalationContinues
<1>14. CASE ReviewSkipped
  BY <1>14 DEF ReviewSkipped
<1>15. CASE ReviewPasses
  BY <1>15 DEF ReviewPasses
<1>16. CASE AdviceStarts
  BY <1>16 DEF AdviceStarts
<1>17. CASE NoAdviser
  BY <1>17 DEF NoAdviser
<1>18. CASE \E l \in Levels : ReviewStarts(l)
  BY <1>18 DEF ReviewStarts
<1>19. CASE \E l \in Levels : NoReviewer(l)
  <2>1. PICK l \in Levels : NoReviewer(l)
    BY <1>19
  <2>2. /\ ReviewSig \in AllSignatures /\ "reassess" \in Strategies
        /\ history \in Seq(HistoryRows(AllSignatures))
    BY DEF AllSignatures, RetryTypes, Strategies
  <2>3. \/ history' = history
        \/ history' = RecordAttempt(history, "reassess", ReviewSig)
    BY <2>1 DEF NoReviewer, ReviewNotPassed
  <2>4. \A i \in DOMAIN history : i \in DOMAIN history' /\ history'[i] = history[i]
    BY <2>2, <2>3, RecordAttemptType
  <2> QED
    BY <2>1, <2>4 DEF NoReviewer, ReviewNotPassed
<1>20. CASE \E kind \in FailureKinds \union {"none"} : ReviewFails(kind)
  <2>1. PICK kind \in FailureKinds \union {"none"} : ReviewFails(kind)
    BY <1>20
  <2>2. /\ ReviewSig \in AllSignatures /\ "reassess" \in Strategies
        /\ history \in Seq(HistoryRows(AllSignatures))
    BY DEF AllSignatures, RetryTypes, Strategies
  <2>3. \/ history' = history
        \/ history' = RecordAttempt(history, "reassess", ReviewSig)
    BY <2>1 DEF ReviewFails, ReviewNotPassed
  <2>4. \A i \in DOMAIN history : i \in DOMAIN history' /\ history'[i] = history[i]
    BY <2>2, <2>3, RecordAttemptType
  <2> QED
    BY <2>1, <2>4 DEF ReviewFails, ReviewNotPassed
<1>21. CASE \E kind \in FailureKinds \union {"none"} : AdviceEnds(kind)
  BY <1>21 DEF AdviceEnds
<1>22. CASE NextTurn
  BY <1>22 DEF NextTurn
<1>23. CASE CoolDown
  BY <1>23 DEF CoolDown
<1>24. CASE UNCHANGED vars
  BY <1>24 DEF vars
<1> QED
  BY <1>1, <1>2, <1>3, <1>4, <1>5, <1>6, <1>7, <1>8, <1>9, <1>10, <1>11, <1>12, <1>13, <1>14, <1>15, <1>16, <1>17, <1>18, <1>19, <1>20, <1>21, <1>22, <1>23, <1>24
     DEF Next, Step, Attempt, Judge, Review

\* The promise of module BoundedTurn, step by step.
LEMMA InitPromise == Init => Promise!Init
  BY DEF Init, Promise!Init, Status, InAttempt, BetweenAttempts

\* Every step of the lane is a step of the promise or leaves it where it was.
LEMMA StepPromise == Types /\ [Next]_vars => [Promise!Next]_(Promise!vars)
<1> SUFFICES ASSUME Types, [Next]_vars
             PROVE  [Promise!Next]_(Promise!vars)
  OBVIOUS
<1> USE DEF Types, Status, InAttempt, BetweenAttempts, Promise!Next, Promise!vars, Promise!Work, Promise!Try, Promise!Verify, Promise!Fail, Promise!Complete, Promise!Block, Promise!Move, Promise!NextPrompt, Promise!Terminal, TypeOK, PlaceOK, Goto, Finish, turnVars, budgetVars, retryVars, routeVars, sendVars, changeVars
<1>1. CASE Start
  BY <1>1 DEF Start
<1>2. CASE BudgetSpent
  BY <1>2 DEF BudgetSpent
<1>3. CASE BeginAttempt
  BY <1>3, ExecutorAssumption DEF BeginAttempt, BudgetUsedUp, BudgetTypes, TurnTypes, Contract
<1>4. CASE Dispatch
  BY <1>4 DEF Dispatch
<1>5. CASE ChainExhausted
  BY <1>5 DEF ChainExhausted
<1>6. CASE \E kind \in FailureKinds : WorkerFails(kind)
  BY <1>6 DEF WorkerFails
<1>7. CASE \E files \in SUBSET Files, unk \in BOOLEAN : WorkerAnswers(files, unk)
  BY <1>7 DEF WorkerAnswers
<1>8. CASE VerifyPasses
  BY <1>8 DEF VerifyPasses
<1>9. CASE \E sig \in Signatures, records \in (SUBSET RecordKeys) \ {{}} : VerifyFails(sig, records)
  <2>1. PICK sig \in Signatures, records \in (SUBSET RecordKeys) \ {{}} : VerifyFails(sig, records)
    BY <1>9
  <2>2. /\ UNCHANGED <<attemptsUsed, contract>> /\ pc = "verify"
        /\ \/ pc' \in {"classify", "escalating"} /\ ending' = "running"
           \/ pc' = "done" /\ ending' = "rejected"
    BY <2>1 DEF VerifyFails
  <2> QED
    BY <2>2
<1>10. CASE RetryRefused
  BY <1>10 DEF RetryRefused
<1>11. CASE \E environment \in BOOLEAN : RetryGranted(environment)
  BY <1>11 DEF RetryGranted
<1>12. CASE \E category \in Categories : EscalationStops(category)
  BY <1>12 DEF EscalationStops
<1>13. CASE \E category \in Categories : EscalationContinues(category)
  BY <1>13 DEF EscalationContinues
<1>14. CASE ReviewSkipped
  BY <1>14 DEF ReviewSkipped
<1>15. CASE ReviewPasses
  BY <1>15 DEF ReviewPasses
<1>16. CASE AdviceStarts
  BY <1>16 DEF AdviceStarts
<1>17. CASE NoAdviser
  BY <1>17 DEF NoAdviser
<1>18. CASE \E l \in Levels : ReviewStarts(l)
  BY <1>18 DEF ReviewStarts
<1>19. CASE \E l \in Levels : NoReviewer(l)
  <2>1. PICK l \in Levels : NoReviewer(l)
    BY <1>19
  <2>2. /\ UNCHANGED <<attemptsUsed, contract>>
        /\ (pc' = "attempt" /\ ending' = "running") \/ (pc' = "done" /\ ending' = "review")
    BY <2>1 DEF NoReviewer, ReviewNotPassed
  <2>3. pc \in {"gate", "reviewing"}
    BY <2>1 DEF NoReviewer
  <2> QED
    BY <2>2, <2>3
<1>20. CASE \E kind \in FailureKinds \union {"none"} : ReviewFails(kind)
  <2>1. PICK kind \in FailureKinds \union {"none"} : ReviewFails(kind)
    BY <1>20
  <2>2. /\ UNCHANGED <<attemptsUsed, contract>>
        /\ (pc' = "attempt" /\ ending' = "running") \/ (pc' = "done" /\ ending' = "review")
    BY <2>1 DEF ReviewFails, ReviewNotPassed
  <2>3. pc \in {"gate", "reviewing"}
    BY <2>1 DEF ReviewFails
  <2> QED
    BY <2>2, <2>3
<1>21. CASE \E kind \in FailureKinds \union {"none"} : AdviceEnds(kind)
  BY <1>21 DEF AdviceEnds
<1>22. CASE NextTurn
  BY <1>22 DEF NextTurn
<1>23. CASE CoolDown
  BY <1>23 DEF CoolDown
<1>24. CASE UNCHANGED vars
  BY <1>24 DEF vars
<1> QED
  BY <1>1, <1>2, <1>3, <1>4, <1>5, <1>6, <1>7, <1>8, <1>9, <1>10, <1>11, <1>12, <1>13, <1>14, <1>15, <1>16, <1>17, <1>18, <1>19, <1>20, <1>21, <1>22, <1>23, <1>24
     DEF Next, Step, Attempt, Judge, Review

\* The ceilings of the contract hold in every run: no answer of a model, a
\* reviewer or a decision site buys an attempt, an escalation or a review round.
THEOREM BudgetsAreHeld == Spec => []BudgetsHeld
<1>1. Init => Types /\ Budgets
  BY InitTypes, ExecutorAssumption
  DEF Init, Budgets, BudgetsHeld, RoundsLeft, Contract
<1>2. Types /\ Budgets /\ [Next]_vars => Types' /\ Budgets'
  BY StepTypes, StepBudgets
<1>3. Budgets => BudgetsHeld
  BY DEF Budgets
<1> QED
  BY <1>1, <1>2, <1>3, PTL DEF Spec

\* The history has one row per failed attempt in every run.
THEOREM AttemptsAreAccounted == Spec => []AttemptAccounting
<1>1. Init => Types /\ AttemptAccounting
  BY InitTypes DEF Init, AttemptAccounting, InAttempt, BetweenAttempts
<1>2. Types /\ AttemptAccounting /\ [Next]_vars => Types' /\ AttemptAccounting'
  BY StepTypes, StepAccounting
<1> QED
  BY <1>1, <1>2, PTL DEF Spec

\* A held route is never a burned one and nobody else works while it is held.
THEOREM RouteIsDisciplined == Spec => []RouteDiscipline
<1>1. Init => Types /\ RouteInv
  BY InitTypes DEF Init, RouteInv, RouteDiscipline, BurnedStaysOut, RouteAtStart
<1>2. Types /\ RouteInv /\ [Next]_vars => Types' /\ RouteInv'
  BY StepTypes, StepRoute
<1>3. RouteInv => RouteDiscipline
  BY DEF RouteInv
<1> QED
  BY <1>1, <1>2, <1>3, PTL DEF Spec

\* A burned backend never works again in its turn.
THEOREM BurnedStaysOutAlways == Spec => []BurnedStaysOut
<1>1. Init => Types /\ RouteInv
  BY InitTypes DEF Init, RouteInv, RouteDiscipline, BurnedStaysOut, RouteAtStart
<1>2. Types /\ RouteInv /\ [Next]_vars => Types' /\ RouteInv'
  BY StepTypes, StepRoute
<1>3. RouteInv => BurnedStaysOut
  BY DEF RouteInv
<1> QED
  BY <1>1, <1>2, <1>3, PTL DEF Spec

\* A directive reaches exactly the attempt it was planned for.
THEOREM DirectivesAreSpent == Spec => []DirectiveForOneAttempt
<1>1. Init => Types /\ DirectiveInv
  BY InitTypes DEF Init, DirectiveInv, DirectiveForOneAttempt, DirectivePlanned, InAttempt
<1>2. Types /\ DirectiveInv /\ [Next]_vars => Types' /\ DirectiveInv'
  BY StepTypes, StepDirective
<1>3. DirectiveInv => DirectiveForOneAttempt
  BY DEF DirectiveInv
<1> QED
  BY <1>1, <1>2, <1>3, PTL DEF Spec

\* A sensitive change that failed an attempt completes only strongly reviewed.
THEOREM SensitiveRetriesAreReviewed == Spec => []SensitiveRetryStronglyReviewed
<1>1. Init => Types /\ LevelInv
  BY InitTypes DEF Init, LevelInv, LevelInForce, SensitiveRetryStronglyReviewed
<1>2. Types /\ LevelInv /\ [Next]_vars => Types' /\ LevelInv'
  BY StepTypes, StepLevel
<1>3. LevelInv => SensitiveRetryStronglyReviewed
  BY DEF LevelInv
<1> QED
  BY <1>1, <1>2, <1>3, PTL DEF Spec

\* Whatever a retry leaves unedited, what an earlier attempt edited is reviewed
\* where the contract names a reviewer or no site answers (review/gate.ts: the
\* floor is of the turn's whole change set).
THEOREM EditsAreReviewed == Spec => []NoOpRetryStillReviewed
<1>1. Init => Types /\ LevelInv /\ EditsInv
  BY InitTypes DEF Init, LevelInv, LevelInForce, SensitiveRetryStronglyReviewed, EditsInv, EditsRemembered, NoOpRetryStillReviewed
<1>2. Types /\ LevelInv /\ EditsInv /\ [Next]_vars => Types' /\ LevelInv' /\ EditsInv'
  BY StepTypes, StepLevel, StepEdits
<1>3. EditsInv => NoOpRetryStillReviewed
  BY DEF EditsInv
<1> QED
  BY <1>1, <1>2, <1>3, PTL DEF Spec

\* Within a turn the change set, the burned backends, the evidence and the
\* failure history only grow, and a route given up is not taken again.
THEOREM NothingIsForgotten == Spec => NothingForgotten
<1>1. Init => Types
  BY InitTypes
<1>2. Types /\ [Next]_vars => Types'
  BY StepTypes
<1>3. Types /\ [Next]_vars => [pc # "done" => Learned]_vars
  BY StepLearns
<1> QED
  BY <1>1, <1>2, <1>3, PTL DEF Spec, NothingForgotten

\* The lane implements the safety part of BoundedTurn: an attempt is paid for
\* before it runs, within the limit, and completion comes from a verified one.
THEOREM LaneKeepsPromise == Spec => Promise!Init /\ [][Promise!Next]_(Promise!vars)
<1>1. Init => Types /\ Promise!Init
  BY InitTypes, InitPromise
<1>2. Types /\ [Next]_vars => Types'
  BY StepTypes
<1>3. Types /\ [Next]_vars => [Promise!Next]_(Promise!vars)
  BY StepPromise
<1> QED
  BY <1>1, <1>2, <1>3, PTL DEF Spec

\* The lane's books balance: types, budgets and history (lane.ts:358-616).
THEOREM BooksBalance == Spec => []LaneIsAccounted
BY TypeCorrect, BudgetsAreHeld, AttemptsAreAccounted, PTL DEF LaneIsAccounted

\* An attempt runs and is judged as it was planned (lane.ts:328-496).
THEOREM AttemptsAreAsPlanned == Spec => []AttemptIsAsPlanned
BY RouteIsDisciplined, BurnedStaysOutAlways, DirectivesAreSpent, SensitiveRetriesAreReviewed, PTL DEF AttemptIsAsPlanned

===========================================================================
