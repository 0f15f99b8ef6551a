------------------------------ MODULE Executor ------------------------------
(***************************************************************************)
(* The executor lane (src/executor/lane.ts): one turn spends a bounded     *)
(* number of attempts on a contract.  An attempt walks the backend chain   *)
(* until a worker answers, verifies the change, has it reviewed, and ends  *)
(* the turn or asks the retry policy for another attempt.  Turns follow    *)
(* one another in a session that keeps its backend pool.                   *)
(*                                                                         *)
(* Abstracted: a verification is its verdict, the signature of its failure *)
(* and the keys of the records it produced; a review is its level and      *)
(* verdict; a packet is what distinguishes it from another (role, routed   *)
(* identity, exclusions, directive).  The JEV sites answer anything their  *)
(* question allows when the turn has a client (contract.jev) and the       *)
(* deterministic fallback when it has none.                                *)
(***************************************************************************)
EXTENDS BackendPool, RetryPolicy

CONSTANTS
  Contracts,    \* the contracts a turn may be given
  Files,        \* the files a worker may report as changed
  Sensitive,    \* those the review floor treats as security-sensitive
  Signatures,   \* normalized failures of the verifiers
  RecordKeys,   \* identities of evidence records
  ModelRoles,   \* the roles the models: block names a backend for, in order
  SharesModel   \* backends that review with the model they execute with

\* The failures that are not a verifier's: an exhausted chain, a review.
WorkerSig == "worker"

ReviewSig == "review"

AllSignatures == Signatures \union {WorkerSig, ReviewSig}

ReviewerClasses == {"none", "review_quick", "review_strong"}

Contract ==
  [attempts : Nat, escalations : Nat, rounds : Nat, role : WorkerRoles,
   reviewer : ReviewerClasses, jev : BOOLEAN]

RoleList == Seq(WorkerRoles \union ReviewRoles)

ASSUME ExecutorAssumption ==
  /\ Contracts \subseteq Contract
  /\ Sensitive \subseteq Files
  /\ Signatures \intersect {WorkerSig, ReviewSig} = {}
  /\ BoundRoles \in [Backends -> RoleList]
  /\ ModelRoles \in [Backends -> RoleList]
  /\ SharesModel \subseteq Backends

VARIABLES
  contract,         \* the frozen contract of the turn
  pc,               \* where runExecutor is
  ending,           \* "running", "completed", or why the turn is blocked
  attemptsUsed, escalationsUsed, reviewRounds,
  history,          \* one row per failed attempt
  strategy,         \* the strategy of the attempt under way
  role,             \* the role the chain is asked for
  preferred,        \* the routed or pinned backend
  held,             \* its exclusions still hold every other backend out
  excluded,         \* backends this turn has burned
  tried,            \* the backends that failed in the current chain
  directive,        \* what the next attempt must do differently
  packet,           \* the packet of the latest attempt
  serving,          \* the backend whose answer is awaited
  lastBackend,      \* the backend that ran the latest attempt
  owned, unknown,   \* the cumulative change set, and whether it is unknown
  edited,           \* some attempt of the turn changed something (history)
  seen,             \* keys of the records the turn has produced
  level             \* the review level of the latest reviewed change

turnVars   == <<contract, pc, ending>>
budgetVars == <<attemptsUsed, escalationsUsed, reviewRounds>>
retryVars  == <<history, strategy, seen>>
routeVars  == <<role, preferred, held, excluded>>
sendVars   == <<tried, directive, packet, serving, lastBackend>>
changeVars == <<owned, unknown, edited, level>>

vars == <<turnVars, budgetVars, retryVars, routeVars, sendVars, changeVars, poolVars>>

Levels == {"NO_SEMANTIC_REVIEW", "QUICK_REVIEW", "STRONG_REVIEW"}

BlockReasons ==
  {"budget", "exhausted", "rejected", "useless", "review", "question",
   "assumed", "stopped"}

Endings == BlockReasons \union {"running", "completed"}

Places ==
  {"start", "attempt", "chain", "working", "verify", "gate", "reviewing",
   "classify", "escalating", "advise", "advising", "done"}

Directives == Categories \union {"none", "review_fix"}

Packets ==
  [role : WorkerRoles \union ReviewRoles, held : BOOLEAN,
   excluded : SUBSET Backends, directive : Directives]

TurnTypes ==
  /\ contract \in Contracts
  /\ pc \in Places
  /\ ending \in Endings

BudgetTypes ==
  attemptsUsed \in Nat /\ escalationsUsed \in Nat /\ reviewRounds \in Nat

RetryTypes ==
  /\ history \in Seq(HistoryRows(AllSignatures))
  /\ strategy \in Strategies
  /\ seen \in SUBSET RecordKeys

RouteTypes ==
  /\ role \in WorkerRoles \union ReviewRoles
  /\ preferred \in Backends \union {NoBackend}
  /\ held \in BOOLEAN
  /\ excluded \in SUBSET Backends

SendTypes ==
  /\ tried \in SUBSET Backends
  /\ directive \in Directives
  /\ packet \in Packets \union {<<>>}
  /\ serving \in Backends \union {NoBackend}
  /\ lastBackend \in Backends \union {NoBackend}

ChangeTypes ==
  /\ owned \in SUBSET Files
  /\ unknown \in BOOLEAN
  /\ edited \in BOOLEAN
  /\ level \in Levels

TypeOK ==
  /\ PoolTypeOK /\ TurnTypes /\ BudgetTypes /\ RetryTypes
  /\ RouteTypes /\ SendTypes /\ ChangeTypes
-----------------------------------------------------------------------------
\* What runExecutor sets up before the route is selected.
Init ==
  /\ PoolInit
  /\ \E c \in Contracts : contract = c /\ role = c.role
  /\ pc = "start" /\ ending = "running"
  /\ attemptsUsed = 0 /\ escalationsUsed = 0 /\ reviewRounds = 0
  /\ history = <<>> /\ strategy = "same" /\ seen = {}
  /\ preferred = NoBackend /\ held = FALSE /\ excluded = {}
  /\ tried = {} /\ directive = "none" /\ packet = <<>>
  /\ serving = NoBackend /\ lastBackend = NoBackend
  /\ owned = {} /\ unknown = FALSE /\ edited = FALSE
  /\ level = "NO_SEMANTIC_REVIEW"

\* The session's next prompt: everything but the pool starts over.
NextTurn ==
  /\ pc = "done"
  /\ \E c \in Contracts : contract' = c /\ role' = c.role
  /\ pc' = "start" /\ ending' = "running"
  /\ attemptsUsed' = 0 /\ escalationsUsed' = 0 /\ reviewRounds' = 0
  /\ history' = <<>> /\ strategy' = "same" /\ seen' = {}
  /\ preferred' = NoBackend /\ held' = FALSE /\ excluded' = {}
  /\ tried' = {} /\ directive' = "none" /\ packet' = <<>>
  /\ serving' = NoBackend /\ lastBackend' = NoBackend
  /\ owned' = {} /\ unknown' = FALSE /\ edited' = FALSE
  /\ level' = "NO_SEMANTIC_REVIEW"
  /\ UNCHANGED poolVars

Finish(why) == pc' = "done" /\ ending' = why /\ UNCHANGED contract

Goto(place) == pc' = place /\ UNCHANGED <<contract, ending>>

\* A list that does not name the role replaces it by its first role.
RoleOn(list, wanted) ==
  IF list = <<>> \/ wanted \in RolesOf(list) THEN wanted ELSE list[1]

\* The router (or a /model pin) names the backend of the turn and every other
\* one is held out of the chain; a capability gap names none.  A pin reads the
\* backend's own role list, a routed candidate the models: block.
Start ==
  /\ pc = "start"
  /\ \/ \E b \in Enabled : \E list \in {BoundRoles[b], ModelRoles[b]} :
          preferred' = b /\ held' = TRUE /\ role' = RoleOn(list, role)
     \/ UNCHANGED <<preferred, held, role>>
  /\ Goto("attempt")
  /\ UNCHANGED <<excluded, budgetVars, retryVars, sendVars, changeVars, poolVars>>

BudgetUsedUp == attemptsUsed >= contract.attempts

\* Mutant: a turn out of attempts is reported as completed.
BudgetSpentCompletes ==
  /\ pc = "attempt"
  /\ BudgetUsedUp
  /\ Finish("completed")
  /\ UNCHANGED <<budgetVars, retryVars, routeVars, sendVars, changeVars, poolVars>>

BudgetSpent ==
  /\ pc = "attempt"
  /\ BudgetUsedUp
  /\ Finish("budget")
  /\ UNCHANGED <<budgetVars, retryVars, routeVars, sendVars, changeVars, poolVars>>

\* Everything the held route is preferred over.
RouteExclusions == IF held THEN Backends \ {preferred} ELSE {}

ChainForgetsFailures == excluded \union RouteExclusions

\* What the current chain may not select.
ChainExcludes == excluded \union RouteExclusions \union tried

\* Mutant: the directive is sent and kept.
BeginAttemptKeepingDirective ==
  /\ pc = "attempt"
  /\ ~BudgetUsedUp
  /\ attemptsUsed' = attemptsUsed + 1
  /\ packet' = [role |-> role, held |-> held, excluded |-> excluded,
                directive |-> directive]
  /\ tried' = {}
  /\ Goto("chain")
  /\ UNCHANGED <<directive, escalationsUsed, reviewRounds, serving, lastBackend,
                 retryVars, routeVars, changeVars, poolVars>>

\* One attempt is paid for and its packet built; the directive is consumed.
BeginAttempt ==
  /\ pc = "attempt"
  /\ ~BudgetUsedUp
  /\ attemptsUsed' = attemptsUsed + 1
  /\ packet' = [role |-> role, held |-> held, excluded |-> excluded,
                directive |-> directive]
  /\ directive' = "none"
  /\ tried' = {}
  /\ Goto("chain")
  /\ UNCHANGED <<escalationsUsed, reviewRounds, serving, lastBackend,
                 retryVars, routeVars, changeVars, poolVars>>

\* runWorkerTurn: the first selectable backend of the role is invoked ...
Dispatch ==
  /\ pc = "chain"
  /\ \E b \in Backends : IsFirst(b, Selectable(role, ChainExcludes)) /\ serving' = b
  /\ Goto("working")
  /\ UNCHANGED <<tried, directive, packet, lastBackend, budgetVars, retryVars,
                 routeVars, changeVars, poolVars>>

\* ... a failure moves the chain on (a limit or a hang starts a cooldown) ...
WorkerFails(kind) ==
  /\ pc = "working"
  /\ MarkIfLimited(serving, kind)
  /\ tried' = tried \union {serving}
  /\ serving' = NoBackend
  /\ Goto("chain")
  /\ UNCHANGED <<directive, packet, lastBackend, budgetVars, retryVars,
                 routeVars, changeVars>>

\* ... and a chain with nobody left blocks the turn.
ChainExhausted ==
  /\ pc = "chain"
  /\ Selectable(role, ChainExcludes) = {}
  /\ history' = RecordAttempt(history, strategy, WorkerSig)
  /\ lastBackend' = NoBackend
  /\ Finish("exhausted")
  /\ UNCHANGED <<strategy, seen, tried, directive, packet, serving, budgetVars,
                 routeVars, changeVars, poolVars>>

\* Mutant: only the latest attempt's files are kept.
TaskOwnedLatest(files) == files

\* The cumulative change set after an attempt that changed files.
TaskOwned(files) == owned \union files

\* A worker answers; what it changed is added to what earlier attempts changed.
WorkerAnswers(files, unk) ==
  /\ pc = "working"
  /\ owned' = TaskOwned(files)
  /\ unknown' = (unknown \/ unk)
  /\ edited' = (edited \/ files # {} \/ unk)
  /\ lastBackend' = serving
  /\ serving' = NoBackend
  /\ Goto("verify")
  /\ UNCHANGED <<level, tried, directive, packet, budgetVars, retryVars,
                 routeVars, poolVars>>
-----------------------------------------------------------------------------
MayEscalate == escalationsUsed < contract.escalations

VerifyPasses ==
  /\ pc = "verify"
  /\ Goto("gate")
  /\ UNCHANGED <<budgetVars, retryVars, routeVars, sendVars, changeVars, poolVars>>

\* The policy decides on the attempts before this one, then this one is
\* recorded.  Evidence is new when the run produced a record not seen before.
VerifyFails(sig, records) ==
  /\ pc = "verify"
  /\ LET fresh  == ~(records \subseteq seen)
         answer == Decision(history, sig, fresh, BudgetUsedUp, MayEscalate)
     IN \/ answer = "reject" /\ Finish("rejected") /\ UNCHANGED escalationsUsed
        \/ answer = "retry" /\ Goto("classify") /\ UNCHANGED escalationsUsed
        \/ /\ answer = "escalate"
           /\ Goto("escalating")
           /\ escalationsUsed' = escalationsUsed + 1
  /\ seen' = seen \union records
  /\ history' = RecordAttempt(history, strategy, sig)
  /\ UNCHANGED <<attemptsUsed, reviewRounds, strategy, routeVars, sendVars,
                 changeVars, poolVars>>

\* The retry sites: usefulness can only end the turn, the failure category can
\* burn the backend.  Without a client every retry is useful.
RetryRefused ==
  /\ pc = "classify"
  /\ contract.jev
  /\ Finish("useless")
  /\ UNCHANGED <<budgetVars, retryVars, routeVars, sendVars, changeVars, poolVars>>

RouteTakenAgain(burned) == burned # preferred

\* abandonRoute when the burned backend is the routed one.
RouteSurvives(burned) == held /\ burned # preferred

RetryGranted(environment) ==
  /\ pc = "classify"
  /\ strategy' = "reassess"
  /\ IF environment
       THEN /\ excluded' = excluded \union {lastBackend}
            /\ held' = RouteSurvives(lastBackend)
       ELSE UNCHANGED <<excluded, held>>
  /\ Goto("attempt")
  /\ UNCHANGED <<history, seen, role, preferred, budgetVars, sendVars,
                 changeVars, poolVars>>

\* An escalation that ends the turn.  The clarification site answers "ask" only
\* when it is reachable; proceeding records an assumption and blocks as well.
EscalationStops(category) ==
  /\ pc = "escalating"
  /\ category \in PossibleCategories(history, contract.jev)
  /\ ~Continues(category)
  /\ \/ category = "USER_INPUT" /\ contract.jev /\ Finish("question")
     \/ category = "USER_INPUT" /\ Finish("assumed")
     \/ category = "STOP_BLOCKED" /\ Finish("stopped")
  /\ UNCHANGED <<budgetVars, retryVars, routeVars, sendVars, changeVars, poolVars>>

\* An escalation that continues leaves the route for the chain of its role.
EscalationContinues(category) ==
  /\ pc = "escalating"
  /\ category \in PossibleCategories(history, contract.jev)
  /\ Continues(category)
  /\ role' = NextRole(category, role)
  /\ excluded' = excluded \union BackendsBurned(category, lastBackend)
  /\ held' = FALSE
  /\ strategy' = "escalate"
  /\ directive' = DirectiveOf(category)
  /\ Goto(IF category = "STRONG_REVIEW" THEN "advise" ELSE "attempt")
  /\ UNCHANGED <<preferred, history, seen, tried, packet, serving, lastBackend,
                 budgetVars, changeVars, poolVars>>
-----------------------------------------------------------------------------
Rank(l) == CASE l = "NO_SEMANTIC_REVIEW" -> 0
             [] l = "QUICK_REVIEW"       -> 1
             [] l = "STRONG_REVIEW"      -> 2

HigherLevel(l, m) == IF Rank(l) >= Rank(m) THEN l ELSE m

\* reviewFloor: what the classifier may raise and never lower.
ReviewFloor ==
  LET sensitive == owned \intersect Sensitive # {} IN
  IF contract.reviewer = "review_strong" \/ (sensitive /\ history # <<>>)
    THEN "STRONG_REVIEW"
  ELSE IF contract.reviewer = "review_quick" \/ sensitive
    THEN "QUICK_REVIEW" ELSE "NO_SEMANTIC_REVIEW"

\* classifyReview: no change, no review; otherwise the site's answer or, when
\* it gives none, a quick review, neither below the floor.
PossibleLevels ==
  IF ~unknown /\ owned = {} THEN {"NO_SEMANTIC_REVIEW"}
  ELSE {HigherLevel(ReviewFloor, l) :
          l \in IF contract.jev THEN Levels ELSE {"QUICK_REVIEW"}}

ReviewerRole(l) ==
  IF l = "STRONG_REVIEW" THEN "review_strong" ELSE "review_quick"

\* selectReviewer: the first backend of the reviewer role whose model differs
\* from the executor's, else the first one.  No executor identity, no choice.
IsReviewer(b, reviewerRole, ran) ==
  LET candidates == Selectable(reviewerRole, {})
      others     == {c \in candidates : c # ran \/ c \notin SharesModel}
  IN IsFirst(b, IF ran # NoBackend /\ others # {} THEN others ELSE candidates)

ReviewSkipped ==
  /\ pc = "gate"
  /\ "NO_SEMANTIC_REVIEW" \in PossibleLevels
  /\ level' = "NO_SEMANTIC_REVIEW"
  /\ Finish("completed")
  /\ UNCHANGED <<owned, unknown, edited, budgetVars, retryVars, routeVars,
                 sendVars, poolVars>>

ReviewStarts(l) ==
  /\ pc = "gate"
  /\ l \in PossibleLevels \ {"NO_SEMANTIC_REVIEW"}
  /\ level' = l
  /\ \E b \in Backends :
       IsReviewer(b, ReviewerRole(l), lastBackend) /\ serving' = b
  /\ Goto("reviewing")
  /\ UNCHANGED <<owned, unknown, edited, tried, directive, packet, lastBackend,
                 budgetVars, retryVars, routeVars, poolVars>>

\* A verdict other than PASS: one of the contract's rounds, or the end.
ReviewNotPassed ==
  /\ reviewRounds' = reviewRounds + 1
  /\ IF reviewRounds' < contract.rounds /\ ~BudgetUsedUp
       THEN /\ history' = RecordAttempt(history, "reassess", ReviewSig)
            /\ directive' = "review_fix"
            /\ strategy' = "reassess"
            /\ Goto("attempt")
       ELSE /\ Finish("review")
            /\ UNCHANGED <<history, directive, strategy>>
  /\ UNCHANGED <<attemptsUsed, escalationsUsed, seen, tried, packet,
                 lastBackend, owned, unknown, edited, routeVars>>

\* No backend serves the reviewer role: an ESCALATE verdict, never a pass.
NoReviewer(l) ==
  /\ pc = "gate"
  /\ l \in PossibleLevels \ {"NO_SEMANTIC_REVIEW"}
  /\ Selectable(ReviewerRole(l), {}) = {}
  /\ level' = l
  /\ ReviewNotPassed
  /\ UNCHANGED <<serving, poolVars>>

ReviewPasses ==
  /\ pc = "reviewing"
  /\ serving' = NoBackend
  /\ Finish("completed")
  /\ UNCHANGED <<tried, directive, packet, lastBackend, budgetVars, retryVars,
                 routeVars, changeVars, poolVars>>

\* FIX_REQUIRED, ESCALATE, or a reviewer that failed: kind "none" is a verdict.
\* The review lane reports a vendor limit without telling the registry.
ReviewFails(kind) ==
  /\ pc = "reviewing"
  /\ serving' = NoBackend
  /\ SignalUnmarked(serving, kind)
  /\ ReviewNotPassed
  /\ UNCHANGED level

\* The STRONG_REVIEW escalation: the verdict only joins the next packet.
AdviceStarts ==
  /\ pc = "advise"
  /\ \E b \in Backends :
       IsReviewer(b, "review_strong", NoBackend) /\ serving' = b
  /\ Goto("advising")
  /\ UNCHANGED <<tried, directive, packet, lastBackend, budgetVars, retryVars,
                 routeVars, changeVars, poolVars>>

NoAdviser ==
  /\ pc = "advise"
  /\ Selectable("review_strong", {}) = {}
  /\ Goto("attempt")
  /\ UNCHANGED <<budgetVars, retryVars, routeVars, sendVars, changeVars, poolVars>>

AdviceEnds(kind) ==
  /\ pc = "advising"
  /\ serving' = NoBackend
  /\ SignalUnmarked(serving, kind)
  /\ Goto("attempt")
  /\ UNCHANGED <<tried, directive, packet, lastBackend, budgetVars, retryVars,
                 routeVars, changeVars>>
-----------------------------------------------------------------------------
Attempt ==
  \/ Start \/ BudgetSpent \/ BeginAttempt \/ Dispatch \/ ChainExhausted
  \/ \E kind \in FailureKinds : WorkerFails(kind)
  \/ \E files \in SUBSET Files, unk \in BOOLEAN : WorkerAnswers(files, unk)

Judge ==
  \/ VerifyPasses
  \/ \E sig \in Signatures, records \in (SUBSET RecordKeys) \ {{}} :
       VerifyFails(sig, records)
  \/ RetryRefused
  \/ \E environment \in BOOLEAN : RetryGranted(environment)
  \/ \E category \in Categories :
       EscalationStops(category) \/ EscalationContinues(category)

Review ==
  \/ ReviewSkipped \/ ReviewPasses \/ AdviceStarts \/ NoAdviser
  \/ \E l \in Levels : ReviewStarts(l) \/ NoReviewer(l)
  \/ \E kind \in FailureKinds \union {"none"} : ReviewFails(kind) \/ AdviceEnds(kind)

Step == Attempt \/ Judge \/ Review

CoolDown == /\ \E b \in Backends : CooldownExpires(b)
            /\ UNCHANGED <<turnVars, budgetVars, retryVars, routeVars, sendVars,
                           changeVars>>

Next == Step \/ NextTurn \/ CoolDown

\* Every wait of the loop ends: a worker or reviewer is bounded by its harness
\* timeout, a verifier by its command timeout, a site by the client's deadline.
Fairness == WF_vars(Step)

Spec == Init /\ [][Next]_vars /\ Fairness
-----------------------------------------------------------------------------
(***************************************************************************)
(* Properties.                                                             *)
(***************************************************************************)
InAttempt == pc \in {"chain", "working", "verify", "gate", "reviewing"}

BetweenAttempts == pc \in {"start", "attempt", "classify", "escalating", "advise", "advising"}

LastSig == history[Len(history)].sig

\* The three ceilings of the contract hold at every point of a turn: attempts,
\* escalations, and review rounds that did not pass (a contract with no round
\* still lets its first review fail).
BudgetsHeld ==
  /\ attemptsUsed <= contract.attempts
  /\ escalationsUsed <= contract.escalations
  /\ reviewRounds <= IF contract.rounds > 1 THEN contract.rounds ELSE 1

\* The history the policy and the review floor read has exactly one row per
\* failed attempt: none is lost when a reviewer rejects a verified change, none
\* is written twice when a failed attempt is also escalated.
AttemptAccounting ==
  /\ InAttempt => Len(history) + 1 = attemptsUsed
  /\ BetweenAttempts => Len(history) = attemptsUsed
  /\ ending \in {"completed", "review"} => Len(history) + 1 = attemptsUsed
  /\ escalationsUsed <= Len(history)

\* The lane's books balance at every step (src/executor/lane.ts:358-616).
LaneIsAccounted == TypeOK /\ BudgetsHeld /\ AttemptAccounting

\* A route that still holds the other backends out is never a burned one, so
\* the chain it leaves is never empty by the turn's own doing, and while it is
\* held nobody else is given the work.
RouteDiscipline ==
  held => /\ preferred \in Backends \ excluded
          /\ pc = "working" => serving = preferred

\* A backend the turn burned (an environment failure, SWITCH_BACKEND) is never
\* handed another attempt, whatever role or route the turn moves to.
BurnedStaysOut == pc = "working" => serving \notin excluded

\* A directive belongs to exactly one attempt: the one after a rejected review
\* carries the findings, an escalation's instruction rides only on the attempt
\* that escalation enabled.
DirectiveForOneAttempt ==
  InAttempt =>
    /\ packet.directive = "review_fix" <=> (history # <<>> /\ LastSig = ReviewSig)
    /\ packet.directive \in Categories => strategy = "escalate"

\* A turn that touched a security-sensitive file in any attempt and failed any
\* attempt completes only through a strong review, even when the attempt that
\* finally passed touched nothing sensitive.
SensitiveRetryStronglyReviewed ==
  ending = "completed" /\ owned \intersect Sensitive # {} /\ history # <<>>
    => level = "STRONG_REVIEW"

\* What an attempt was planned with is what it is run and judged with: its
\* route, its directive, its reviewer (src/executor/lane.ts:328-496).
AttemptIsAsPlanned ==
  RouteDiscipline /\ BurnedStaysOut /\ DirectiveForOneAttempt /\ SensitiveRetryStronglyReviewed

\* A retry that edits nothing does not escape the review its earlier attempt's
\* change requires: with a reviewer class on the contract, or without a client
\* to waive it, an edited workspace is never completed unreviewed.
NoOpRetryStillReviewed ==
  ending = "completed" /\ edited /\ (contract.reviewer # "none" \/ ~contract.jev)
    => level # "NO_SEMANTIC_REVIEW"

\* Within a turn nothing learned is forgotten: the change set, its unknownness,
\* the burned backends and the failure history only grow, and a route that was
\* given up is not taken again.
Learned ==
  /\ owned \subseteq owned' /\ (unknown => unknown')
  /\ excluded \subseteq excluded' /\ seen \subseteq seen'
  /\ \A i \in DOMAIN history : i \in DOMAIN history' /\ history'[i] = history[i]
  /\ (pc # "start" /\ ~held => ~held')

NothingForgotten == [][pc # "done" => Learned]_vars

\* Every turn ends, whatever the workers, the reviewers and the sites answer.
TurnEnds == (pc # "done") ~> (pc = "done")

\* What the proofs add to the properties: where the lane is tells who is waited
\* for, how many rounds are left, whose level the review runs at, and which
\* directive the next attempt will carry.
PlaceOK ==
  /\ serving \in IF pc \in {"working", "reviewing", "advising"}
                   THEN Backends ELSE {NoBackend}
  /\ pc \in {"verify", "gate", "reviewing", "classify", "escalating", "advise",
             "advising"} => lastBackend \in Backends
  /\ ending = "running" <=> pc # "done"

RoundsLeft == pc # "done" => reviewRounds = 0 \/ reviewRounds < contract.rounds

RouteAtStart == pc = "start" => excluded = {} /\ held = FALSE

LevelInForce == pc = "reviewing" => level \in PossibleLevels

DirectivePlanned ==
  /\ InAttempt \/ pc \in {"start", "classify", "escalating"} => directive = "none"
  /\ pc = "start" => history = <<>>
  /\ pc \in {"classify", "escalating", "advise", "advising"} =>
       history # <<>> /\ LastSig # ReviewSig
  /\ pc \in {"advise", "advising"} => directive \in Categories /\ strategy = "escalate"
  /\ pc = "attempt" =>
       /\ directive = "review_fix" <=> (history # <<>> /\ LastSig = ReviewSig)
       /\ directive \in Categories => strategy = "escalate"

\* The lane implements the promise of module BoundedTurn.
Status ==
  CASE InAttempt /\ pc \in {"gate", "reviewing"}    -> "verified"
    [] InAttempt /\ pc \notin {"gate", "reviewing"} -> "trying"
    [] BetweenAttempts                              -> "open"
    [] pc = "done" /\ ending = "completed"          -> "completed"
    [] OTHER                                        -> "blocked"

Promise == INSTANCE BoundedTurn
  WITH status <- Status, spent <- attemptsUsed, limit <- contract.attempts,
       Limits <- {c.attempts : c \in Contracts}

ImplementsPromise == Promise!Spec
=============================================================================
