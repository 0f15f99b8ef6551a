----------------------------- MODULE ProofTurn -----------------------------
(***************************************************************************)
(* A turn from its first attempt to the proof gate's decision: the         *)
(* executor's attempts as far as they touch the workspace and the turn's   *)
(* evidence store (src/commands/turn-lanes.ts, src/verify/index.ts), then  *)
(* the gate's loop of deciding, recovering and blocking                    *)
(* (src/proof/gate.ts, recover.ts).  Between the lane's own steps somebody *)
(* else may edit the workspace: the user, a reviewer that is an external   *)
(* process, a verifier that writes files.                                  *)
(*                                                                         *)
(* The retry policy is not repeated here (module Executor has it): after a *)
(* failed attempt the turn tries again or gives up, within its budget.     *)
(* The gate is wired as the turn wires it: a store, no review lane, so the *)
(* escalation ladder has no rung.                                          *)
(***************************************************************************)
EXTENDS Evidence

CONSTANTS
  Contracts,   \* the contracts a turn may be given
  Outcomes,    \* the results a kind's verifier may report
  MaxEdits     \* bound: edits by others in one turn

ASSUME ProofTurnAssumption ==
  /\ Contracts \subseteq Contract
  /\ Outcomes \in [Kinds -> SUBSET Results]
  /\ MaxEdits \in Nat

VARIABLES
  contract,
  pc,           \* where the turn is
  outcome,      \* how the executor ended
  spent,        \* attempts paid for
  workspace,    \* the content of the workspace
  edits,        \* edits by others so far (bounds Edit)
  store,        \* the turn's evidence store
  runHash,      \* the hash the latest verification stamped its records with
  produced,     \* the records of the latest verification
  verdict,      \* of the executor's last review
  found,        \* the workspace when the gate was entered (history)
  gateHash,     \* the hash the gate reads the store with
  rounds,       \* recovery rounds spent
  shut,         \* criteria the gate established nothing more can be done for
  results       \* the gate's latest decision on each criterion

laneVars == <<outcome, spent, runHash, produced, verdict>>
gateVars == <<found, gateHash, rounds, shut, results>>
vars == <<contract, pc, workspace, edits, store, laneVars, gateVars>>

Places ==
  {"open", "worked", "ran", "failed", "passed", "ended", "deciding", "acting", "done"}

Gated(c) == IF Block(c) = {} THEN c.criteria ELSE Block(c)

Gaps == {i \in DOMAIN results : results[i].decision = "MISSING_PROOF"}

TypeOK ==
  /\ contract \in Contracts /\ pc \in Places
  /\ outcome \in {"none", "completed", "blocked"} /\ spent \in Nat
  /\ workspace \in Contents /\ edits \in 0..MaxEdits
  /\ store \subseteq Records /\ produced \subseteq store
  /\ runHash \in Contents /\ found \in Contents /\ gateHash \in Contents
  /\ verdict \in {"none", "PASS", "FIX"}
  /\ rounds \in Nat /\ shut \subseteq Ids
  /\ DOMAIN results \subseteq Ids
  /\ results \in [DOMAIN results -> [decision : Decisions, category : Category]]
-----------------------------------------------------------------------------
Init ==
  /\ contract \in Contracts /\ workspace \in Contents
  /\ pc = "open" /\ outcome = "none" /\ spent = 0 /\ edits = 0
  /\ store = {} /\ produced = {} /\ verdict = "none"
  /\ runHash = workspace /\ found = workspace /\ gateHash = workspace
  /\ rounds = 0 /\ shut = {} /\ results = <<>>

\* The next prompt: a store and a gate of its own, the workspace as it is.
NextTurn ==
  /\ pc = "done"
  /\ contract' \in Contracts /\ UNCHANGED workspace
  /\ pc' = "open" /\ outcome' = "none" /\ spent' = 0 /\ edits' = 0
  /\ store' = {} /\ produced' = {} /\ verdict' = "none"
  /\ runHash' = workspace /\ found' = workspace /\ gateHash' = workspace
  /\ rounds' = 0 /\ shut' = {} /\ results' = <<>>

\* Somebody else changes the workspace while the turn is under way.
Edit ==
  /\ pc \notin {"open", "done"}
  /\ edits < MaxEdits
  /\ edits' = edits + 1
  /\ \E content \in Contents \ {workspace} : workspace' = content
  /\ UNCHANGED <<contract, pc, store, laneVars, gateVars>>

Goto(place) == pc' = place /\ UNCHANGED contract

\* The executor's turn is over, completed or blocked.
LaneEnds(how) ==
  /\ outcome' = how
  /\ Goto("ended")
  /\ UNCHANGED <<spent, workspace, edits, store, runHash, produced, gateVars>>

\* Mutant: one attempt beyond the budget.
AttemptLeftOffByOne == spent <= contract.attempts

AttemptLeft == spent < contract.attempts

\* A worker leaves the workspace in some state; the verification that follows
\* hashes it before its first verifier runs.
Attempt ==
  /\ pc = "open"
  /\ AttemptLeft
  /\ spent' = spent + 1
  /\ workspace' \in Contents
  /\ runHash' = workspace'
  /\ verdict' = "none"
  /\ Goto("worked")
  /\ UNCHANGED <<outcome, edits, store, produced, gateVars>>

\* No attempt is left, or none reached a worker.
NoAttempt ==
  /\ pc = "open"
  /\ verdict' = "none"
  /\ LaneEnds("blocked")

\* verifyTask: one record for every selected kind.
RunVerifiers ==
  /\ pc = "worked"
  /\ \E kinds \in Selections(contract) :
       \E status \in [kinds -> UNION {Outcomes[k] : k \in kinds}] :
         /\ \A k \in kinds : status[k] \in Outcomes[k]
         /\ produced' = {RunRecord(contract, k, status[k], runHash) : k \in kinds}
  /\ store' = store \union produced'
  /\ Goto("ran")
  /\ UNCHANGED <<workspace, edits, outcome, spent, runHash, verdict, gateVars>>

\* The run hashes the workspace again: what it measured before a change is stale.
Rehash ==
  /\ pc = "ran"
  /\ Goto(IF Aggregate(Fresh(produced, workspace), Stale(produced, workspace)) = "pass"
            THEN "passed" ELSE "failed")
  /\ UNCHANGED <<workspace, edits, store, laneVars, gateVars>>

\* A failed attempt: the policy retries or the turn is blocked.
Retry ==
  /\ pc = "failed"
  /\ Goto("open")
  /\ UNCHANGED <<workspace, edits, store, laneVars, gateVars>>

GiveUp == pc = "failed" /\ LaneEnds("blocked") /\ UNCHANGED verdict

\* A verified attempt is completed with or without a review, or sent back.
ReviewSkipped == pc = "passed" /\ LaneEnds("completed") /\ UNCHANGED verdict

ReviewPasses == pc = "passed" /\ LaneEnds("completed") /\ verdict' = "PASS"

ReviewSendsBack ==
  /\ pc = "passed"
  /\ Goto("open")
  /\ UNCHANGED <<workspace, edits, store, laneVars, gateVars>>

ReviewBlocks == pc = "passed" /\ LaneEnds("blocked") /\ verdict' = "FIX"
-----------------------------------------------------------------------------
\* Mutant: the gate trusts the hash of the last verification.
EnterGateWithRunHash ==
  /\ pc = "ended"
  /\ found' = workspace
  /\ gateHash' = runHash
  /\ Goto("deciding")
  /\ UNCHANGED <<workspace, edits, store, laneVars, rounds, shut, results>>

\* gateWorkspaceHash: the workspace is hashed once more.
EnterGate ==
  /\ pc = "ended"
  /\ found' = workspace
  /\ gateHash' = workspace
  /\ Goto("deciding")
  /\ UNCHANGED <<workspace, edits, store, laneVars, rounds, shut, results>>

\* reviewPassedFor: the turn hands the gate one verdict, without findings.
ReviewPassed == ~contract.reviewed \/ verdict = "PASS"

FreshFor(i) == Fresh(Attributed(store, i), gateHash)

StaleFor(i) == Stale(Attributed(store, i), gateHash)

PossibleAnswers(i) ==
  IF contract.jev THEN Answers
  ELSE {CoverageFallback(RequiredOf(contract, i), FreshFor(i))}

\* The gap site is asked about a gap only.
PossibleResults(i) ==
  UNION {LET decision == DecideCriterion(RequiredOf(contract, i), FreshFor(i),
                           StaleFor(i), answer, ReviewPassed, i \in shut)
             categories == IF decision \in {"PASS", "FAILED"} THEN {"NONE"}
                           ELSE IF contract.jev THEN Category
                           ELSE GapFallback(RequiredOf(contract, i), FreshFor(i))
         IN {[decision |-> decision, category |-> category] : category \in categories} :
           answer \in PossibleAnswers(i)}

\* decideAll: every criterion, on its own records.
Decide ==
  /\ pc = "deciding"
  /\ LET possible == [i \in Gated(contract) |-> PossibleResults(i)]
         anyResult == UNION {possible[i] : i \in Gated(contract)}
     IN \E chosen \in [Gated(contract) -> anyResult] :
          /\ \A i \in Gated(contract) : chosen[i] \in possible[i]
          /\ results' = chosen
  /\ Goto("acting")
  /\ UNCHANGED <<workspace, edits, store, laneVars, found, gateHash, rounds, shut>>

Decision == Fold({results[i].decision : i \in DOMAIN results})

Gap(i) == [id |-> i, category |-> results[i].category,
           short |-> Unsatisfied(RequiredOf(contract, i), FreshFor(i))]

\* selectPlan: the gap the next round is spent on.
Planned(i) == \A j \in Gaps : PlansBefore(Gap(i), Gap(j))

\* The loop goes on, and the planned gap asks for one of these actions.
PlansFor(i, categories) ==
  /\ pc = "acting" /\ Decision = "MISSING_PROOF"
  /\ Planned(i)
  /\ results[i].category \in categories

\* The loop stops when everything is proved, something failed, or no gap is left
\* that was not given up ...
GateDecides ==
  /\ pc = "acting"
  /\ Decision # "MISSING_PROOF"
  /\ Goto("done")
  /\ UNCHANGED <<workspace, edits, store, laneVars, gateVars>>

\* ... and when the planned action is not a measurement: the gap stays open.
GateHandsOver ==
  /\ \E i \in Gaps : PlansFor(i, {"NONE", "REVIEW_REQUIRED"})
  /\ Goto("done")
  /\ UNCHANGED <<workspace, edits, store, laneVars, gateVars>>

\* Mutant: the unavailable action is not remembered.
ActionUnavailableForgotten ==
  /\ \E i \in Gaps : PlansFor(i, {"DIFF_INSPECTION_REQUIRED"})
  /\ Goto("deciding")
  /\ UNCHANGED <<workspace, edits, store, laneVars, gateVars>>

\* No executor is registered for the planned action.
ActionUnavailable ==
  /\ \E i \in Gaps :
       PlansFor(i, {"DIFF_INSPECTION_REQUIRED"}) /\ shut' = shut \union {i}
  /\ Goto("deciding")
  /\ UNCHANGED <<workspace, edits, store, laneVars, found, gateHash, rounds, results>>

\* The round ceiling: the ladder has no rung to climb and every gap is shut.
CeilingReached ==
  /\ \E i \in Gaps : PlansFor(i, Covered)
  /\ rounds >= contract.rounds
  /\ shut' = shut \union Gaps
  /\ Goto("deciding")
  /\ UNCHANGED <<workspace, edits, store, laneVars, found, gateHash, rounds, results>>

RoundLeft == rounds < contract.rounds

\* A recovery round runs the planned verifier and stamps its record with the
\* hash the gate was entered with.
Recover ==
  /\ RoundLeft
  /\ \E i \in Gaps :
       /\ PlansFor(i, Covered)
       /\ \E status \in Outcomes[results[i].category] :
            store' = store \union
              {RecoveredRecord(contract, i, results[i].category, status, gateHash)}
  /\ rounds' = rounds + 1
  /\ Goto("deciding")
  /\ UNCHANGED <<workspace, edits, laneVars, found, gateHash, shut, results>>
-----------------------------------------------------------------------------
Lane ==
  \/ Attempt \/ NoAttempt \/ RunVerifiers \/ Rehash \/ Retry \/ GiveUp
  \/ ReviewSkipped \/ ReviewPasses \/ ReviewSendsBack \/ ReviewBlocks

Gate ==
  \/ EnterGate \/ Decide \/ GateDecides \/ GateHandsOver
  \/ ActionUnavailable \/ CeilingReached \/ Recover

Next == Lane \/ Gate \/ Edit \/ NextTurn

\* Verifiers and sites are bounded by timeouts, and so is every step of a turn.
Spec == Init /\ [][Next]_vars /\ WF_vars(Lane \/ Gate)
-----------------------------------------------------------------------------
(***************************************************************************)
(* Properties.                                                             *)
(***************************************************************************)
\* A turn is proved only by what was measured on the workspace the gate found:
\* for each criterion every required kind has a pass attributed to it there, no
\* attempt of the turn attributed to it anything about another state or a
\* failure of a required kind, and the review the contract asks for has passed.
PassIsProved ==
  pc = "done" /\ Decision = "PASS" =>
    \A i \in Gated(contract) :
      LET own == Attributed(store, i) IN
      /\ \A k \in RequiredOf(contract, i) :
           \E r \in own : r.kind = k /\ r.status = "pass" /\ r.hash = found
      /\ \A r \in own : /\ r.hash = found
                        /\ r.status = "fail" => r.kind \notin RequiredOf(contract, i)
      /\ contract.reviewed => outcome = "completed" /\ verdict = "PASS"

\* The same, of a turn whose records are well formed (src/proof/gate.ts:312-483).
TurnIsProved == TypeOK /\ PassIsProved

\* What the proof of PassIsProved adds: a passing verdict is only known of a
\* completed turn, the gate reads the store with the hash of what it found, and
\* a criterion is decided PASS on grounds the store still has.
Proved(i) ==
  /\ StaleFor(i) = {}
  /\ Covers(RequiredOf(contract, i), FreshFor(i))
  /\ ~\E r \in FreshFor(i) :
       r.kind \in RequiredOf(contract, i) /\ r.status \in {"fail", "error"}
  /\ ReviewPassed

VerdictOfCompleted ==
  /\ verdict = "PASS" => outcome = "completed"
  /\ pc \in {"open", "worked", "ran", "failed", "passed"} => verdict # "PASS"

GateReadsFound == pc \in {"deciding", "acting", "done"} => gateHash = found

PassGrounded ==
  pc \in {"acting", "done"} =>
    /\ DOMAIN results = Gated(contract)
    /\ \A i \in Gated(contract) : results[i].decision = "PASS" => Proved(i)

\* The gate spends no more recovery rounds than the contract grants, each of
\* them on one record.
RoundsAreBounded ==
  /\ rounds <= contract.rounds
  /\ pc \in {"deciding", "acting", "done"} =>
       Cardinality(store) <= rounds + Cardinality(Kinds) * spent

\* A gap that only somebody else can close never keeps the gate from measuring
\* a sibling it could have measured: when the gate stops with a round left, no
\* unproved criterion is one whose named check it declares and could still run.
NoMeasurableGapLeft ==
  pc = "done" /\ Decision # "FAILED" /\ rounds < contract.rounds =>
    \A i \in Gaps : ~Measurable(Gap(i))

\* Recovery is bounded and misses nothing it could measure
\* (src/proof/gate.ts:170-233, 446-472).
RecoveryIsSpentWell == RoundsAreBounded /\ NoMeasurableGapLeft

\* Each criterion is decided on its own records: without a client's opinion, what
\* a recovery round for one criterion finds never unproves a sibling, and a
\* criterion that was given up stays given up.
SiblingsUndisturbed ==
  [][pc = "deciding" /\ pc' = "acting" /\ results # <<>> /\ ~contract.jev =>
       \A i \in DOMAIN results :
         results[i].decision \in {"PASS", "BLOCKED"} =>
           results'[i].decision = results[i].decision]_vars

\* Every turn is decided, whatever the verifiers, the reviewer and the sites say.
TurnIsDecided == (pc # "done") ~> (pc = "done")

\* The attempts keep the promise the executor lane keeps.
Status ==
  CASE pc = "open"                      -> "open"
    [] pc \in {"worked", "ran", "failed"} -> "trying"
    [] pc = "passed"                    -> "verified"
    [] OTHER                            -> outcome

Promise == INSTANCE BoundedTurn
  WITH status <- Status, limit <- contract.attempts,
       Limits <- {c.attempts : c \in Contracts}

AttemptsKeepPromise == Promise!Spec
=============================================================================
