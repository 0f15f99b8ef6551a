-------------------------- MODULE ProofTurnProofs --------------------------
(***************************************************************************)
(* What the proof gate guarantees for every set of kinds, criteria and     *)
(* contracts: module ProofTurn is type correct, a turn it reports as       *)
(* proved is proved on the workspace the gate found, recovery is bounded   *)
(* and misses nothing it could measure, a round leaves the siblings of its *)
(* gap alone, and the attempts keep the promise of module BoundedTurn.     *)
(***************************************************************************)
EXTENDS ProofTurn, FiniteSetTheorems, TLAPS

\* A set of criterion ids has a first one.
LEMMA FirstDeclared ==
  ASSUME NEW S \in SUBSET Ids, S # {}
  PROVE  \E i \in S : \A j \in S : i <= j
<1>1. S \subseteq Nat
  BY EvidenceAssumption DEF EvidenceAssumption
<1>2. PICK i \in S : \A j \in S : ~ (<<j, i>> \in OpToRel(<, Nat))
  BY <1>1, NatLessThanWellFounded, WFMin
<1>3. \A j \in S : ~ (j < i)
  BY <1>1, <1>2 DEF OpToRel
<1> QED
  BY <1>1, <1>3

\* The surface a run measures a kind over is one of the surfaces.
LEMMA RunScopeType ==
  ASSUME NEW c \in Contract, NEW k \in Kinds
  PROVE  RunScope(c, k) \in Scopes \union {NoScope}
<1> DEFINE declaring == {i \in CriterionIdsFor(c, k) : c.scope[i] # NoScope}
<1>1. DefaultScope[k] \in Scopes \union {NoScope}
  BY EvidenceAssumption DEF EvidenceAssumption
<1>2. declaring \in SUBSET Ids
  BY DEF CriterionIdsFor, Block, Contract
<1>3. CASE DefaultScope[k] # NoScope \/ declaring = {}
  BY <1>1, <1>3 DEF RunScope
<1>4. CASE ~(DefaultScope[k] # NoScope \/ declaring = {})
  <2> DEFINE first == CHOOSE i \in declaring : \A j \in declaring : i <= j
  <2>1. first \in declaring
    BY <1>2, <1>4, FirstDeclared
  <2>2. c.scope[first] \in Scopes \union {NoScope}
    BY <1>2, <2>1 DEF Contract
  <2> QED
    BY <1>4, <2>2 DEF RunScope
<1> QED
  BY <1>3, <1>4

\* A verification run stores records.
LEMMA RunRecordType ==
  ASSUME NEW c \in Contract, NEW k \in Kinds, NEW status \in Results,
         NEW hash \in Contents
  PROVE  RunRecord(c, k, status, hash) \in Records
<1>1. CriterionIdsFor(c, k) \in SUBSET Ids
  BY DEF CriterionIdsFor, Block, Contract
<1> QED
  BY <1>1, RunScopeType DEF RunRecord, Records

\* A recovery round stores a record.
LEMMA RecoveredRecordType ==
  ASSUME NEW c \in Contract, NEW i \in Ids, NEW k \in Kinds,
         NEW status \in Results, NEW hash \in Contents
  PROVE  RecoveredRecord(c, i, k, status, hash) \in Records
<1>1. c.scope[i] \in Scopes \union {NoScope}
  BY DEF Contract
<1>2. DefaultScope[k] \in Scopes \union {NoScope}
  BY EvidenceAssumption DEF EvidenceAssumption
<1> QED
  BY <1>1, <1>2 DEF RecoveredRecord, Records

\* What a contract selects is verifier kinds.
LEMMA SelectionsAreKinds ==
  ASSUME NEW c \in Contract, NEW kinds \in Selections(c)
  PROVE  kinds \in SUBSET Kinds
<1>1. Normalized(c.required) \subseteq Kinds
  BY DEF Normalized, Kinds, Contract
<1> QED
  BY <1>1, EvidenceAssumption DEF EvidenceAssumption, Selections

\* A contract of the turn is a contract.
LEMMA ContractsAreContracts ==
  ASSUME TypeOK
  PROVE  contract \in Contract
BY ProofTurnAssumption DEF ProofTurnAssumption, TypeOK

\* The criteria a turn is gated on are criterion ids.
LEMMA GatedType ==
  ASSUME NEW c \in Contract
  PROVE  Gated(c) \subseteq Ids
BY DEF Gated, Block, Contract

\* What a criterion still lacks are verifier kinds that it requires.
LEMMA UnsatisfiedIsRequired ==
  ASSUME NEW required, NEW records
  PROVE  Unsatisfied(required, records) \subseteq required
BY DEF Unsatisfied

\* The deterministic mapping of a gap yields categories.
LEMMA GapFallbackType ==
  ASSUME NEW required, NEW records
  PROVE  GapFallback(required, records) \subseteq Category
BY DEF GapFallback, Category

\* The decision on a criterion is one of the four, and PASS only on grounds.
LEMMA DecideCriterionGrounds ==
  ASSUME NEW required, NEW fresh, NEW stale, NEW answer, NEW passed \in BOOLEAN,
         NEW given \in BOOLEAN
  PROVE  LET d == DecideCriterion(required, fresh, stale, answer, passed, given) IN
         /\ d \in Decisions
         /\ d = "PASS" =>
              /\ stale = {} /\ passed /\ Covers(required, fresh)
              /\ ~\E r \in fresh : r.kind \in required /\ r.status \in {"fail", "error"}
<1> DEFINE d == DecideCriterion(required, fresh, stale, answer, passed, given)
<1>1. d \in Decisions
  BY DEF DecideCriterion, Decisions
<1>2. ASSUME d = "PASS"
      PROVE  /\ stale = {} /\ passed /\ Covers(required, fresh)
             /\ Aggregate({r \in fresh : r.kind \in required}, stale)
                  # "deterministic_failure"
  BY <1>2 DEF DecideCriterion
<1>3. ASSUME d = "PASS"
      PROVE  ~\E r \in fresh : r.kind \in required /\ r.status \in {"fail", "error"}
  BY <1>2, <1>3 DEF Aggregate
<1> QED
  BY <1>1, <1>2, <1>3

\* What deciding a criterion may yield: a typed result, and PASS on grounds.
LEMMA PossibleResultsGrounds ==
  ASSUME NEW i, NEW result \in PossibleResults(i)
  PROVE  /\ result \in [decision : Decisions, category : Category]
         /\ result.decision = "PASS" => Proved(i)
<1> DEFINE decision(answer) == DecideCriterion(RequiredOf(contract, i), FreshFor(i),
                                 StaleFor(i), answer, ReviewPassed, i \in shut)
           categories(answer) == IF decision(answer) \in {"PASS", "FAILED"} THEN {"NONE"}
                                 ELSE IF contract.jev THEN Category
                                 ELSE GapFallback(RequiredOf(contract, i), FreshFor(i))
<1>1. PICK answer \in PossibleAnswers(i) :
        \E category \in categories(answer) :
          result = [decision |-> decision(answer), category |-> category]
  BY DEF PossibleResults
<1>2. categories(answer) \subseteq Category
  <2>1. "NONE" \in Category
    BY DEF Category
  <2> QED
    BY <2>1, GapFallbackType
<1>3. /\ ReviewPassed \in BOOLEAN
      /\ (i \in shut) \in BOOLEAN
  BY DEF ReviewPassed
<1>4. /\ decision(answer) \in Decisions
      /\ decision(answer) = "PASS" =>
           /\ StaleFor(i) = {} /\ ReviewPassed
           /\ Covers(RequiredOf(contract, i), FreshFor(i))
           /\ ~\E r \in FreshFor(i) :
                r.kind \in RequiredOf(contract, i) /\ r.status \in {"fail", "error"}
  BY <1>3, DecideCriterionGrounds
<1>5. PICK category \in categories(answer) :
        result = [decision |-> decision(answer), category |-> category]
  BY <1>1
<1>6. result.decision = decision(answer)
  BY <1>5
<1>7. result \in [decision : Decisions, category : Category]
  BY <1>2, <1>4, <1>5
<1> QED
  BY <1>4, <1>6, <1>7 DEF Proved
-----------------------------------------------------------------------------
\* A turn starts out with its types.
LEMMA TypeInit == Init => TypeOK
<1> SUFFICES ASSUME Init PROVE TypeOK
  OBVIOUS
<1>1. results = <<>> /\ DOMAIN results = {}
  BY DEF Init
<1>2. \A i \in DOMAIN results : FALSE
  BY <1>1
<1>3. results \in [DOMAIN results -> [decision : Decisions, category : Category]]
  BY <1>1, <1>2
<1> QED
  BY <1>1, <1>3, ProofTurnAssumption
  DEF Init, TypeOK, Places, Contract, ProofTurnAssumption

\* The state of a turn keeps its types in every step of the specification.
LEMMA TypeStep == TypeOK /\ [Next]_vars => TypeOK'
<1> SUFFICES ASSUME TypeOK, [Next]_vars PROVE TypeOK'
  OBVIOUS
<1>0. contract \in Contract
  BY ContractsAreContracts
<1>1. CASE Attempt
  BY <1>1 DEF Attempt, TypeOK, Goto, Places, gateVars
<1>2. CASE NoAttempt
  BY <1>2 DEF NoAttempt, LaneEnds, TypeOK, Goto, Places, gateVars
<1>3. CASE RunVerifiers
  <2>0. PICK kinds \in Selections(contract) :
          \E status \in [kinds -> UNION {Outcomes[k] : k \in kinds}] :
            /\ \A k \in kinds : status[k] \in Outcomes[k]
            /\ produced' = {RunRecord(contract, k, status[k], runHash) : k \in kinds}
    BY <1>3 DEF RunVerifiers
  <2>1. PICK status \in [kinds -> UNION {Outcomes[k] : k \in kinds}] :
          /\ \A k \in kinds : status[k] \in Outcomes[k]
          /\ produced' = {RunRecord(contract, k, status[k], runHash) : k \in kinds}
    BY <2>0
  <2>2. kinds \in SUBSET Kinds
    BY <1>0, SelectionsAreKinds
  <2>3. ASSUME NEW k \in kinds
        PROVE  RunRecord(contract, k, status[k], runHash) \in Records
    <3>1. k \in Kinds /\ status[k] \in Results /\ runHash \in Contents
      BY <2>1, <2>2, <2>3, ProofTurnAssumption DEF ProofTurnAssumption, TypeOK
    <3> QED
      BY <1>0, <3>1, RunRecordType
  <2>4. produced' \subseteq Records
    BY <2>1, <2>3
  <2> QED
    BY <1>3, <2>4 DEF RunVerifiers, TypeOK, Goto, Places, gateVars
<1>4. CASE Rehash \/ Retry \/ ReviewSendsBack
  BY <1>4 DEF Rehash, Retry, ReviewSendsBack, TypeOK, Goto, Places, laneVars, gateVars
<1>5. CASE GiveUp \/ ReviewSkipped \/ ReviewPasses \/ ReviewBlocks
  BY <1>5 DEF GiveUp, ReviewSkipped, ReviewPasses, ReviewBlocks, LaneEnds, TypeOK,
              Goto, Places, gateVars
<1>6. CASE EnterGate
  BY <1>6 DEF EnterGate, TypeOK, Goto, Places, laneVars
<1>7. CASE Decide
  <2> DEFINE possible == [i \in Gated(contract) |-> PossibleResults(i)]
             anyResult == UNION {possible[i] : i \in Gated(contract)}
  <2>1. PICK chosen \in [Gated(contract) -> anyResult] :
          /\ \A i \in Gated(contract) : chosen[i] \in possible[i]
          /\ results' = chosen
    BY <1>7 DEF Decide
  <2>2. \A i \in Gated(contract) : possible[i] = PossibleResults(i)
    OBVIOUS
  <2>3. \A i \in Gated(contract) :
          chosen[i] \in [decision : Decisions, category : Category]
    BY <2>1, <2>2, PossibleResultsGrounds
  <2>4. /\ DOMAIN results' = Gated(contract)
        /\ results' \in [Gated(contract) -> [decision : Decisions, category : Category]]
    BY <2>1, <2>3
  <2>5. Gated(contract) \subseteq Ids
    BY <1>0, GatedType
  <2>6. /\ contract' = contract /\ pc' = "acting"
        /\ UNCHANGED <<workspace, edits, store, laneVars, found, gateHash, rounds, shut>>
    BY <1>7 DEF Decide, Goto
  <2> QED
    BY <2>4, <2>5, <2>6 DEF TypeOK, Places, laneVars
<1>8. CASE GateDecides \/ GateHandsOver
  BY <1>8 DEF GateDecides, GateHandsOver, TypeOK, Goto, Places, laneVars, gateVars
<1>9. CASE ActionUnavailable \/ CeilingReached
  <2>1. shut' \subseteq Ids
    BY <1>9 DEF ActionUnavailable, CeilingReached, TypeOK, Gaps
  <2> QED
    BY <1>9, <2>1 DEF ActionUnavailable, CeilingReached, TypeOK, Goto, Places, laneVars
<1>10. CASE Recover
  <2>1. PICK i \in Gaps :
          /\ PlansFor(i, Covered)
          /\ \E status \in Outcomes[results[i].category] :
               store' = store \union
                 {RecoveredRecord(contract, i, results[i].category, status, gateHash)}
    BY <1>10 DEF Recover
  <2>2. PICK status \in Outcomes[results[i].category] :
          store' = store \union
            {RecoveredRecord(contract, i, results[i].category, status, gateHash)}
    BY <2>1
  <2>3. i \in Ids /\ results[i].category \in Kinds /\ gateHash \in Contents
    BY <2>1, EvidenceAssumption DEF PlansFor, EvidenceAssumption, TypeOK, Gaps
  <2>4. status \in Results
    BY <2>2, <2>3, ProofTurnAssumption DEF ProofTurnAssumption
  <2>5. RecoveredRecord(contract, i, results[i].category, status, gateHash) \in Records
    BY <1>0, <2>3, <2>4, RecoveredRecordType
  <2>6. store' \subseteq Records /\ produced \subseteq store'
    BY <2>2, <2>5 DEF TypeOK
  <2> QED
    BY <1>10, <2>6 DEF Recover, TypeOK, Goto, Places, laneVars
<1>11. CASE Edit
  BY <1>11, ProofTurnAssumption DEF Edit, TypeOK, laneVars, gateVars, ProofTurnAssumption
<1>12. CASE NextTurn
  <2>1. results' = <<>> /\ DOMAIN results' = {}
    BY <1>12 DEF NextTurn
  <2>2. results' \in [DOMAIN results' -> [decision : Decisions, category : Category]]
    BY <2>1
  <2> QED
    BY <1>12, <2>1, <2>2, ProofTurnAssumption
    DEF NextTurn, TypeOK, Places, ProofTurnAssumption
<1>13. CASE UNCHANGED vars
  BY <1>13 DEF vars, laneVars, gateVars, TypeOK
<1> QED
  BY <1>1, <1>2, <1>3, <1>4, <1>5, <1>6, <1>7, <1>8, <1>9, <1>10, <1>11, <1>12, <1>13
  DEF Next, Lane, Gate

\* A turn's contract, evidence store and decisions keep their types, whatever the
\* verifiers report and whoever edits the workspace.
THEOREM TypeCorrect == Spec => []TypeOK
BY TypeInit, TypeStep, PTL DEF Spec
-----------------------------------------------------------------------------
\* The inductive invariant behind PassIsProved.  A decision is made on the store
\* as it is then; the edits that follow cannot unmake it because the gate reads
\* the store with the hash it entered with, which is what GateReadsFound relates
\* to the workspace it found.
Grounded == VerdictOfCompleted /\ GateReadsFound /\ PassGrounded

\* What a decision stood on still stands when nothing it reads has changed.
LEMMA GroundsKept ==
  ASSUME NEW i, Proved(i), UNCHANGED <<contract, store, gateHash, verdict>>
  PROVE  Proved(i)'
BY DEF Proved, StaleFor, FreshFor, ReviewPassed

\* A decision made on the store of the gate still has its grounds as long as
\* nothing it reads and no decision changes.
LEMMA PassKept ==
  ASSUME PassGrounded, pc \in {"acting", "done"},
         UNCHANGED <<contract, store, gateHash, verdict, results>>
  PROVE  PassGrounded'
<1>1. \A i \in Gated(contract) : Proved(i) => Proved(i)'
  BY GroundsKept
<1> QED
  BY <1>1 DEF PassGrounded

\* The initial state has decided nothing.
LEMMA GroundedInit == Init => Grounded
BY DEF Init, Grounded, VerdictOfCompleted, GateReadsFound, PassGrounded

\* Every step of the specification preserves the invariant.
LEMMA GroundedStep == TypeOK /\ Grounded /\ [Next]_vars => Grounded'
<1> SUFFICES ASSUME TypeOK, Grounded, [Next]_vars PROVE Grounded'
  OBVIOUS
<1>1. CASE Lane
  <2>1. VerdictOfCompleted'
    BY <1>1 DEF Lane, Attempt, NoAttempt, RunVerifiers, Rehash, Retry, GiveUp,
                ReviewSkipped, ReviewPasses, ReviewSendsBack, ReviewBlocks,
                LaneEnds, Goto, laneVars, gateVars, Grounded, VerdictOfCompleted
  <2>2. pc' \notin {"deciding", "acting", "done"}
    BY <1>1 DEF Lane, Attempt, NoAttempt, RunVerifiers, Rehash, Retry, GiveUp,
                ReviewSkipped, ReviewPasses, ReviewSendsBack, ReviewBlocks,
                LaneEnds, Goto
  <2> QED
    BY <2>1, <2>2 DEF Grounded, GateReadsFound, PassGrounded
<1>2. CASE EnterGate
  BY <1>2 DEF EnterGate, Goto, laneVars, Grounded, VerdictOfCompleted, GateReadsFound, PassGrounded
<1>3. CASE Decide
  <2> DEFINE possible == [i \in Gated(contract) |-> PossibleResults(i)]
             anyResult == UNION {possible[i] : i \in Gated(contract)}
  <2>1. PICK chosen \in [Gated(contract) -> anyResult] :
          /\ \A i \in Gated(contract) : chosen[i] \in possible[i]
          /\ results' = chosen
    BY <1>3 DEF Decide
  <2>2. UNCHANGED <<contract, outcome, store, gateHash, verdict, found>>
        /\ pc = "deciding" /\ pc' = "acting"
    BY <1>3 DEF Decide, Goto, laneVars
  <2>3. ASSUME NEW i \in Gated(contract), results'[i].decision = "PASS"
        PROVE  Proved(i)'
    <3>1. results'[i] \in PossibleResults(i)
      BY <2>1
    <3>2. Proved(i)
      BY <2>3, <3>1, PossibleResultsGrounds
    <3> QED
      BY <2>2, <3>2, GroundsKept
  <2>4. Gated(contract)' = Gated(contract)
    BY <2>2
  <2>5. DOMAIN results' = Gated(contract)
    BY <2>1
  <2>6. PassGrounded'
    BY <2>3, <2>4, <2>5 DEF PassGrounded
  <2> QED
    BY <2>2, <2>6 DEF Grounded, VerdictOfCompleted, GateReadsFound
<1>4. CASE GateDecides \/ GateHandsOver
  <2>1. UNCHANGED <<contract, store, gateHash, verdict, results, outcome, found>>
        /\ pc = "acting" /\ pc' = "done"
    BY <1>4 DEF GateDecides, GateHandsOver, PlansFor, Goto, laneVars, gateVars
  <2> QED
    BY <2>1, PassKept DEF Grounded, VerdictOfCompleted, GateReadsFound
<1>5. CASE ActionUnavailable \/ CeilingReached \/ Recover
  <2>1. UNCHANGED <<gateHash, verdict, outcome, found>>
        /\ pc = "acting" /\ pc' = "deciding"
    BY <1>5 DEF ActionUnavailable, CeilingReached, Recover, PlansFor, Goto, laneVars
  <2> QED
    BY <2>1 DEF Grounded, VerdictOfCompleted, GateReadsFound, PassGrounded
<1>6. CASE Edit
  <2>1. UNCHANGED <<contract, store, gateHash, verdict, results, outcome, found, pc>>
    BY <1>6 DEF Edit, laneVars, gateVars
  <2>2. CASE pc \in {"acting", "done"}
    BY <2>1, <2>2, PassKept DEF Grounded, VerdictOfCompleted, GateReadsFound
  <2>3. CASE pc \notin {"acting", "done"}
    BY <2>1, <2>3 DEF Grounded, VerdictOfCompleted, GateReadsFound, PassGrounded
  <2> QED
    BY <2>2, <2>3
<1>7. CASE NextTurn
  BY <1>7 DEF NextTurn, Grounded, VerdictOfCompleted, GateReadsFound, PassGrounded
<1>8. CASE UNCHANGED vars
  <2>1. UNCHANGED <<contract, store, gateHash, verdict, results, outcome, found, pc>>
    BY <1>8 DEF vars, laneVars, gateVars
  <2>2. CASE pc \in {"acting", "done"}
    BY <2>1, <2>2, PassKept DEF Grounded, VerdictOfCompleted, GateReadsFound
  <2>3. CASE pc \notin {"acting", "done"}
    BY <2>1, <2>3 DEF Grounded, VerdictOfCompleted, GateReadsFound, PassGrounded
  <2> QED
    BY <2>2, <2>3
<1> QED
  BY <1>1, <1>2, <1>3, <1>4, <1>5, <1>6, <1>7, <1>8 DEF Next, Gate

\* A turn that is decided PASS has no criterion with another decision.
LEMMA FoldPass ==
  ASSUME NEW decisions \in SUBSET Decisions, Fold(decisions) = "PASS"
  PROVE  decisions \subseteq {"PASS"}
BY DEF Fold, Decisions

\* The invariant yields the property.
LEMMA GroundedImpliesProved == TypeOK /\ Grounded => PassIsProved
<1> SUFFICES ASSUME TypeOK, Grounded, pc = "done", Decision = "PASS",
                    NEW i \in Gated(contract)
             PROVE  LET own == Attributed(store, i) IN
                    /\ \A k \in RequiredOf(contract, i) :
                         \E r \in own : r.kind = k /\ r.status = "pass" /\ r.hash = found
                    /\ \A r \in own :
                         /\ r.hash = found
                         /\ r.status = "fail" => r.kind \notin RequiredOf(contract, i)
                    /\ contract.reviewed => outcome = "completed" /\ verdict = "PASS"
  BY DEF PassIsProved
<1>1. DOMAIN results = Gated(contract)
  BY DEF Grounded, PassGrounded
<1>2. {results[j].decision : j \in DOMAIN results} \in SUBSET Decisions
  BY DEF TypeOK
<1>3. results[i].decision = "PASS"
  BY <1>1, <1>2, FoldPass DEF Decision
<1>4. Proved(i)
  BY <1>3 DEF Grounded, PassGrounded
<1>5. gateHash = found
  BY DEF Grounded, GateReadsFound
<1>6. ASSUME NEW k \in RequiredOf(contract, i)
      PROVE  \E r \in Attributed(store, i) :
               r.kind = k /\ r.status = "pass" /\ r.hash = found
  BY <1>4, <1>5, <1>6 DEF Proved, Covers, Unsatisfied, FreshFor, Fresh
<1>7. ASSUME NEW r \in Attributed(store, i)
      PROVE  /\ r.hash = found
             /\ r.status = "fail" => r.kind \notin RequiredOf(contract, i)
  <2>1. r.hash = found
    BY <1>4, <1>5 DEF Proved, StaleFor, Stale
  <2>2. r \in FreshFor(i)
    BY <1>5, <2>1 DEF FreshFor, Fresh
  <2> QED
    BY <1>4, <2>1, <2>2 DEF Proved
<1>8. contract.reviewed => outcome = "completed" /\ verdict = "PASS"
  BY <1>4 DEF Proved, ReviewPassed, Grounded, VerdictOfCompleted
<1> QED
  BY <1>6, <1>7, <1>8

\* A turn the gate reports as proved is proved by passing records of the very
\* workspace the gate found, for every criterion and every required kind, with
\* the review the contract asks for, for any contracts, verifiers and edits.
THEOREM ProvedTurnsAreProved == Spec => []PassIsProved
<1>1. Init => TypeOK /\ Grounded
  BY TypeInit, GroundedInit
<1>2. TypeOK /\ Grounded /\ [Next]_vars => (TypeOK /\ Grounded)'
  BY TypeStep, GroundedStep
<1>3. TypeOK /\ Grounded => PassIsProved
  BY GroundedImpliesProved
<1> QED
  BY <1>1, <1>2, <1>3, PTL DEF Spec

\* A turn's PASS rests on well-formed records (gate.ts:312-483).
THEOREM TurnsAreProved == Spec => []TurnIsProved
BY TypeCorrect, ProvedTurnsAreProved, PTL DEF TurnIsProved
-----------------------------------------------------------------------------
\* A set has no more images than members.
LEMMA ImagesAreFewer ==
  ASSUME NEW S, IsFiniteSet(S), NEW f, DOMAIN f = S
  PROVE  /\ IsFiniteSet({f[x] : x \in S})
         /\ Cardinality({f[x] : x \in S}) <= Cardinality(S)
<1> DEFINE images == {f[x] : x \in S}
           g == [x \in S |-> f[x]]
<1>1. g \in [S -> images] /\ \A y \in images : \E x \in S : g[x] = y
  OBVIOUS
<1>2. g \in Surjection(S, images)
  BY <1>1 DEF Surjection
<1> QED
  BY <1>2, FS_Surjection

\* There are finitely many kinds of verifiers.
LEMMA KindsAreFinite == IsFiniteSet(Kinds) /\ Cardinality(Kinds) \in Nat
<1>1. DOMAIN Canonical = Names /\ IsFiniteSet(Names)
  BY EvidenceAssumption DEF EvidenceAssumption
<1>2. IsFiniteSet(Kinds)
  BY <1>1, ImagesAreFewer DEF Kinds
<1> QED
  BY <1>2, FS_CardinalityType

\* A verification stores at most one record of each kind.
LEMMA RunsAreShort ==
  ASSUME TypeOK, RunVerifiers
  PROVE  /\ IsFiniteSet(produced') /\ Cardinality(produced') \in Nat
         /\ Cardinality(produced') <= Cardinality(Kinds)
<1>1. PICK kinds \in Selections(contract) :
        \E status \in [kinds -> UNION {Outcomes[k] : k \in kinds}] :
          produced' = {RunRecord(contract, k, status[k], runHash) : k \in kinds}
  BY DEF RunVerifiers
<1>2. PICK status \in [kinds -> UNION {Outcomes[k] : k \in kinds}] :
        produced' = {RunRecord(contract, k, status[k], runHash) : k \in kinds}
  BY <1>1
<1> DEFINE record == [k \in kinds |-> RunRecord(contract, k, status[k], runHash)]
<1>3. kinds \in SUBSET Kinds
  BY ContractsAreContracts, SelectionsAreKinds
<1>4. IsFiniteSet(kinds) /\ Cardinality(kinds) <= Cardinality(Kinds)
  BY <1>3, KindsAreFinite, FS_Subset
<1>5. produced' = {record[k] : k \in kinds}
  BY <1>2
<1>6. DOMAIN record = kinds
  OBVIOUS
<1> HIDE DEF record
<1>7. IsFiniteSet(produced') /\ Cardinality(produced') <= Cardinality(kinds)
  BY <1>4, <1>5, <1>6, ImagesAreFewer
<1>8. Cardinality(produced') \in Nat /\ Cardinality(kinds) \in Nat
  BY <1>4, <1>7, FS_CardinalityType
<1> QED
  BY <1>4, <1>7, <1>8, KindsAreFinite

\* The inductive invariant behind RoundsAreBounded.  An attempt pays for its
\* verification before it runs, so while the verification is to come the store is
\* a whole run short of the bound.
StoreIsPaidFor ==
  LET paid == rounds + Cardinality(Kinds) * spent IN
  /\ rounds <= contract.rounds
  /\ IsFiniteSet(store)
  /\ Cardinality(store) <= paid
  /\ pc = "worked" => Cardinality(store) + Cardinality(Kinds) <= paid

\* A turn starts with nothing stored, and every step keeps the bound.
LEMMA StorePaidInit == TypeOK /\ Init => StoreIsPaidFor
<1>1. TypeOK => contract.rounds \in Nat
  BY ContractsAreContracts DEF Contract
<1> QED
  BY <1>1, FS_EmptySet, KindsAreFinite DEF Init, StoreIsPaidFor

LEMMA StorePaidStep == TypeOK /\ StoreIsPaidFor /\ [Next]_vars => StoreIsPaidFor'
<1> SUFFICES ASSUME TypeOK, StoreIsPaidFor, [Next]_vars PROVE StoreIsPaidFor'
  OBVIOUS
<1> DEFINE K == Cardinality(Kinds)
<1>0. /\ K \in Nat /\ spent \in Nat /\ rounds \in Nat /\ contract.rounds \in Nat
      /\ IsFiniteSet(store) /\ Cardinality(store) \in Nat
      /\ K * spent \in Nat /\ K * (spent + 1) = K * spent + K
  BY KindsAreFinite, FS_CardinalityType, ContractsAreContracts DEF TypeOK, StoreIsPaidFor, Contract
<1>1. CASE Attempt
  <2>1. spent' = spent + 1 /\ UNCHANGED <<contract, store, rounds>>
    BY <1>1 DEF Attempt, Goto, gateVars
  <2>2. K * spent' = K * spent + K
    BY <1>0, <2>1
  <2> QED
    BY <1>0, <2>1, <2>2 DEF StoreIsPaidFor
<1>2. CASE RunVerifiers
  <2>1. /\ UNCHANGED <<contract, spent, rounds>> /\ store' = store \union produced'
        /\ pc = "worked" /\ pc' = "ran"
    BY <1>2 DEF RunVerifiers, Goto, gateVars
  <2>2. /\ IsFiniteSet(produced') /\ Cardinality(produced') \in Nat
        /\ Cardinality(produced') <= K
    BY <1>2, RunsAreShort
  <2>3. IsFiniteSet(store \cap produced') /\ Cardinality(store \cap produced') \in Nat
    BY <1>0, <2>2, FS_Intersection, FS_CardinalityType
  <2>4. /\ IsFiniteSet(store')
        /\ Cardinality(store') = Cardinality(store) + Cardinality(produced')
                                   - Cardinality(store \cap produced')
    BY <1>0, <2>1, <2>2, FS_Union
  <2> QED
    BY <1>0, <2>1, <2>2, <2>3, <2>4 DEF StoreIsPaidFor
<1>3. CASE Recover
  <2>1. PICK record : store' = store \union {record}
    BY <1>3 DEF Recover
  <2>2. /\ UNCHANGED <<contract, spent>> /\ rounds' = rounds + 1
        /\ rounds < contract.rounds /\ pc' = "deciding"
    BY <1>3 DEF Recover, RoundLeft, Goto, laneVars
  <2>3. IsFiniteSet(store') /\ Cardinality(store') <= Cardinality(store) + 1
    BY <1>0, <2>1, FS_AddElement
  <2>4. Cardinality(store') \in Nat
    BY <2>3, FS_CardinalityType
  <2> QED
    BY <1>0, <2>2, <2>3, <2>4 DEF StoreIsPaidFor
<1>4. CASE NextTurn
  <2>1. /\ contract' \in Contract /\ store' = {} /\ rounds' = 0 /\ spent' = 0
        /\ pc' = "open"
    BY <1>4, ProofTurnAssumption DEF NextTurn, ProofTurnAssumption
  <2>2. contract'.rounds \in Nat
    BY <2>1 DEF Contract
  <2> QED
    BY <1>0, <2>1, <2>2, FS_EmptySet DEF StoreIsPaidFor
<1>5. CASE \/ NoAttempt \/ Rehash \/ Retry \/ GiveUp \/ ReviewSkipped \/ ReviewPasses
           \/ ReviewSendsBack \/ ReviewBlocks
  BY <1>5 DEF NoAttempt, Rehash, Retry, GiveUp, ReviewSkipped, ReviewPasses,
    ReviewSendsBack, ReviewBlocks, LaneEnds, Goto, laneVars, gateVars, StoreIsPaidFor
<1>6. CASE EnterGate \/ Decide \/ GateDecides \/ GateHandsOver \/ ActionUnavailable \/ CeilingReached
  BY <1>6 DEF EnterGate, Decide, GateDecides, GateHandsOver, ActionUnavailable,
    CeilingReached, Goto, laneVars, gateVars, StoreIsPaidFor
<1>7. CASE Edit
  BY <1>7 DEF Edit, laneVars, gateVars, StoreIsPaidFor
<1>8. CASE UNCHANGED vars
  BY <1>8 DEF vars, laneVars, gateVars, StoreIsPaidFor
<1> QED
  BY <1>1, <1>2, <1>3, <1>4, <1>5, <1>6, <1>7, <1>8 DEF Next, Lane, Gate

\* What is planned first is not measurable only when nothing is.
LEMMA PlannedIsMeasurable ==
  ASSUME NEW i \in Gaps, Planned(i), NEW j \in Gaps, Measurable(Gap(j))
  PROVE  Measurable(Gap(i))
BY DEF Planned, PlansBefore, Measurable

\* A gate that stops leaves no gap it could have measured: either there is no
\* gap, or the first one in the planning order asks for no measurement.
LEMMA GapsLeftStep == TypeOK /\ NoMeasurableGapLeft /\ [Next]_vars => NoMeasurableGapLeft'
<1> SUFFICES ASSUME TypeOK, NoMeasurableGapLeft, [Next]_vars PROVE NoMeasurableGapLeft'
  OBVIOUS
<1>1. CASE GateDecides
  <2>1. UNCHANGED results /\ Decision # "MISSING_PROOF"
    BY <1>1 DEF GateDecides, gateVars
  <2>2. Decision # "FAILED" => Gaps = {}
    BY <2>1 DEF Decision, Fold, Gaps
  <2>3. Gaps' = Gaps /\ Decision' = Decision
    BY <2>1 DEF Gaps, Decision
  <2> QED
    BY <2>2, <2>3 DEF NoMeasurableGapLeft
<1>2. CASE GateHandsOver
  <2>1. PICK i \in Gaps : PlansFor(i, {"NONE", "REVIEW_REQUIRED"})
    BY <1>2 DEF GateHandsOver
  <2>2. UNCHANGED <<results, contract, store, gateHash>>
    BY <1>2 DEF GateHandsOver, Goto, gateVars
  <2>3. ~Measurable(Gap(i))
    BY <2>1, EvidenceAssumption DEF EvidenceAssumption, PlansFor, Measurable, Gap
  <2>4. \A j \in Gaps : ~Measurable(Gap(j))
    BY <2>1, <2>3, PlannedIsMeasurable DEF PlansFor
  <2>5. Gaps' = Gaps /\ \A j : Gap(j)' = Gap(j)
    BY <2>2 DEF Gaps, Gap, FreshFor
  <2> QED
    BY <2>4, <2>5 DEF NoMeasurableGapLeft, Measurable
<1>3. CASE Next /\ ~GateDecides /\ ~GateHandsOver
  <2>1. pc' # "done"
    BY <1>3 DEF Next, Lane, Gate, Attempt, NoAttempt, RunVerifiers, Rehash, Retry, GiveUp,
      ReviewSkipped, ReviewPasses, ReviewSendsBack, ReviewBlocks, LaneEnds, Goto, EnterGate,
      Decide, ActionUnavailable, CeilingReached, Recover, Edit, NextTurn
  <2> QED
    BY <2>1 DEF NoMeasurableGapLeft
<1>4. CASE UNCHANGED vars
  <2>1. UNCHANGED <<pc, rounds, results, contract, store, gateHash>>
    BY <1>4 DEF vars, gateVars
  <2>2. Gaps' = Gaps /\ Decision' = Decision /\ \A j : Gap(j)' = Gap(j)
    BY <2>1 DEF Gaps, Decision, Gap, FreshFor
  <2> QED
    BY <2>1, <2>2 DEF NoMeasurableGapLeft, Measurable
<1> QED
  BY <1>1, <1>2, <1>3, <1>4

\* Recovery stays within its rounds and stores one record a round, and a gate that
\* stops with a round left has no gap it could have measured
\* (src/proof/gate.ts:170-233), for any kinds, contracts and outcomes.
THEOREM RecoverySpentWell == Spec => []RecoveryIsSpentWell
<1>1. Init => TypeOK /\ StoreIsPaidFor /\ NoMeasurableGapLeft
  BY TypeInit, StorePaidInit DEF Init, NoMeasurableGapLeft
<1>2. TypeOK /\ StoreIsPaidFor /\ NoMeasurableGapLeft /\ [Next]_vars
        => (TypeOK /\ StoreIsPaidFor /\ NoMeasurableGapLeft)'
  BY TypeStep, StorePaidStep, GapsLeftStep
<1>3. StoreIsPaidFor /\ NoMeasurableGapLeft => RecoveryIsSpentWell
  BY DEF StoreIsPaidFor, RoundsAreBounded, RecoveryIsSpentWell
<1> QED
  BY <1>1, <1>2, <1>3, PTL DEF Spec
-----------------------------------------------------------------------------
\* What the gate decides on a criterion now, when no client is asked.
Settled(i) ==
  DecideCriterion(RequiredOf(contract, i), FreshFor(i), StaleFor(i),
    CoverageFallback(RequiredOf(contract, i), FreshFor(i)), ReviewPassed, i \in shut)

\* The inductive invariant behind SiblingsUndisturbed: the decisions of a round
\* are those of its store, and what the round changed since then leaves every
\* criterion that was not a gap with the decision it had.
DecisionsStand ==
  /\ pc \in {"open", "worked", "ran", "failed", "passed", "ended"} => results = <<>>
  /\ ~contract.jev /\ results # <<>> /\ pc \in {"deciding", "acting"} =>
       \A i \in DOMAIN results :
         /\ i \in Gated(contract)
         /\ results[i].decision \in {"PASS", "BLOCKED"} => results[i].decision = Settled(i)

\* Without a client a criterion has one possible decision.
LEMMA OneDecision ==
  ASSUME ~contract.jev, NEW i, NEW result \in PossibleResults(i)
  PROVE  result.decision = Settled(i)
BY DEF PossibleResults, PossibleAnswers, Settled

\* Settled reads the criterion's records, the review and whether it was given up.
LEMMA SettledKept ==
  ASSUME NEW i, UNCHANGED <<contract, gateHash, verdict>>,
         Attributed(store', i) = Attributed(store, i), (i \in shut') = (i \in shut)
  PROVE  Settled(i)' = Settled(i)
BY DEF Settled, FreshFor, StaleFor, ReviewPassed

\* Giving up a criterion changes neither a PASS nor a BLOCKED.
LEMMA ShutKeepsSettled ==
  ASSUME NEW i, UNCHANGED <<contract, gateHash, verdict, store>>, shut \subseteq shut',
         Settled(i) \in {"PASS", "BLOCKED"}
  PROVE  Settled(i)' = Settled(i)
<1>1. FreshFor(i)' = FreshFor(i) /\ StaleFor(i)' = StaleFor(i) /\ ReviewPassed' = ReviewPassed
  BY DEF FreshFor, StaleFor, ReviewPassed
<1>2. i \in shut => i \in shut'
  OBVIOUS
<1> QED
  BY <1>1, <1>2 DEF Settled, DecideCriterion

\* A round that decides again gives the criteria the decisions of the store.
LEMMA DecideSettles ==
  ASSUME Decide, ~contract.jev
  PROVE  /\ DOMAIN results' = Gated(contract)
         /\ \A i \in Gated(contract) : results'[i].decision = Settled(i)
<1> DEFINE possible == [i \in Gated(contract) |-> PossibleResults(i)]
           anyResult == UNION {possible[i] : i \in Gated(contract)}
<1>1. PICK chosen \in [Gated(contract) -> anyResult] :
        /\ \A i \in Gated(contract) : chosen[i] \in possible[i]
        /\ results' = chosen
  BY DEF Decide
<1>2. \A i \in Gated(contract) : results'[i] \in PossibleResults(i)
  BY <1>1
<1> QED
  BY <1>1, <1>2, OneDecision

\* What a round for one gap does leaves the criteria that are no gaps settled.
LEMMA RoundLeavesOthers ==
  ASSUME TypeOK, DecisionsStand, ActionUnavailable \/ CeilingReached \/ Recover, ~contract.jev,
         NEW i \in DOMAIN results, results[i].decision \in {"PASS", "BLOCKED"}
  PROVE  i \in Gated(contract) /\ results[i].decision = Settled(i)'
<1>1. /\ UNCHANGED <<contract, gateHash, verdict, results>> /\ pc = "acting"
  BY DEF ActionUnavailable, CeilingReached, Recover, PlansFor, Goto, laneVars
<1>2. i \in Gated(contract) /\ results[i].decision = Settled(i)
  <2>1. results # <<>>
    OBVIOUS
  <2> QED
    BY <1>1, <2>1 DEF DecisionsStand
<1>3. i \notin Gaps
  BY DEF Gaps
<1>4. CASE ActionUnavailable \/ CeilingReached
  <2>1. UNCHANGED store /\ shut \subseteq shut'
    BY <1>4 DEF ActionUnavailable, CeilingReached, laneVars
  <2> QED
    BY <1>1, <1>2, <2>1, ShutKeepsSettled
<1>5. CASE Recover
  <2>1. Attributed(store', i) = Attributed(store, i)
    BY <1>3, <1>5 DEF Recover, Attributed, RecoveredRecord
  <2>2. UNCHANGED shut
    BY <1>5 DEF Recover
  <2> QED
    BY <1>1, <1>2, <2>1, <2>2, SettledKept
<1> QED
  BY <1>2, <1>4, <1>5

\* Every step of a turn keeps the decisions it does not unmake.
LEMMA DecisionsStandStep == TypeOK /\ DecisionsStand /\ [Next]_vars => DecisionsStand'
<1> SUFFICES ASSUME TypeOK, DecisionsStand, [Next]_vars PROVE DecisionsStand'
  OBVIOUS
<1>1. CASE Lane
  <2>1. pc \in {"open", "worked", "ran", "failed", "passed"} /\ UNCHANGED results
        /\ pc' \in {"open", "worked", "ran", "failed", "passed", "ended"}
    BY <1>1 DEF Lane, Attempt, NoAttempt, RunVerifiers, Rehash, Retry, GiveUp,
      ReviewSkipped, ReviewPasses, ReviewSendsBack, ReviewBlocks, LaneEnds, Goto, gateVars
  <2> QED
    BY <2>1 DEF DecisionsStand
<1>2. CASE EnterGate
  BY <1>2 DEF EnterGate, Goto, DecisionsStand
<1>3. CASE Decide
  <2>1. UNCHANGED <<contract, store, gateHash, verdict, shut>> /\ pc' = "acting"
    BY <1>3 DEF Decide, Goto, laneVars
  <2>2. \A i : Settled(i)' = Settled(i)
    BY <2>1, SettledKept
  <2> QED
    BY <1>3, <2>1, <2>2, DecideSettles DEF DecisionsStand, Gated
<1>4. CASE GateDecides \/ GateHandsOver
  BY <1>4 DEF GateDecides, GateHandsOver, Goto, DecisionsStand
<1>5. CASE ActionUnavailable \/ CeilingReached \/ Recover
  <2>1. UNCHANGED <<contract, results>> /\ pc' = "deciding"
    BY <1>5 DEF ActionUnavailable, CeilingReached, Recover, Goto
  <2>2. ASSUME ~contract.jev, NEW i \in DOMAIN results
        PROVE  /\ i \in Gated(contract)
               /\ results[i].decision \in {"PASS", "BLOCKED"}
                    => results[i].decision = Settled(i)'
    <3>1. i \in Gated(contract)
      <4>1. results # <<>> /\ pc = "acting"
        BY <1>5, <2>2 DEF ActionUnavailable, CeilingReached, Recover, PlansFor
      <4> QED
        BY <2>2, <4>1 DEF DecisionsStand
    <3> QED
      BY <1>5, <2>2, <3>1, RoundLeavesOthers
  <2> QED
    BY <2>1, <2>2 DEF DecisionsStand
<1>6. CASE Edit \/ UNCHANGED vars
  <2>1. UNCHANGED <<contract, pc, store, gateHash, verdict, shut, results>>
    BY <1>6 DEF Edit, vars, laneVars, gateVars
  <2>2. \A i : Settled(i)' = Settled(i)
    BY <2>1, SettledKept
  <2> QED
    BY <2>1, <2>2 DEF DecisionsStand, Gated
<1>7. CASE NextTurn
  BY <1>7 DEF NextTurn, DecisionsStand
<1> QED
  BY <1>1, <1>2, <1>3, <1>4, <1>5, <1>6, <1>7 DEF Next, Gate

\* Without a client's opinion no recovery round unproves a sibling or takes up what
\* was given up (src/proof/gate.ts:381-436), whatever its verifier reports.
THEOREM SiblingsStayUndisturbed == Spec => SiblingsUndisturbed
<1>1. Init => TypeOK /\ DecisionsStand
  BY TypeInit DEF Init, DecisionsStand
<1>2. TypeOK /\ DecisionsStand /\ [Next]_vars => (TypeOK /\ DecisionsStand)'
  BY TypeStep, DecisionsStandStep
<1>3. TypeOK /\ DecisionsStand /\ [Next]_vars
        => [pc = "deciding" /\ pc' = "acting" /\ results # <<>> /\ ~contract.jev =>
              \A i \in DOMAIN results :
                results[i].decision \in {"PASS", "BLOCKED"} =>
                  results'[i].decision = results[i].decision]_vars
  <2> SUFFICES ASSUME DecisionsStand, Next, pc = "deciding", pc' = "acting",
                      results # <<>>, ~contract.jev, NEW i \in DOMAIN results,
                      results[i].decision \in {"PASS", "BLOCKED"}
               PROVE  results'[i].decision = results[i].decision
    OBVIOUS
  <2>1. Decide
    BY DEF Next, Lane, Gate, Attempt, NoAttempt, RunVerifiers, Rehash, Retry, GiveUp,
      ReviewSkipped, ReviewPasses, ReviewSendsBack, ReviewBlocks, LaneEnds, Goto, EnterGate,
      GateDecides, GateHandsOver, ActionUnavailable, CeilingReached, Recover, PlansFor,
      Edit, NextTurn
  <2>2. i \in Gated(contract) /\ results[i].decision = Settled(i)
    BY DEF DecisionsStand
  <2> QED
    BY <2>1, <2>2, DecideSettles
<1> QED
  BY <1>1, <1>2, <1>3, PTL DEF Spec, SiblingsUndisturbed
-----------------------------------------------------------------------------
\* What the mapping to the promise needs: a lane that ended has an outcome.
EndedHasOutcome ==
  pc \in {"ended", "deciding", "acting", "done"} => outcome \in {"completed", "blocked"}

\* Every step of a turn leaves the promise alone or is one of its own steps.
LEMMA StepKeepsPromise ==
  TypeOK /\ EndedHasOutcome /\ [Next]_vars
    => EndedHasOutcome' /\ [Promise!Next]_(Promise!vars)
<1> SUFFICES ASSUME TypeOK, EndedHasOutcome, [Next]_vars
             PROVE  EndedHasOutcome' /\ [Promise!Next]_(Promise!vars)
  OBVIOUS
<1> USE DEF EndedHasOutcome, Status, Promise!Next, Promise!vars, Promise!Work, Promise!Try,
            Promise!Verify, Promise!Fail, Promise!Complete, Promise!Block, Promise!Move,
            Promise!NextPrompt, Promise!Terminal
<1>1. CASE Attempt
  BY <1>1 DEF Attempt, AttemptLeft, Goto
<1>2. CASE NoAttempt
  BY <1>2 DEF NoAttempt, LaneEnds, Goto
<1>3. CASE RunVerifiers
  <2>1. pc = "worked" /\ pc' = "ran" /\ UNCHANGED <<contract, spent, outcome>>
    BY <1>3 DEF RunVerifiers, Goto
  <2> QED
    BY <2>1
<1>4. CASE Rehash
  <2>1. /\ pc = "ran" /\ pc' \in {"passed", "failed"}
        /\ UNCHANGED <<contract, spent, outcome>>
    BY <1>4 DEF Rehash, Goto, laneVars
  <2> QED
    BY <2>1
<1>5. CASE Retry \/ ReviewSendsBack
  BY <1>5 DEF Retry, ReviewSendsBack, Goto, laneVars
<1>6. CASE GiveUp \/ ReviewSkipped \/ ReviewPasses \/ ReviewBlocks
  BY <1>6 DEF GiveUp, ReviewSkipped, ReviewPasses, ReviewBlocks, LaneEnds, Goto
<1>7. CASE Gate
  <2>1. /\ pc \in {"ended", "deciding", "acting"} /\ pc' \in {"deciding", "acting", "done"}
        /\ UNCHANGED <<contract, spent, outcome>>
    BY <1>7 DEF Gate, EnterGate, Decide, GateDecides, GateHandsOver, ActionUnavailable,
      CeilingReached, Recover, PlansFor, Goto, laneVars
  <2> QED
    BY <2>1
<1>8. CASE Edit \/ UNCHANGED vars
  <2>1. UNCHANGED <<pc, contract, spent, outcome>>
    BY <1>8 DEF Edit, vars, laneVars
  <2> QED
    BY <2>1
<1>9. CASE NextTurn
  <2>1. contract' \in Contracts /\ pc = "done" /\ pc' = "open" /\ spent' = 0
    BY <1>9 DEF NextTurn
  <2>2. contract'.attempts \in {c.attempts : c \in Contracts}
    BY <2>1
  <2> QED
    BY <2>1, <2>2
<1> QED
  BY <1>1, <1>2, <1>3, <1>4, <1>5, <1>6, <1>7, <1>8, <1>9 DEF Next, Lane

\* The attempts of a proved turn are those of the bounded turn the executor lane
\* promises (src/commands/turn-lanes.ts): the safety part of AttemptsKeepPromise.
THEOREM TurnKeepsPromise == Spec => Promise!Init /\ [][Promise!Next]_(Promise!vars)
<1>1. Init => TypeOK /\ EndedHasOutcome /\ Promise!Init
  BY TypeInit DEF Init, EndedHasOutcome, Promise!Init, Status
<1>2. TypeOK /\ EndedHasOutcome /\ [Next]_vars
        => (TypeOK /\ EndedHasOutcome)' /\ [Promise!Next]_(Promise!vars)
  BY TypeStep, StepKeepsPromise
<1> QED
  BY <1>1, <1>2, PTL DEF Spec

=============================================================================
