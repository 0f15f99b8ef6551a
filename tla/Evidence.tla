------------------------------ MODULE Evidence ------------------------------
(***************************************************************************)
(* What evidence is and what it proves: the records a verification run     *)
(* produces (src/verify/evidence.ts, select.ts), how they aggregate        *)
(* (src/verify/aggregate.ts) and the proof gate's decision on a criterion  *)
(* (src/proof/packet.ts, decide.ts).  Pure operators over a set of         *)
(* records; the turn that produces and reads them is module ProofTurn.     *)
(*                                                                         *)
(* A record keeps what a decision reads.  A workspace hash is the content  *)
(* it identifies, and a set stands for the store's list: no decision reads *)
(* the order of two records or counts equal ones.                          *)
(***************************************************************************)
EXTENDS Naturals, FiniteSets

CONSTANTS
  Contents,      \* the workspace states
  Ids,           \* criterion ids, numbered in declaration order
  Names,         \* what a contract may call a verifier
  Canonical,     \* the verifier kind a name stands for
  Covered,       \* the kinds some gap category can run
  DefaultScope,  \* the surface of a kind, NoScope when it has none
  Scopes, NoScope

Kinds == {Canonical[n] : n \in Names}

ASSUME EvidenceAssumption ==
  /\ Ids \subseteq Nat
  /\ Canonical \in [Names -> Names]
  /\ \A k \in Kinds : Canonical[k] = k
  /\ "git_status" \in Kinds
  /\ "targeted_test" \in Kinds => "full_suite" \in Kinds
  /\ IsFiniteSet(Names)
  /\ Covered \subseteq Kinds \ {"NONE", "DIFF_INSPECTION_REQUIRED", "REVIEW_REQUIRED"}
  /\ DefaultScope \in [Kinds -> Scopes \union {NoScope}]

Results == {"pass", "fail", "error", "not_run", "unavailable"}

Records ==
  [kind : Kinds, status : Results, hash : Contents, criterion : SUBSET Ids,
   scope : Scopes \union {NoScope}]

Contract ==
  [required    : SUBSET Names,            \* verification.required
   criteria    : SUBSET Ids,              \* task.acceptance_criteria
   verifiers   : [Ids -> SUBSET Names],   \* verification.criteria, {} when the
   scope       : [Ids -> Scopes \union {NoScope}],    \* block lists none
   reviewed    : BOOLEAN,                 \* reviewer_class is not none
   attempts    : Nat, rounds : Nat, jev : BOOLEAN]
-----------------------------------------------------------------------------
Normalized(names) == {Canonical[n] : n \in names}

\* The criteria the verification block attributes a verifier to.
Block(c) == {i \in c.criteria : c.verifiers[i] # {}}

TaskLevelKinds == {"git_status", "workspace_hash"}

\* criteriaOf, and what the turn falls back to without a block: the contract's
\* own list, by the names the contract uses.
RequiredOf(c, i) ==
  IF Block(c) = {} THEN c.required
  ELSE Normalized(c.verifiers[i]) \intersect (Normalized(c.required) \union TaskLevelKinds)

\* criterionIdsFor: the criteria that declare a kind.
CriterionIdsFor(c, kind) == {i \in Block(c) : kind \in Normalized(c.verifiers[i])}

\* selectVerifiers: what the contract requires, the dirty proof, and the full
\* suite when the regression-scope decision widens a targeted run.
Selections(c) ==
  LET base == Normalized(c.required) \union {"git_status"} IN
  {base} \union IF "targeted_test" \in base THEN {base \union {"full_suite"}} ELSE {}

\* scopeFor: the kind's own surface, else what the first criterion declares.
RunScope(c, kind) ==
  LET declaring == {i \in CriterionIdsFor(c, kind) : c.scope[i] # NoScope} IN
  IF DefaultScope[kind] # NoScope \/ declaring = {} THEN DefaultScope[kind]
  ELSE c.scope[CHOOSE i \in declaring : \A j \in declaring : i <= j]

RunRecord(c, kind, status, hash) ==
  [kind |-> kind, status |-> status, hash |-> hash,
   criterion |-> CriterionIdsFor(c, kind), scope |-> RunScope(c, kind)]

\* Mutant: a recovered record is attributed to every criterion of the task.
RecoveredForAll(c, i, kind, status, hash) ==
  [kind |-> kind, status |-> status, hash |-> hash, criterion |-> c.criteria,
   scope |-> IF c.scope[i] # NoScope THEN c.scope[i] ELSE DefaultScope[kind]]

\* runVerifierRound: attributed to the criterion whose coverage was short.
RecoveredRecord(c, i, kind, status, hash) ==
  [kind |-> kind, status |-> status, hash |-> hash, criterion |-> {i},
   scope |-> IF c.scope[i] # NoScope THEN c.scope[i] ELSE DefaultScope[kind]]
-----------------------------------------------------------------------------
Fresh(records, hash) == {r \in records : r.hash = hash}

Stale(records, hash) == {r \in records : r.hash # hash}

Attributed(records, i) == {r \in records : i \in r.criterion}

\* aggregate: any stale record or failure decides, then any gap.
Aggregate(fresh, stale) ==
  IF stale # {} \/ \E r \in fresh : r.status \in {"fail", "error"}
    THEN "deterministic_failure"
  ELSE IF \E r \in fresh : r.status \in {"not_run", "unavailable"} THEN "incomplete"
  ELSE "pass"

\* Two records over one surface disagree.
Contradicts(records) ==
  \E p, f \in records : /\ p.status = "pass" /\ f.status = "fail"
                        /\ p.scope = f.scope /\ p.scope # NoScope

\* coverageOfPacket: the required kinds with no fresh pass of this criterion.
Unsatisfied(required, records) ==
  {k \in required : ~\E r \in records : r.kind = k /\ r.status = "pass"}

Covers(required, records) == required # {} /\ Unsatisfied(required, records) = {}

\* The four sufficiency answers, as far as the decision tells them apart.
Answers == {"demonstrated", "contradictory", "open"}

CoverageFallback(required, records) ==
  IF Contradicts(records) THEN "contradictory"
  ELSE IF Covers(required, records) THEN "demonstrated" ELSE "open"

Decisions == {"PASS", "FAILED", "MISSING_PROOF", "BLOCKED"}

\* decideCriterion.
DecideCriterion(required, fresh, stale, answer, reviewPassed, shut) ==
  LET status == Aggregate({r \in fresh : r.kind \in required}, stale) IN
  IF status = "deterministic_failure" \/ Contradicts(fresh) \/ answer = "contradictory"
    THEN "FAILED"
  ELSE IF status = "pass" /\ stale = {} /\ answer = "demonstrated" /\ reviewPassed
          /\ Covers(required, fresh)
    THEN "PASS"
  ELSE IF shut THEN "BLOCKED" ELSE "MISSING_PROOF"

\* foldTaskDecision: the worst of the criteria; nothing to prove is proved.
Fold(decisions) ==
  IF "FAILED" \in decisions THEN "FAILED"
  ELSE IF "MISSING_PROOF" \in decisions THEN "MISSING_PROOF"
  ELSE IF "BLOCKED" \in decisions THEN "BLOCKED" ELSE "PASS"
-----------------------------------------------------------------------------
\* The gap categories: one per kind the gate can run, the one without an
\* executor, NONE, and REVIEW_REQUIRED for those the gate leaves to others (a
\* review, an owner's confirmation, more context).
Category == Covered \union {"NONE", "DIFF_INSPECTION_REQUIRED", "REVIEW_REQUIRED"}

\* gapCategoryFallback: the first unsatisfied kind a category covers.  Contracts
\* list their kinds in any order, so any of them may be the first.
GapFallback(required, fresh) ==
  LET runnable == Unsatisfied(required, fresh) \intersect Covered IN
  IF runnable = {} THEN {"REVIEW_REQUIRED"} ELSE runnable

Cost(category) ==
  CASE category = "NONE"                              -> 0
    [] category \in {"build", "runtime_smoke"}        -> 2
    [] category \in {"full_suite", "browser_test"}    -> 3
    [] OTHER                                          -> 1

\* selectPlan's order on two gaps [id, category, short]: a check the criterion
\* declares first, then the fewest unsatisfied kinds, then the dearer action, then
\* the earlier declaration.  Mutant: measurability is not looked at.
PlansBeforeByCost(g, h) ==
  \/ Cardinality(g.short) < Cardinality(h.short)
  \/ /\ Cardinality(g.short) = Cardinality(h.short)
     /\ \/ Cost(g.category) > Cost(h.category)
        \/ Cost(g.category) = Cost(h.category) /\ g.id <= h.id

Measurable(g) == g.category \in Covered /\ g.category \in g.short

PlansBefore(g, h) ==
  \/ Measurable(g) /\ ~Measurable(h)
  \/ Measurable(g) = Measurable(h) /\ PlansBeforeByCost(g, h)
=============================================================================
