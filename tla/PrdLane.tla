------------------------------- MODULE PrdLane -------------------------------
(***************************************************************************)
(* The PRD lane (src/prd): the commands that author and close a plan, the  *)
(* state file that holds the active one, and the manager a turn opens on   *)
(* it, which keeps the plan in memory and writes the whole of it back at   *)
(* every change.  A process may stop between the truncation and the write  *)
(* of the file.                                                            *)
(*                                                                         *)
(* The manager's callers (in this repository, its tests) await one call    *)
(* before the next; the product opens the manager and calls nothing of it. *)
(*                                                                         *)
(* A plan of the PRD lane (src/prd) as data: what an authored document is  *)
(* accepted for, the work units its phases become, the unit that is next,  *)
(* and the evidence that decides a criterion.                              *)
(*                                                                         *)
(* A draft is what the parsers read off a Markdown document: the required  *)
(* sections that are missing, its criteria [id, command], command FALSE    *)
(* for one that names none, and its phases [number, acs, deps]: what a     *)
(* phase refers to are sets.  A plan keeps its criteria and its units at   *)
(* the places they have in the document.                                   *)
(***************************************************************************)
EXTENDS Integers, FiniteSets

---------------------------------------------------------- (* the author *)

Named(draft, command) == {i \in DOMAIN draft.criteria : draft.criteria[i].command = command}

Acceptable(draft) == draft.missing = {} /\ Named(draft, FALSE) = {}

\* One pass, and one more for what the first one lacked.
Authored(first, second) == IF Acceptable(first) THEN first ELSE second

\* What is still without a command after it is dropped and named as a gap; a
\* section still missing, or no criterion left, and nothing is written.
Writable(draft) == draft.missing = {} /\ Named(draft, TRUE) # {}

-------------------------------------------------------------- (* parsing *)

\* The first of some places.
First(places) == CHOOSE i \in places : \A j \in places : i <= j

Ids(criteria) == {criteria[i].id : i \in DOMAIN criteria}

\* A phase as a unit: the criteria it names that exist, the units it waits for.
UnitOf(phase, criteria) ==
  [number |-> phase.number, deps |-> phase.deps, level |-> "quick", criteria |-> phase.acs \intersect Ids(criteria)]

\* A document without phases is one unit of everything.
DeclaredUnits(draft, criteria) ==
  IF draft.phases = <<>>
    THEN <<[number |-> 1, deps |-> {}, level |-> "quick", criteria |-> Ids(criteria)]>>
    ELSE [i \in DOMAIN draft.phases |-> UnitOf(draft.phases[i], criteria)]

\* A criterion no phase names rides the first unit, and a dependency that names
\* no unit is dropped.
Completed(units, criteria) ==
  LET unclaimed == Ids(criteria) \ UNION {units[i].criteria : i \in DOMAIN units}
      numbers   == {units[i].number : i \in DOMAIN units}
      Riding(i) == IF i = 1 THEN unclaimed ELSE {}
  IN  [i \in DOMAIN units |-> [units[i] EXCEPT !.criteria = @ \union Riding(i), !.deps = @ \intersect numbers]]

ParseWorkUnits(draft, criteria) == Completed(DeclaredUnits(draft, criteria), criteria)

\* The state of a new plan: every criterion that has a command is open.
CreatePrdState(id, draft) ==
  LET criteria == [i \in Named(draft, TRUE) |-> [id |-> draft.criteria[i].id, status |-> "PENDING"]] IN
  [id |-> id, closed |-> FALSE, routed |-> {}, criteria |-> criteria, units |-> ParseWorkUnits(draft, criteria)]

--------------------------------------------------------------- (* units *)

\* The first criterion of an id is the one every lookup finds.
CriterionOf(plan, id) == First({i \in DOMAIN plan.criteria : plan.criteria[i].id = id})

StatusOf(plan, id) == plan.criteria[CriterionOf(plan, id)].status

IsComplete(plan, unit) == \A id \in unit.criteria : StatusOf(plan, id) = "VERIFIED"

\* A number stands for the first unit that has it.
IsReady(plan, unit) ==
  \A n \in unit.deps :
    LET named == {i \in DOMAIN plan.units : plan.units[i].number = n} IN
    named # {} /\ IsComplete(plan, plan.units[First(named)])

Dispatchable(plan) == {i \in DOMAIN plan.units : ~IsComplete(plan, plan.units[i]) /\ IsReady(plan, plan.units[i])}

Requeued(plan) == {i \in Dispatchable(plan) : \E id \in plan.units[i].criteria : StatusOf(plan, id) = "REOPENED"}

\* The unit to work on, at most one: a unit with a disproved criterion before
\* fresh work, else the first that is ready.
NextUnit(plan) ==
  LET ready == IF Requeued(plan) # {} THEN Requeued(plan) ELSE Dispatchable(plan) IN
  IF ready = {} THEN {} ELSE {plan.units[First(ready)]}

\* The executor class the unit's required capability routes it to.
Route(plan, unit) ==
  [plan EXCEPT !.routed = {r \in @ : r.number # unit.number} \union {[number |-> unit.number, level |-> unit.level]}]

SetRequiredCapability(plan, level) ==
  [plan EXCEPT !.units = [i \in DOMAIN @ |-> [@[i] EXCEPT !.level = level]]]

\* What the goal engine and the todo list are handed.
DeriveGoal(plan) == {i \in DOMAIN plan.criteria : plan.criteria[i].status # "VERIFIED"}

\* The only writer of a criterion's status.
TransitionCriterion(plan, id, status) == [plan EXCEPT !.criteria[CriterionOf(plan, id)].status = status]

------------------------------------------------------------ (* evidence *)

\* A record [status, tree, about]: the tree it was made on, and the criteria it
\* is attributed to, none of them meaning all.
Covers(record, id) == record.about = {} \/ id \in record.about

\* ran: the criteria whose command is on the attempt's list; none when there is
\* no list, and then the record's own attribution decides.
CommandRan(record, id, ran) == IF ran # {} THEN id \in ran ELSE id \in record.about

IsFreshPass(record, id, tree, ran) ==
  record.status = "pass" /\ record.tree = tree /\ Covers(record, id) /\ CommandRan(record, id, ran)

IsFailing(record, id) == record.status \in {"fail", "error"} /\ Covers(record, id)

\* What the deterministic rule makes of the records: a failure reopens at once.
Assess(records, id, tree, ran) ==
  IF \E r \in records : IsFailing(r, id) THEN "FAILED"
  ELSE IF \E r \in records : IsFreshPass(r, id, tree, ran) THEN "SATISFIED"
  ELSE IF records = {} THEN "INSUFFICIENT_EVIDENCE" ELSE "NOT_SATISFIED"

StatusFor(verdict) == IF verdict = "SATISFIED" THEN "VERIFIED" ELSE "PENDING"

----------------------------------------------------------- (* the state *)

CONSTANTS
  Drafts,       \* the documents an authoring model may write
  Capabilities, \* the capability levels a plan may be set to
  MaxId         \* plans written in a behavior

VARIABLES
  active,   \* the plans in docs/PRDs/v1, by number
  done,     \* the plans moved to done/
  stored,   \* the state file: a set of at most one plan
  memory,   \* the open manager's copy of the plan, a set of at most one
  asked     \* the decision it waits for: a set of at most one [id, rule]

vars == <<active, done, stored, memory, asked>>

Init ==
  /\ active \in SUBSET {1} /\ done \in SUBSET {2}
  /\ stored = {} /\ memory = {} /\ asked = {}

------------------------------------------------------------ (* commands *)

Greatest(numbers) == IF numbers = {} THEN 0 ELSE CHOOSE n \in numbers : \A m \in numbers : m <= n

\* Mutant: the archive is not looked at.
AllocateAmongActive(here, archived) == Greatest(here) + 1

\* Closed plans keep their numbers.
AllocatePrdId(here, archived) == Greatest(here \union archived) + 1

\* /prd create: the plan it writes becomes the active one, whatever was.
Create ==
  /\ AllocatePrdId(active, done) <= MaxId
  /\ \E first, second \in Drafts :
       LET draft == Authored(first, second)
           id    == AllocatePrdId(active, done)
       IN  /\ Writable(draft)
           /\ active' = active \union {id}
           /\ stored' = {CreatePrdState(id, draft)}
  /\ UNCHANGED <<done, memory, asked>>

\* /prd close without the installed helper: refused while a criterion is open or
\* the archive holds a plan of that number; a plan that is already moved is
\* recorded again.
Close ==
  /\ \E plan \in stored :
       /\ DeriveGoal(plan) = {}
       /\ plan.id \in active => plan.id \notin done
       /\ active' = active \ {plan.id}
       /\ done' = IF plan.id \in active THEN done \union {plan.id} ELSE done
       /\ stored' = {[plan EXCEPT !.closed = TRUE]}
  /\ UNCHANGED <<memory, asked>>

\* With the helper, which moves the plan itself; it may fail and leave all.
CloseByHelper ==
  /\ \E plan \in stored :
       /\ DeriveGoal(plan) = {} /\ plan.id \in active \ done
       /\ active' = active \ {plan.id}
       /\ done' = done \union {plan.id}
       /\ stored' = {[plan EXCEPT !.closed = TRUE]}
  /\ UNCHANGED <<memory, asked>>

\* The process stops inside a write: a torn file reads as none.
Crash ==
  /\ stored' = {} /\ memory' = {} /\ asked' = {}
  /\ UNCHANGED <<active, done>>

------------------------------------------------------------ (* the lane *)

\* A turn classified into the lane opens a manager on the stored plan, if any.
OpenLane ==
  /\ asked = {} /\ memory # stored
  /\ memory' = stored
  /\ UNCHANGED <<active, done, stored, asked>>

\* Mutant: the disproved status stays in memory.
KeptInMemory(plan) == memory' = {plan} /\ UNCHANGED stored

\* Every change of the manager writes its whole memory.
Saved(plan) == memory' = {plan} /\ stored' = {plan}

\* The next unit is routed (and the decision recorded) and handed out.
Dispatch ==
  /\ asked = {}
  /\ \E plan \in memory : \E unit \in NextUnit(plan) : Saved(Route(plan, unit))
  /\ UNCHANGED <<active, done, asked>>

SetCapability ==
  /\ asked = {}
  /\ \E plan \in memory, level \in Capabilities : Saved(SetRequiredCapability(plan, level))
  /\ UNCHANGED <<active, done, asked>>

\* The records an attempt can come with: none, or one of any status, of this
\* tree or of an earlier one, attributed to this criterion, to none or to others.
Records(id) ==
  {{}} \union {{r} : r \in [status : {"pass", "fail", "error", "skipped"}, tree : {"now", "before"},
                               about : {{}, {id}, {0}}]}

Assessments(id) == {Assess(records, id, "now", ran) : records \in Records(id), ran \in {{}, {id}, {0}}}

\* applyEvidence: a failing record is written at once, the rest is decided by
\* the criterion's site, or by the rule when there is none.
Reopen ==
  /\ asked = {}
  /\ \E plan \in memory : \E id \in Ids(plan.criteria) :
       /\ "FAILED" \in Assessments(id)
       /\ Saved(TransitionCriterion(plan, id, "REOPENED"))
  /\ UNCHANGED <<active, done, asked>>

Ask ==
  /\ asked = {}
  /\ \E plan \in memory : \E id \in Ids(plan.criteria) : \E rule \in Assessments(id) \ {"FAILED"} :
       asked' = {[id |-> id, rule |-> rule]}
  /\ UNCHANGED <<active, done, stored, memory>>

\* The site's word, or the rule's when JEV is off or unreachable.  Whatever
\* happened since the records were weighed, it is written.
Decide ==
  /\ \E q \in asked, plan \in memory :
     \E verdict \in {q.rule, "SATISFIED", "NOT_SATISFIED", "INSUFFICIENT_EVIDENCE"} :
       Saved(TransitionCriterion(plan, q.id, StatusFor(verdict)))
  /\ asked' = {}
  /\ UNCHANGED <<active, done>>

Next ==
  \/ Create \/ Close \/ CloseByHelper \/ Crash \/ OpenLane \/ Dispatch
  \/ SetCapability \/ Reopen \/ Ask \/ Decide

Spec == Init /\ [][Next]_vars

---------------------------------------------------------- (* properties *)

Plan(p) ==
  /\ p.id \in 1 .. MaxId /\ p.closed \in BOOLEAN
  /\ \A i \in DOMAIN p.criteria : p.criteria[i].status \in {"PENDING", "VERIFIED", "REOPENED"}
  /\ \A i \in DOMAIN p.units : p.units[i].criteria \subseteq Ids(p.criteria)

TypeOK ==
  /\ active \subseteq 1 .. MaxId /\ done \subseteq 1 .. MaxId
  /\ \A held \in {stored, memory, asked} : \A p, q \in held : p = q
  /\ \A p \in stored \union memory : Plan(p)
  /\ asked # {} => memory # {}

\* A plan is never lost and its number never given twice: over creates, closes
\* and crashes a document is active or archived for good, is in one place only,
\* and a new one has a number no other ever had (allocatePrdId, moveToDone).
PlansAreKept ==
  [][ /\ active \union done \subseteq active' \union done'
      /\ active' \intersect done' = {}
      /\ \A n \in active' \ active : n \notin done ]_vars

\* Units of which each waits for another of them, or for itself.
Circular(plan) ==
  \E units \in SUBSET DOMAIN plan.units :
    /\ units # {}
    /\ \A i \in units : \E j \in units : plan.units[j].number \in plan.units[i].deps

\* The lane does not stall: as long as a criterion is open some unit can be
\* worked on, though phases name criteria that do not exist, leave others
\* unnamed and wait for phases that were never written, and though a criterion
\* of a finished unit was disproved since.  (Units waiting for each other in a
\* circle do stall, and so does a criterion whose id another one shares.)
NothingStalls ==
  \A plan \in memory :
    /\ ~Circular(plan)
    /\ \A i, j \in DOMAIN plan.criteria : plan.criteria[i].id = plan.criteria[j].id => i = j
    => (NextUnit(plan) = {} <=> DeriveGoal(plan) = {})

\* What the manager decided is on disk: while the file holds the plan it was
\* opened on, the two agree but for the closure, so that a turn, the goal and
\* the todo list read every status that was decided (save after each path).
StatusIsOnDisk ==
  /\ TypeOK
  /\ \A p \in memory, s \in stored :
       p.id = s.id => [p EXCEPT !.closed = s.closed] = s

=============================================================================
