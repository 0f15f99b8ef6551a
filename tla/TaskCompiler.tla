---------------------------- MODULE TaskCompiler ----------------------------
(***************************************************************************)
(* The task compiler (src/compiler) on the scout's packet (src/scout): the *)
(* planning gate, the complexity, capability and review-risk classifiers,  *)
(* the routing matrix, the session's floor and pins, and the contract.     *)
(*                                                                         *)
(* A request is what the deterministic rules read off its words and its    *)
(* packet: words, the set of markers that match, and the facts of the      *)
(* workspace.  A reply is what one decision site came back with: how it    *)
(* ended, which of its questions were answered yes, whether an answer is   *)
(* missing and whether all are confident enough.                           *)
(***************************************************************************)
EXTENDS Integers, FiniteSets, SequencesExt

CONSTANT
  PacketLimit     \* the entries of a list a packet over its ceiling keeps

------------------------------------------------------------ (* the scout *)

\* A list of two entries or more is cut to the limit (to all but one of its
\* entries when it is shorter), and one marker stands for what was dropped.
Truncated(list) ==
  LET keep == IF Len(list) <= PacketLimit THEN Len(list) - 1 ELSE PacketLimit IN
  IF Len(list) <= 1 THEN list ELSE Append(SubSeq(list, 1, keep), "more")

\* The packet of a request: the changed files, the modules they and the request
\* name.  cuts is how many lists are cut, in this order, before it fits.
ScoutTask(ask, workspace, cuts) ==
  LET changed == IF cuts >= 1 THEN Truncated(workspace.changed) ELSE workspace.changed
      named   == workspace.modules \o ask.names
      modules == IF cuts >= 2 THEN Truncated(named) ELSE named
  IN  [words |-> ask.words, changed |-> Len(changed), modules |-> Len(modules),
       runner |-> workspace.runner, tests |-> "test" \in ToSet(changed)]

------------------------------------------------------------- (* replies *)

\* A site's reply is read as an answer only when no site fell back while it was
\* asked, itself or (the count is shared) another.
Replies(questions) ==
  [end : {"threw", "fellback", "answered"}, yes : SUBSET questions,
   missing : BOOLEAN, sure : BOOLEAN]

Answered(reply) == reply.end = "answered"

Said(reply, question) == question \in reply.yes

---------------------------------------------------------------- (* gate *)

GateQuestions == {"architecture", "multi_behavior", "multi_stage", "localized", "ambiguous"}

MultiModule(packet) == packet.modules > 1 \/ packet.changed > 3

Confined(packet) == packet.changed <= 2 /\ packet.modules <= 1

\* The fallback of the gate: uncertain work gets a plan.
HeuristicGate(packet) ==
  [prd |-> \/ "architectural" \in packet.words
           \/ ~Confined(packet)
           \/ "ambiguous" \in packet.words,
   elevate |-> FALSE, confident |-> FALSE, asked |-> FALSE]

ConfidentGate(reply) ==
  [prd |-> \E q \in {"architecture", "multi_behavior", "multi_stage"} : Said(reply, q),
   elevate |-> FALSE, confident |-> TRUE, asked |-> TRUE]

\* An unsure gate: risky work gets a plan, the rest a stronger review.
UnsureGate(packet, reply) ==
  LET bounded  == Said(reply, "localized") /\ ~Said(reply, "architecture") /\ ~Said(reply, "multi_stage")
      highRisk == ~bounded \/ "architectural" \in packet.words \/ MultiModule(packet)
  IN  [prd |-> highRisk, elevate |-> ~highRisk, confident |-> FALSE, asked |-> TRUE]

\* Confident answers that settle the question one way or the other.
Settles(reply) ==
  /\ ~reply.missing /\ reply.sure
  /\ \/ ConfidentGate(reply).prd
     \/ Said(reply, "localized") /\ ~Said(reply, "ambiguous")

RunGate(packet, reply) ==
  IF ~Answered(reply) THEN HeuristicGate(packet)
  ELSE IF Settles(reply) THEN ConfidentGate(reply)
  ELSE UnsureGate(packet, reply)

\* A request that names its plan is not gated.
PlannedGate == [prd |-> FALSE, elevate |-> FALSE, confident |-> TRUE, asked |-> FALSE]

---------------------------------------------------------- (* complexity *)

BandQuestions == {"concurrency_perf", "unfamiliar_coupled", "several_modules", "explicit_result", "mechanical"}

HeuristicBand(packet) ==
  IF "concurrency" \in packet.words THEN "E3"
  ELSE IF "several" \in packet.words \/ packet.modules > 1 \/ "mechanical" \notin packet.words THEN "E2"
  ELSE IF packet.changed <= 6 THEN "E0" ELSE "E1"

\* Unsure of some questions, a keyword alone does not make a task hard.
PartialAnswerBand(packet) ==
  IF HeuristicBand(packet) = "E3" THEN "E2" ELSE HeuristicBand(packet)

AnsweredBand(reply) ==
  IF Said(reply, "concurrency_perf") \/ Said(reply, "unfamiliar_coupled") THEN "E3"
  ELSE IF Said(reply, "several_modules") \/ ~Said(reply, "explicit_result") THEN "E2"
  ELSE IF Said(reply, "mechanical") THEN "E0" ELSE "E1"

\* The fallback answers every question, so only a client that answered in part
\* is missing one.
ClassifyExecution(packet, reply) ==
  IF reply.end = "threw" THEN HeuristicBand(packet)
  ELSE IF reply.missing THEN PartialAnswerBand(packet)
  ELSE IF ~Answered(reply) \/ ~reply.sure THEN HeuristicBand(packet)
  ELSE AnsweredBand(reply)

ComplexityByBand == [E0 |-> "LOW", E1 |-> "LOW", E2 |-> "MEDIUM", E3 |-> "HIGH"]

IndexByBand == [E0 |-> 30, E1 |-> 45, E2 |-> 65, E3 |-> 88]
IndexByLevel == <<30, 55, 75, 92>>

\* The floor a model has to clear: by the answered level, else by the band.
RequiredIndex(band, reply, level) ==
  IF Answered(reply) /\ reply.sure /\ ~reply.missing THEN IndexByLevel[level] ELSE IndexByBand[band]

---------------------------------------------------------------- (* risk *)

RiskQuestions == {"alters_visible", "wide_blast", "deterministic_sufficient"}

\* The three signals as the packet shows them.
RiskSignals(packet) ==
  (IF "visible" \in packet.words THEN {"alters_visible"} ELSE {}) \union
  (IF ~Confined(packet) \/ (~packet.runner /\ packet.changed > 0) THEN {"wide_blast"} ELSE {}) \union
  (IF packet.runner /\ Confined(packet) /\ ~packet.tests THEN {"deterministic_sufficient"} ELSE {})

\* R0 to R3: the signals counted, at the top for security and migrations, one
\* higher when the gate asked for it.
RiskFromSignals(signals, secure, elevate) ==
  LET count == Cardinality(signals \intersect {"alters_visible", "wide_blast"})
               + (IF "deterministic_sufficient" \in signals THEN 0 ELSE 1)
      level == IF secure THEN 3 ELSE count
  IN  IF elevate /\ level < 3 THEN level + 1 ELSE level

\* Security is read off the request whatever the site says.
ClassifyReviewRisk(packet, reply, elevate) ==
  LET signals == IF Answered(reply) /\ reply.sure THEN reply.yes ELSE RiskSignals(packet) IN
  RiskFromSignals(signals, "secure" \in packet.words, elevate)

-------------------------------------------------------------- (* routing *)

Classes == {"quick", "balanced", "strong", "specialist"}

Reviewers == {"none", "review_quick", "review_strong"}

ReviewerByRisk == <<"none", "review_quick", "review_quick", "review_strong">>

\* The matrix of section 14.
MatrixDefault(prd, complexity, risk) ==
  [executor |-> [LOW |-> "quick", MEDIUM |-> "balanced", HIGH |-> "strong"][complexity],
   reviewer |-> IF complexity = "HIGH" \/ (prd /\ complexity = "MEDIUM") THEN "review_strong"
                ELSE IF prd \/ complexity = "MEDIUM" THEN "review_quick"
                ELSE ReviewerByRisk[risk + 1]]

Ladder ==
  [quick      |-> <<"balanced", "strong", "specialist">>,
   balanced   |-> <<"quick", "strong", "specialist">>,
   strong     |-> <<"balanced", "quick", "specialist">>,
   specialist |-> <<"balanced", "quick", "strong">>]

\* A class nothing here can run is replaced by the first of its ladder that can.
ApplyDeviations(routing, unavailable) ==
  LET ladder == Ladder[routing.executor]
      usable == {i \in DOMAIN ladder : ladder[i] \notin unavailable}
  IN  IF routing.executor \notin unavailable \/ usable = {} THEN routing
      ELSE [routing EXCEPT !.executor = ladder[Min(usable)]]

------------------------------------------------------------- (* the pins *)

\* What no operator pinned and no turn recorded.
Unset == "unset"

NoPins == [executor |-> Unset, reviewer |-> Unset, prd |-> Unset, floor |-> Unset]

Rank == [quick |-> 0, balanced |-> 1, strong |-> 2, specialist |-> 2]

HigherClass(routed, floor) ==
  IF floor # Unset /\ Rank[floor] > Rank[routed] THEN floor ELSE routed

PinnedDecision(prd, pins) == IF pins.prd = Unset THEN prd ELSE pins.prd = "force"

ApplyExecutorFloor(routing, pins) ==
  [routing EXCEPT !.executor = HigherClass(routing.executor, pins.floor)]

ApplyRoutePins(routing, pins) ==
  [executor |-> IF pins.executor = Unset THEN routing.executor ELSE pins.executor,
   reviewer |-> IF pins.reviewer = Unset THEN routing.reviewer ELSE pins.reviewer]

\* Mutant: the first turn decides for good.
RecordFirstClass(pins, class) ==
  IF pins.executor # Unset \/ pins.floor # Unset THEN pins ELSE [pins EXCEPT !.floor = class]

\* The floor rises to an Auto turn's class; a pinned class is not a decision.
RecordExecutorFloor(pins, class) ==
  IF pins.executor # Unset THEN pins ELSE [pins EXCEPT !.floor = HigherClass(class, pins.floor)]

--------------------------------------------------------- (* the contract *)

AttemptsByComplexity    == [LOW |-> 2, MEDIUM |-> 3, HIGH |-> 4]
EscalationsByComplexity == [LOW |-> 1, MEDIUM |-> 2, HIGH |-> 2]

ReviewRounds == [none |-> 0, review_quick |-> 1, review_strong |-> 2]

\* No check is demanded that no surface can name: the targeted tests only when
\* a test file changed or the configured command needs none.
RequiredVerifiers(complexity, packet, scopeFree) ==
  {"typecheck"}
    \union (IF packet.tests \/ scopeFree THEN {"affected_tests"} ELSE {})
    \union (IF complexity = "HIGH" THEN {"full_suite"} ELSE {})

\* The contract of a request whose sites came back with these outcomes.  The
\* class it was classed at is kept beside the one it is routed to: a deviation
\* names it, and the floor rises to it.
CompileTask(packet, gate, risk, band, index, pins, unavailable, scopeFree) ==
  LET complexity == ComplexityByBand[band]
      prd        == PinnedDecision(gate.prd, pins)
      classed    == ApplyExecutorFloor(MatrixDefault(prd, complexity, risk), pins)
      deviated   == ApplyDeviations(classed, unavailable)
      routing    == ApplyRoutePins(deviated, pins)
  IN  [prd |-> prd, confident |-> gate.confident, asked |-> gate.asked,
       complexity |-> complexity, risk |-> risk, index |-> index,
       executor |-> routing.executor, reviewer |-> routing.reviewer,
       classed |-> IF deviated = classed THEN routing.executor ELSE classed.executor,
       verifiers |-> RequiredVerifiers(complexity, packet, scopeFree),
       attempts |-> AttemptsByComplexity[complexity],
       escalations |-> EscalationsByComplexity[complexity],
       rounds |-> ReviewRounds[routing.reviewer]]

=============================================================================
