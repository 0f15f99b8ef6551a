---------------------------- MODULE RetryPolicy ----------------------------
(***************************************************************************)
(* The decisions of the executor's retry loop: what the policy table says  *)
(* about a failed attempt (src/executor/retry.ts), which escalation the    *)
(* deterministic ladder falls back to and what each escalation changes     *)
(* about the next attempt (src/executor/escalation.ts).  Pure operators:   *)
(* the loop that applies them is module Executor.                          *)
(*                                                                         *)
(* A history row keeps what a decision reads: the strategy the attempt ran *)
(* with and the signature of its failure.  Every row the loop appends      *)
(* carries a signature, so there is no row to filter out.                  *)
(***************************************************************************)
EXTENDS Naturals, Sequences

Strategies == {"same", "reassess", "escalate"}

WorkerRoles == {"quick", "balanced", "strong", "specialist"}

ReviewRoles == {"review_quick", "review_strong"}

Categories ==
  {"SWITCH_MODEL", "INCREASE_REASONING", "SWITCH_BACKEND", "GET_MORE_CONTEXT",
   "ENABLE_CAPABILITY", "STRONG_REVIEW", "USER_INPUT", "STOP_BLOCKED"}

HistoryRows(sigs) == [strategy : Strategies, sig : sigs]

\* Mutant: a repeated failure is not recorded again.
RecordNewFailures(history, how, sig) ==
  IF history # <<>> /\ history[Len(history)].sig = sig THEN history
  ELSE Append(history, [strategy |-> how, sig |-> sig])

\* recordAttempt: the row goes to the end of the history.
RecordAttempt(history, how, sig) ==
  Append(history, [strategy |-> how, sig |-> sig])

\* The previous failed attempt failed in the same way.
Repeats(history, sig) ==
  /\ history # <<>>
  /\ history[Len(history)].sig = sig

\* Two distinct strategies have failed already.
StrategiesExhausted(history) ==
  \E i, j \in DOMAIN history : history[i].strategy # history[j].strategy

\* nextAttempt.  spent: the attempt budget is used up; may: an escalation is
\* left; fresh: this failure came with evidence not seen before.
Rejects(history, sig, fresh, spent, may) ==
  \/ spent
  \/ Repeats(history, sig) /\ ~fresh /\ ~may

Escalates(history, sig, fresh, spent, may) ==
  /\ ~spent
  /\ may
  /\ IF Repeats(history, sig) THEN ~fresh ELSE StrategiesExhausted(history)

Decision(history, sig, fresh, spent, may) ==
  CASE Rejects(history, sig, fresh, spent, may)   -> "reject"
    [] Escalates(history, sig, fresh, spent, may) -> "escalate"
    [] OTHER                                      -> "retry"

\* quick -> balanced -> strong; strong is the top, and a role that is not on
\* the ladder steps to balanced.
StepRole(role) == IF role \in {"balanced", "strong"} THEN "strong" ELSE "balanced"

\* The ladder used when the decision site does not answer: one SWITCH_MODEL,
\* then STOP_BLOCKED.
FallbackCategory(history) ==
  IF \E i \in DOMAIN history : history[i].strategy = "escalate"
    THEN "STOP_BLOCKED" ELSE "SWITCH_MODEL"

\* The categories classifyEscalation can return: any of them when the site
\* answers, the ladder's when it does not.
PossibleCategories(history, jev) ==
  IF jev THEN Categories ELSE {FallbackCategory(history)}

\* escalate: what the chosen category does to the next attempt.
Continues(category) == category \notin {"USER_INPUT", "STOP_BLOCKED"}

NextRole(category, role) ==
  IF category = "SWITCH_MODEL" THEN StepRole(role) ELSE role

BackendsBurned(category, last) ==
  IF category = "SWITCH_BACKEND" THEN {last} ELSE {}

DirectiveOf(category) ==
  IF category \in {"SWITCH_MODEL", "SWITCH_BACKEND"} THEN "none" ELSE category
=============================================================================
