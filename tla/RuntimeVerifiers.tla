--------------------------- MODULE RuntimeVerifiers ---------------------------
(***************************************************************************)
(* The verifiers that run the task's program: what the contract declares   *)
(* for them (src/runtime/plan.ts, planner.ts), the process one is started  *)
(* in (proc.ts), and the verdicts (smoke.ts, cli.ts, browser.ts,           *)
(* screenshot.ts).                                                         *)
(*                                                                         *)
(* A program is a leader and the descendants of its process group; one     *)
(* that left the group may hold the leader's output open.  The browser is  *)
(* the host's: nothing says that a call of it is ever answered.            *)
(***************************************************************************)
EXTENDS Integers, FiniteSets

VARIABLE trial  \* the verification at work: [kind, at, leader, group, holder,
                \* outcome, verdict]

------------------------------------------------------------------ (* plan *)

Kinds == {"smoke", "cli", "browser", "screenshot"}

\* A declared block is kept as far as it is well formed; one that is malformed,
\* or names no check that can run, is an issue, which the configuration's loader
\* turns into an error and a contract's reader passes over.
ParseRuntimePlan(raw) ==
  [plan |-> {k \in Kinds : raw[k] \in {"partial", "complete"}}, issues |-> {k \in Kinds : raw[k] \in {"malformed", "partial"}}]

\* The declared surfaces; a classified gap adds none that is not declared.
SelectRuntimeVerifiers(raw, gap) ==
  LET plan == ParseRuntimePlan(raw).plan IN
  plan \union {k \in plan : \/ gap = "UI" /\ k \in {"browser", "screenshot"}
                            \/ gap = "RUNTIME" /\ k \in {"smoke", "cli"}}

----------------------------------------------------- (* the browser's two *)

\* page: [facility, loads, selectors, text, baseline, decodes, alike]
BrowserTest(raw, page) ==
  IF raw # "complete" THEN "not_run"
  ELSE IF ~page.facility THEN "unavailable"
  ELSE IF ~page.loads THEN "error"
  ELSE IF page.selectors /\ page.text THEN "pass" ELSE "fail"

ScreenshotCompare(raw, page) ==
  IF raw # "complete" THEN "not_run"
  ELSE IF ~page.baseline \/ ~page.facility THEN "unavailable"
  ELSE IF ~page.loads \/ ~page.decodes THEN "error"
  ELSE IF page.alike THEN "pass" ELSE "fail"

--------------------------------------------------------- (* the processes *)

Idle == [kind |-> "none", at |-> "idle", leader |-> FALSE, group |-> FALSE, holder |-> FALSE,
         outcome |-> "none", verdict |-> "none"]

Verdict(t, v) == [t EXCEPT !.at = "over", !.verdict = v]

RuntimeInit == trial = Idle

\* What the page will show is settled here, and seen when the page is driven.
StartBrowser(t, seen) ==
  IF seen \in {"not_run", "unavailable"} THEN Verdict(t, seen) ELSE [t EXCEPT !.at = "opening", !.outcome = seen]

\* The verifier reads its block and starts the program; a shell that cannot be
\* started has no process.
StartVerifier(kind, raw, page) ==
  /\ trial.at \in {"idle", "over"}
  /\ LET t == [Idle EXCEPT !.kind = kind] IN
     IF kind = "browser" THEN trial' = StartBrowser(t, BrowserTest(raw, page))
     ELSE IF kind = "screenshot" THEN trial' = StartBrowser(t, ScreenshotCompare(raw, page))
     ELSE IF raw # "complete" THEN trial' = Verdict(t, "not_run")
     ELSE \/ trial' = [t EXCEPT !.at = "waiting", !.leader = TRUE]
          \/ trial' = IF kind = "smoke" THEN Verdict(t, "error") ELSE [t EXCEPT !.at = "stopping", !.outcome = "exited"]

\* The tab opens, or the host refuses it one ...
TabOpens ==
  /\ trial.at = "opening"
  /\ trial' \in {[trial EXCEPT !.at = "driving"], Verdict(trial, "error")}

\* ... its page is loaded and asked, and a call of it may be rejected ...
PageIsDriven ==
  /\ trial.at = "driving"
  /\ \E outcome \in {trial.outcome, "error"} : trial' = [trial EXCEPT !.at = "closing", !.outcome = outcome]

\* ... and the verdict waits for the tab to be closed, or not to be.
TabCloses == trial.at = "closing" /\ trial' = Verdict(trial, trial.outcome)

\* The program starts others, in its group or out of it.
Forks ==
  /\ trial.leader
  /\ \/ trial' = [trial EXCEPT !.group = TRUE]
     \/ trial' = [trial EXCEPT !.holder = TRUE]

LeaderExits ==
  /\ trial.leader
  /\ trial' = [trial EXCEPT !.leader = FALSE, !.at = IF @ = "waiting" THEN "stopping" ELSE @,
                            !.outcome = IF @ = "none" THEN "exited" ELSE @]

\* The declared log line or port, seen while the program runs.
Readiness ==
  /\ trial.at = "waiting" /\ trial.kind = "smoke"
  /\ trial' = [trial EXCEPT !.at = "stopping", !.outcome = "ready"]

Deadline ==
  /\ trial.at = "waiting"
  /\ trial' = [trial EXCEPT !.at = "stopping", !.outcome = "timeout"]

\* KILL reaches the group whether its leader is there or not.
Terminated(t) == [t EXCEPT !.leader = FALSE, !.group = FALSE]

\* TERM, the grace, KILL; then a smoke test has its verdict.  An invocation's
\* output is drained first: a capture cut short certifies nothing.
Terminate ==
  /\ trial.at = "stopping"
  /\ LET t == Terminated(trial) IN
     IF trial.kind = "smoke" THEN trial' = Verdict(t, IF trial.outcome = "ready" THEN "pass" ELSE "fail")
     ELSE IF trial.outcome = "timeout" THEN trial' = Verdict(t, "fail")
     ELSE \E matches \in BOOLEAN :
            trial' = Verdict(t, IF trial.holder THEN "error" ELSE IF matches THEN "pass" ELSE "fail")

RuntimeEvents == TabOpens \/ PageIsDriven \/ TabCloses \/ Forks \/ LeaderExits \/ Readiness \/ Deadline \/ Terminate

\* No program outlives its verifier, and what passed was seen whole: a readiness
\* before the end, an output nobody was still writing.
VerdictsAreClean ==
  trial.at = "over" =>
    /\ ~trial.leader /\ ~trial.group
    /\ trial.verdict = "pass" /\ trial.kind = "smoke" => trial.outcome = "ready"
    /\ trial.verdict = "pass" /\ trial.kind = "cli" => ~trial.holder

=============================================================================
