---------------------------- MODULE MCProofTurn ----------------------------
(* Instances of the proved turn for TLC: the contracts the compiler derives *)
(* with and without a test surface, and a set of two criteria.              *)
EXTENDS ProofTurn, TLC

MCNames ==
  {"typecheck", "affected_tests", "targeted_test", "full_suite", "git_status",
   "browser_test", "screenshot"}

MCCanonical ==
  [n \in MCNames |-> IF n = "affected_tests" THEN "targeted_test" ELSE n]

MCCovered == {"typecheck", "targeted_test", "full_suite", "browser_test"}

MCDefaultScope ==
  [k \in MCNames \ {"affected_tests"} |->
     CASE k = "typecheck" -> "src" [] k = "full_suite" -> "tests"
       [] k = "git_status" -> "workspace" [] OTHER -> "none"]

\* A command passes or fails; a runtime facility may be missing.
MCOutcomes ==
  [k \in MCNames \ {"affected_tests"} |->
     CASE k \in {"typecheck", "targeted_test", "full_suite"} -> {"pass", "fail"}
       [] k = "git_status" -> {"pass"}
       [] k = "browser_test" -> {"pass", "fail", "unavailable"}
       [] k = "screenshot" -> {"pass", "unavailable"}]

MCContract(required, verifiers, surface, reviewed, attempts, n, jev) ==
  [required |-> required, criteria |-> DOMAIN verifiers,
   verifiers |-> [i \in Ids |-> IF i \in DOMAIN verifiers THEN verifiers[i] ELSE {}],
   scope |-> [i \in Ids |-> surface], reviewed |-> reviewed,
   attempts |-> attempts, rounds |-> n, jev |-> jev]

\* A LOW task with and without a test surface, a direct task with a configured
\* test command, two pairs of criteria, and one the client is asked about.
MCContracts ==
  {MCContract({"typecheck"}, 1 :> {}, "none", FALSE, 2, 0, FALSE),
   MCContract({"affected_tests"}, 1 :> {"affected_tests"}, "parse", TRUE, 2, 1, FALSE),
   MCContract({"typecheck", "affected_tests"}, 1 :> {}, "none", TRUE, 1, 2, FALSE),
   MCContract({"affected_tests", "browser_test"},
              1 :> {"affected_tests"} @@ 2 :> {"browser_test"}, "parse", FALSE, 1, 1, FALSE),
   MCContract({"screenshot", "browser_test"},
              1 :> {"screenshot"} @@ 2 :> {"browser_test", "screenshot"},
              "none", FALSE, 1, 2, FALSE),
   MCContract({"affected_tests"}, 1 :> {"affected_tests"}, "parse", FALSE, 1, 1, TRUE)}
=============================================================================
