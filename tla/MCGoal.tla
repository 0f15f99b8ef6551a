------------------------------- MODULE MCGoal -------------------------------
(* Instances of the goal engine for TLC: goals about a kind, about a kind, a *)
(* criterion and two questions, about a kind nobody can measure, and about   *)
(* nothing; the goal about a criterion alone is derived from the PRD.        *)
EXTENDS Goal, TLC

MCNames == {"targeted_test", "full_suite", "git_status", "browser_test"}

MCCanonical == [n \in MCNames |-> n]

MCDefaultScope == [k \in MCNames |-> IF k = "git_status" THEN "workspace" ELSE "none"]

MCGoals ==
  {[kinds |-> {{"targeted_test"}}, criteria |-> {}, semantic |-> 0],
   [kinds |-> {{"targeted_test"}}, criteria |-> {1}, semantic |-> 2],
   [kinds |-> {{"browser_test"}}, criteria |-> {}, semantic |-> 1],
   [kinds |-> {}, criteria |-> {}, semantic |-> 0]}

MCLimits == {[turns |-> 2, cost |-> 0], [turns |-> 0, cost |-> 1]}

MCRecord(kind, status, hash) ==
  [kind |-> kind, status |-> status, hash |-> hash, criterion |-> {1}, scope |-> "none"]

\* A failed turn, a verified one, one that passed and failed on the same state, and
\* one whose first attempt was measured on another state.
MCMeasured ==
  [h \in Contents |->
     {{MCRecord("targeted_test", "fail", h)},
      {MCRecord("targeted_test", "pass", h)},
      {MCRecord("targeted_test", "pass", h), MCRecord("full_suite", "fail", h)}} \union
     {{MCRecord("targeted_test", "fail", g), MCRecord("targeted_test", "pass", h)} :
        g \in Contents \ {h}}]

MCOneGoal == {[kinds |-> {{"targeted_test"}}, criteria |-> {}, semantic |-> 0]}
=============================================================================
