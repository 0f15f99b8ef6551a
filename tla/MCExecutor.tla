---------------------------- MODULE MCExecutor ----------------------------
(* Instances of the executor lane for TLC: two backends, the contracts the  *)
(* compiler derives for the three complexities, and an operator's zero.     *)
EXTENDS Executor, TLC

CONSTANTS any, bound, f1, f2, s1, s2, k1, k2

MCBackends == {any, bound}

\* A pool-wide backend, and one bound to the cheaper roles.
MCBoundRoles == any :> <<>> @@ bound :> <<"quick", "balanced", "review_quick">>

MCModelRoles == any :> <<"strong">> @@ bound :> <<"quick", "balanced">>

MCPriority == any :> 10 @@ bound :> 0

MCDeclaredAt == any :> 0 @@ bound :> 1

MCContract(n, escalations, rounds, wanted, reviewer, jev) ==
  [attempts |-> n, escalations |-> escalations, rounds |-> rounds,
   role |-> wanted, reviewer |-> reviewer, jev |-> jev]

\* LOW without a client, MEDIUM, HIGH, and an operator's explicit zeros.
MCContracts ==
  {MCContract(2, 1, 0, "quick", "none", FALSE),
   MCContract(3, 2, 1, "balanced", "review_quick", TRUE),
   MCContract(3, 2, 2, "strong", "review_strong", FALSE),
   MCContract(0, 2, 1, "balanced", "review_quick", TRUE),
   MCContract(3, 0, 0, "quick", "none", FALSE)}
============================================================================
