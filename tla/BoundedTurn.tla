---------------------------- MODULE BoundedTurn ----------------------------
(***************************************************************************)
(* What a turn of the executor lane promises, with none of its machinery:  *)
(* work is done in attempts, an attempt is paid for before it runs and     *)
(* there are no more of them than the contract allows, a turn completes    *)
(* only from an attempt whose change was verified, and it ends.            *)
(***************************************************************************)
EXTENDS Naturals

CONSTANT Limits  \* the attempt limits contracts declare

VARIABLES status, spent, limit

vars == <<status, spent, limit>>

Terminal == {"completed", "blocked"}

Statuses == {"open", "trying", "verified"} \union Terminal

Init == status = "open" /\ spent = 0 /\ limit \in Limits

Try ==
  /\ status = "open"
  /\ spent < limit
  /\ spent' = spent + 1
  /\ status' = "trying"
  /\ UNCHANGED limit

Move(from, to) ==
  /\ status \in from
  /\ status' = to
  /\ UNCHANGED <<spent, limit>>

Verify == Move({"trying"}, "verified")

Fail == Move({"trying", "verified"}, "open")

Complete == Move({"verified"}, "completed")

Block == Move({"open", "trying", "verified"}, "blocked")

Work == Try \/ Verify \/ Fail \/ Complete \/ Block

NextPrompt ==
  /\ status \in Terminal
  /\ status' = "open"
  /\ spent' = 0
  /\ limit' \in Limits

Next == Work \/ NextPrompt

Spec == Init /\ [][Next]_vars /\ WF_vars(Work)
=============================================================================
