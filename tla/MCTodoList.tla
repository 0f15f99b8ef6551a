------------------------------ MODULE MCTodoList ------------------------------
(* Two criteria, of which a direct turn's contract has the first: AC-1.        *)
EXTENDS TodoList, TLC

CONSTANTS ac1, ac2, user, tool

TwoCriteria == {ac1, ac2}
InOrder == (ac1 :> 1) @@ (ac2 :> 2)
UserAndTool == {user, tool}
OneUser == {user}
PrdLane == {"prd_lane"}
BothLanes == {"executor_lane", "prd_lane"}
NamedByPrd == [lane \in PrdLane |-> TwoCriteria]
NamedByBoth == [lane \in BothLanes |-> IF lane = "prd_lane" THEN TwoCriteria ELSE {ac1}]

===============================================================================
