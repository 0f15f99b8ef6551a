------------------------------- MODULE MCContext -------------------------------
(* Four files of two subsystems, three texts, short batches and loads for TLC. *)
EXTENDS Context, TLC

TheName == "a" :> 1 @@ "b" :> 2 @@ "c" :> 3 @@ "t" :> 4
TheBytes == "a" :> 2 @@ "b" :> 1 @@ "c" :> 2 @@ "t" :> 1
TheCost == "a" :> 4 @@ "b" :> 2 @@ "c" :> 3 @@ "t" :> 2
TheHits == "a" :> 2 @@ "b" :> 1 @@ "c" :> 2 @@ "t" :> 1
TheHome == "a" :> "x" @@ "b" :> "x" @@ "c" :> "y" @@ "t" :> "x"
TheRootName == "x" :> 1 @@ "y" :> 2 @@ "." :> 0
TheNear == "a" :> 3 @@ "b" :> 1 @@ "c" :> 3 @@ "t" :> 0
TheInline == "a" :> 2 @@ "b" :> 0 @@ "c" :> 1 @@ "t" :> 1
TheKin ==
  LET K(test, type, caller) == [test |-> test, type |-> type, caller |-> caller]
  IN "a" :> K({"t"}, {}, {"c"}) @@ "b" :> K({}, {}, {"a"}) @@ "c" :> K({}, {}, {}) @@ "t" :> K({}, {}, {})
TheCovers == 1 :> {"a"} @@ 2 :> {"c", "a"}

Hunt(jev, likely, rounds, files, bytes) ==
  [jev |-> jev, likely |-> likely, changed |-> <<>>, rounds |-> rounds, files |-> files, bytes |-> bytes]

TheHunts ==
  UNION {{Hunt(jev, <<>>, 3, 3, 9), Hunt(jev, <<"y">>, 2, 2, 6), Hunt(jev, <<>>, 3, 3, 3), Hunt(jev, <<"z">>, 2, 1, 20),
          Hunt(jev, <<"z">>, 1, 3, 9),
          [Hunt(jev, <<>>, 2, 4, 12) EXCEPT !.changed = <<"y", "x">>]} : jev \in BOOLEAN}

\* A long log of many bytes whose reduction is in doubt, and a short line.
Text(n, large, loud, long, structured, banded) ==
  [n |-> n, large |-> large, loud |-> loud, long |-> long, structured |-> structured, banded |-> banded, gone |-> <<>>]

TheOutputs == {Text(1, TRUE, TRUE, TRUE, FALSE, TRUE), Text(2, FALSE, FALSE, FALSE, FALSE, FALSE)}

TheSettings == {[mode |-> "unset", policy |-> TRUE], [mode |-> "experiment", policy |-> FALSE]}

\* One of each thing a host's context holds, with contents 1 and 2 and sources 1 and 2.
Item(kind, source, hash) ==
  [id |-> 0, kind |-> kind, source |-> source, hash |-> hash, superseded |-> FALSE, stale |-> FALSE, referenced |-> FALSE, active |-> FALSE]

TheItems ==
  {Item("requirement", 0, {}), Item("criterion", 0, {1}), [Item("error", 0, {1}) EXCEPT !.active = TRUE], Item("error", 0, {1}),
   Item("tool_result", 1, {1}), Item("tool_result", 1, {2}), Item("tool_result", 2, {1}), Item("tool_result", 0, {}),
   [Item("tool_result", 1, {1}) EXCEPT !.superseded = TRUE],
   [Item("evidence", 0, {1}) EXCEPT !.stale = TRUE], [Item("evidence", 0, {2}) EXCEPT !.stale = TRUE, !.referenced = TRUE],
   Item("evidence", 0, {2})}

TheBatches == [1..3 -> TheItems]

TheLoads == [files : {0, 4, 5, 13, 40}, unresolved : {0, 3, 7, 25}, rest : {1, 9}, ceiling : {8, 12, 20, 60}]
=============================================================================
