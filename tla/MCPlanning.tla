----------------------------- MODULE MCPlanning ------------------------------
(* The turns have two backends, four models and a plain and a risky request;  *)
(* the PRDs are authored from drafts that are sound, lack a section, or whose *)
(* phases name what does not exist or wait in a circle; the benchmarks run    *)
(* one or two rows over one or two tasks, or must not run.                    *)
EXTENDS Planning

CONSTANTS cloud, plan

TheBilling    == (cloud :> "metered") @@ (plan :> "subscription")
TheShadow     == (cloud :> 0) @@ (plan :> 6)
TheRates      == (cloud :> 2) @@ (plan :> 1)
ThePriority   == (cloud :> 0) @@ (plan :> 1)
TheDefaults   == [retried |-> 1, of |-> 5, tokens |-> 2, latency |-> 1, gpu |-> 1]
TheMultiplier == [minimal |-> 2, low |-> 3, medium |-> 4, high |-> 7]

ThePrompts == {[words |-> {"mechanical"}, names |-> <<>>],
            [words |-> {"secure", "ambiguous", "concurrency"}, names |-> <<"a">>]}

TheWorkspaces == {[changed |-> <<>>, modules |-> <<>>, runner |-> TRUE],
                  [changed |-> <<"code", "code", "code", "test">>, modules |-> <<"a", "b">>, runner |-> FALSE]}

Model(id, score, price, hint) == [id |-> id, score |-> score, price |-> price, hint |-> hint]

OldFile == {Model(1, 95, 3, cloud), Model(2, 60, 1, plan), Model(3, 90, Null, NoBackend)}
Twice   == {Model(1, 95, 3, cloud), Model(1, 60, 1, plan)}

Spelled(exact, leads, tier) == [exact |-> exact, leads |-> leads, tier |-> tier]
Entry(role, backend, spelling) == [role |-> role, backend |-> backend, spelling |-> spelling]

TheModels == <<Entry("quick", plan, Spelled(<<9, 2>>, {}, {})),
               Entry("balanced", cloud, Spelled(<<>>, {3}, {})),
               Entry("strong", cloud, Spelled(<<>>, {1, 2}, {1, 3}))>>

Setting(floor, ceiling, pin) == [floor |-> floor, ceiling |-> ceiling, pin |-> pin]

TheSettings == [quick |-> Setting(50, Null, Null), balanced |-> Setting(70, 2, Null),
                strong |-> Setting(85, Null, Null), specialist |-> Setting(70, Null, 2)]

Config(enabled) == [models |-> TheModels, enabled |-> enabled, settings |-> TheSettings]

TheWorlds == {[file |-> OldFile, config |-> Config({cloud, plan})],
              [file |-> OldFile, config |-> Config({plan})],
              [file |-> Twice, config |-> Config({cloud, plan})]}

Run(retries, tokens) == [complexity |-> "MEDIUM", role |-> "balanced", backend |-> cloud,
                         retries |-> retries, tokens |-> tokens, latency |-> 2, gpu |-> 0]

TheHistories == {<<>>, <<Run(1, 3), Run(0, 0)>>}

TheAnswers == {[effort |-> "high", model |-> 3], [effort |-> "odd", model |-> 1]}

TheOutages == {{}, {"strong"}}

ThePins == {<<"executor", "quick">>}

Criterion(id, command) == [id |-> id, command |-> command]
Phase(number, acs, deps) == [number |-> number, acs |-> acs, deps |-> deps]

TheDrafts ==
  {[missing |-> {}, criteria |-> <<Criterion(1, TRUE), Criterion(2, TRUE)>>,
    phases |-> <<Phase(1, {1}, {}), Phase(2, {2}, {1})>>],
   [missing |-> {}, criteria |-> <<Criterion(1, TRUE), Criterion(2, TRUE), Criterion(3, FALSE)>>,
    phases |-> <<Phase(2, {2, 9}, {7}), Phase(3, {}, {2})>>],
   [missing |-> {}, criteria |-> <<Criterion(1, TRUE), Criterion(2, TRUE)>>,
    phases |-> <<Phase(1, {1}, {2}), Phase(2, {2}, {1})>>],
   [missing |-> {"Goals"}, criteria |-> <<Criterion(1, TRUE)>>, phases |-> <<>>]}

BenchRow(id, adapter, gated, rated, budget) ==
  [file |-> id, id |-> id, adapter |-> adapter, vendor |-> IF adapter = "external" THEN "codex" ELSE "none",
   gated |-> gated, rated |-> rated, budget |-> budget, model |-> "m", judge |-> "j"]

BenchTask(id, judged) == [dir |-> id, id |-> id, malformed |-> {}, golden |-> judged]

TheInvocations ==
  LET lean  == BenchRow("lean", "leanpi", FALSE, TRUE, 1)
      free  == BenchRow("free", "leanpi", FALSE, FALSE, 1)
      omp   == BenchRow("omp", "omp", FALSE, TRUE, 0)
      stock == BenchRow("stock", "stock-pi", FALSE, TRUE, 1)
      codex == BenchRow("codex", "external", TRUE, FALSE, 0)
      Asked(ids, dirs) == [ids |-> ids, roster |-> <<codex, free, lean, omp, stock>>, dirs |-> dirs,
                           enabled |-> TRUE, path |-> {"codex"}]
      plain == Asked(<<"lean">>, <<BenchTask(1, "test")>>)
  IN {plain, Asked(<<"lean">>, <<BenchTask(1, "test"), BenchTask(2, "rubric")>>),
      Asked(<<"stock">>, <<BenchTask(1, "rubric"), BenchTask(2, "test")>>),
      Asked(<<"omp", "lean">>, <<BenchTask(1, "test")>>), Asked(<<"codex", "free">>, <<BenchTask(1, "test")>>),
      [Asked(<<>>, <<BenchTask(1, "rubric")>>) EXCEPT !.enabled = FALSE, !.roster = <<codex, free, stock>>],
      Asked(<<"stock", "stock">>, <<BenchTask(1, "test")>>), [plain EXCEPT !.ids = <<"claude">>],
      [plain EXCEPT !.dirs[1].malformed = {"commit"}], [plain EXCEPT !.roster[3].vendor = "codex"],
      [plain EXCEPT !.ids = <<"codex">>, !.path = {}],
      [plain EXCEPT !.ids = <<>>, !.enabled = FALSE, !.roster = <<codex>>]}

==============================================================================
