------------------------------- MODULE MCGuard -------------------------------
(* Two versions of a project, calls of every kind of tool, and settings that   *)
(* loosen, tighten and name a command; and machines with every vendor, none,   *)
(* half of what a launch wants, a project with a control plane of its own, a   *)
(* launch above this one, and no HOME.                                         *)
EXTENDS Launch

Path(words, at) == [words |-> words, at |-> at]
Command(words, git, installs, connects, paths) ==
  [words |-> words, git |-> git, installs |-> installs, connects |-> connects, paths |-> paths]
Call(tool, commands, paths, urls) ==
  [tool |-> tool, commands |-> commands, paths |-> paths, urls |-> urls, target |-> <<"t">>]

Push == Command(<<"git", "push", "-f">>, {[sub |-> "status", flags |-> {}], [sub |-> "push", flags |-> {"-f"}]},
                FALSE, FALSE, {Path(<<"null">>, "device")})

TheWords == {"git", "push", "-f", "log", "ls", "null", "a", "b", "c", "u", "t"}

TheCalls ==
  {Call("read", {}, {Path(<<"a">>, "inside")}, {}), Call("edit", {}, {Path(<<"b">>, "unresolved")}, {}),
   Call("execute", {Push}, {}, {}), Call("execute", {Command(<<"git", "log">>, {}, FALSE, FALSE, {})}, {}, {}),
   Call("monitor", {Command(<<"ls", LineBreak, "a">>, {}, FALSE, TRUE, {Path(<<"c">>, "outside")})}, {}, {<<"u">>})}

Rule(pattern, decision) == [pattern |-> pattern, decision |-> decision]

Only(scope, decision) == [NoStore.defaults EXCEPT ![scope] = decision]

Version(declares, content, defaults, rules, floor) ==
  [declares |-> declares, content |-> content, defaults |-> defaults, rules |-> rules,
   secrets |-> [names |-> {"p"}, passthrough |-> {"q"}, floor |-> floor], commands |-> {"server"}]

TheProjects ==
  {Version({"skills"}, 1, NoStore.defaults, <<>>, 9),
   Version({"skills", "tools"}, 2, [Only("edit", "allow") EXCEPT !.read = "ask"],
           <<Rule(<<"external_dir", ":", "?">>, "ask"), Rule(<<"shell", ":", "git", "push", "*">>, "ask"),
             Rule(<<"shell", ":", "*", "log">>, "ask"), Rule(<<"shell", ":", "git", "*">>, "deny")>>, 4)}

TheSettings ==
  {Rule(<<"shell">>, "allow"), Rule(<<"shell", ":", "git", "*">>, "deny"), Rule(<<"external_dir", ":", "*">>, "ask"),
   Rule(<<"shell", ":", "*", "-f", "*">>, "deny")}

TheSecrets == [names |-> {"n"}, passthrough |-> {}, floor |-> 8]

File(exists, backends, models, jev) ==
  [exists |-> exists, ok |-> TRUE, backends |-> backends, models |-> models, jev |-> jev]

Jev(mode, provider, key) == [mode |-> mode, provider |-> provider, key |-> key]

Backend(type, url, key) == [type |-> type, enabled |-> TRUE, url |-> url, key |-> key]

Concurrency(ok, limit) == [ok |-> ok, limit |-> limit, async |-> FALSE]

Vendor(path, said, login) == [path |-> path, said |-> said, login |-> login]

Given(noJev, provider, warned) == [noJev |-> noJev, provider |-> provider, warned |-> warned]

Copy(scope, version, installed, enabled) ==
  [scope |-> scope, version |-> version, installed |-> installed, enabled |-> enabled]

\* Every vendor signed in, and Pi holds the OpenCode login.
Full ==
  [vendors |-> [v \in {"claude", "codex", "opencode"} |-> Vendor(TRUE, "yes", TRUE)],
   named |-> [claude |-> <<Id("none", "opus")>>, codex |-> <<Id("none", "gpt")>>, opencode |-> <<>>],
   listed |-> <<Id("anthropic", "x"), Id("opencode-go", "flash")>>, authed |-> {"opencode-go"}, home |-> TRUE, tty |-> TRUE,
   vars |-> {}, dotenv |-> FALSE, stored |-> FALSE, inherited |-> Given(FALSE, "none", FALSE), project |-> File(FALSE, Empty, Empty, {}),
   packages |-> {"fold", "background", "compact", "context", "search"}, source |-> FALSE, registry |-> 2,
   copies |-> {}, searches |-> FALSE, settings |-> "absent", concurrency |-> Concurrency(TRUE, 0)]

\* One vendor, signed out.
Bare == [Full EXCEPT !.vendors = [v \in {"claude", "codex", "opencode"} |-> Vendor(v = "claude", "no", FALSE)], !.authed = {}]

\* A vendor that only left a login behind, none that lists models, no terminal.
Half ==
  [Full EXCEPT !.vendors = [claude |-> Vendor(TRUE, "no", FALSE), codex |-> Vendor(TRUE, "nothing", TRUE),
                            opencode |-> Vendor(TRUE, "yes", FALSE)],
               !.named = [claude |-> <<>>, codex |-> <<>>, opencode |-> <<>>], !.listed = <<>>, !.authed = {}, !.tty = FALSE,
               !.dotenv = TRUE, !.packages = {"fold"}, !.settings = "unreadable", !.source = TRUE,
               !.copies = {Copy("global", 2, TRUE, TRUE), Copy("project", 1, TRUE, FALSE)},
               !.concurrency = Concurrency(TRUE, 4)]

Local == [Full EXCEPT !.project = File(TRUE, Empty, Empty, {Jev("enabled", "laya", FALSE)}),
                      !.packages = {"background"}, !.copies = {Copy("project", 2, TRUE, TRUE)}]

Nested == [Full EXCEPT !.vendors["codex"] = Vendor(TRUE, "no", TRUE), !.inherited = Given(TRUE, "laya", TRUE), !.vars = {"OPENCODE_API_KEY", "JEV_API_KEY"},
                       !.copies = {Copy("global", 2, TRUE, TRUE), Copy("global", 1, TRUE, FALSE)}]

Homeless == [Full EXCEPT !.home = FALSE, !.concurrency = Concurrency(FALSE, 0)]

TheMachines == {Full, Bare, Half, Local, Nested, Homeless}

Cli(args) == [sdk |-> FALSE, model |-> "none", args |-> args]
Sdk(model) == [sdk |-> TRUE, model |-> model, args |-> <<>>]

TheArgvs ==
  {Cli(<<>>), Cli(<<"--laya", "--ui", "plain">>), Cli(<<"--jev-key", "k", "--no-jev", "--jev-key", "--model">>),
   Cli(<<"--jev-key", "k">>), Cli(<<"--help">>), Cli(<<"--safety", "none">>), Sdk("none"), Sdk("unknown")}

\* The user's own: a local model for two roles and a vendor for the third.
Mine(url, jev) ==
  File(TRUE, [local |-> Backend("native", url, "LOCAL_KEY"), claude |-> Backend("external_harness", FALSE, "none")],
       [quick |-> [backend |-> "local", model |-> Id("none", "small")],
        balanced |-> [backend |-> "local", model |-> Id("none", "big")],
        strong |-> [backend |-> "claude", model |-> Id("none", "opus")]],
       {jev})

TheFiles ==
  {File(FALSE, Empty, Empty, {}), Mine(TRUE, Jev("enabled", "laya", FALSE)), Mine(FALSE, Jev("disabled", "typesafe", TRUE))}

\* A vendor for the one role and another for the rest.
TheBallots ==
  {[r \in Roles |-> IF r = "balanced" THEN [vendor |-> "codex", backend |-> "codex", model |-> Id("none", "gpt")]
                    ELSE [vendor |-> "claude", backend |-> "claude", model |-> Id("none", "opus")]]}

==============================================================================
