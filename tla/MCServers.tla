------------------------------ MODULE MCServers ------------------------------
(* A stdio server that the project's file turns on, an HTTP one that is       *)
(* pinned, and an entry that can never connect; one language with a server    *)
(* on the path, one whose server is the project's own; a signed-in CLI and    *)
(* one that is not, whose configured names are the same.                      *)
EXTENDS Servers

Entry(transport, enabled, pinned, hints) ==
  [transport |-> transport, enabled |-> enabled, pinned |-> pinned, default |-> FALSE, hints |-> hints]

TheFiles ==
  [user    |-> <<("a" :> Entry("stdio", FALSE, FALSE, {})) @@ ("b" :> Entry("http", TRUE, TRUE, {3}))>>,
   project |-> <<("a" :> Entry("stdio", TRUE, FALSE, {1})) @@ ("c" :> Entry("none", TRUE, TRUE, {}))>>]

TheServerOf == 1 :> "a" @@ 2 :> "a" @@ 3 :> "b"

Reply(up, any, a, b, stands, confirmed) ==
  [up |-> up, any |-> any, score |-> "a" :> a @@ "b" :> b, stands |-> stands, confirmed |-> confirmed]

TheReplies == {Reply(FALSE, FALSE, 0, 0, FALSE, {}), Reply(TRUE, TRUE, 1, 3, TRUE, {1, 2, 3}), Reply(TRUE, TRUE, 2, 0, FALSE, {})}

TheAdmissions ==
  {[up |-> TRUE, choice |-> 2, best |-> 0, score |-> 0], [up |-> TRUE, choice |-> 3, best |-> 0, score |-> 0],
   [up |-> FALSE, choice |-> 0, best |-> 3, score |-> 2]}

Place(executable, local) == [executable |-> executable, local |-> local]

TheLanguages ==
  [ts |-> [override |-> <<>>, table |-> << <<Place(FALSE, TRUE), Place(TRUE, FALSE)>> >>],
   go |-> [override |-> <<>>, table |-> << <<Place(TRUE, TRUE)>> >>]]

Turn(configured, task, check, changed) ==
  [configured |-> configured, task |-> task, check |-> check, packet |-> [changed |-> changed, languages |-> {"ts"}]]

TheTurns == {Turn("auto", "correctness", TRUE, {"ts"}), Turn("full", "none", FALSE, {"md"})}

TheRaws == {[smoke |-> "complete", cli |-> "complete", browser |-> "partial", screenshot |-> "complete"],
            [smoke |-> "malformed", cli |-> "partial", browser |-> "complete", screenshot |-> "partial"]}

Page(loads, text, alike) ==
  [facility |-> TRUE, loads |-> loads, selectors |-> TRUE, text |-> text, baseline |-> TRUE, decodes |-> TRUE, alike |-> alike]

ThePages == {Page(TRUE, TRUE, FALSE), Page(TRUE, FALSE, TRUE), Page(FALSE, FALSE, FALSE)}

Cli(vendor, signedIn, models, balanced) ==
  [vendor |-> vendor, found |-> TRUE, signedIn |-> signedIn, models |-> models, balanced |-> balanced]

TheBackends ==
  [coder    |-> Cli("codex", TRUE, {"opus", "sonnet"}, TRUE),
   opencode |-> Cli("opencode", FALSE, {"opus"}, TRUE),
   reviewer |-> Cli("claude", TRUE, {"sonnet"}, FALSE)]

TheCarries == "opus-5" :> {"opus"} @@ "opus-4" :> {"opus"} @@ "opus" :> {"opus"} @@ "sonnet" :> {"sonnet"}

Event(session, text, structured, error) == [session |-> session, text |-> text, structured |-> structured, error |-> error]

Printed(events, limited, ran) == [events |-> events, limited |-> limited, ran |-> ran]

TheOutputs ==
  {Printed(<<>>, FALSE, {}), Printed(<<>>, TRUE, {}),
   Printed(<<Event("id", "none", "none", "none")>>, FALSE, {}),
   Printed(<<Event("id", "none", "none", "error"), Event("none", "words", "none", "none")>>, FALSE, {}),
   Printed(<<Event("id", "fits", "none", "limit")>>, FALSE, {"opus-5"}),
   Printed(<<Event("id", "fits", "none", "none"), Event("none", "words", "none", "none")>>, FALSE, {"opus-4", "opus-5"}),
   Printed(<<Event("none", "violates", "violates", "none"), Event("id", "none", "none", "none")>>, TRUE, {"opus-5", "sonnet"})}

==============================================================================
