------------------------------- MODULE LspPool -------------------------------
(***************************************************************************)
(* The client of one language's server, and what a tool call goes through  *)
(* (src/lsp/client.ts, tools.ts), on one document.  A text is its version; *)
(* 0 is the text of no version, and the list of diagnostics of nothing.    *)
(*                                                                         *)
(* First: which of the language server's tools a turn gets                 *)
(* (src/lsp/mode.ts, provider.ts, tools.ts) and which executable may serve *)
(* them (src/lsp/detect.ts).                                               *)
(***************************************************************************)
EXTENDS Integers, FiniteSets, SequencesExt

Modes == {"LSP_OFF", "LSP_DIAGNOSTICS", "LSP_NAVIGATION", "LSP_FULL"}

\* The six navigation tools are one.
ToolsByMode ==
  [LSP_OFF |-> {}, LSP_DIAGNOSTICS |-> {"diagnostics"}, LSP_NAVIGATION |-> {"navigation"},
   LSP_FULL |-> {"navigation", "diagnostics"}]

Explicit == [off |-> "LSP_OFF", diagnostics |-> "LSP_DIAGNOSTICS", navigation |-> "LSP_NAVIGATION", full |-> "LSP_FULL"]

----------------------------------------------------------- (* detection *)

\* A place a command may resolve in: [executable, local]; without trust a place
\* inside the project is passed over, its own bin directory first of all.
ResolveCommand(places, trusted) ==
  LET usable == SelectSeq(places, LAMBDA p : p.executable /\ (trusted \/ ~p.local))
  IN  IF usable = <<>> THEN {} ELSE {usable[1]}

\* The commands of a language: the configured one alone if the project is
\* trusted, the table's otherwise.  lang is [override, table], each command the
\* sequence of the places it is looked for in.
LookupServer(lang, trusted) ==
  LET commands == IF trusted /\ lang.override # <<>> THEN lang.override ELSE lang.table
  IN  UNION {ResolveCommand(commands[i], trusted) : i \in DOMAIN commands}

Served(langs, trusted) == {l \in DOMAIN langs : LookupServer(langs[l], trusted) # {}}

----------------------------------------------------------- (* selection *)

\* The languages of the changed files, the repository's when they have none.
ChangedLanguages(packet) == IF packet.changed # {} THEN packet.changed ELSE packet.languages

\* Configuration, then the servers there are, then the kind of task, then the
\* check that is cheaper than a server; the control plane's answer, the cheapest
\* mode when there is none, only for a task of no kind.  check: that targeted
\* check became a required verifier.
SelectLspMode(configured, served, task, check, answer) ==
  LET stands == configured = "auto" /\ served # {} /\ task = "correctness" /\ check IN
  [mode  |-> IF configured # "auto" THEN Explicit[configured]
             ELSE IF served = {} \/ stands THEN "LSP_OFF"
             ELSE IF task = "symbols" THEN "LSP_NAVIGATION"
             ELSE IF task = "correctness" THEN "LSP_DIAGNOSTICS" ELSE answer,
   check |-> stands]

----------------------------------------------------------- (* the state *)

CONSTANTS
  Queries,  \* the tool calls there may be, each used once
  MaxEdits  \* how often the file is edited

VARIABLES
  client,   \* what the session knows of the server: "none", "starting",
            \* "open", "failed" or "missing"
  starts,   \* how many processes were started (a history variable)
  alive,    \* the server's process lives
  doc,      \* [disk, opened, stored]: the file's text, the text last sent, and
            \* the text whose diagnostics are stored
  reached,  \* the text the server has got to
  queries   \* [Queries -> [tool, at, fresh, answer]]; fresh: a publication came
            \* since the call counted them

lspVars == <<client, starts, alive, doc, reached, queries>>

NoQuery == [tool |-> "none", at |-> "idle", fresh |-> FALSE, answer |-> 0]

LspInit ==
  /\ client = "none" /\ starts = 0 /\ alive = FALSE
  /\ doc = [disk |-> 1, opened |-> 0, stored |-> 0] /\ reached = 0
  /\ queries = [q \in Queries |-> NoQuery]

Unavailable(query) == [query EXCEPT !.at = "unavailable"]

\* The tool and the mode are compared again when the call arrives.
Exposed(tool, mode) == tool \in ToolsByMode[mode]

\* One attempt per language and session, whoever asks and however it ended; a
\* server that was not found is not looked for again.
LookUp(found) == IF client # "none" THEN client ELSE IF found THEN "starting" ELSE "missing"

\* A tool call under the turn's mode; found is whether a server's command
\* resolves.
Invoke(q, tool, mode, found) ==
  /\ queries[q].at = "idle"
  /\ LET known == IF Exposed(tool, mode) THEN LookUp(found) ELSE client
         query == [NoQuery EXCEPT !.tool = tool]
     IN  /\ client' = known
         /\ starts' = IF client = "none" /\ known = "starting" THEN starts + 1 ELSE starts
         /\ queries' = [queries EXCEPT ![q] =
              IF ~Exposed(tool, mode) \/ known \in {"failed", "missing"} THEN Unavailable(query)
              ELSE [query EXCEPT !.at = IF known = "open" THEN "opening" ELSE "starting"]]
  /\ UNCHANGED <<alive, doc, reached>>

\* Mutant: the attempt answers only one of those who wait for it.
FirstWaiter(at) ==
  LET waiting == {q \in Queries : queries[q].at = "starting"} IN
  IF waiting = {} THEN queries ELSE [queries EXCEPT ![CHOOSE q \in waiting : TRUE].at = at]

\* All who wait share the one attempt.
Waiters(at) == [q \in Queries |-> IF queries[q].at = "starting" THEN [queries[q] EXCEPT !.at = at] ELSE queries[q]]

Opened ==
  /\ client = "starting" /\ client' = "open" /\ alive' = TRUE /\ queries' = Waiters("opening")
  /\ UNCHANGED <<starts, doc, reached>>

OpenFails ==
  /\ client = "starting" /\ client' = "failed" /\ queries' = Waiters("unavailable")
  /\ UNCHANGED <<starts, alive, doc, reached>>

\* The document is read and sent if its text is new, its stored result dropped
\* before; then the publication is waited for.  What was sent already is not
\* waited for.
Synced(query, waiting, after) ==
  [query EXCEPT !.at = IF doc.opened = doc.disk THEN after ELSE waiting]

Document == IF doc.opened = doc.disk THEN doc ELSE [doc EXCEPT !.opened = doc.disk, !.stored = 0]

\* ensureOpen, which every tool goes through first.
EnsureOpen(q) ==
  /\ queries[q].at = "opening" /\ doc' = Document
  /\ queries' = [queries EXCEPT ![q] = Synced(@, "ready?", "ready")]
  /\ UNCHANGED <<client, starts, alive, reached>>

\* The publication came, the deadline passed or the server is gone: the outcome
\* is swallowed.
Waited(q) ==
  /\ queries[q].at = "ready?"
  /\ queries' = [queries EXCEPT ![q].at = "ready"]
  /\ UNCHANGED <<client, starts, alive, doc, reached>>

\* A navigation is asked of the server, which answers, errs or is late.
Navigated(q) ==
  /\ queries[q].at = "ready" /\ queries[q].tool = "navigation"
  /\ \E at \in IF alive THEN {"answered", "unavailable"} ELSE {"unavailable"} : queries' = [queries EXCEPT ![q].at = at]
  /\ UNCHANGED <<client, starts, alive, doc, reached>>

\* diagnosticsFor: the document again, and what is stored for it then.  The
\* publications are counted before the file is read and sent, so one in between
\* passes for the answer.
DiagnosticsFor(q) ==
  /\ queries[q].at = "ready" /\ queries[q].tool = "diagnostics" /\ doc' = Document
  /\ \E early \in {FALSE, alive /\ doc.opened # 0} :
       queries' = [queries EXCEPT ![q] = [Synced(@, "published?", "answered") EXCEPT !.fresh = early, !.answer = Document.stored]]
  /\ UNCHANGED <<client, starts, alive, reached>>

\* The publication after the call's own count, or none in time.
Published(q) ==
  /\ queries[q].at = "published?"
  /\ \/ queries[q].fresh /\ queries' = [queries EXCEPT ![q].at = "answered", ![q].answer = doc.stored]
     \/ queries' = [queries EXCEPT ![q] = Unavailable(@)]
  /\ UNCHANGED <<client, starts, alive, doc, reached>>

\* The server publishes for a text it was sent, in the order they were sent, as
\* often as it likes.
Publish ==
  /\ alive /\ doc.opened # 0
  /\ \E v \in reached .. doc.opened :
       v # 0 /\ reached' = v /\ doc' = [doc EXCEPT !.stored = v]
  /\ queries' = [q \in Queries |-> [queries[q] EXCEPT !.fresh = @ \/ queries[q].at = "published?"]]
  /\ UNCHANGED <<client, starts, alive>>

\* Nothing takes an ended server out of the session's table.
LspExits ==
  /\ alive /\ alive' = FALSE
  /\ UNCHANGED <<client, starts, doc, reached, queries>>

Edit ==
  /\ doc.disk <= MaxEdits /\ doc' = [doc EXCEPT !.disk = @ + 1]
  /\ UNCHANGED <<client, starts, alive, reached, queries>>

Resumes(q) == EnsureOpen(q) \/ Waited(q) \/ Navigated(q) \/ DiagnosticsFor(q) \/ Published(q)

LspEvents == Opened \/ OpenFails \/ Publish \/ LspExits \/ \E q \in Queries : Resumes(q)

\* One process per language and session, however many ask for it at once and
\* whatever became of it.
StartedOnce == starts <= 1 /\ (alive => starts = 1 /\ client = "open")

=============================================================================
