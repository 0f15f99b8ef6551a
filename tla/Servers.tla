------------------------------- MODULE Servers -------------------------------
(***************************************************************************)
(* The processes a session starts: the MCP servers, the language server,   *)
(* the programs under verification and the workers; and the tools of the   *)
(* first two that a turn exposes (src/mcp/tools.ts).                       *)
(*                                                                         *)
(* What the operator and the model do is bounded by MaxMoves in all, and   *)
(* concerns one of the four in a behaviour (about): they share the turn    *)
(* and its surface, and nothing else.  The tool calls of a turn may run    *)
(* beside each other, its requests for a capability too.  A session's end  *)
(* stops none of the servers: the functions that would have no caller in   *)
(* src/.                                                                   *)
(***************************************************************************)
EXTENDS McpPool, LspPool, RuntimeVerifiers

CONSTANTS
  Requests,  \* the requests for a capability, each used once
  Turns,     \* what a turn may be: [auto, configured, task, check, packet]
  Languages, \* the commands of each language: [override, table]
  Caps,      \* what mcp.maxTools may be in the file whenever it is read
  Replies,   \* what the control plane says of a turn's task
  Admissions,   \* what it says of a request
  Raws,      \* the runtime blocks of a contract
  Pages,     \* what the browser finds
  Backends, Carries, Outputs, Budget,   \* of the workers
  MaxMoves

\* The modes a turn may be configured with; a cap is a number, 0 too, and so is a
\* score; no backend has the name of none.
ASSUME ServersAssumption ==
  /\ \A t \in Turns : t.configured \in DOMAIN Explicit \union {"auto"}
  /\ Caps \subseteq Nat
  /\ \A reply \in Replies : \A s \in DOMAIN reply.score : reply.score[s] \in Nat
  /\ \A reply \in Admissions : reply.score \in Nat
  /\ "none" \notin DOMAIN Backends

VARIABLES
  surface,   \* [live, mode, registered, active]
  turn,      \* the turn: [given, required, cap]; required when the targeted check
             \* is, and the highest cap that was read in it
  requests,  \* [Requests -> [at, ok, live, throws]]: the answer under way
  work, talk, offered,   \* of the workers
  moves,
  about      \* which of the four the behaviour is about

W == INSTANCE Workers

workVars == <<work, talk, offered>>

vars == <<mcpVars, lspVars, trial, surface, turn, requests, workVars, moves, about>>

Live == surface.live

ToolsOf(live) == {e.tool : e \in live}

\* Mutant: the turn's tools join those of the turn before.
AppliedOnTop(live, mode) ==
  [live |-> live, mode |-> mode, registered |-> surface.registered \union ToolsOf(live),
   active |-> [mcp |-> surface.active.mcp \union ToolsOf(live), lsp |-> ToolsByMode[mode]]]

\* The two namespaces are replaced, every other tool is left as it is; a tool is
\* registered once for the activation.
Apply(live, mode) ==
  [live |-> live, mode |-> mode, registered |-> surface.registered \union ToolsOf(live),
   active |-> [mcp |-> ToolsOf(live), lsp |-> ToolsByMode[mode]]]

NoRequest == [at |-> "idle", ok |-> FALSE, live |-> {}, throws |-> FALSE]

Init ==
  /\ McpInit /\ LspInit /\ RuntimeInit
  /\ surface = [live |-> {}, mode |-> "LSP_OFF", registered |-> {}, active |-> [mcp |-> {}, lsp |-> {}]]
  /\ turn = [given |-> {}, required |-> FALSE, cap |-> 0]
  /\ requests = [r \in Requests |-> NoRequest] /\ moves = 0
  /\ W!WorkInit
  /\ about \in {"mcp", "lsp", "runtime", "worker"} /\ (about # "mcp" => cached = Tools)
  /\ about # "worker" => talk.pin = W!NoPin

Move == Quiet /\ moves < MaxMoves /\ moves' = moves + 1 /\ UNCHANGED about

Resting == \A q \in Queries : queries[q].at \in {"idle", "answered", "unavailable"}

\* The compiler's two providers, then the surface; no call of the turn before is
\* still at work.
TurnStarts ==
  /\ about # "worker" /\ Move /\ Resting /\ \A r \in Requests : requests[r].at # "asked"
  /\ \E t \in Turns : LET served == Served(Languages, Trusted) \intersect ChangedLanguages(t.packet) IN
       \E answer \in {"LSP_OFF", "LSP_DIAGNOSTICS", "LSP_NAVIGATION"}, cap \in Caps :
         LET chosen == SelectLspMode(t.configured, served, t.task, t.check, answer) IN
         /\ turn' = [given |-> {t}, required |-> chosen.check, cap |-> cap]
         /\ surface' \in {Apply(SelectMcpTools(Catalog, cached, reply, cap), chosen.mode) : reply \in Replies}
  /\ UNCHANGED <<mcpVars, lspVars, trial, requests, workVars>>

\* mcp_request: the catalog, the cache, the cap and the live tools are read here ...
Request(r) ==
  /\ about = "mcp" /\ Move /\ requests[r].at = "idle" /\ turn.given # {}
  /\ \E reply \in Admissions, cap \in Caps :
       LET answer == RequestCapability(Catalog, cached, Live, reply, cap) IN
       /\ requests' = [requests EXCEPT ![r] = [at |-> "asked", ok |-> answer.ok, live |-> answer.live, throws |-> answer.throws]]
       /\ turn' = [turn EXCEPT !.cap = IF cap > @ THEN cap ELSE @]
  /\ UNCHANGED <<mcpVars, lspVars, trial, surface, workVars>>

\* ... and applied when the answer comes, before a call that throws does.
Admitted(r) ==
  /\ requests[r].at = "asked"
  /\ requests' = [requests EXCEPT ![r] = [NoRequest EXCEPT !.at = IF requests[r].throws THEN "failed" ELSE "done"]]
  /\ surface' = IF requests[r].ok THEN Apply(requests[r].live, surface.mode) ELSE surface
  /\ UNCHANGED <<mcpVars, lspVars, trial, turn, workVars, moves, about>>

OperatorActs ==
  \/ /\ about = "mcp" /\ UNCHANGED <<lspVars, trial, requests, workVars>>
     /\ \/ \E j \in Jobs, s \in Catalog.enabled : Refresh(j, <<s>>)
        \/ \E j \in Jobs : Refresh(j, SetToSeq(Catalog.enabled))
        \/ \E s \in Servers, on \in BOOLEAN : SetEnabled(s, on)
  \/ /\ about = "worker" /\ UNCHANGED <<mcpVars, lspVars, trial, requests>>
     /\ W!PiTurn \/ W!Abort \/ W!Pin \/ W!Unpin

ModelActs ==
  \/ /\ about = "mcp" /\ UNCHANGED <<lspVars, trial, requests, workVars>>
     /\ \E j \in Jobs, t \in ToolsOf(Live) : CallTool(j, ServerOf[t])
  \/ /\ about = "lsp" /\ UNCHANGED <<mcpVars, trial, requests, workVars>>
     /\ \E q \in Queries, tool \in {"navigation", "diagnostics"} :
          Invoke(q, tool, surface.mode, Served(Languages, Trusted) # {})
  \/ /\ about = "runtime" /\ UNCHANGED <<mcpVars, lspVars, requests, workVars>>
     /\ \E raw \in Raws, page \in Pages, gap \in {"UI", "RUNTIME", "none"} :
          \E k \in SelectRuntimeVerifiers(raw, gap) : StartVerifier(k, raw[k], page)
  \/ /\ about = "worker" /\ UNCHANGED <<mcpVars, lspVars, trial, requests>>
     /\ W!InvokeHarness \/ W!InvokeNative

OfMcp(A)   == A /\ UNCHANGED <<lspVars, trial, surface, turn, requests, workVars, moves, about>>
OfLsp(A)   == A /\ UNCHANGED <<mcpVars, trial, surface, turn, requests, workVars, moves, about>>
OfTrial(A) == A /\ UNCHANGED <<mcpVars, lspVars, surface, turn, requests, workVars, moves, about>>
OfWork(A)  == A /\ UNCHANGED <<mcpVars, lspVars, trial, surface, turn, requests, moves, about>>

Events == OfMcp(McpEvents) \/ OfLsp(LspEvents) \/ OfTrial(RuntimeEvents)
          \/ OfWork(W!WorkEvents) \/ (about = "lsp" /\ OfLsp(Edit)) \/ \E r \in Requests : Admitted(r)

Next ==
  \/ TurnStarts \/ \E r \in Requests : Request(r)
  \/ Move /\ (OperatorActs \/ ModelActs) /\ UNCHANGED <<surface, turn>>
  \/ Events

\* What the event loop and its timers owe to whatever is under way, when no
\* server says another word.
Owed ==
  \/ OfMcp(\/ \E j \in Jobs : NextTarget(j) \/ Settled(j)
           \/ Quiet /\ (\E s \in Servers : ConnectFails(s))
           \/ Quiet /\ (\E j \in Jobs : TimedOut(j)))
  \/ OfLsp(OpenFails \/ \E q \in Queries : Resumes(q))
  \/ OfTrial(Deadline \/ Terminate)
  \/ OfWork(W!Deadline \/ W!Closes \/ (work.stopped /\ W!NativeEnds) \/ W!AgentEnds)
  \/ \E r \in Requests : Admitted(r)

Fairness == WF_vars(Owed)

Spec == Init /\ [][Next]_vars /\ Fairness

---------------------------------------------------------- (* properties *)

TypeOK ==
  /\ \A s \in Servers : conn[s] \in 0 .. Len(child) /\ pend[s] \in 0 .. Len(child)
  /\ \A j \in Jobs : jobs[j].at \in {"idle", "connecting", "asked", "settling", "next", "done", "failed"}
  /\ cached \subseteq Tools /\ surface.mode \in Modes
  /\ doc.stored <= doc.opened /\ doc.opened <= doc.disk /\ reached <= doc.opened
  /\ trial.verdict \in {"none", "pass", "fail", "error", "not_run", "unavailable"}

\* No process is lost sight of: an MCP server's is its pool's, a language has
\* had one at most, and a program under verification ends before its verdict
\* (client.ts of both: one attempt for all who ask; proc.ts: the group is killed
\* with or without its leader).
NoProcessIsLost == TypeOK /\ ChildrenAreOwned /\ StartedOnce /\ VerdictsAreClean

\* A cap of 0 is exceeded by one.
Limit == IF turn.cap = 0 THEN 1 ELSE turn.cap

\* The model can call the tools its own turn chose and no others, no more than
\* the highest cap that was read for it (one, where that was 0); and a task on
\* code that a server could have checked has the diagnostics, or the check that
\* stands in for them among its required verifiers (tools.ts: apply; select.ts:
\* a full set makes room; provider.ts: FR-094).
ToolsOfThisTurn ==
  /\ Cardinality(Live) <= Limit /\ \A a, b \in Live : a.tool = b.tool => a = b
  /\ surface.active = [mcp |-> ToolsOf(Live), lsp |-> ToolsByMode[surface.mode]]
  /\ ToolsOf(Live) \subseteq surface.registered
  /\ \A t \in turn.given :
       t.configured = "auto" /\ t.task = "correctness" /\ Served(Languages, Trusted) \intersect ChangedLanguages(t.packet) # {}
         => "diagnostics" \in surface.active.lsp \/ turn.required

\* Of the workers: one that was stopped is never reported as done and leaves
\* nothing behind; a pinned CLI resumes its own conversation; and no pick takes
\* a configured model away (harness.ts, cli-provider.ts).
WorkIsAccountedFor == W!StoppedIsNotDone /\ W!OwnConversation /\ W!RolesStayOffered

\* A worker may go on for ever in two cases: what went away from its group holds
\* its output, or it is a native loop whose caller named no deadline.
MayGoOn == "away" \in work.alive \/ (work.kind = "native" /\ ~work.timed /\ ~work.stopped)

\* A verification may wait for ever for the browser, whose calls have no deadline.
AsksTheBrowser == trial.at \in {"opening", "driving", "closing"}

\* Whatever the servers do, say or fail to say, every call, refresh, request,
\* verification that asks no browser, and every worker but those two comes to an
\* end: again and again none is under way (client.ts, proc.ts, harness.ts: each
\* call, program and CLI under a timer).
EverythingEnds ==
  []<>(/\ \A j \in Jobs : jobs[j].at \in {"idle", "done", "failed"}
       /\ \A r \in Requests : requests[r].at # "asked"
       /\ Resting /\ (trial.at \in {"idle", "over"} \/ AsksTheBrowser) /\ (W!Busy => MayGoOn))

=============================================================================
