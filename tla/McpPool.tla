------------------------------- MODULE McpPool -------------------------------
(***************************************************************************)
(* The lazy connection pool (src/mcp/client.ts) and the commands over it   *)
(* (src/mcp/command.ts).  A server is connected on first use, by the one   *)
(* attempt all callers share; a refresh connects, lists, writes the schema *)
(* cache and disconnects, one server after the other.                      *)
(*                                                                         *)
(* What follows an awaited result in the same turn of the event loop is    *)
(* one step, or steps at "settling" and "next" that nothing overtakes.     *)
(*                                                                         *)
(* What a turn knows of the MCP servers without connecting to any: the     *)
(* merged catalog (src/mcp/catalog.ts) and the tools chosen out of it      *)
(* (src/mcp/select.ts).                                                    *)
(*                                                                         *)
(* A tool is a number, its place in the order of the catalog, and          *)
(* ServerOf[t] its server.  A configuration file maps the servers it names *)
(* to [transport, enabled, pinned, default, hints].                        *)
(***************************************************************************)
EXTENDS Integers, FiniteSets, SequencesExt

CONSTANTS
  Tools,    \* every tool a server may list, numbered in the catalog's order
  ServerOf  \* [Tools -> the server]

ASSUME CatalogAssumption ==
  /\ Tools \subseteq Nat \ {0} /\ IsFiniteSet(Tools)
  /\ DOMAIN ServerOf = Tools

------------------------------------------------------------- (* catalog *)

\* The files of the project count only while it is trusted.
ResolveConfigPaths(files, trusted) == IF trusted THEN files.user \o files.project ELSE files.user

\* An entry that cannot ever connect is skipped; what was set at run time
\* overrides what the file says.
ParseServerEntries(file, set) ==
  [s \in {n \in DOMAIN file : file[n].transport # "none"} |->
     [file[s] EXCEPT !.enabled = IF s \in DOMAIN set THEN set[s] ELSE @]]

\* A later file shadows an earlier one.  Rows are of enabled servers only: the
\* cached schemas of one that was ever listed, the hints of one that was not.
BuildCatalog(files, trusted, set, cache) ==
  LET parsed  == [i \in DOMAIN ResolveConfigPaths(files, trusted) |->
                    ParseServerEntries(ResolveConfigPaths(files, trusted)[i], set)]
      Naming(s) == {i \in DOMAIN parsed : s \in DOMAIN parsed[i]}
      entries == [s \in UNION {DOMAIN parsed[i] : i \in DOMAIN parsed} |->
                    parsed[CHOOSE i \in Naming(s) : \A k \in Naming(s) : k <= i][s]]
      enabled == {s \in DOMAIN entries : entries[s].enabled}
      CachedOf(s) == {t \in cache : ServerOf[t] = s}
  IN  [entries  |-> entries, enabled |-> enabled,
       rows     |-> UNION {IF CachedOf(s) = {} THEN entries[s].hints ELSE CachedOf(s) : s \in enabled},
       fallback |-> {s \in enabled : entries[s].pinned \/ entries[s].default}]

----------------------------------------------------------- (* selection *)

\* What goes before t: by score, then by the catalog's order.
Ahead(ids, score, t) == {u \in ids : score[u] > score[t] \/ (score[u] = score[t] /\ u < t)}

RankOf(ids, score, t) == Cardinality(Ahead(ids, score, t))

Capped(ids, score, cap) == {t \in ids : RankOf(ids, score, t) < cap}

\* What is live is a set of [tool, score, at], at its place in the list.  A tool
\* whose schema was never cached is not admitted.
Hydrate(cache, ids, score, cap) ==
  {[tool |-> t, score |-> score[t], at |-> RankOf(ids, score, t)] : t \in Capped(ids, score, cap) \intersect cache}

\* Without an answer: the pinned and default servers, in the catalog's order.
DeterministicSelection(catalog, cache, cap) ==
  Hydrate(cache, {t \in catalog.rows : ServerOf[t] \in catalog.fallback}, [t \in catalog.rows |-> 1], cap)

\* What the control plane says of a task: [up, any, score, stands, confirmed];
\* stands is whether the second batch of questions was answered too.  cap is
\* mcp.maxTools, as the catalog built for this use read it.
SelectMcpTools(catalog, cache, reply, cap) ==
  LET relevant  == {s \in DOMAIN reply.score : reply.score[s] >= 1}
      confirmed == {t \in catalog.rows : ServerOf[t] \in relevant /\ t \in reply.confirmed}
  IN  IF catalog.rows = {} THEN {}
      ELSE IF ~reply.up THEN DeterministicSelection(catalog, cache, cap)
      ELSE IF ~reply.any \/ relevant = {} THEN {}
      ELSE IF ~reply.stands THEN DeterministicSelection(catalog, cache, cap)
      ELSE Hydrate(cache, confirmed, [t \in confirmed |-> reply.score[ServerOf[t]]], cap)

\* A full set makes room by its lowest score, the earliest of equals.
Worst(live) ==
  CHOOSE e \in live : \A f \in live : e.score < f.score \/ (e.score = f.score /\ e.at <= f.at)

\* The end of the list.
Behind(live) == IF live = {} THEN 0 ELSE 1 + Max({e.at : e \in live})

\* A cap of 0 is full with nothing live: there is nothing to evict, and the tool
\* is added all the same.
Admit(t, score, live, cap) ==
  LET full == Cardinality(live) >= cap /\ live # {} IN
  IF \E e \in live : e.tool = t THEN live
  ELSE (IF full THEN live \ {Worst(live)} ELSE live) \union {[tool |-> t, score |-> score, at |-> Behind(live)]}

\* The answer to a request made in the middle of a turn, [ok, live, throws]: at
\* most one tool more; the tool call names what was evicted, and throws where
\* nothing was.  reply is [up, choice, best, score]: the entry the control plane
\* chose, and the lexical match of the fallback with its score; 0 is none.
RequestCapability(catalog, cache, live, reply, cap) ==
  LET choice == IF reply.up THEN reply.choice
                ELSE IF reply.best \in catalog.rows /\ ServerOf[reply.best] \in catalog.fallback THEN reply.best ELSE 0
  IN  IF choice \notin catalog.rows \intersect cache THEN [ok |-> FALSE, live |-> live, throws |-> FALSE]
      ELSE [ok |-> TRUE, live |-> Admit(choice, IF reply.up THEN 1 ELSE reply.score, live, cap),
            throws |-> cap = 0 /\ live = {}]

CONSTANTS
  Files,    \* the configuration files: [user, project]
  Trusted,  \* whether the project is trusted
  Jobs      \* the calls and refreshes there may be, each used once

\* What a file hints at are tools.
ASSUME FilesAssumption ==
  LET paths == ResolveConfigPaths(Files, Trusted) IN
  /\ paths \in Seq(ToSet(paths))
  /\ \A i \in DOMAIN paths : \A s \in DOMAIN paths[i] : paths[i][s].hints \subseteq Tools

VARIABLES
  set,     \* the servers enabled or disabled at run time: [server -> BOOLEAN]
  cached,  \* the tools whose schemas are on disk
  child,   \* every connection made: a sequence of
           \* [server, stdio, state]
  conn,    \* [server -> its connection, 0 if none]
  pend,    \* [server -> the connection being made, 0 if none]
  health,  \* [server -> what /mcp shows]
  jobs     \* [Jobs -> [kind, server, at, on, todo]]

mcpVars == <<set, cached, child, conn, pend, health, jobs>>

Catalog == BuildCatalog(Files, Trusted, set, cached)

\* The servers of the files, whatever is set of them.
Entries == BuildCatalog(Files, Trusted, <<>>, {}).entries
Servers == DOMAIN conn


NoJob == [kind |-> "none", server |-> "", at |-> "idle", on |-> 0, todo |-> <<>>]

McpInit ==
  /\ set = <<>> /\ child = <<>> /\ jobs = [j \in Jobs |-> NoJob]
  /\ cached \in {{}, Tools}
  /\ conn = [s \in DOMAIN Entries |-> 0] /\ pend = conn
  /\ health = [s \in DOMAIN Entries |-> "disconnected"]

\* Nothing overtakes what is left of the current turn of the event loop.
Quiet == \A j \in Jobs : jobs[j].at \notin {"settling", "next"}

\* A failed listing still goes through the refresh's finally.
Failed(job) == [job EXCEPT !.at = IF job.kind = "refresh" THEN "settling" ELSE "failed"]

FailAsked(js, i) == [j \in Jobs |-> IF js[j].at = "asked" /\ js[j].on = i THEN Failed(js[j]) ELSE js[j]]

\* The channel of a process that ended rejects a call at once.
Asked(job, i) == IF child[i].state = "up" THEN [job EXCEPT !.at = "asked", !.on = i] ELSE Failed(job)

Starting(s) == Append(child, [server |-> s, stdio |-> Entries[s].transport = "stdio", state |-> "starting"])

\* Mutant: callers share no attempt.
ConnectsAnew(j, s, job) ==
  LET spawns == conn[s] = 0 /\ s \in Catalog.enabled IN
  /\ jobs' = [jobs EXCEPT ![j] = IF conn[s] # 0 THEN Asked(job, conn[s])
                                 ELSE IF spawns THEN [job EXCEPT !.at = "connecting"] ELSE Failed(job)]
  /\ child' = IF spawns THEN Starting(s) ELSE child
  /\ pend' = IF spawns THEN [pend EXCEPT ![s] = Len(child) + 1] ELSE pend

\* An open connection serves even a disabled server's call; a server that is
\* neither connected nor being connected must be enabled.
GetClient(j, s, job) ==
  LET spawns == conn[s] = 0 /\ pend[s] = 0 /\ s \in Catalog.enabled IN
  /\ jobs' = [jobs EXCEPT ![j] = IF conn[s] # 0 THEN Asked(job, conn[s])
                                 ELSE IF pend[s] # 0 \/ spawns THEN [job EXCEPT !.at = "connecting"] ELSE Failed(job)]
  /\ child' = IF spawns THEN Starting(s) ELSE child
  /\ pend' = IF spawns THEN [pend EXCEPT ![s] = Len(child) + 1] ELSE pend

\* A tool call of the model.
CallTool(j, s) ==
  /\ jobs[j].at = "idle"
  /\ GetClient(j, s, [NoJob EXCEPT !.kind = "call", !.server = s])
  /\ UNCHANGED <<set, cached, conn, health>>

\* /mcp refresh [server]: the targets are those enabled when it was typed.
Refresh(j, targets) ==
  /\ jobs[j].at = "idle"
  /\ jobs' = [jobs EXCEPT ![j] = [NoJob EXCEPT !.kind = "refresh", !.at = "next", !.todo = targets]]
  /\ UNCHANGED <<set, cached, child, conn, pend, health>>

NextTarget(j) ==
  /\ jobs[j].at = "next"
  /\ IF jobs[j].todo = <<>>
       THEN jobs' = [jobs EXCEPT ![j].at = "done"] /\ UNCHANGED <<child, pend>>
       ELSE LET s == Head(jobs[j].todo) IN GetClient(j, s, [jobs[j] EXCEPT !.server = s, !.todo = Tail(@)])
  /\ UNCHANGED <<set, cached, conn, health>>

Connected(s) ==
  /\ pend[s] # 0
  /\ child' = [child EXCEPT ![pend[s]].state = "up"]
  /\ conn' = [conn EXCEPT ![s] = pend[s]] /\ pend' = [pend EXCEPT ![s] = 0]
  /\ health' = [health EXCEPT ![s] = "connected"]
  /\ jobs' = [j \in Jobs |-> IF jobs[j].at = "connecting" /\ jobs[j].server = s
                               THEN [jobs[j] EXCEPT !.at = "asked", !.on = pend[s]] ELSE jobs[j]]
  /\ UNCHANGED <<set, cached>>

\* The handshake is refused, unanswered in time, or its process ends.
ConnectFails(s) ==
  /\ pend[s] # 0
  /\ child' = [child EXCEPT ![pend[s]].state = "dead"] /\ pend' = [pend EXCEPT ![s] = 0]
  /\ \E h \in IF child[pend[s]].stdio THEN {"error"} ELSE {"error", "auth_required"} : health' = [health EXCEPT ![s] = h]
  /\ jobs' = [j \in Jobs |-> IF jobs[j].at = "connecting" /\ jobs[j].server = s THEN Failed(jobs[j]) ELSE jobs[j]]
  /\ UNCHANGED <<set, cached, conn>>

\* The server answers; a refresh replaces what the cache holds of the server.
Answered(j) ==
  /\ jobs[j].at = "asked" /\ child[jobs[j].on].state = "up"
  /\ IF jobs[j].kind = "call" THEN jobs' = [jobs EXCEPT ![j].at = "done"] /\ UNCHANGED cached
     ELSE /\ jobs' = [jobs EXCEPT ![j].at = "settling"]
          /\ LET own == {t \in Tools : ServerOf[t] = jobs[j].server} IN
             \E listed \in {{}, own} : cached' = (cached \ own) \union listed
  /\ UNCHANGED <<set, child, conn, pend, health>>

TimedOut(j) ==
  /\ jobs[j].at = "asked" /\ jobs' = [jobs EXCEPT ![j] = Failed(@)]
  /\ UNCHANGED <<set, cached, child, conn, pend, health>>

\* Whatever connection the server has now is closed, with the calls of others on
\* it; one being made is left alone.  A closed HTTP session goes on serving.
Disconnect(s, js) ==
  LET i == conn[s] IN
  /\ conn' = [conn EXCEPT ![s] = 0] /\ health' = [health EXCEPT ![s] = "disconnected"]
  /\ IF i # 0 /\ child[i].stdio
       THEN child' = [child EXCEPT ![i].state = "dead"] /\ jobs' = FailAsked(js, i)
       ELSE jobs' = js /\ UNCHANGED child

\* The finally of a refresh.
Settled(j) ==
  /\ jobs[j].at = "settling"
  /\ Disconnect(jobs[j].server, [jobs EXCEPT ![j].at = "next"])
  /\ UNCHANGED <<set, cached, pend>>

\* /mcp enable and /mcp disable.
SetEnabled(s, on) ==
  /\ set' = (s :> on) @@ set
  /\ IF on THEN UNCHANGED <<child, conn, health, jobs>> ELSE Disconnect(s, jobs)
  /\ UNCHANGED <<cached, pend>>

\* A server's process ends by itself; nothing takes it out of the pool.
ServerExits(i) ==
  /\ child[i].state = "up" /\ child[i].stdio
  /\ child' = [child EXCEPT ![i].state = "dead"] /\ jobs' = FailAsked(jobs, i)
  /\ UNCHANGED <<set, cached, conn, pend, health>>

\* Every step nobody asks for.
McpEvents ==
  \/ \E j \in Jobs : NextTarget(j) \/ Settled(j)
  \/ Quiet /\ \/ \E s \in Servers : Connected(s) \/ ConnectFails(s)
              \/ \E j \in Jobs : Answered(j) \/ TimedOut(j)
              \/ \E i \in DOMAIN child : ServerExits(i)

\* A process is the pool's as long as it lives: it is its server's connection or
\* the one being made for it.
ChildrenAreOwned ==
  \A i \in DOMAIN child :
    child[i].state # "dead" /\ child[i].stdio => i \in {conn[child[i].server], pend[child[i].server]}
==============================================================================
