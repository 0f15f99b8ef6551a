---------------------------- MODULE ServersProofs ----------------------------
(***************************************************************************)
(* No process of a session is lost sight of, whatever the configuration    *)
(* files, the number of calls, refreshes, queries and verifications under  *)
(* way at once, and whichever of the servers fails, dies or says nothing.  *)
(*                                                                         *)
(* The four parts keep their own invariants: a step of one leaves the      *)
(* variables of the others alone.                                          *)
(***************************************************************************)
EXTENDS Servers, SequenceTheorems, FiniteSetTheorems, WellFoundedInduction, TLAPS

Named == DOMAIN Entries

Places == {"idle", "connecting", "asked", "settling", "next", "done", "failed"}

JobFields == {"kind", "server", "at", "on", "todo"}

Children == [server : Named, stdio : BOOLEAN, state : {"starting", "up", "dead"}]

\* A connection is of the server it is kept for.
Belongs(c, list) == \A s \in Named : c[s] # 0 => list[c[s]].server = s

\* The jobs are records with a place, whatever else they hold.
JobsOK(js) ==
  /\ js = [j \in Jobs |-> js[j]]
  /\ \A j \in Jobs : DOMAIN js[j] = JobFields /\ js[j].at \in Places

\* The pool: no server has a connection and one in the making.
McpInv ==
  /\ child \in Seq(Children) /\ cached \subseteq Tools
  /\ conn \in [Named -> 0 .. Len(child)] /\ pend \in [Named -> 0 .. Len(child)]
  /\ Belongs(conn, child) /\ Belongs(pend, child)
  /\ \A s \in Named : conn[s] = 0 \/ pend[s] = 0
  /\ ChildrenAreOwned /\ JobsOK(jobs)

----------------------------------------------------------------------------

LEMMA ChildType ==
  ASSUME NEW list \in Seq(Children), NEW k \in DOMAIN list
  PROVE  list[k] \in Children /\ list[k].server \in Named
<1>1. list[k] \in Children
  OBVIOUS
<1> QED
  BY <1>1 DEF Children

\* What is enabled is named by the files, whatever was set at run time.
LEMMA EnabledAreNamed == Catalog.enabled \subseteq Named
<1>1. ASSUME NEW file, NEW s1, NEW s2
      PROVE  DOMAIN ParseServerEntries(file, s1) = DOMAIN ParseServerEntries(file, s2)
  BY DEF ParseServerEntries
<1> DEFINE P(e) == [i \in DOMAIN ResolveConfigPaths(Files, Trusted) |->
                      ParseServerEntries(ResolveConfigPaths(Files, Trusted)[i], e)]
           D(e) == UNION {DOMAIN P(e)[i] : i \in DOMAIN P(e)}
<1>2. D(set) = D(<<>>)
  BY <1>1
<1>3. Catalog.enabled \subseteq D(set)
  BY DEF Catalog, BuildCatalog
<1>4. Named = D(<<>>)
  BY DEF Named, Entries, BuildCatalog
<1> QED
  BY <1>2, <1>3, <1>4

LEMMA JobChanges ==
  ASSUME NEW js, JobsOK(js), NEW j \in Jobs, NEW job, DOMAIN job = JobFields, job.at \in Places
  PROVE  JobsOK([js EXCEPT ![j] = job])
BY DEF JobsOK

LEMMA JobFails ==
  ASSUME NEW job, DOMAIN job = JobFields, job.at \in Places
  PROVE  DOMAIN Failed(job) = JobFields /\ Failed(job).at \in Places
BY DEF Failed, JobFields, Places

LEMMA AllFail ==
  ASSUME NEW js, JobsOK(js), NEW i
  PROVE  JobsOK(FailAsked(js, i))
BY JobFails DEF FailAsked, JobsOK

LEMMA JobAsks ==
  ASSUME NEW job, DOMAIN job = JobFields, job.at \in Places, NEW i
  PROVE  DOMAIN Asked(job, i) = JobFields /\ Asked(job, i).at \in Places
BY JobFails DEF Asked, JobFields, Places

Ended(i) == [child EXCEPT ![i].state = "dead"]

\* A process that ends is no longer anybody's to lose.
LEMMA ChildDies ==
  ASSUME McpInv, NEW i
  PROVE  /\ Ended(i) \in Seq(Children) /\ Len(Ended(i)) = Len(child)
         /\ \A k \in DOMAIN child : /\ Ended(i)[k].server = child[k].server /\ Ended(i)[k].stdio = child[k].stdio
                                    /\ Ended(i)[k].state = IF k = i THEN "dead" ELSE child[k].state
<1>1. CASE i \in DOMAIN child
  <2>1. child[i] \in Children
    BY <1>1, ChildType DEF McpInv
  <2>2. [child[i] EXCEPT !.state = "dead"] \in Children
    BY <2>1 DEF Children
  <2>3. Ended(i) = [child EXCEPT ![i] = [child[i] EXCEPT !.state = "dead"]]
    BY DEF Ended
  <2> QED
    BY <1>1, <2>1, <2>2, <2>3 DEF McpInv, Children
<1>2. CASE i \notin DOMAIN child
  <2>1. Ended(i) = child
    BY <1>2 DEF McpInv, Ended
  <2> QED
    BY <1>2, <2>1 DEF McpInv
<1> QED
  BY <1>1, <1>2

LEMMA PoolStarts == McpInit /\ cached \subseteq Tools => McpInv
<1> SUFFICES ASSUME McpInit, cached \subseteq Tools PROVE McpInv
  OBVIOUS
<1>1. child = <<>> /\ Len(child) = 0 /\ DOMAIN child = {}
  BY DEF McpInit
<1>2. conn \in [Named -> {0}] /\ pend = conn
  BY DEF McpInit, Named
<1>3. JobsOK(jobs)
  BY DEF McpInit, NoJob, JobsOK, JobFields, Places
<1> QED
  BY <1>1, <1>2, <1>3 DEF McpInv, Belongs, ChildrenAreOwned

----------------------------------------------------------------------------

\* Whoever asks for a server while it is being connected waits for that attempt.
LEMMA ClientKeeps ==
  ASSUME McpInv, NEW j \in Jobs, NEW s, NEW job, DOMAIN job = JobFields, job.at \in Places,
         GetClient(j, s, job), UNCHANGED <<cached, conn>>
  PROVE  McpInv'
<1> DEFINE spawns == conn[s] = 0 /\ pend[s] = 0 /\ s \in Catalog.enabled
<1>1. JobsOK(jobs')
  <2>1. DOMAIN [job EXCEPT !.at = "connecting"] = JobFields /\ [job EXCEPT !.at = "connecting"].at \in Places
    BY DEF JobFields, Places
  <2> QED
    BY <2>1, JobAsks, JobFails, JobChanges DEF GetClient, McpInv
<1>2. CASE ~spawns
  <2>1. child' = child /\ pend' = pend
    BY <1>2 DEF GetClient
  <2> QED
    BY <1>1, <2>1 DEF McpInv, Belongs, ChildrenAreOwned
<1>3. CASE spawns
  <2> DEFINE new == [server |-> s, stdio |-> Entries[s].transport = "stdio", state |-> "starting"]
             N == Len(child) + 1
  <2>1. s \in Named
    BY <1>3, EnabledAreNamed
  <2>2. new \in Children
    BY <2>1 DEF Children
  <2>3. child' = Append(child, new) /\ pend' = [pend EXCEPT ![s] = N]
    BY <1>3 DEF GetClient, Starting
  <2>4. child \in Seq(Children) /\ Len(child) \in Nat /\ DOMAIN child = 1 .. Len(child)
    BY DEF McpInv
  <2> HIDE DEF new
  <2>5. /\ child' \in Seq(Children) /\ Len(child') = N /\ DOMAIN child' = 1 .. N
        /\ child'[N] = new /\ \A i \in 1 .. Len(child) : child'[i] = child[i]
    BY <2>2, <2>3, <2>4
  <2>6. /\ conn \in [Named -> 0 .. Len(child)] /\ pend \in [Named -> 0 .. Len(child)]
        /\ conn[s] = 0 /\ pend[s] = 0
    BY <1>3 DEF McpInv
  <2>7. conn' \in [Named -> 0 .. Len(child')] /\ pend' \in [Named -> 0 .. Len(child')]
    <3>1. N \in 0 .. N /\ \A n \in 0 .. Len(child) : n \in 0 .. N
      BY <2>4
    <3> HIDE DEF N
    <3>2. conn' \in [Named -> 0 .. N] /\ pend' \in [Named -> 0 .. N]
      BY <2>3, <2>6, <3>1
    <3> QED
      BY <2>5, <3>2
  <2>8. Belongs(conn', child') /\ Belongs(pend', child')
    <3>1. \A x \in Named : conn[x] # 0 => child'[conn[x]].server = x
      BY <2>4, <2>5, <2>6 DEF McpInv, Belongs
    <3>2. \A x \in Named : x # s /\ pend[x] # 0 => child'[pend[x]].server = x
      BY <2>4, <2>5, <2>6 DEF McpInv, Belongs
    <3>3. child'[N].server = s
      BY <2>5 DEF new
    <3> QED
      BY <2>1, <2>3, <2>6, <3>1, <3>2, <3>3 DEF Belongs
  <2>9. \A x \in Named : conn'[x] = 0 \/ pend'[x] = 0
    BY <2>3, <2>6 DEF McpInv
  <2>10. ChildrenAreOwned'
    <3> SUFFICES ASSUME NEW i \in DOMAIN child', child'[i].state # "dead", child'[i].stdio
                 PROVE  i \in {conn'[child'[i].server], pend'[child'[i].server]}
      BY DEF ChildrenAreOwned
    <3>1. CASE i = N
      BY <2>1, <2>3, <2>5, <2>6, <3>1 DEF new
    <3>2. CASE i # N
      <4>1. i \in DOMAIN child /\ child'[i] = child[i]
        BY <2>4, <2>5, <3>2
      <4>2. child[i].server \in Named
        BY <2>4, <4>1, ChildType
      <4>3. i \in {conn[child[i].server], pend[child[i].server]} /\ i # 0
        BY <2>4, <4>1 DEF McpInv, ChildrenAreOwned
      <4>4. child[i].server # s
        BY <2>6, <4>3
      <4> QED
        BY <2>3, <2>6, <4>1, <4>2, <4>3, <4>4
    <3> QED
      BY <3>1, <3>2
  <2> QED
    BY <1>1, <2>5, <2>7, <2>8, <2>9, <2>10 DEF McpInv
<1> QED
  BY <1>2, <1>3

\* A connection is of its server as long as no process changes hands.
LEMMA SameOwners ==
  ASSUME NEW list \in Seq(Children), NEW next, NEW c \in [Named -> 0 .. Len(list)], Belongs(c, list),
         \A k \in DOMAIN list : next[k].server = list[k].server
  PROVE  Belongs(c, next)
<1> SUFFICES ASSUME NEW s \in Named, c[s] # 0 PROVE next[c[s]].server = s
  BY DEF Belongs
<1>1. c[s] \in DOMAIN list
  <2>1. DOMAIN list = 1 .. Len(list) /\ Len(list) \in Nat /\ c[s] \in 0 .. Len(list)
    OBVIOUS
  <2> QED
    BY <2>1
<1> QED
  BY <1>1 DEF Belongs

\* A process that ends leaves the connections as they are.
LEMMA DeathKeeps ==
  ASSUME McpInv, NEW i, child' = Ended(i),
         UNCHANGED <<cached, conn, pend>>, JobsOK(jobs')
  PROVE  McpInv'
<1>1. /\ child' \in Seq(Children) /\ Len(child') = Len(child)
      /\ \A k \in DOMAIN child : /\ child'[k].server = child[k].server /\ child'[k].stdio = child[k].stdio
                                 /\ child'[k].state = IF k = i THEN "dead" ELSE child[k].state
  BY ChildDies
<1>2. DOMAIN child' = DOMAIN child /\ DOMAIN child = 1 .. Len(child) /\ Len(child) \in Nat
  BY <1>1 DEF McpInv
<1>3. Belongs(conn', child') /\ Belongs(pend', child')
  BY <1>1, <1>2, SameOwners DEF McpInv
<1>4. ChildrenAreOwned'
  BY <1>1, <1>2 DEF McpInv, ChildrenAreOwned
<1> QED
  BY <1>1, <1>3, <1>4 DEF McpInv

\* Whichever connection is closed, its process is stopped if it has one.
LEMMA DisconnectKeeps ==
  ASSUME McpInv, NEW s, NEW js, JobsOK(js), Disconnect(s, js), UNCHANGED <<cached, pend>>
  PROVE  McpInv'
<1> DEFINE i == conn[s]
<1>1. JobsOK(jobs')
  BY AllFail DEF Disconnect
<1>2. conn' = [conn EXCEPT ![s] = 0] /\ pend' = pend /\ cached' = cached
  BY DEF Disconnect
<1>3. child \in Seq(Children) /\ DOMAIN child = 1 .. Len(child) /\ Len(child) \in Nat
  BY DEF McpInv
<1>4. /\ child' \in Seq(Children) /\ Len(child') = Len(child)
      /\ \A k \in DOMAIN child : /\ child'[k].server = child[k].server /\ child'[k].stdio = child[k].stdio
                                 /\ child'[k].state \in {"dead", child[k].state}
                                 /\ k = i /\ child[k].stdio => child'[k].state = "dead"
  <2>1. CASE i # 0 /\ child[i].stdio
    <3>1. child' = Ended(i)
      BY <2>1 DEF Disconnect, Ended
    <3> HIDE DEF i
    <3> QED
      BY <3>1, ChildDies
  <2>2. CASE ~(i # 0 /\ child[i].stdio)
    <3>1. child' = child
      BY <2>2 DEF Disconnect
    <3>2. \A k \in DOMAIN child : ~(k = i /\ child[k].stdio)
      BY <1>3, <2>2
    <3> HIDE DEF i
    <3> QED
      BY <1>3, <3>1, <3>2
  <2> QED
    BY <2>1, <2>2
<1>5. conn' \in [Named -> 0 .. Len(child')] /\ pend' \in [Named -> 0 .. Len(child')]
  BY <1>2, <1>3, <1>4 DEF McpInv
<1>6. \A x \in Named : conn'[x] = IF x = s THEN 0 ELSE conn[x]
  BY <1>2 DEF McpInv
<1>7. Belongs(conn', child') /\ Belongs(pend', child')
  <2>1. Belongs(conn, child') /\ Belongs(pend, child')
    BY <1>4, SameOwners DEF McpInv
  <2> QED
    BY <1>2, <1>6, <2>1 DEF Belongs
<1>8. ChildrenAreOwned'
  <2> SUFFICES ASSUME NEW k \in DOMAIN child', child'[k].state # "dead", child'[k].stdio
               PROVE  k \in {conn'[child'[k].server], pend'[child'[k].server]}
    BY DEF ChildrenAreOwned
  <2>1. k \in DOMAIN child /\ child[k].stdio /\ child[k].state # "dead" /\ k # i
    BY <1>3, <1>4
  <2>2. child[k].server \in Named /\ child'[k].server = child[k].server
    BY <1>3, <1>4, <2>1, ChildType
  <2>3. k \in {conn[child[k].server], pend[child[k].server]}
    BY <2>1 DEF McpInv, ChildrenAreOwned
  <2> QED
    BY <1>2, <1>6, <2>1, <2>2, <2>3
<1> QED
  BY <1>1, <1>2, <1>4, <1>5, <1>6, <1>7, <1>8 DEF McpInv

\* A connection made takes the place that was kept for it.
LEMMA ConnectedKeeps ==
  ASSUME McpInv, NEW s \in Named, Connected(s)
  PROVE  McpInv'
<1> DEFINE i == pend[s]
           next == [child EXCEPT ![i].state = "up"]
<1>1. child \in Seq(Children) /\ DOMAIN child = 1 .. Len(child) /\ Len(child) \in Nat
  BY DEF McpInv
<1>2. i \in DOMAIN child /\ conn[s] = 0 /\ child[i].server = s
  <2>1. pend[s] # 0
    BY DEF Connected
  <2> QED
    BY <1>1, <2>1 DEF McpInv, Belongs
<1>3. /\ child' = next /\ conn' = [conn EXCEPT ![s] = i] /\ pend' = [pend EXCEPT ![s] = 0] /\ cached' = cached
  BY DEF Connected
<1>4. JobsOK(jobs')
  BY DEF Connected, McpInv, JobsOK, JobFields, Places
<1>5. /\ next \in Seq(Children) /\ Len(next) = Len(child)
      /\ \A k \in DOMAIN child : next[k].server = child[k].server /\ next[k].stdio = child[k].stdio
                                 /\ (k # i => next[k] = child[k])
  <2>1. child[i] \in Children
    BY <1>1, <1>2, ChildType
  <2> HIDE DEF i
  <2>2. [child[i] EXCEPT !.state = "up"] \in Children
    BY <2>1 DEF Children
  <2>3. next = [child EXCEPT ![i] = [child[i] EXCEPT !.state = "up"]]
    OBVIOUS
  <2> QED
    BY <1>1, <1>2, <2>1, <2>2, <2>3 DEF Children
<1> HIDE DEF next
<1>6. conn' \in [Named -> 0 .. Len(child')] /\ pend' \in [Named -> 0 .. Len(child')]
  BY <1>3, <1>5 DEF McpInv
<1>7. Belongs(conn', child') /\ Belongs(pend', child')
  <2>1. Belongs(conn, next) /\ Belongs(pend, next)
    BY <1>5, SameOwners DEF McpInv
  <2>2. next[i].server = s
    BY <1>2, <1>5
  <2>3. \A x \in Named : /\ conn'[x] = IF x = s THEN i ELSE conn[x]
                         /\ pend'[x] = IF x = s THEN 0 ELSE pend[x]
    BY <1>3 DEF McpInv
  <2> HIDE DEF i
  <2> QED
    BY <1>3, <2>1, <2>2, <2>3 DEF Belongs
<1>8. \A x \in Named : conn'[x] = 0 \/ pend'[x] = 0
  BY <1>3 DEF McpInv
<1>9. ChildrenAreOwned'
  <2> SUFFICES ASSUME NEW k \in DOMAIN child', child'[k].state # "dead", child'[k].stdio
               PROVE  k \in {conn'[child'[k].server], pend'[child'[k].server]}
    BY DEF ChildrenAreOwned
  <2>1. k \in DOMAIN child
    BY <1>1, <1>3, <1>5
  <2>2. CASE k = i
    BY <1>2, <1>3, <1>5, <2>1, <2>2 DEF McpInv
  <2>3. CASE k # i
    <3>1. child'[k] = child[k] /\ child[k].server \in Named
      BY <1>1, <1>3, <1>5, <2>1, <2>3, ChildType
    <3>2. k \in {conn[child[k].server], pend[child[k].server]} /\ k # 0
      BY <1>1, <2>1, <3>1 DEF McpInv, ChildrenAreOwned
    <3>3. child[k].server # s
      BY <1>2, <2>3, <3>2
    <3> QED
      BY <1>3, <3>1, <3>2, <3>3 DEF McpInv
  <2> QED
    BY <2>2, <2>3
<1> QED
  BY <1>3, <1>4, <1>5, <1>6, <1>7, <1>8, <1>9 DEF McpInv

LEMMA ConnectFailsKeeps ==
  ASSUME McpInv, NEW s \in Named, ConnectFails(s)
  PROVE  McpInv'
<1> DEFINE i == pend[s]
<1>1. child \in Seq(Children) /\ DOMAIN child = 1 .. Len(child) /\ Len(child) \in Nat
  BY DEF McpInv
<1>2. conn[s] = 0
  BY DEF ConnectFails, McpInv
<1>3. /\ child' = Ended(i) /\ conn' = conn /\ pend' = [pend EXCEPT ![s] = 0] /\ cached' = cached
  BY DEF ConnectFails, Ended
<1>4. JobsOK(jobs')
  BY JobFails DEF ConnectFails, McpInv, JobsOK
<1> HIDE DEF i
<1>5. /\ child' \in Seq(Children) /\ Len(child') = Len(child) /\ DOMAIN child' = DOMAIN child
      /\ \A k \in DOMAIN child : /\ child'[k].server = child[k].server /\ child'[k].stdio = child[k].stdio
                                 /\ child'[k].state = IF k = i THEN "dead" ELSE child[k].state
  <2>1. /\ child' \in Seq(Children) /\ Len(child') = Len(child)
        /\ \A k \in DOMAIN child : /\ child'[k].server = child[k].server /\ child'[k].stdio = child[k].stdio
                                   /\ child'[k].state = IF k = i THEN "dead" ELSE child[k].state
    BY <1>3, ChildDies
  <2> QED
    BY <1>1, <2>1
<1>6. \A x \in Named : pend'[x] = IF x = s THEN 0 ELSE pend[x]
  BY <1>3 DEF McpInv
<1>7. Belongs(conn', child') /\ Belongs(pend', child')
  <2>1. Belongs(conn, child') /\ Belongs(pend, child')
    BY <1>5, SameOwners DEF McpInv
  <2> QED
    BY <1>3, <1>6, <2>1 DEF Belongs
<1>8. ChildrenAreOwned'
  <2> SUFFICES ASSUME NEW k \in DOMAIN child', child'[k].state # "dead", child'[k].stdio
               PROVE  k \in {conn'[child'[k].server], pend'[child'[k].server]}
    BY DEF ChildrenAreOwned
  <2>1. k \in DOMAIN child /\ k # i /\ child[k].stdio /\ child[k].state # "dead"
    BY <1>5
  <2>2. child'[k].server = child[k].server /\ child[k].server \in Named
    BY <1>1, <1>5, <2>1, ChildType
  <2>3. k \in {conn[child[k].server], pend[child[k].server]} /\ k # 0
    BY <1>1, <2>1 DEF McpInv, ChildrenAreOwned
  <2>4. child[k].server # s
    BY <1>2, <2>1, <2>3 DEF i
  <2> QED
    BY <1>3, <1>6, <2>2, <2>3, <2>4
<1> QED
  BY <1>3, <1>4, <1>5, <1>6, <1>7, <1>8 DEF McpInv

\* Every step that touches the pool keeps its invariant.
LEMMA PoolSteps ==
  ASSUME McpInv,
         \/ McpEvents
         \/ \E j \in Jobs : \E s : CallTool(j, s)
         \/ \E j \in Jobs : \E targets : Refresh(j, targets)
         \/ \E s \in Servers, on \in BOOLEAN : SetEnabled(s, on)
         \/ UNCHANGED mcpVars
  PROVE  McpInv'
<1>1. Servers = Named
  BY DEF McpInv, Servers
<1>2. \A j \in Jobs : DOMAIN jobs[j] = JobFields /\ jobs[j].at \in Places
  BY DEF McpInv, JobsOK
<1>3. DOMAIN NoJob = JobFields /\ NoJob.at \in Places
  BY DEF NoJob, JobFields, Places
<1>4. ASSUME NEW j \in Jobs, NextTarget(j)
      PROVE  McpInv'
  <2>1. CASE jobs[j].todo = <<>>
    <3>1. JobsOK(jobs')
      BY <1>2, <1>4, <2>1 DEF NextTarget, McpInv, JobsOK, JobFields, Places
    <3> QED
      BY <1>4, <2>1, <3>1 DEF NextTarget, McpInv, Belongs, ChildrenAreOwned
  <2>2. CASE jobs[j].todo # <<>>
    <3> DEFINE s == Head(jobs[j].todo)
               job == [jobs[j] EXCEPT !.server = s, !.todo = Tail(@)]
    <3>1. GetClient(j, s, job) /\ UNCHANGED <<cached, conn>>
      BY <1>4, <2>2 DEF NextTarget
    <3>2. DOMAIN job = JobFields /\ job.at \in Places
      BY <1>2 DEF JobFields
    <3> HIDE DEF s, job
    <3> QED
      BY <3>1, <3>2, ClientKeeps
  <2> QED
    BY <2>1, <2>2
<1>5. ASSUME NEW j \in Jobs, Settled(j)
      PROVE  McpInv'
  <2> DEFINE js == [jobs EXCEPT ![j].at = "next"]
  <2>1. JobsOK(js)
    BY <1>2 DEF McpInv, JobsOK, JobFields, Places
  <2>2. Disconnect(jobs[j].server, js) /\ UNCHANGED <<cached, pend>>
    BY <1>5 DEF Settled
  <2> HIDE DEF js
  <2> QED
    BY <2>1, <2>2, DisconnectKeeps
<1>6. ASSUME NEW j \in Jobs, Answered(j)
      PROVE  McpInv'
  <2>1. JobsOK(jobs')
    BY <1>2, <1>6 DEF Answered, McpInv, JobsOK, JobFields, Places
  <2>2. cached' \subseteq Tools /\ UNCHANGED <<child, conn, pend>>
    BY <1>6 DEF Answered, McpInv
  <2> QED
    BY <2>1, <2>2 DEF McpInv, Belongs, ChildrenAreOwned
<1>7. ASSUME NEW j \in Jobs, TimedOut(j)
      PROVE  McpInv'
  <2>1. JobsOK(jobs')
    <3>1. jobs' = [jobs EXCEPT ![j] = Failed(jobs[j])]
      BY <1>7 DEF TimedOut, McpInv, JobsOK
    <3> QED
      BY <1>2, <3>1, JobFails, JobChanges DEF McpInv
  <2>2. UNCHANGED <<cached, child, conn, pend>>
    BY <1>7 DEF TimedOut
  <2> QED
    BY <2>1, <2>2 DEF McpInv, Belongs, ChildrenAreOwned
<1>8. ASSUME NEW i, ServerExits(i)
      PROVE  McpInv'
  <2>1. child' = Ended(i) /\ UNCHANGED <<cached, conn, pend>>
    BY <1>8 DEF ServerExits, Ended
  <2>2. JobsOK(jobs')
    BY <1>8, AllFail DEF ServerExits, McpInv
  <2> QED
    BY <2>1, <2>2, DeathKeeps
<1>9. ASSUME NEW j \in Jobs, NEW s, CallTool(j, s)
      PROVE  McpInv'
  <2> DEFINE job == [NoJob EXCEPT !.kind = "call", !.server = s]
  <2>1. GetClient(j, s, job) /\ UNCHANGED <<cached, conn>>
    BY <1>9 DEF CallTool
  <2>2. DOMAIN job = JobFields /\ job.at \in Places
    BY <1>3 DEF JobFields
  <2> HIDE DEF job
  <2> QED
    BY <2>1, <2>2, ClientKeeps
<1>10. ASSUME NEW j \in Jobs, NEW targets, Refresh(j, targets)
       PROVE  McpInv'
  <2> DEFINE job == [NoJob EXCEPT !.kind = "refresh", !.at = "next", !.todo = targets]
  <2>1. jobs' = [jobs EXCEPT ![j] = job] /\ UNCHANGED <<cached, child, conn, pend>>
    BY <1>10 DEF Refresh
  <2>2. DOMAIN job = JobFields /\ job.at \in Places
    BY <1>3 DEF JobFields, Places
  <2> HIDE DEF job
  <2>3. JobsOK(jobs')
    BY <2>1, <2>2, JobChanges DEF McpInv
  <2> QED
    BY <2>1, <2>3 DEF McpInv, Belongs, ChildrenAreOwned
<1>11. ASSUME NEW s \in Servers, NEW on \in BOOLEAN, SetEnabled(s, on)
       PROVE  McpInv'
  <2>1. CASE on
    BY <1>11, <2>1 DEF SetEnabled, McpInv, Belongs, ChildrenAreOwned, JobsOK
  <2>2. CASE ~on
    <3>1. Disconnect(s, jobs) /\ UNCHANGED <<cached, pend>>
      BY <1>11, <2>2 DEF SetEnabled
    <3> QED
      BY <3>1, DisconnectKeeps DEF McpInv
  <2> QED
    BY <2>1, <2>2
<1>12. CASE McpEvents
  <2>1. ASSUME NEW s \in Servers, Connected(s) \/ ConnectFails(s)
        PROVE  McpInv'
    BY <1>1, <2>1, ConnectedKeeps, ConnectFailsKeeps
  <2> QED
    BY <1>4, <1>5, <1>6, <1>7, <1>8, <1>12, <2>1 DEF McpEvents
<1>13. CASE UNCHANGED mcpVars
  BY <1>13 DEF mcpVars, McpInv, Belongs, ChildrenAreOwned, JobsOK
<1> QED
  BY <1>9, <1>10, <1>11, <1>12, <1>13

----------------------------------------------------------------------------

\* The language server: one start, and a document that is sent as it was read.
LspInv ==
  /\ client \in {"none", "starting", "open", "failed", "missing"} /\ alive \in BOOLEAN
  /\ starts = IF client \in {"none", "missing"} THEN 0 ELSE 1
  /\ alive => client = "open"
  /\ doc \in [disk : Nat, opened : Nat, stored : Nat] /\ reached \in Nat
  /\ doc.stored <= doc.opened /\ doc.opened <= doc.disk /\ reached <= doc.opened

LEMMA LspStarts == LspInit => LspInv
<1> SUFFICES ASSUME LspInit PROVE LspInv
  OBVIOUS
<1>1. alive \in BOOLEAN /\ (alive => client = "open")
  BY Zenon DEF LspInit
<1>2. doc = [disk |-> 1, opened |-> 0, stored |-> 0] /\ reached = 0 /\ client = "none" /\ starts = 0
  BY DEF LspInit
<1> QED
  BY <1>1, <1>2 DEF LspInv

\* Every step that touches the language server keeps its invariant.
LEMMA LspSteps ==
  ASSUME LspInv,
         \/ LspEvents \/ Edit
         \/ \E q \in Queries, tool \in {"navigation", "diagnostics"} : Invoke(q, tool, surface.mode, Served(Languages, Trusted) # {})
         \/ UNCHANGED lspVars
  PROVE  LspInv'
<1>1. CASE LspEvents
  <2>1. CASE Opened
    BY <2>1 DEF Opened, LspInv
  <2>2. CASE OpenFails
    BY <2>2 DEF OpenFails, LspInv
  <2>3. CASE Publish
    BY <2>3 DEF Publish, LspInv
  <2>4. CASE LspExits
    BY <2>4 DEF LspExits, LspInv
  <2>5. ASSUME NEW q \in Queries, Resumes(q)
        PROVE  LspInv'
    <3>1. doc' \in {doc, Document} /\ UNCHANGED <<client, starts, alive, reached>>
      BY <2>5 DEF Resumes, EnsureOpen, Waited, Navigated, DiagnosticsFor, Published
    <3>2. /\ Document \in [disk : Nat, opened : Nat, stored : Nat]
          /\ Document.stored <= Document.opened /\ Document.opened <= Document.disk /\ reached <= Document.opened
      <4>1. CASE doc.opened = doc.disk
        BY <4>1 DEF Document, LspInv
      <4>2. CASE doc.opened # doc.disk
        <5>1. Document = [disk |-> doc.disk, opened |-> doc.disk, stored |-> 0]
          BY <4>2 DEF Document, LspInv
        <5> QED
          BY <5>1 DEF LspInv
      <4> QED
        BY <4>1, <4>2
    <3> QED
      BY <3>1, <3>2 DEF LspInv
  <2> QED
    BY <1>1, <2>1, <2>2, <2>3, <2>4, <2>5 DEF LspEvents
<1>2. CASE Edit
  BY <1>2 DEF Edit, LspInv
<1>3. ASSUME NEW q, NEW tool, NEW mode, NEW found, Invoke(q, tool, mode, found)
      PROVE  LspInv'
  BY <1>3 DEF Invoke, LookUp, LspInv
<1>4. CASE UNCHANGED lspVars
  BY <1>4 DEF lspVars, LspInv
<1> QED
  BY <1>1, <1>2, <1>3, <1>4

----------------------------------------------------------------------------

Verdicts == {"none", "pass", "fail", "error", "not_run", "unavailable"}

Fields == {"kind", "at", "leader", "group", "holder", "outcome", "verdict"}

\* A program under verification: what VerdictsAreClean says, and that it has no
\* verdict before it is over.
TrialInv ==
  /\ DOMAIN trial = Fields /\ trial.at \in {"idle", "waiting", "stopping", "over", "opening", "driving", "closing"}
  /\ trial.leader \in BOOLEAN /\ trial.group \in BOOLEAN /\ trial.holder \in BOOLEAN
  /\ trial.verdict \in Verdicts
  /\ VerdictsAreClean
  /\ AsksTheBrowser =>
       ~trial.leader /\ ~trial.group /\ trial.kind \in {"browser", "screenshot"} /\ trial.outcome \in Verdicts

LEMMA TrialStarts == RuntimeInit => TrialInv
BY DEF RuntimeInit, Idle, TrialInv, Fields, Verdicts, VerdictsAreClean, AsksTheBrowser

\* Every step that touches the program keeps its invariant.
LEMMA TrialSteps ==
  ASSUME TrialInv,
         \/ RuntimeEvents
         \/ \E kind, raw, page : StartVerifier(kind, raw, page)
         \/ UNCHANGED trial
  PROVE  TrialInv'
<1> USE DEF Fields, Verdicts, AsksTheBrowser
<1>1. ASSUME NEW kind, NEW raw, NEW page, StartVerifier(kind, raw, page)
      PROVE  TrialInv'
  <2> DEFINE t == [Idle EXCEPT !.kind = kind]
  <2>1. /\ DOMAIN t = Fields /\ t.kind = kind /\ t.at = "idle" /\ t.verdict = "none" /\ t.outcome = "none"
        /\ t.leader = FALSE /\ t.group = FALSE /\ t.holder = FALSE
    BY DEF Idle
  <2>2. BrowserTest(raw, page) \in Verdicts /\ ScreenshotCompare(raw, page) \in Verdicts
    BY DEF BrowserTest, ScreenshotCompare
  <2>3. \/ kind \in {"browser", "screenshot"} /\ \E seen \in Verdicts : trial' = StartBrowser(t, seen)
        \/ trial' = Verdict(t, "not_run") \/ trial' = Verdict(t, "error")
        \/ trial' = [t EXCEPT !.at = "waiting", !.leader = TRUE]
        \/ trial' = [t EXCEPT !.at = "stopping", !.outcome = "exited"]
    BY <1>1, <2>2 DEF StartVerifier
  <2> HIDE DEF t
  <2> QED
    BY <2>1, <2>3 DEF StartBrowser, Verdict, TrialInv, VerdictsAreClean
<1>2. CASE RuntimeEvents
  <2>1. CASE Forks
    BY <2>1 DEF Forks, TrialInv, VerdictsAreClean
  <2>2. CASE LeaderExits
    BY <2>2 DEF LeaderExits, TrialInv, VerdictsAreClean
  <2>3. CASE Readiness
    BY <2>3 DEF Readiness, TrialInv, VerdictsAreClean
  <2>4. CASE Deadline
    BY <2>4 DEF Deadline, TrialInv, VerdictsAreClean
  <2>5. CASE Terminate
    BY <2>5 DEF Terminate, Terminated, Verdict, TrialInv, VerdictsAreClean
  <2>6. CASE TabOpens
    BY <2>6 DEF TabOpens, Verdict, TrialInv, VerdictsAreClean
  <2>7. CASE PageIsDriven
    BY <2>7 DEF PageIsDriven, TrialInv, VerdictsAreClean
  <2>8. CASE TabCloses
    BY <2>8 DEF TabCloses, Verdict, TrialInv, VerdictsAreClean
  <2> QED
    BY <1>2, <2>1, <2>2, <2>3, <2>4, <2>5, <2>6, <2>7, <2>8 DEF RuntimeEvents
<1>3. CASE UNCHANGED trial
  BY <1>3 DEF TrialInv, VerdictsAreClean
<1> QED
  BY <1>1, <1>2, <1>3

----------------------------------------------------------------------------

WorkFields ==
  {"kind", "at", "of", "asked", "schema", "timed", "staged", "alive", "code", "noisy", "aborted", "timedOut",
   "turns", "exceeded", "stopped", "killed", "outcome"}

\* What stopped a worker is remembered until its verdict.
WorkInv ==
  /\ DOMAIN work = WorkFields
  /\ work.at = "running" => work.outcome = "none"
  /\ W!StoppedIsNotDone
  /\ work.stopped /\ work.kind = "native" => work.timedOut \/ work.exceeded
  /\ work.stopped /\ work.kind # "native" =>
       "leader" \notin work.alive /\ (work.aborted \/ work.timedOut \/ (work.noisy /\ work.code = "signal"))

\* The pinned backend is the one at work unless it was changed meanwhile.
TalkInv ==
  /\ DOMAIN talk = {"pin", "session", "known", "straddled"} /\ DOMAIN talk.pin = {"of", "model"}
  /\ W!OwnConversation
  /\ W!Busy /\ work.kind = "pi" /\ talk.pin.of # "none" => work.of = talk.pin.of \/ talk.straddled

OfferInv == DOMAIN offered = DOMAIN Backends /\ W!RolesStayOffered

\* A CLI that was stopped has another verdict than that of one that is done.
LEMMA StoppedVerdict ==
  ASSUME NEW w, NEW out, NEW changed,
         w.aborted \/ w.timedOut \/ (w.noisy /\ w.code = "signal")
  PROVE  W!Verdict(w, out, changed) # "ok"
<1> DEFINE e     == W!ParseEnvelope(out.events)
           limit == e.error = "limit" \/ (w.code # "zero" /\ (w.noisy \/ out.limited))
           rows  == << <<w.aborted, "exit">>,
                       <<w.timedOut, "timeout">>,
                       <<limit, "limit">>,
                       <<w.code = "nonzero", "exit">>,
                       <<e.session = "none" /\ e.summary = "none" /\ e.error = "none", "parse">>,
                       <<e.error # "none" /\ e.structured = "none", "exit">>,
                       <<w.schema /\ e.structured # "fits", "schema">>,
                       <<e.summary = "none" /\ e.structured = "none" /\ changed = "nothing", "exit">>,
                       <<TRUE, "ok">> >>
           hits  == {i \in DOMAIN rows : rows[i][1]}
           first == CHOOSE i \in hits : \A k \in hits : i <= k
<1>1. W!Verdict(w, out, changed) = rows[first][2]
  BY DEF W!Verdict, W!None
<1>2. DOMAIN rows = 1 .. 9
  OBVIOUS
<1>3. \E i \in hits : i <= 3
  <2>1. limit \/ w.aborted \/ w.timedOut
    OBVIOUS
  <2>2. rows[1][1] = w.aborted /\ rows[2][1] = w.timedOut /\ rows[3][1] = limit
    OBVIOUS
  <2> HIDE DEF rows, limit
  <2>3. rows[1][1] \/ rows[2][1] \/ rows[3][1]
    BY <2>1, <2>2, Zenon
  <2>4. \A i \in 1 .. 3 : i \in DOMAIN rows /\ i <= 3
    BY <1>2
  <2>5. 1 \in 1 .. 3 /\ 2 \in 1 .. 3 /\ 3 \in 1 .. 3
    OBVIOUS
  <2> QED
    BY <2>3, <2>4, <2>5, Zenon
<1>4. rows[1][2] = "exit" /\ rows[2][2] = "timeout" /\ rows[3][2] = "limit"
  OBVIOUS
<1> HIDE DEF rows
<1>5. first \in hits /\ \A k \in hits : first <= k
  <2>1. hits \subseteq 1 .. 9
    BY <1>2
  <2> HIDE DEF hits
  <2>2. \E i \in hits : \A k \in hits : i <= k
    <3>1. PICK n \in hits : n <= 3
      BY <1>3
    <3> QED
      BY <2>1, <3>1
  <2> QED
    BY <2>2
<1>6. first \in {1, 2, 3}
  <2>1. hits \subseteq 1 .. 9
    BY <1>2
  <2> HIDE DEF hits, first
  <2> QED
    BY <1>3, <1>5, <2>1
<1> QED
  BY <1>1, <1>4, <1>6

LEMMA WorkStarts == Init => WorkInv /\ TalkInv /\ OfferInv
<1> SUFFICES ASSUME Init PROVE WorkInv /\ TalkInv /\ OfferInv
  OBVIOUS
<1>1. W!WorkInit
  BY DEF Init
<1>2. work = W!NoWork
  BY <1>1 DEF W!WorkInit
<1>3. WorkInv
  BY <1>2 DEF W!NoWork, W!None, WorkInv, WorkFields, W!StoppedIsNotDone
<1>4. PICK b \in DOMAIN Backends \union {"none"} :
        LET pin == IF b = "none" THEN W!NoPin ELSE [of |-> b, model |-> CHOOSE m \in Backends[b].models : TRUE] IN
        /\ talk = [pin |-> pin, session |-> "none", known |-> <<>>, straddled |-> FALSE]
        /\ offered = [v \in DOMAIN Backends |->
                       (IF W!Usable(v) THEN Backends[v].models ELSE {}) \union (IF v = b THEN {pin.model} ELSE {})]
  BY <1>1 DEF W!WorkInit, W!None
<1> DEFINE pin == IF b = "none" THEN W!NoPin ELSE [of |-> b, model |-> CHOOSE m \in Backends[b].models : TRUE]
<1>5. DOMAIN pin = {"of", "model"} /\ pin.of = b
  BY DEF W!NoPin, W!None
<1>6. /\ talk = [pin |-> pin, session |-> "none", known |-> <<>>, straddled |-> FALSE]
      /\ offered = [v \in DOMAIN Backends |->
                     (IF W!Usable(v) THEN Backends[v].models ELSE {}) \union (IF v = b THEN {pin.model} ELSE {})]
  BY <1>4
<1> HIDE DEF pin
<1>7. TalkInv
  BY <1>2, <1>5, <1>6 DEF W!NoWork, W!None, W!Busy, W!OwnConversation, TalkInv
<1>8. OfferInv
  BY <1>5, <1>6 DEF W!RolesStayOffered, OfferInv
<1> QED
  BY <1>3, <1>7, <1>8

\* What a worker is started as, and what ends it.
LEMMA OverFields ==
  ASSUME NEW w, DOMAIN w = WorkFields, NEW outcome
  PROVE  LET o == W!Over(w, outcome) IN
         /\ DOMAIN o = WorkFields /\ o.at \in {"answered", "over"} /\ ~o.staged /\ o.outcome = outcome
         /\ \A f \in WorkFields \ {"at", "staged", "outcome"} : o[f] = w[f]
BY DEF W!Over, WorkFields

LEMMA TerminatedFields ==
  ASSUME NEW w, DOMAIN w = WorkFields
  PROVE  LET o == W!Terminated(w) IN
         /\ DOMAIN o = WorkFields /\ o.killed
         /\ o.alive = w.alive \intersect {"away"}
         /\ o.code = IF "leader" \in w.alive THEN "signal" ELSE w.code
         /\ o.stopped <=> (w.stopped \/ "leader" \in w.alive)
         /\ \A f \in WorkFields \ {"killed", "alive", "code", "stopped"} : o[f] = w[f]
BY DEF W!Terminated, WorkFields

\* A step of the worker that starts none leaves the conversation's side true.
LEMMA SameTalk ==
  ASSUME TalkInv, OfferInv, UNCHANGED <<talk, offered>>,
         W!Busy' /\ work'.kind = "pi" => W!Busy /\ work.kind = "pi" /\ work'.of = work.of
  PROVE  TalkInv' /\ OfferInv'
<1>1. TalkInv'
  BY DEF TalkInv, W!OwnConversation
<1>2. OfferInv'
  BY DEF OfferInv, W!RolesStayOffered
<1> QED
  BY <1>1, <1>2

\* Every worker begins unstopped, with nothing killed.
LEMMA Starts ==
  ASSUME NEW kind, kind \in {"harness", "pi", "native"}, NEW w,
         DOMAIN w = WorkFields, w.kind = kind, w.alive = {}, w.outcome = "none", w.stopped = FALSE, w.killed = FALSE, w.staged = FALSE,
         kind # "harness" => w.schema = FALSE,
         work' \in W!Spawned(w) \/ work' = W!Over(w, "blocked") \/ work' = W!Over(w, "model") \/ work' = W!Over(w, "provider")
           \/ work' = [w EXCEPT !.at = "running"]
  PROVE  WorkInv' /\ work'.kind = kind /\ work'.of = w.of
<1> DEFINE staged == [w EXCEPT !.staged = w.schema /\ W!DescriptorOf(w).schemaAsFile]
<1>1. DOMAIN staged = WorkFields /\ \A f \in WorkFields \ {"staged"} : staged[f] = w[f]
  BY DEF WorkFields
<1>2. \/ work' = [staged EXCEPT !.at = "running", !.alive = {"leader"}]
      \/ work' = W!Over(staged, "spawn")
      \/ \E made \in BOOLEAN : work' = [W!Over(w, "schema") EXCEPT !.staged = made]
      \/ \E outcome \in {"blocked", "model", "provider"} : work' = W!Over(w, outcome)
      \/ work' = [w EXCEPT !.at = "running"]
  BY DEF W!Spawned
<1> HIDE DEF staged
<1>3. CASE work' = [staged EXCEPT !.at = "running", !.alive = {"leader"}]
  BY <1>1, <1>3 DEF WorkInv, WorkFields, W!StoppedIsNotDone
<1>4. CASE work' = W!Over(staged, "spawn")
  BY <1>1, <1>4, OverFields DEF WorkInv, WorkFields, W!StoppedIsNotDone
<1>5. ASSUME NEW made \in BOOLEAN, work' = [W!Over(w, "schema") EXCEPT !.staged = made]
      PROVE  WorkInv' /\ work'.kind = kind /\ work'.of = w.of
  BY <1>5, OverFields DEF WorkInv, WorkFields, W!StoppedIsNotDone
<1>6. ASSUME NEW outcome \in {"blocked", "model", "provider"}, work' = W!Over(w, outcome)
      PROVE  WorkInv' /\ work'.kind = kind /\ work'.of = w.of
  BY <1>6, OverFields DEF WorkInv, WorkFields, W!StoppedIsNotDone
<1>7. CASE work' = [w EXCEPT !.at = "running"]
  BY <1>7 DEF WorkInv, WorkFields, W!StoppedIsNotDone
<1> QED
  BY <1>2, <1>3, <1>4, <1>5, <1>6, <1>7

\* Whatever kills the group says so before the CLI's own verdict is asked for.
LEMMA Kills ==
  ASSUME WorkInv, TalkInv, OfferInv, work.kind # "native", UNCHANGED <<talk, offered>>, work.at = "running",
         NEW sign \in {"timedOut", "aborted", "noisy"},
         work' = [W!Terminated(work) EXCEPT ![sign] = TRUE]
  PROVE  WorkInv' /\ TalkInv' /\ OfferInv'
<1> DEFINE t == W!Terminated(work)
<1>1. /\ DOMAIN t = WorkFields /\ t.killed
      /\ t.alive = work.alive \intersect {"away"}
      /\ t.code = IF "leader" \in work.alive THEN "signal" ELSE work.code
      /\ t.stopped <=> (work.stopped \/ "leader" \in work.alive)
      /\ \A f \in WorkFields \ {"killed", "alive", "code", "stopped"} : t[f] = work[f]
  BY TerminatedFields DEF WorkInv
<1> HIDE DEF t
<1>2. /\ DOMAIN work' = WorkFields /\ work'[sign] = TRUE
      /\ \A f \in WorkFields \ {sign} : work'[f] = t[f]
  BY <1>1 DEF t, WorkFields
<1>3. /\ work'.alive = t.alive /\ work'.code = t.code /\ work'.stopped = t.stopped /\ work'.killed = t.killed
      /\ work'.kind = work.kind /\ work'.of = work.of /\ work'.at = work.at /\ work'.outcome = work.outcome
      /\ work'.staged = work.staged /\ work'.exceeded = work.exceeded
      /\ sign # "aborted" => work'.aborted = work.aborted
      /\ sign # "timedOut" => work'.timedOut = work.timedOut
      /\ sign # "noisy" => work'.noisy = work.noisy
  <2>1. {"alive", "code", "stopped", "killed", "kind", "of", "at", "outcome", "staged", "exceeded"} \subseteq WorkFields \ {sign}
    BY DEF WorkFields
  <2>2. \A f \in {"aborted", "timedOut", "noisy"} : sign # f => f \in WorkFields \ {sign} /\ t[f] = work[f]
    BY <1>1 DEF WorkFields
  <2>3. \A f \in {"kind", "of", "at", "outcome", "staged", "exceeded"} : t[f] = work[f]
    BY <1>1 DEF WorkFields
  <2> HIDE DEF WorkFields
  <2> QED
    BY <1>2, <2>1, <2>2, <2>3
<1>4. W!StoppedIsNotDone'
  <2>1. work'.outcome = "none" /\ work'.at = "running" /\ work'.alive \subseteq {"away"}
    BY <1>1, <1>3 DEF WorkInv
  <2> QED
    BY <2>1 DEF W!StoppedIsNotDone
<1>5. "leader" \notin work'.alive
  <2>1. work'.alive = work.alive \intersect {"away"}
    BY <1>1, <1>3
  <2> QED
    BY ONLY <2>1
<1>6. ASSUME work'.stopped
      PROVE  work'.aborted \/ work'.timedOut \/ (work'.noisy /\ work'.code = "signal")
  <2>1. CASE sign = "aborted" \/ sign = "timedOut"
    BY <1>2, <2>1
  <2>2. CASE sign = "noisy" /\ "leader" \in work.alive
    BY <1>1, <1>2, <1>3, <2>2
  <2>3. CASE sign = "noisy" /\ "leader" \notin work.alive
    <3>1. work.stopped /\ work'.code = work.code
      BY <1>1, <1>3, <1>6, <2>3
    <3> QED
      BY <1>2, <1>3, <2>3, <3>1 DEF WorkInv
  <2> QED
    BY <2>1, <2>2, <2>3
<1>7. WorkInv'
  BY <1>2, <1>3, <1>4, <1>5, <1>6 DEF WorkInv
<1> QED
  BY <1>3, <1>7, SameTalk DEF W!Busy

\* What happens to a worker by itself, and what becomes of its answer.
LEMMA EventSteps ==
  ASSUME WorkInv, TalkInv, OfferInv, W!WorkEvents
  PROVE  WorkInv' /\ TalkInv' /\ OfferInv'
<1>0. DOMAIN work = WorkFields
  BY DEF WorkInv
<1>1. CASE W!Forks
  <2>1. PICK process \in {"child", "silent", "away"} : work' = [work EXCEPT !.alive = @ \union {process}]
    BY <1>1 DEF W!Forks
  <2>2. work.alive \intersect {"leader", "child"} # {} /\ UNCHANGED <<talk, offered>>
    BY <1>1 DEF W!Forks
  <2>3. /\ DOMAIN work' = WorkFields /\ work'.alive = work.alive \union {process}
        /\ \A f \in WorkFields \ {"alive"} : work'[f] = work[f]
    BY <1>0, <2>1 DEF WorkFields
  <2>4. ~work.killed
    BY <2>2 DEF WorkInv, W!StoppedIsNotDone
  <2>5. WorkInv'
    BY <2>3, <2>4 DEF WorkInv, WorkFields, W!StoppedIsNotDone
  <2> QED
    BY <2>2, <2>3, <2>5, SameTalk DEF W!Busy, WorkFields
<1>2. CASE W!Exits
  <2>1. PICK process : work'.alive = work.alive \ {process}
                       /\ (process = "leader" => "leader" \in work.alive) /\ (process # "leader" => work'.code = work.code)
    BY <1>0, <1>2 DEF W!Exits, WorkFields
  <2>2. DOMAIN work' = WorkFields /\ (\A f \in WorkFields \ {"alive", "code"} : work'[f] = work[f]) /\ UNCHANGED <<talk, offered>>
    BY <1>0, <1>2 DEF W!Exits, WorkFields
  <2>3. WorkInv'
    BY <2>1, <2>2 DEF WorkInv, WorkFields, W!StoppedIsNotDone
  <2> QED
    BY <2>2, <2>3, SameTalk DEF W!Busy, WorkFields
<1>3. CASE W!Deadline
  <2>1. CASE work.kind = "native"
    <3>1. work' = [work EXCEPT !.timedOut = TRUE, !.stopped = TRUE] /\ work.at = "running" /\ UNCHANGED <<talk, offered>>
      BY <1>3, <2>1 DEF W!Deadline
    <3>2. WorkInv'
      BY <1>0, <2>1, <3>1 DEF WorkInv, WorkFields, W!StoppedIsNotDone
    <3> QED
      BY <1>0, <3>1, <3>2, SameTalk DEF W!Busy, WorkFields
  <2>2. CASE work.kind # "native"
    BY <1>3, <2>2, Kills DEF W!Deadline
  <2> QED
    BY <2>1, <2>2
<1>4. CASE W!StopsRetrying
  BY <1>4, Kills DEF W!StopsRetrying
<1>5. CASE W!Closes
  <2>1. work.at = "running" /\ work.kind # "native" /\ UNCHANGED offered
    BY <1>5 DEF W!Closes
  <2>2. PICK out \in Outputs, changed \in {"nothing", "something", "unknown"} :
          LET outcome == W!Verdict(work, out, changed) IN
          /\ work' = W!Over(work, outcome)
          /\ talk' = IF work.kind = "pi" /\ outcome = "ok" THEN W!Kept(work, W!ParseEnvelope(out.events), out.ran) ELSE talk
    BY <1>5 DEF W!Closes
  <2> DEFINE outcome == W!Verdict(work, out, changed)
             kept == W!Kept(work, W!ParseEnvelope(out.events), out.ran)
  <2>3. work' = W!Over(work, outcome) /\ (talk' = talk \/ (work.kind = "pi" /\ talk' = kept))
    BY <2>2
  <2>4. work.stopped => outcome # "ok"
    BY <2>1, StoppedVerdict DEF WorkInv
  <2>5. /\ DOMAIN kept = DOMAIN talk /\ kept.pin = talk.pin /\ kept.straddled = talk.straddled
        /\ kept.session \in {work.of, talk.session}
    BY DEF W!Kept, TalkInv
  <2> HIDE DEF outcome, kept
  <2>6. /\ DOMAIN work' = WorkFields /\ work'.at \in {"answered", "over"} /\ ~work'.staged /\ work'.outcome = outcome
        /\ \A f \in WorkFields \ {"at", "staged", "outcome"} : work'[f] = work[f]
    BY <1>0, <2>3, OverFields
  <2>7. WorkInv'
    BY <2>4, <2>6 DEF WorkInv, WorkFields, W!StoppedIsNotDone
  <2>8. /\ work'.kind = work.kind /\ work'.of = work.of
        /\ work.kind = "pi" /\ talk.pin.of # "none" => work.of = talk.pin.of \/ talk.straddled
    BY <2>1, <2>6 DEF WorkFields, W!Busy, TalkInv
  <2>9. TalkInv'
    BY <2>3, <2>5, <2>8 DEF TalkInv, W!OwnConversation, W!None
  <2>10. OfferInv'
    BY <2>1, <2>3, <2>5 DEF OfferInv, W!RolesStayOffered
  <2> QED
    BY <2>7, <2>9, <2>10
<1>6. CASE W!NativeTurn
  <2>1. /\ work.at = "running" /\ work.kind = "native" /\ ~work.stopped /\ UNCHANGED <<talk, offered>>
        /\ DOMAIN work' = WorkFields
        /\ work'.stopped => work'.exceeded
        /\ \A f \in WorkFields \ {"turns", "exceeded", "stopped"} : work'[f] = work[f]
    BY <1>0, <1>6 DEF W!NativeTurn, WorkFields
  <2>2. WorkInv'
    BY <2>1 DEF WorkInv, WorkFields, W!StoppedIsNotDone
  <2> QED
    BY <2>1, <2>2, SameTalk DEF W!Busy, WorkFields
<1>7. CASE W!NativeEnds
  <2>1. PICK promptError \in BOOLEAN, providerError \in BOOLEAN : work' = W!Over(work, W!NativeStop(work, promptError, providerError))
    BY <1>7 DEF W!NativeEnds
  <2>2. work.at = "running" /\ work.kind = "native" /\ UNCHANGED <<talk, offered>>
    BY <1>7 DEF W!NativeEnds
  <2> DEFINE outcome == W!NativeStop(work, promptError, providerError)
  <2>3. work.stopped => outcome # "ok"
    BY <2>2 DEF W!NativeStop, WorkInv
  <2> HIDE DEF outcome
  <2>4. /\ DOMAIN work' = WorkFields /\ work'.at \in {"answered", "over"} /\ ~work'.staged /\ work'.outcome = outcome
        /\ \A f \in WorkFields \ {"at", "staged", "outcome"} : work'[f] = work[f]
    BY <1>0, <2>1, OverFields DEF outcome
  <2>5. WorkInv'
    BY <2>3, <2>4 DEF WorkInv, WorkFields, W!StoppedIsNotDone
  <2> QED
    BY <2>2, <2>4, <2>5, SameTalk DEF W!Busy, WorkFields
<1>8. CASE W!AgentEnds
  <2>1. work.at = "answered" /\ work' = [work EXCEPT !.at = "over"]
    BY <1>8 DEF W!AgentEnds
  <2>2. WorkInv' /\ ~W!Busy'
    BY <1>0, <2>1 DEF WorkInv, WorkFields, W!StoppedIsNotDone, W!Busy
  <2>3. CASE UNCHANGED <<talk, offered>>
    BY <2>2, <2>3, SameTalk
  <2>4. ASSUME NEW model, talk' = [talk EXCEPT !.pin.model = model], offered' = W!RegisterCliModel(talk.pin.of, model)
        PROVE  TalkInv' /\ OfferInv'
    <3>1. /\ DOMAIN talk' = DOMAIN talk /\ talk'.session = talk.session /\ talk'.straddled = talk.straddled
          /\ DOMAIN talk'.pin = {"of", "model"} /\ talk'.pin.of = talk.pin.of /\ talk'.pin.model = model
      BY <2>4 DEF TalkInv
    <3>2. TalkInv'
      BY <2>2, <3>1 DEF TalkInv, W!OwnConversation
    <3>3. OfferInv'
      BY <2>4, <3>1 DEF OfferInv, W!RolesStayOffered, W!RegisterCliModel, W!Usable
    <3> QED
      BY <3>2, <3>3
  <2> QED
    BY <1>8, <2>2, <2>3, <2>4 DEF W!AgentEnds
<1> QED
  BY <1>1, <1>2, <1>3, <1>4, <1>5, <1>6, <1>7, <1>8 DEF W!WorkEvents

\* Every step that touches the worker, its conversation or what is offered.
LEMMA WorkSteps ==
  ASSUME WorkInv, TalkInv, OfferInv,
         \/ W!PiTurn \/ W!Abort \/ W!Pin \/ W!Unpin \/ W!InvokeHarness \/ W!InvokeNative \/ W!WorkEvents
         \/ UNCHANGED workVars
  PROVE  WorkInv' /\ TalkInv' /\ OfferInv'
<1>1. /\ DOMAIN W!NoWork = WorkFields /\ W!NoWork.alive = {} /\ W!NoWork.outcome = "none" /\ W!NoWork.schema = FALSE
      /\ W!NoWork.stopped = FALSE /\ W!NoWork.killed = FALSE /\ W!NoWork.staged = FALSE
  BY DEF W!NoWork, W!None, WorkFields
<1>2. CASE W!PiTurn
  <2>0. PICK b \in DOMAIN Backends, model \in UNION {offered[v] : v \in DOMAIN Backends} :
          /\ talk.pin.of # "none" => [of |-> b, model |-> model] = talk.pin
          /\ LET w == [W!NoWork EXCEPT !.kind = "pi", !.of = b, !.asked = model] IN
             work' \in IF Backends[b].balanced THEN W!Spawned(w) ELSE {W!Over(w, "blocked")}
    BY <1>2 DEF W!PiTurn, W!None
  <2> DEFINE w == [W!NoWork EXCEPT !.kind = "pi", !.of = b, !.asked = model]
  <2>1. work' \in W!Spawned(w) \/ work' = W!Over(w, "blocked")
    BY <2>0
  <2>2. UNCHANGED <<talk, offered>> /\ ~W!Busy
    BY <1>2 DEF W!PiTurn
  <2>3. /\ DOMAIN w = WorkFields /\ w.kind = "pi" /\ w.of = b /\ w.alive = {} /\ w.outcome = "none"
        /\ w.stopped = FALSE /\ w.killed = FALSE /\ w.staged = FALSE /\ w.schema = FALSE
    BY <1>1 DEF WorkFields
  <2> HIDE DEF w
  <2>4. WorkInv' /\ work'.of = b
    BY <2>1, <2>3, Starts
  <2>5. TalkInv'
    BY <2>0, <2>2, <2>4 DEF TalkInv, W!OwnConversation
  <2>6. OfferInv'
    BY <2>2 DEF OfferInv, W!RolesStayOffered
  <2> QED
    BY <2>4, <2>5, <2>6
<1>3. CASE W!InvokeHarness
  <2>1. PICK b \in DOMAIN Backends, schema \in BOOLEAN :
          work' \in W!Spawned([W!NoWork EXCEPT !.kind = "harness", !.of = b, !.schema = schema])
    BY <1>3 DEF W!InvokeHarness
  <2> DEFINE w == [W!NoWork EXCEPT !.kind = "harness", !.of = b, !.schema = schema]
  <2>2. /\ DOMAIN w = WorkFields /\ w.kind = "harness" /\ w.alive = {} /\ w.outcome = "none"
        /\ w.stopped = FALSE /\ w.killed = FALSE /\ w.staged = FALSE
    BY <1>1 DEF WorkFields
  <2>3. work' \in W!Spawned(w)
    BY <2>1
  <2> HIDE DEF w
  <2>4. WorkInv' /\ work'.kind = "harness"
    BY <2>2, <2>3, Starts
  <2>5. UNCHANGED <<talk, offered>>
    BY <1>3 DEF W!InvokeHarness
  <2> QED
    BY <2>4, <2>5, SameTalk
<1>4. CASE W!InvokeNative
  <2>1. PICK timed \in BOOLEAN :
          LET w == [W!NoWork EXCEPT !.kind = "native", !.timed = timed] IN
          work' \in {[w EXCEPT !.at = "running"], W!Over(w, "model"), W!Over(w, "provider")}
    BY <1>4 DEF W!InvokeNative
  <2> DEFINE w == [W!NoWork EXCEPT !.kind = "native", !.timed = timed]
  <2>2. /\ DOMAIN w = WorkFields /\ w.kind = "native" /\ w.alive = {} /\ w.outcome = "none" /\ w.schema = FALSE
        /\ w.stopped = FALSE /\ w.killed = FALSE /\ w.staged = FALSE
    BY <1>1 DEF WorkFields
  <2>3. work' \in {[w EXCEPT !.at = "running"], W!Over(w, "model"), W!Over(w, "provider")}
    BY <2>1
  <2> HIDE DEF w
  <2>4. WorkInv' /\ work'.kind = "native"
    BY <2>2, <2>3, Starts
  <2>5. UNCHANGED <<talk, offered>>
    BY <1>4 DEF W!InvokeNative
  <2> QED
    BY <2>4, <2>5, SameTalk
<1>5. CASE W!Abort
  BY <1>5, Kills DEF W!Abort
<1>6. CASE W!Pin
  <2>1. PICK b \in DOMAIN Backends : \E m \in Backends[b].models :
          talk' = W!Repinned([of |-> b, model |-> m]) /\ offered' = W!RegisterCliModel(b, m) /\ work' = work
    BY <1>6 DEF W!Pin
  <2>2. PICK m \in Backends[b].models :
          talk' = W!Repinned([of |-> b, model |-> m]) /\ offered' = W!RegisterCliModel(b, m) /\ work' = work
    BY <2>1
  <2>3. WorkInv'
    BY <2>2 DEF WorkInv, W!StoppedIsNotDone
  <2>4. /\ DOMAIN talk' = {"pin", "session", "known", "straddled"} /\ talk'.pin = [of |-> b, model |-> m]
        /\ talk'.session = "none" /\ talk'.straddled = (W!Busy /\ work.kind = "pi")
    BY <2>2 DEF W!Repinned, W!None, TalkInv
  <2>5. TalkInv'
    BY <2>2, <2>4 DEF TalkInv, W!OwnConversation, W!None, W!Busy
  <2>6. OfferInv'
    BY <2>2, <2>4 DEF OfferInv, W!RolesStayOffered, W!RegisterCliModel, W!Usable
  <2> QED
    BY <2>3, <2>5, <2>6
<1>7. CASE W!Unpin
  <2>1. talk' = W!Repinned(W!NoPin) /\ UNCHANGED <<work, offered>>
    BY <1>7 DEF W!Unpin
  <2>2. WorkInv'
    BY <2>1 DEF WorkInv, W!StoppedIsNotDone
  <2>3. /\ DOMAIN talk' = {"pin", "session", "known", "straddled"} /\ talk'.pin = [of |-> "none", model |-> "none"]
        /\ talk'.session = "none" /\ talk'.straddled = (W!Busy /\ work.kind = "pi")
    BY <2>1 DEF W!Repinned, W!NoPin, W!None, TalkInv
  <2>4. TalkInv'
    BY <2>1, <2>3 DEF TalkInv, W!OwnConversation, W!None, W!Busy
  <2>5. OfferInv'
    BY <2>1, <2>3, ServersAssumption DEF ServersAssumption, OfferInv, W!RolesStayOffered, W!Usable
  <2> QED
    BY <2>2, <2>4, <2>5
<1>8. CASE W!WorkEvents
  BY <1>8, EventSteps
<1>9. CASE UNCHANGED workVars
  <2>1. WorkInv'
    BY <1>9 DEF workVars, WorkInv, W!StoppedIsNotDone
  <2> QED
    BY <1>9, <2>1, SameTalk DEF workVars, W!Busy
<1> QED
  BY <1>2, <1>3, <1>4, <1>5, <1>6, <1>7, <1>8, <1>9

----------------------------------------------------------------------------

ModeOK == surface.mode \in Modes

\* The mode chosen for a turn is one of the four.
LEMMA ModeIsChosen ==
  ASSUME NEW t \in Turns, NEW served, NEW answer \in {"LSP_OFF", "LSP_DIAGNOSTICS", "LSP_NAVIGATION"}
  PROVE  SelectLspMode(t.configured, served, t.task, t.check, answer).mode \in Modes
BY ServersAssumption DEF ServersAssumption, SelectLspMode, Explicit, Modes

\* The inductive invariant.
Inv == McpInv /\ LspInv /\ TrialInv /\ ModeOK /\ WorkInv /\ TalkInv /\ OfferInv

LEMMA Initially == Init => Inv
<1> SUFFICES ASSUME Init PROVE Inv
  OBVIOUS
<1>1. cached \subseteq Tools
  BY DEF Init, McpInit
<1> QED
  BY <1>1, PoolStarts, LspStarts, TrialStarts, WorkStarts DEF Init, Inv, ModeOK, Modes

\* A step of one part leaves the others' variables alone.
LEMMA EveryStep == Inv /\ [Next]_vars => Inv'
<1> SUFFICES ASSUME Inv, [Next]_vars PROVE Inv'
  OBVIOUS
<1> DEFINE Working == WorkInv /\ TalkInv /\ OfferInv
<1>1. ASSUME UNCHANGED mcpVars PROVE McpInv'
  BY <1>1, PoolSteps DEF Inv
<1>2. ASSUME UNCHANGED lspVars PROVE LspInv'
  BY <1>2, LspSteps DEF Inv
<1>3. ASSUME UNCHANGED trial PROVE TrialInv'
  BY <1>3, TrialSteps DEF Inv
<1>4. ASSUME UNCHANGED surface PROVE ModeOK'
  BY <1>4 DEF Inv, ModeOK
<1>5. ASSUME UNCHANGED workVars PROVE Working'
  BY <1>5, WorkSteps DEF Inv
<1> HIDE DEF Working
<1>6. SUFFICES McpInv' /\ LspInv' /\ TrialInv' /\ ModeOK' /\ Working'
  BY DEF Inv, Working
<1>7. CASE TurnStarts
  <2>1. ModeOK'
    <3>1. PICK t \in Turns, answer \in {"LSP_OFF", "LSP_DIAGNOSTICS", "LSP_NAVIGATION"} : \E live :
            surface' = Apply(live, SelectLspMode(t.configured, Served(Languages, Trusted) \intersect ChangedLanguages(t.packet),
                                                 t.task, t.check, answer).mode)
      BY <1>7 DEF TurnStarts
    <3> QED
      BY <3>1, ModeIsChosen DEF Apply, ModeOK
  <2> QED
    BY <1>1, <1>2, <1>3, <1>5, <1>7, <2>1 DEF TurnStarts
<1>8. CASE Move /\ (OperatorActs \/ ModelActs) /\ UNCHANGED <<surface, turn>>
  <2>1. CASE OperatorActs
    <3>1. McpInv'
      BY <1>1, <2>1, PoolSteps DEF OperatorActs, Inv
    <3>2. Working'
      BY <1>5, <2>1, WorkSteps DEF OperatorActs, Inv, Working
    <3> QED
      BY <1>2, <1>3, <1>4, <1>8, <2>1, <3>1, <3>2 DEF OperatorActs
  <2>2. CASE ModelActs
    <3>1. McpInv'
      <4>1. CASE \E j \in Jobs : \E s : CallTool(j, s)
        BY <4>1, PoolSteps DEF Inv
      <4> QED
        BY <1>1, <2>2, <4>1 DEF ModelActs
    <3>2. LspInv'
      BY <1>2, <2>2, LspSteps DEF ModelActs, Inv
    <3>3. TrialInv'
      <4>1. CASE \E kind, raw, page : StartVerifier(kind, raw, page)
        BY <4>1, TrialSteps DEF Inv
      <4> QED
        BY <1>3, <2>2, <4>1 DEF ModelActs
    <3>4. Working'
      BY <1>5, <2>2, WorkSteps DEF ModelActs, Inv, Working
    <3> QED
      BY <1>4, <1>8, <3>1, <3>2, <3>3, <3>4
  <2> QED
    BY <1>8, <2>1, <2>2
<1>9. CASE Events
  <2>1. CASE OfMcp(McpEvents)
    <3>1. McpInv'
      BY <2>1, PoolSteps DEF OfMcp, Inv
    <3> QED
      BY <1>2, <1>3, <1>4, <1>5, <2>1, <3>1 DEF OfMcp
  <2>2. CASE OfLsp(LspEvents) \/ OfLsp(Edit)
    <3>1. LspInv'
      BY <2>2, LspSteps DEF OfLsp, Inv
    <3> QED
      BY <1>1, <1>3, <1>4, <1>5, <2>2, <3>1 DEF OfLsp
  <2>3. CASE OfTrial(RuntimeEvents)
    <3>1. TrialInv'
      BY <2>3, TrialSteps DEF OfTrial, Inv
    <3> QED
      BY <1>1, <1>2, <1>4, <1>5, <2>3, <3>1 DEF OfTrial
  <2>4. CASE OfWork(W!WorkEvents)
    <3>1. Working'
      BY <2>4, WorkSteps DEF OfWork, Inv, Working
    <3> QED
      BY <1>1, <1>2, <1>3, <1>4, <2>4, <3>1 DEF OfWork
  <2>5. ASSUME NEW r \in Requests, Admitted(r)
        PROVE  McpInv' /\ LspInv' /\ TrialInv' /\ ModeOK' /\ Working'
    <3>1. ModeOK'
      BY <2>5 DEF Admitted, Apply, Inv, ModeOK
    <3> QED
      BY <1>1, <1>2, <1>3, <1>5, <2>5, <3>1 DEF Admitted
  <2> QED
    BY <1>9, <2>1, <2>2, <2>3, <2>4, <2>5 DEF Events
<1>10. CASE UNCHANGED vars
  BY <1>1, <1>2, <1>3, <1>4, <1>5, <1>10 DEF vars
<1>11. ASSUME NEW r \in Requests, Request(r)
       PROVE  McpInv' /\ LspInv' /\ TrialInv' /\ ModeOK' /\ Working'
  BY <1>1, <1>2, <1>3, <1>4, <1>5, <1>11 DEF Request
<1> QED
  BY <1>7, <1>8, <1>9, <1>10, <1>11 DEF Next

LEMMA InvSuffices == Inv => NoProcessIsLost
<1> SUFFICES ASSUME Inv PROVE NoProcessIsLost
  OBVIOUS
<1>1. \A s \in Servers : conn[s] \in 0 .. Len(child) /\ pend[s] \in 0 .. Len(child)
  BY DEF Inv, McpInv, Servers
<1>2. \A j \in Jobs : jobs[j].at \in Places
  BY DEF Inv, McpInv, JobsOK
<1>3. TypeOK
  BY <1>1, <1>2 DEF Inv, McpInv, LspInv, TrialInv, ModeOK, Places, Verdicts, TypeOK
<1>4. StartedOnce
  BY DEF Inv, LspInv, StartedOnce
<1> QED
  BY <1>3, <1>4 DEF Inv, McpInv, TrialInv, NoProcessIsLost

LEMMA Always == Spec => []Inv
BY Initially, EveryStep, PTL DEF Spec

\* For any configuration files, any number of calls, refreshes, queries and
\* verifications at once and whichever child fails, dies or hangs: an MCP server
\* that lives is its server's connection or the one being made, a language has
\* had one server at most, and a program under verification ends before its
\* verdict (mcp/client.ts: callers share the pending attempt; lsp/client.ts:
\* getClient's table; runtime/proc.ts: the group is killed in any case).
THEOREM ProcessesAreKept == Spec => []NoProcessIsLost
BY Always, InvSuffices, PTL

\* Whatever the vendors print, whichever of a worker's processes outlives it and
\* however often the pin changes: a worker that was stopped is never reported as
\* done, a pinned CLI resumes its own conversation but for a turn that outlived
\* its pin, and no pick takes a configured model away (backends/harness.ts: the
\* order of the verdicts; cli-provider.ts: a registration replaces a whole list).
THEOREM WorkIsKept == Spec => []WorkIsAccountedFor
<1>1. Inv => WorkIsAccountedFor
  BY DEF Inv, WorkInv, TalkInv, OfferInv, WorkIsAccountedFor
<1> QED
  BY <1>1, Always, PTL

----------------------------------------------------------------------------

\* A set of numbers has a least one.
LEMMA HasLeast ==
  ASSUME NEW S \in SUBSET Nat, S # {}
  PROVE  \E m \in S : \A n \in S : m <= n
<1>1. PICK m \in S : \A n \in S : ~(<<n, m>> \in OpToRel(<, Nat))
  BY NatLessThanWellFounded, WFMin
<1>2. \A n \in S : ~(n < m)
  BY <1>1 DEF OpToRel
<1> QED
  BY <1>2

\* A finite one has a greatest: the least number of elements of a set without
\* one would not be the least.
LEMMA HasGreatest ==
  ASSUME NEW S \in SUBSET Nat, IsFiniteSet(S), S # {}
  PROVE  \E m \in S : \A n \in S : m >= n
<1> DEFINE Topless(T) == T # {} /\ \A m \in T : \E n \in T : ~(m >= n)
           Sizes == {k \in Nat : \E T \in SUBSET S : Topless(T) /\ Cardinality(T) = k}
<1>1. SUFFICES ASSUME Topless(S) PROVE FALSE
  OBVIOUS
<1>2. Cardinality(S) \in Sizes
  BY <1>1, FS_CardinalityType
<1> HIDE DEF Topless
<1>3. PICK k \in Sizes : \A j \in Sizes : k <= j
  <2>1. Sizes \subseteq Nat /\ Sizes # {}
    BY <1>2
  <2> HIDE DEF Sizes
  <2> QED
    BY <2>1, HasLeast
<1>4. PICK T \in SUBSET S : Topless(T) /\ Cardinality(T) = k
  BY <1>3
<1>5. PICK t \in T : TRUE
  BY <1>4 DEF Topless
<1> DEFINE rest == T \ {t}
<1>6. IsFiniteSet(T) /\ IsFiniteSet(rest) /\ Cardinality(rest) = k - 1 /\ k \in Nat /\ Cardinality(rest) \in Nat
  BY <1>3, <1>4, <1>5, FS_Subset, FS_RemoveElement, FS_CardinalityType
<1>7. ~Topless(rest)
  <2>1. SUFFICES ASSUME Topless(rest) PROVE FALSE
    OBVIOUS
  <2>2. Cardinality(rest) \in Sizes
    BY <1>6, <2>1
  <2> QED
    BY <1>3, <1>6, <2>2
<1>8. rest # {}
  <2>1. SUFFICES ASSUME T = {t} PROVE FALSE
    OBVIOUS
  <2> QED
    BY <1>4, <2>1 DEF Topless
<1>9. PICK m \in rest : \A n \in rest : m >= n
  BY <1>7, <1>8 DEF Topless
<1>10. t \in Nat /\ m \in Nat /\ T \subseteq Nat
  BY <1>5
<1>11. \E g \in T : \A n \in T : g >= n
  <2>1. CASE t >= m
    BY <1>5, <1>9, <1>10, <2>1
  <2>2. CASE ~(t >= m)
    BY <1>5, <1>9, <1>10, <2>2
  <2> QED
    BY <2>1, <2>2
<1> QED
  BY <1>4, <1>11 DEF Topless

----------------------------------------------------------------------------

Listed == [tool : Tools, score : Nat, at : Nat]

\* What a turn may call: no tool twice, and within the cap.
LiveOK(live, cap) ==
  /\ live \subseteq Listed /\ IsFiniteSet(live) /\ Cardinality(live) <= cap
  /\ \A a, b \in live : a.tool = b.tool => a = b

\* The tool that goes before another has the lower rank.
LEMMA RankGrows ==
  ASSUME NEW ids \in SUBSET Tools, NEW score, \A t \in ids : score[t] \in Nat,
         NEW b \in ids, NEW a \in Ahead(ids, score, b)
  PROVE  RankOf(ids, score, a) < RankOf(ids, score, b)
<1> DEFINE A == Ahead(ids, score, a)
           B == Ahead(ids, score, b)
<1>1. ids \subseteq Nat /\ IsFiniteSet(ids) /\ a \in ids
  BY CatalogAssumption, FS_Subset DEF Ahead
<1>2. A \subseteq B /\ a \in B /\ a \notin A
  <2>1. a \in Nat /\ b \in Nat /\ score[a] \in Nat /\ score[b] \in Nat
    BY <1>1
  <2>2. score[a] > score[b] \/ (score[a] = score[b] /\ a < b)
    BY DEF Ahead
  <2>3. a \notin A
    BY <2>1 DEF Ahead
  <2>4. ASSUME NEW u \in A PROVE u \in B
    <3>1. u \in ids /\ u \in Nat /\ score[u] \in Nat
      BY <1>1 DEF Ahead
    <3>2. score[u] > score[a] \/ (score[u] = score[a] /\ u < a)
      BY DEF Ahead
    <3>3. score[u] > score[b] \/ (score[u] = score[b] /\ u < b)
      BY <2>1, <2>2, <3>1, <3>2
    <3> QED
      BY <3>1, <3>3 DEF Ahead
  <2> QED
    BY <2>3, <2>4
<1>3. B \subseteq ids
  BY DEF Ahead
<1>4. IsFiniteSet(B) /\ IsFiniteSet(A)
  BY <1>1, <1>2, <1>3, FS_Subset
<1>5. Cardinality(A) \in Nat /\ Cardinality(B) \in Nat
  BY <1>4, FS_CardinalityType
<1>6. Cardinality(A) <= Cardinality(B) /\ Cardinality(A) # Cardinality(B)
  BY <1>2, <1>4, FS_Subset
<1> QED
  BY <1>5, <1>6 DEF RankOf

LEMMA LiveGrows ==
  ASSUME NEW live, NEW cap \in Nat, LiveOK(live, cap), NEW limit \in Nat, cap <= limit
  PROVE  LiveOK(live, limit)
BY FS_CardinalityType DEF LiveOK

\* So what the cap lets through is no more than the cap.
LEMMA CapHolds ==
  ASSUME NEW ids \in SUBSET Tools, NEW score, \A t \in ids : score[t] \in Nat, NEW cap \in Nat
  PROVE  /\ IsFiniteSet(Capped(ids, score, cap)) /\ Cardinality(Capped(ids, score, cap)) <= cap
         /\ \A t \in ids : RankOf(ids, score, t) \in Nat
<1> DEFINE C == Capped(ids, score, cap)
           f == [t \in C |-> RankOf(ids, score, t)]
<1>1. ids \subseteq Nat /\ IsFiniteSet(ids)
  BY CatalogAssumption, FS_Subset
<1>2. \A t \in ids : RankOf(ids, score, t) \in Nat
  <2> SUFFICES ASSUME NEW t \in ids PROVE RankOf(ids, score, t) \in Nat
    OBVIOUS
  <2>1. Ahead(ids, score, t) \subseteq ids
    BY DEF Ahead
  <2> QED
    BY <1>1, <2>1, FS_Subset, FS_CardinalityType DEF RankOf
<1>3. C \subseteq ids
  BY DEF Capped
<1>4. f \in [C -> 0 .. cap - 1]
  <2>1. \A t \in C : RankOf(ids, score, t) < cap
    BY DEF Capped
  <2> HIDE DEF C
  <2>2. \A t \in C : RankOf(ids, score, t) \in 0 .. cap - 1
    BY <1>1, <1>2, <1>3, <2>1
  <2> QED
    BY <2>2
<1>5. ASSUME NEW a \in C, NEW b \in C, f[a] = f[b] PROVE a = b
  <2>1. SUFFICES ASSUME a # b PROVE FALSE
    OBVIOUS
  <2>2. a \in Ahead(ids, score, b) \/ b \in Ahead(ids, score, a)
    <3>1. a \in ids /\ b \in ids /\ a \in Nat /\ b \in Nat /\ score[a] \in Nat /\ score[b] \in Nat
      BY <1>1, <1>3
    <3>2. \/ score[a] > score[b] \/ (score[a] = score[b] /\ a < b)
          \/ score[b] > score[a] \/ (score[b] = score[a] /\ b < a)
      BY <2>1, <3>1
    <3> QED
      BY <3>1, <3>2 DEF Ahead
  <2>3. RankOf(ids, score, a) # RankOf(ids, score, b)
    <3>1. CASE a \in Ahead(ids, score, b)
      BY <1>2, <1>3, <3>1, RankGrows
    <3>2. CASE b \in Ahead(ids, score, a)
      BY <1>2, <1>3, <3>2, RankGrows
    <3> QED
      BY <2>2, <3>1, <3>2
  <2> QED
    BY <1>5, <2>3
<1>6. f \in Injection(C, 0 .. cap - 1)
  <2> HIDE DEF f, C
  <2> QED
    BY <1>4, <1>5 DEF Injection, IsInjective
<1>7. IsFiniteSet(0 .. cap - 1) /\ Cardinality(0 .. cap - 1) = cap
  BY FS_Interval
<1> HIDE DEF f, C
<1>8. IsFiniteSet(C) /\ Cardinality(C) <= cap
  BY <1>6, <1>7, FS_Injection
<1> QED
  BY <1>2, <1>8 DEF C

LEMMA HydratedIsOK ==
  ASSUME NEW ids \in SUBSET Tools, NEW score, \A t \in ids : score[t] \in Nat, NEW cache,
         NEW cap \in Nat
  PROVE  LiveOK(Hydrate(cache, ids, score, cap), cap)
<1> DEFINE C == Capped(ids, score, cap)
           H == Hydrate(cache, ids, score, cap)
           f == [e \in H |-> e.tool]
<1>1. /\ IsFiniteSet(C) /\ Cardinality(C) <= cap /\ C \subseteq ids
      /\ \A t \in ids : RankOf(ids, score, t) \in Nat
  BY CapHolds DEF Capped
<1>2. H \subseteq Listed
  BY <1>1 DEF Hydrate, Listed
<1>3. \A a, b \in H : a.tool = b.tool => a = b
  BY DEF Hydrate
<1>4. f \in [H -> C]
  BY DEF Hydrate
<1>5. f \in Injection(H, C)
  <2>1. \A a, b \in H : f[a] = f[b] => a = b
    BY <1>3
  <2> HIDE DEF f, C, H
  <2> QED
    BY <1>4, <2>1 DEF Injection, IsInjective
<1> HIDE DEF f, C
<1>6. IsFiniteSet(H) /\ Cardinality(H) <= Cardinality(C)
  <2> HIDE DEF H
  <2> QED
    BY <1>1, <1>5, FS_Injection
<1>7. Cardinality(H) \in Nat /\ Cardinality(C) \in Nat
  BY <1>1, <1>6, FS_CardinalityType
<1>8. Cardinality(H) <= cap
  <2> HIDE DEF H
  <2> QED
    BY <1>1, <1>6, <1>7
<1> QED
  BY <1>2, <1>3, <1>6, <1>8 DEF LiveOK

\* The rows of the catalog are tools: those that were listed, or what the file
\* that names the server hints at.
LEMMA RowsAreTools ==
  ASSUME cached \subseteq Tools
  PROVE  Catalog.rows \subseteq Tools
<1> DEFINE paths == ResolveConfigPaths(Files, Trusted)
           parsed == [i \in DOMAIN paths |-> ParseServerEntries(paths[i], set)]
           Naming(s) == {i \in DOMAIN parsed : s \in DOMAIN parsed[i]}
           entries == [s \in UNION {DOMAIN parsed[i] : i \in DOMAIN parsed} |->
                         parsed[CHOOSE i \in Naming(s) : \A k \in Naming(s) : k <= i][s]]
           CachedOf(s) == {t \in cached : ServerOf[t] = s}
           enabled == {s \in DOMAIN entries : entries[s].enabled}
<1>1. Catalog.rows = UNION {IF CachedOf(s) = {} THEN entries[s].hints ELSE CachedOf(s) : s \in enabled}
  BY DEF Catalog, BuildCatalog
<1>2. DOMAIN paths = 1 .. Len(paths) /\ Len(paths) \in Nat
  BY FilesAssumption
<1>3. ASSUME NEW i \in DOMAIN parsed, NEW s \in DOMAIN parsed[i]
      PROVE  parsed[i][s].hints \subseteq Tools
  <2>1. i \in DOMAIN paths /\ s \in DOMAIN paths[i]
    BY <1>3 DEF ParseServerEntries
  <2>2. parsed[i][s].hints = paths[i][s].hints
    BY <1>3, <2>1 DEF ParseServerEntries
  <2> QED
    BY <2>1, <2>2, FilesAssumption
<1>4. ASSUME NEW s \in DOMAIN entries PROVE entries[s].hints \subseteq Tools
  <2> DEFINE k == CHOOSE i \in Naming(s) : \A j \in Naming(s) : j <= i
  <2>1. Naming(s) \subseteq 1 .. Len(paths) /\ Naming(s) # {}
    BY <1>2, <1>4
  <2>2. Naming(s) \subseteq Nat /\ IsFiniteSet(Naming(s))
    <3> HIDE DEF Naming, paths
    <3>1. IsFiniteSet(1 .. Len(paths)) /\ 1 .. Len(paths) \subseteq Nat
      BY <1>2, FS_Interval
    <3> QED
      BY <2>1, <3>1, FS_Subset
  <2>3. \E i \in Naming(s) : \A j \in Naming(s) : i >= j
    <3> HIDE DEF Naming
    <3> QED
      BY <2>1, <2>2, HasGreatest
  <2>4. k \in Naming(s)
    <3>1. \E i \in Naming(s) : \A j \in Naming(s) : j <= i
      <4> HIDE DEF Naming
      <4> QED
        BY <2>2, <2>3
    <3> HIDE DEF Naming
    <3> QED
      BY <3>1
  <2>5. entries[s] = parsed[k][s]
    BY <1>4
  <2>6. k \in DOMAIN parsed /\ s \in DOMAIN parsed[k]
    <3> HIDE DEF k, parsed
    <3> QED
      BY <2>4
  <2> HIDE DEF k, parsed, entries
  <2> QED
    BY <1>3, <2>5, <2>6
<1> HIDE DEF entries
<1> QED
  BY <1>1, <1>4

\* What a turn is given: the fallback's, nothing, or what was confirmed.
LEMMA SelectedIsOK ==
  ASSUME cached \subseteq Tools, NEW reply \in Replies, NEW cap \in Nat
  PROVE  LiveOK(SelectMcpTools(Catalog, cached, reply, cap), cap)
<1> DEFINE relevant == {s \in DOMAIN reply.score : reply.score[s] >= 1}
           confirmed == {t \in Catalog.rows : ServerOf[t] \in relevant /\ t \in reply.confirmed}
           scores == [t \in confirmed |-> reply.score[ServerOf[t]]]
           standing == {t \in Catalog.rows : ServerOf[t] \in Catalog.fallback}
           even == [t \in Catalog.rows |-> 1]
<1>1. Catalog.rows \subseteq Tools
  BY RowsAreTools
<1>2. LiveOK({}, cap)
  BY FS_EmptySet DEF LiveOK
<1>3. LiveOK(DeterministicSelection(Catalog, cached, cap), cap)
  <2>1. standing \subseteq Tools /\ \A t \in standing : even[t] \in Nat
    BY <1>1
  <2>2. LiveOK(Hydrate(cached, standing, even, cap), cap)
    <3> HIDE DEF standing, even
    <3> QED
      BY <2>1, HydratedIsOK
  <2> QED
    BY <2>2 DEF DeterministicSelection
<1>4. LiveOK(Hydrate(cached, confirmed, scores, cap), cap)
  <2>1. confirmed \subseteq Tools
    BY <1>1
  <2>2. \A t \in confirmed : scores[t] \in Nat
    BY ServersAssumption
  <2> HIDE DEF confirmed, scores
  <2> QED
    BY <2>1, <2>2, HydratedIsOK
<1> QED
  BY <1>2, <1>3, <1>4 DEF SelectMcpTools

\* What is full has a lowest score, and an earliest of the lowest.
LEMMA WorstIsLive ==
  ASSUME NEW live, NEW cap, LiveOK(live, cap), live # {}
  PROVE  Worst(live) \in live
<1>1. live \subseteq Listed
  BY DEF LiveOK
<1>2. \A e \in live : e.score \in Nat /\ e.at \in Nat
  BY <1>1 DEF Listed
<1> DEFINE scores == {e.score : e \in live}
<1>3. PICK low \in scores : \A n \in scores : low <= n
  <2>1. scores \subseteq Nat /\ scores # {}
    BY <1>2
  <2> HIDE DEF scores
  <2> QED
    BY <2>1, HasLeast
<1>4. low \in Nat /\ \A e \in live : low <= e.score
  BY <1>2, <1>3
<1> DEFINE places == {e.at : e \in {f \in live : f.score = low}}
<1>5. PICK first \in places : \A n \in places : first <= n
  <2>1. places \subseteq Nat /\ places # {}
    BY <1>2, <1>3
  <2> HIDE DEF places
  <2> QED
    BY <2>1, HasLeast
<1>6. PICK e \in live : e.score = low /\ e.at = first
  BY <1>5
<1>7. \A f \in live : f.score = low => first <= f.at
  BY <1>5
<1>8. \A f \in live : e.score < f.score \/ (e.score = f.score /\ e.at <= f.at)
  BY <1>2, <1>4, <1>6, <1>7
<1> QED
  BY <1>8 DEF Worst

LEMMA BehindIsNumber ==
  ASSUME NEW live, NEW cap, LiveOK(live, cap)
  PROVE  Behind(live) \in Nat
<1>1. CASE live = {}
  BY <1>1 DEF Behind
<1>2. CASE live # {}
  <2> DEFINE places == {e.at : e \in live}
             f == [e \in live |-> e.at]
  <2>1. places \subseteq Nat /\ places # {}
    BY <1>2 DEF LiveOK, Listed
  <2>2. f \in Surjection(live, places)
    <3>1. f \in [live -> places] /\ \A n \in places : \E e \in live : f[e] = n
      OBVIOUS
    <3> HIDE DEF f, places
    <3> QED
      BY <3>1 DEF Surjection
  <2>3. IsFiniteSet(places)
    <3> HIDE DEF f, places
    <3> QED
      BY <2>2, FS_Surjection DEF LiveOK
  <2>4. Max(places) \in Nat
    <3> HIDE DEF places
    <3> QED
      BY <2>1, <2>3, HasGreatest DEF Max
  <2> QED
    BY <1>2, <2>4 DEF Behind
<1> QED
  BY <1>1, <1>2

\* One tool more, or one in the place of another: a set within a limit that is
\* no lower than the cap, and allows for one, stays within it.
LEMMA AdmittedIsOK ==
  ASSUME NEW limit \in Nat, limit >= 1, NEW cap \in 0 .. limit,
         NEW live, LiveOK(live, limit), NEW t \in Tools, NEW score \in Nat
  PROVE  LiveOK(Admit(t, score, live, cap), limit)
<1>1. CASE \E e \in live : e.tool = t
  BY <1>1 DEF Admit
<1>2. CASE \A e \in live : e.tool # t
  <2> DEFINE kept == IF Cardinality(live) >= cap /\ live # {} THEN live \ {Worst(live)} ELSE live
             new == [tool |-> t, score |-> score, at |-> Behind(live)]
  <2>1. Admit(t, score, live, cap) = kept \union {new}
    BY <1>2 DEF Admit
  <2>2. new \in Listed /\ new.tool = t
    BY BehindIsNumber DEF Listed
  <2>3. IsFiniteSet(live) /\ Cardinality(live) \in Nat /\ Cardinality(live) <= limit
    BY FS_CardinalityType DEF LiveOK
  <2>4. kept \subseteq live /\ IsFiniteSet(kept) /\ Cardinality(kept) < limit
    <3>1. CASE Cardinality(live) < cap
      BY <2>3, <3>1
    <3>2. CASE live = {}
      BY <2>3, <3>2, FS_EmptySet
    <3>3. CASE Cardinality(live) >= cap /\ live # {}
      <4>1. Worst(live) \in live
        BY <3>3, WorstIsLive
      <4>2. IsFiniteSet(live \ {Worst(live)}) /\ Cardinality(live \ {Worst(live)}) = Cardinality(live) - 1
        BY <2>3, <4>1, FS_RemoveElement
      <4> QED
        BY <2>3, <3>3, <4>2
    <3> QED
      BY <2>3, <3>1, <3>2, <3>3
  <2> HIDE DEF kept, new
  <2>5. new \notin kept
    BY <1>2, <2>2, <2>4
  <2>6. IsFiniteSet(kept \union {new}) /\ Cardinality(kept \union {new}) = Cardinality(kept) + 1
    BY <2>4, <2>5, FS_AddElement
  <2>7. Cardinality(kept \union {new}) <= limit
    BY <2>4, <2>6, FS_CardinalityType
  <2>8. kept \union {new} \subseteq Listed
    BY <2>2, <2>4 DEF LiveOK
  <2>9. \A a, b \in kept \union {new} : a.tool = b.tool => a = b
    BY <1>2, <2>2, <2>4 DEF LiveOK
  <2> QED
    BY <2>1, <2>6, <2>7, <2>8, <2>9 DEF LiveOK
<1> QED
  BY <1>1, <1>2

LEMMA AnswerIsOK ==
  ASSUME cached \subseteq Tools, NEW limit \in Nat, limit >= 1, NEW cap \in 0 .. limit,
         NEW live, LiveOK(live, limit), NEW reply \in Admissions
  PROVE  LiveOK(RequestCapability(Catalog, cached, live, reply, cap).live, limit)
<1> DEFINE choice == IF reply.up THEN reply.choice
                     ELSE IF reply.best \in Catalog.rows /\ ServerOf[reply.best] \in Catalog.fallback
                          THEN reply.best ELSE 0
           score == IF reply.up THEN 1 ELSE reply.score
<1>1. score \in Nat
  BY ServersAssumption
<1>2. CASE choice \notin Catalog.rows \intersect cached
  BY <1>2 DEF RequestCapability
<1>3. CASE choice \in Catalog.rows \intersect cached
  <2>1. RequestCapability(Catalog, cached, live, reply, cap).live = Admit(choice, score, live, cap)
    BY <1>3 DEF RequestCapability
  <2> HIDE DEF choice, score
  <2> QED
    BY <1>1, <1>3, <2>1, AdmittedIsOK
<1> QED
  BY <1>2, <1>3

----------------------------------------------------------------------------

\* A task on code that a server could have checked.
Checkable(t) == t.configured = "auto" /\ t.task = "correctness"
                /\ Served(Languages, Trusted) \intersect ChangedLanguages(t.packet) # {}

\* The answer to a request under way is within the turn's limit too, whatever
\* became of the tools it was worked out from; a limit only rises in a turn.
RequestsOK ==
  /\ requests = [r \in Requests |-> requests[r]]
  /\ \A r \in Requests : requests[r].at = "asked" => LiveOK(requests[r].live, Limit)

SurfaceInv ==
  /\ ToolsOfThisTurn /\ LiveOK(Live, Limit)
  /\ DOMAIN turn = {"given", "required", "cap"} /\ turn.cap \in Nat
  /\ RequestsOK

LEMMA SurfaceStarts == Init => SurfaceInv
<1> SUFFICES ASSUME Init PROVE SurfaceInv
  OBVIOUS
<1>1. surface.live = {} /\ ToolsOf({}) = {} /\ Live = {}
  BY DEF Init, ToolsOf, Live
<1>2. turn = [given |-> {}, required |-> FALSE, cap |-> 0] /\ Limit = 1
  BY DEF Init, Limit
<1>3. LiveOK({}, Limit)
  BY <1>2, FS_EmptySet DEF LiveOK
<1>4. ToolsOfThisTurn
  BY <1>1, <1>2, <1>3 DEF Init, ToolsOfThisTurn, LiveOK, ToolsByMode
<1>5. requests = [r \in Requests |-> NoRequest]
  BY DEF Init
<1> QED
  BY <1>1, <1>2, <1>3, <1>4, <1>5 DEF SurfaceInv, RequestsOK, NoRequest

\* Without a step of the surface, what it shows stays what it was, under a limit
\* that is no lower.
LEMMA SurfaceStays ==
  ASSUME ToolsOfThisTurn, LiveOK(Live, Limit), Limit \in Nat, Limit' \in Nat, Limit <= Limit', UNCHANGED surface,
         turn'.given = turn.given, turn'.required = turn.required
  PROVE  ToolsOfThisTurn' /\ LiveOK(Live, Limit)'
<1>1. Live' = Live /\ ToolsOf(Live)' = ToolsOf(Live)
  BY DEF Live, ToolsOf
<1>2. LiveOK(Live, Limit')
  BY LiveGrows
<1> QED
  BY <1>1, <1>2 DEF ToolsOfThisTurn, LiveOK

\* What is applied replaces the tools of before.
LEMMA AppliedIsOK ==
  ASSUME NEW live, LiveOK(live, Limit'), NEW mode \in Modes, surface' = Apply(live, mode),
         \A t \in turn'.given : Checkable(t) => "diagnostics" \in ToolsByMode[mode] \/ turn'.required
  PROVE  ToolsOfThisTurn' /\ LiveOK(Live, Limit)'
<1>1. /\ surface'.live = live /\ surface'.mode = mode /\ surface'.registered = surface.registered \union ToolsOf(live)
      /\ surface'.active = [mcp |-> ToolsOf(live), lsp |-> ToolsByMode[mode]]
  BY DEF Apply
<1>2. Live' = live /\ ToolsOf(Live)' = ToolsOf(live)
  BY <1>1 DEF Live, ToolsOf
<1>3. \A t \in turn'.given : Checkable(t) => "diagnostics" \in surface'.active.lsp \/ turn'.required
  BY <1>1
<1> QED
  BY <1>1, <1>2, <1>3 DEF ToolsOfThisTurn, LiveOK, Checkable

\* The mode of a task on code a server could check has the diagnostics, or the
\* check became a required verifier.
LEMMA DiagnosticsOrCheck ==
  ASSUME NEW t, NEW answer, Checkable(t)
  PROVE  LET chosen == SelectLspMode(t.configured, Served(Languages, Trusted) \intersect ChangedLanguages(t.packet),
                                     t.task, t.check, answer)
         IN  "diagnostics" \in ToolsByMode[chosen.mode] \/ chosen.check
BY DEF Checkable, SelectLspMode, ToolsByMode

LEMMA SurfaceKeeps == Inv /\ SurfaceInv /\ [Next]_vars => SurfaceInv'
<1> SUFFICES ASSUME Inv, SurfaceInv, [Next]_vars PROVE SurfaceInv'
  OBVIOUS
<1> DEFINE TurnOK == DOMAIN turn = {"given", "required", "cap"} /\ turn.cap \in Nat
           ToolsOK == ToolsOfThisTurn /\ LiveOK(Live, Limit)
<1>1. cached \subseteq Tools
  BY DEF Inv, McpInv
<1>2. ToolsOK /\ TurnOK /\ RequestsOK
  BY DEF SurfaceInv
<1>3. Limit \in Nat /\ Limit >= 1 /\ turn.cap <= Limit
  BY <1>2 DEF Limit
<1>4. ASSUME UNCHANGED turn PROVE TurnOK' /\ Limit' = Limit
  BY <1>2, <1>4 DEF Limit
<1>5. ASSUME UNCHANGED <<surface, turn>> PROVE ToolsOK'
  BY <1>2, <1>3, <1>4, <1>5, SurfaceStays
<1>6. ASSUME UNCHANGED <<requests, turn>> PROVE RequestsOK'
  BY <1>2, <1>4, <1>6 DEF RequestsOK, LiveOK
<1> HIDE DEF ToolsOK, TurnOK
<1>7. SUFFICES ToolsOK' /\ TurnOK' /\ RequestsOK'
  BY DEF SurfaceInv, ToolsOK, TurnOK
<1>8. CASE TurnStarts
  <2>1. PICK t \in Turns, answer \in {"LSP_OFF", "LSP_DIAGNOSTICS", "LSP_NAVIGATION"}, cap \in Caps, reply \in Replies :
          LET chosen == SelectLspMode(t.configured, Served(Languages, Trusted) \intersect ChangedLanguages(t.packet),
                                      t.task, t.check, answer)
          IN  /\ turn' = [given |-> {t}, required |-> chosen.check, cap |-> cap]
              /\ surface' = Apply(SelectMcpTools(Catalog, cached, reply, cap), chosen.mode)
    BY <1>8 DEF TurnStarts
  <2> DEFINE chosen == SelectLspMode(t.configured, Served(Languages, Trusted) \intersect ChangedLanguages(t.packet),
                                     t.task, t.check, answer)
             live == SelectMcpTools(Catalog, cached, reply, cap)
  <2>2. cap \in Nat /\ LiveOK(live, cap)
    BY <1>1, SelectedIsOK, ServersAssumption
  <2>3. chosen.mode \in Modes
    BY ModeIsChosen
  <2>4. Checkable(t) => "diagnostics" \in ToolsByMode[chosen.mode] \/ chosen.check
    BY DiagnosticsOrCheck
  <2> HIDE DEF chosen, live
  <2>5. turn' = [given |-> {t}, required |-> chosen.check, cap |-> cap] /\ surface' = Apply(live, chosen.mode)
    BY <2>1 DEF chosen, live
  <2>6. \A u \in turn'.given : Checkable(u) => "diagnostics" \in ToolsByMode[chosen.mode] \/ turn'.required
    BY <2>4, <2>5
  <2>7. TurnOK' /\ Limit' \in Nat /\ cap <= Limit'
    BY <2>2, <2>5 DEF Limit, TurnOK
  <2>8. LiveOK(live, Limit')
    BY <2>2, <2>7, LiveGrows
  <2>9. ToolsOK'
    BY <2>3, <2>5, <2>6, <2>8, AppliedIsOK DEF ToolsOK
  <2>10. UNCHANGED requests /\ \A r \in Requests : requests[r].at # "asked"
    BY <1>8 DEF TurnStarts
  <2>11. RequestsOK'
    BY <1>2, <2>10 DEF RequestsOK
  <2> QED
    BY <2>7, <2>9, <2>11
<1>9. ASSUME NEW r \in Requests, Request(r) PROVE ToolsOK' /\ TurnOK' /\ RequestsOK'
  <2>1. PICK reply \in Admissions, cap \in Caps :
          LET answer == RequestCapability(Catalog, cached, Live, reply, cap) IN
          /\ requests' = [requests EXCEPT ![r] = [at |-> "asked", ok |-> answer.ok, live |-> answer.live, throws |-> answer.throws]]
          /\ turn' = [turn EXCEPT !.cap = IF cap > @ THEN cap ELSE @]
    BY <1>9 DEF Request
  <2> DEFINE answer == RequestCapability(Catalog, cached, Live, reply, cap)
  <2>2. cap \in Nat /\ UNCHANGED surface
    BY <1>9, ServersAssumption DEF Request
  <2>3. /\ turn' = [turn EXCEPT !.cap = IF cap > @ THEN cap ELSE @]
        /\ turn'.cap = (IF cap > turn.cap THEN cap ELSE turn.cap)
        /\ turn'.given = turn.given /\ turn'.required = turn.required
    BY <1>2, <2>1 DEF TurnOK
  <2>4. TurnOK' /\ Limit' \in Nat /\ Limit' >= 1 /\ cap \in 0 .. Limit' /\ Limit <= Limit'
    BY <1>2, <2>2, <2>3 DEF TurnOK, Limit
  <2>5. ToolsOK'
    BY <1>2, <1>3, <2>2, <2>3, <2>4, SurfaceStays DEF ToolsOK
  <2>6. LiveOK(Live, Limit')
    BY <1>2, <1>3, <2>4, LiveGrows DEF ToolsOK
  <2>7. LiveOK(answer.live, Limit')
    BY <1>1, <2>4, <2>6, AnswerIsOK
  <2> HIDE DEF answer
  <2>8. requests' = [requests EXCEPT ![r] = [at |-> "asked", ok |-> answer.ok, live |-> answer.live, throws |-> answer.throws]]
    BY <2>1 DEF answer
  <2>9. \A x \in Requests \ {r} : requests[x].at = "asked" => LiveOK(requests[x].live, Limit')
    BY <1>2, <1>3, <2>4, LiveGrows DEF RequestsOK
  <2>10. /\ requests' = [x \in Requests |-> requests'[x]] /\ requests'[r].live = answer.live
         /\ \A x \in Requests \ {r} : requests'[x] = requests[x]
    BY <1>2, <2>8 DEF RequestsOK
  <2>11. RequestsOK'
    BY <2>7, <2>9, <2>10 DEF RequestsOK, LiveOK
  <2> QED
    BY <2>4, <2>5, <2>11
<1>10. CASE Move /\ (OperatorActs \/ ModelActs) /\ UNCHANGED <<surface, turn>>
  <2>1. UNCHANGED requests
    BY <1>10 DEF OperatorActs, ModelActs
  <2> QED
    BY <1>4, <1>5, <1>6, <1>10, <2>1
<1>11. CASE Events
  <2>1. CASE OfMcp(McpEvents) \/ OfLsp(LspEvents) \/ OfTrial(RuntimeEvents) \/ OfWork(W!WorkEvents) \/ OfLsp(Edit)
    BY <1>4, <1>5, <1>6, <2>1 DEF OfMcp, OfLsp, OfTrial, OfWork
  <2>2. ASSUME NEW r \in Requests, Admitted(r)
        PROVE  ToolsOK' /\ TurnOK' /\ RequestsOK'
    <3>1. PICK done \in {"failed", "done"} : requests' = [requests EXCEPT ![r] = [NoRequest EXCEPT !.at = done]]
      BY <2>2 DEF Admitted
    <3>2. UNCHANGED turn /\ Limit' = Limit /\ TurnOK'
      BY <1>4, <2>2 DEF Admitted
    <3>3. \A x \in Requests : requests'[x] = IF x = r THEN [NoRequest EXCEPT !.at = done] ELSE requests[x]
      BY <1>2, <3>1 DEF RequestsOK
    <3>4. requests' = [x \in Requests |-> requests'[x]]
      BY <1>2, <3>1 DEF RequestsOK
    <3>5. RequestsOK'
      BY <1>2, <3>2, <3>3, <3>4 DEF NoRequest, RequestsOK, LiveOK
    <3>6. CASE surface' = surface
      BY <1>5, <3>2, <3>5, <3>6
    <3>7. CASE surface' = Apply(requests[r].live, surface.mode)
      <4>1. LiveOK(requests[r].live, Limit')
        BY <1>2, <2>2, <3>2 DEF Admitted, RequestsOK
      <4>2. surface.mode \in Modes
        BY DEF Inv, ModeOK
      <4>3. \A t \in turn'.given : Checkable(t) => "diagnostics" \in ToolsByMode[surface.mode] \/ turn'.required
        BY <1>2, <3>2 DEF ToolsOK, ToolsOfThisTurn, Checkable
      <4> QED
        BY <3>2, <3>5, <3>7, <4>1, <4>2, <4>3, AppliedIsOK DEF ToolsOK
    <3> QED
      BY <2>2, <3>6, <3>7 DEF Admitted
  <2> QED
    BY <1>11, <2>1, <2>2 DEF Events
<1>12. CASE UNCHANGED vars
  BY <1>4, <1>5, <1>6, <1>12 DEF vars
<1> QED
  BY <1>8, <1>9, <1>10, <1>11, <1>12 DEF Next

\* Whatever the configuration files name, the control plane answers and is asked
\* for in the middle of a turn, its answers overtaking each other: a turn's MCP
\* tools are what was chosen for it last, none twice and no more than the highest
\* cap read for it (one, where that is 0); and a task on code that a server could
\* have checked has the diagnostics or the check that stands in for them (mcp/select.ts: slice and admit; mcp/tools.ts: apply;
\* lsp/provider.ts: the targeted check becomes a required verifier).
THEOREM ToolsAreTheTurns == Spec => []ToolsOfThisTurn
<1>1. SurfaceInv => ToolsOfThisTurn
  BY DEF SurfaceInv
<1> QED
  BY <1>1, Always, SurfaceStarts, SurfaceKeeps, PTL DEF Spec

=============================================================================
