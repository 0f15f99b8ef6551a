------------------------------ MODULE Worktree ------------------------------
(***************************************************************************)
(* One isolated run (src/runtime/worktree.ts): runIsolated creates a       *)
(* checkout, runs a worker in it, surfaces what it changed as a patch,     *)
(* has the patch persisted and reclaims the checkout; pruneOrphans, called *)
(* by hand from another process, does the same to a checkout whose owner   *)
(* is gone.  Either process may die between any two of its file            *)
(* operations, and a process the worker left behind may still write.       *)
(*                                                                         *)
(* A checkout is the content of its paths: tracked ones, new ones (Base is *)
(* "no such file") and ignored ones.  A patch is the hashes surfacePatch   *)
(* records for the dirty paths and the complete diff, taken one after the  *)
(* other.  The run's id is fresh, as isolationRunId makes it, and one      *)
(* prune runs at a time.                                                   *)
(***************************************************************************)
EXTENDS Naturals

CONSTANTS
  Tracked, New, Ignored,  \* the paths a run may touch
  Contents,               \* what is written to them
  Base,                   \* their content in the base commit
  Unlisted,               \* the hash of a path a patch does not list
  NoPatch,
  MaxLate                 \* bound: writes of a process the worker left behind

Patchable == Tracked \union New

Paths == Patchable \union Ignored

Values == Contents \union {Base}

Patches ==
  [hashes : [Patchable -> Values \union {Unlisted}], complete : [Patchable -> Values]]

ASSUME WorktreeAssumption ==
  /\ Tracked \intersect New = {} /\ Patchable \intersect Ignored = {}
  /\ Base \notin Contents /\ Unlisted \notin Values
  /\ NoPatch \notin Patches
  /\ MaxLate \in Nat

VARIABLES
  dir,      \* the checkout exists and git lists it
  tree,     \* its content
  head,     \* the content its HEAD has for the patchable paths
  stamp,    \* <run>.base exists
  owner,    \* <run>.owner: absent, a process id, or null
  pc,       \* where the owner and the prune are
  patch,    \* the patch each holds in memory
  listed,   \* the untracked files each is about to remove
  saved,    \* .leanpi/patches/<run>.patch
  sidecar,  \* <run>.patch.json
  late,     \* writes of a left-behind process so far (bounds LateWrite)
  written,  \* what was last written to each path (history)
  tail,     \* paths written after the comparison that let them go (history)
  begun,    \* a prune has restored something (history)
  torn      \* a prune has surfaced a checkout it had begun to restore (history)

checkoutVars == <<dir, tree, head>>
stampVars == <<stamp, owner>>
patchVars == <<patch, listed, saved, sidecar>>
historyVars == <<late, written, tail, begun, torn>>
vars == <<checkoutVars, stampVars, pc, patchVars, historyVars>>

Actors == {"owner", "prune"}

Running == {"added", "stamped", "running"}

\* The paths that are let go without another look at their content.
Settled(place) ==
  {p \in Paths :
     \/ p \in Ignored /\ place \in {"status", "compare", "list", "restore", "rm", "remove"}
     \/ p \in Tracked /\ place \in {"list", "restore"}
     \/ p \in New /\ place \in {"list", "restore", "rm"}}

Places ==
  Running \union
  {"start", "idle", "surface", "capture", "persist", "check", "status", "compare",
   "list", "restore", "rm", "remove", "unstamp", "disown", "done", "dead"}

TypeOK ==
  /\ dir \in BOOLEAN /\ tree \in [Paths -> Values] /\ head \in [Patchable -> Values]
  /\ stamp \in BOOLEAN /\ owner \in {"none", "pid", "null"}
  /\ pc \in [Actors -> Places]
  /\ patch \in [Actors -> Patches \union {NoPatch}]
  /\ listed \in [Actors -> SUBSET New]
  /\ saved \in Patches \union {NoPatch} /\ sidecar \in Patches \union {NoPatch}
  /\ late \in Nat /\ written \in [Paths -> Values] /\ tail \subseteq Paths
  /\ begun \in BOOLEAN /\ torn \in BOOLEAN
-----------------------------------------------------------------------------
Init ==
  /\ dir = FALSE /\ tree = [p \in Paths |-> Base] /\ head = [p \in Patchable |-> Base]
  /\ stamp = FALSE /\ owner = "none"
  /\ pc = [a \in Actors |-> IF a = "owner" THEN "start" ELSE "idle"]
  /\ patch = [a \in Actors |-> NoPatch] /\ listed = [a \in Actors |-> {}]
  /\ saved = NoPatch /\ sidecar = NoPatch
  /\ late = 0 /\ written = [p \in Paths |-> Base] /\ tail = {}
  /\ begun = FALSE /\ torn = FALSE

Goto(a, place) == pc' = [pc EXCEPT ![a] = place]

\* The call returns or throws: the owner's turn goes on, a prune may be repeated.
Leaves(a) ==
  /\ Goto(a, IF a = "owner" THEN "done" ELSE "idle")
  /\ patch' = [patch EXCEPT ![a] = NoPatch]
  /\ listed' = [listed EXCEPT ![a] = {}]
  /\ UNCHANGED <<saved, sidecar>>

Keeps(a) == Leaves(a) /\ UNCHANGED <<checkoutVars, stampVars, historyVars>>
-----------------------------------------------------------------------------
(***************************************************************************)
(* The owner until its run is over.                                        *)
(***************************************************************************)
\* No permission, or git refuses: nothing was created.
Refused == pc["owner"] = "start" /\ Keeps("owner")

AddWorktree ==
  /\ pc["owner"] = "start"
  /\ dir' = TRUE
  /\ Goto("owner", "added")
  /\ UNCHANGED <<tree, head, stampVars, patchVars, historyVars>>

WriteStamp ==
  /\ pc["owner"] = "added"
  /\ stamp' = TRUE
  /\ Goto("owner", "stamped")
  /\ UNCHANGED <<checkoutVars, owner, patchVars, historyVars>>

WriteOwner ==
  /\ pc["owner"] = "stamped"
  /\ owner' = "pid"
  /\ Goto("owner", "running")
  /\ UNCHANGED <<checkoutVars, stamp, patchVars, historyVars>>

Writes(p, content) ==
  /\ tree' = [tree EXCEPT ![p] = content]
  /\ written' = [written EXCEPT ![p] = content]
  /\ UNCHANGED <<dir, head, stampVars, pc, patchVars, begun, torn>>

RunWrites ==
  /\ pc["owner"] = "running"
  /\ \E p \in Paths, content \in Contents : Writes(p, content)
  /\ UNCHANGED <<late, tail>>

RunCommits ==
  /\ pc["owner"] = "running"
  /\ head' = [p \in Patchable |-> tree[p]]
  /\ UNCHANGED <<dir, tree, stampVars, pc, patchVars, historyVars>>

\* The run resolved or threw: both ways the owner gives the checkout up.
RunEnds ==
  /\ pc["owner"] = "running"
  /\ owner' = "null"
  /\ Goto("owner", "surface")
  /\ UNCHANGED <<checkoutVars, stamp, patchVars, historyVars>>

\* A process the worker started and nobody waited for writes a file.
LateWrite ==
  /\ dir /\ owner # "none" /\ late < MaxLate
  /\ late' = late + 1
  /\ \E p \in Paths, content \in Contents :
       /\ Writes(p, content)
       /\ tail' = IF \E a \in Actors : p \in Settled(pc[a]) THEN tail \union {p} ELSE tail
-----------------------------------------------------------------------------
(***************************************************************************)
(* Surfacing, by the owner or by a prune.                                  *)
(***************************************************************************)
\* Mutant: a process id on file is not looked up.
AnyOwnerInactive == owner # "none"

\* ownerInactive: null, or a process that no longer exists.
Inactive == owner = "null" \/ (owner = "pid" /\ pc["owner"] = "dead")

Dirty == {p \in Patchable : tree[p] # head[p]}

\* pruneOrphans finds the directory, its stamp, and no live owner.
StartPrune ==
  /\ pc["prune"] = "idle"
  /\ dir /\ stamp /\ Inactive
  /\ Goto("prune", IF Dirty = {} THEN "check" ELSE "surface")
  /\ UNCHANGED <<checkoutVars, stampVars, patchVars, historyVars>>

\* surfacePatch reads the dirty paths one by one ...
SurfaceHashes(a) ==
  /\ pc[a] = "surface" /\ dir /\ stamp
  /\ patch' = [patch EXCEPT ![a] =
       [hashes   |-> [p \in Patchable |-> IF p \in Dirty THEN tree[p] ELSE Unlisted],
        complete |-> [p \in Patchable |-> Base]]]
  /\ Goto(a, "capture")
  /\ UNCHANGED <<checkoutVars, stampVars, listed, saved, sidecar, historyVars>>

\* ... and then has git render the whole difference from the base.
SurfaceDiff(a) ==
  /\ pc[a] = "capture" /\ dir
  /\ patch' = [patch EXCEPT ![a].complete = [p \in Patchable |-> tree[p]]]
  /\ Goto(a, "persist")
  /\ UNCHANGED <<checkoutVars, stampVars, listed, saved, sidecar, historyVars>>

\* onPatch: the turn writes the patch under .leanpi.
OwnerPersists ==
  /\ pc["owner"] = "persist"
  /\ saved' = patch["owner"]
  /\ Goto("owner", "check")
  /\ UNCHANGED <<checkoutVars, stampVars, patch, listed, sidecar, historyVars>>

\* A prune writes its patch beside the checkout, over any earlier one.
PrunePersists ==
  /\ pc["prune"] = "persist"
  /\ sidecar' = patch["prune"]
  /\ torn' = (torn \/ begun)
  /\ Goto("prune", "check")
  /\ UNCHANGED <<checkoutVars, stampVars, patch, listed, saved, late, written, tail, begun>>

\* git fails, a file cannot be read, or the patch cannot be written: kept.
SurfaceFails(a) == pc[a] \in {"surface", "capture", "persist"} /\ Keeps(a)
-----------------------------------------------------------------------------
(***************************************************************************)
(* cleanup, by the owner or by a prune.                                    *)
(***************************************************************************)
\* A directory that is already gone is a success.
AlreadyGone(a) ==
  /\ pc[a] = "check" /\ ~dir
  /\ Goto(a, "unstamp")
  /\ UNCHANGED <<checkoutVars, stampVars, patchVars, historyVars>>

\* A stamped checkout without a live owner, ignored files or commits.
Admissible ==
  /\ stamp /\ Inactive
  /\ \A p \in Ignored : tree[p] = Base
  /\ head = [p \in Patchable |-> Base]

Admit(a) ==
  /\ pc[a] = "check" /\ dir /\ Admissible
  /\ Goto(a, "status")
  /\ UNCHANGED <<checkoutVars, stampVars, patchVars, historyVars>>

Step(a, from, to) ==
  /\ pc[a] = from /\ dir
  /\ Goto(a, to)
  /\ UNCHANGED <<checkoutVars, stampVars, patchVars, historyVars>>

NothingDirty(a) == Dirty = {} /\ Step(a, "status", "remove")

\* Every dirty path is in the patch, and every path of the patch has its hash.
Matches(a) ==
  /\ patch[a] # NoPatch
  /\ \A p \in Patchable : patch[a].hashes[p] = IF p \in Dirty THEN tree[p] ELSE Unlisted

Represented(a) == Step(a, "status", "compare") /\ Dirty # {} /\ Matches(a)

\* Mutant: the diff is not rendered again.
CompareNothing(a) == Step(a, "compare", "list")

\* The complete diff is rendered again and must be the one that was surfaced.
Compare(a) ==
  /\ Step(a, "compare", "list")
  /\ patch[a].complete = [p \in Patchable |-> tree[p]]

\* Everything a check may object to keeps the checkout.
Objects(a) ==
  /\ dir /\ Keeps(a)
  /\ \/ pc[a] = "check" /\ ~Admissible
     \/ pc[a] = "status" /\ Dirty # {} /\ ~Matches(a)
     \/ pc[a] = "compare" /\ patch[a].complete # [p \in Patchable |-> tree[p]]

ListUntracked(a) ==
  /\ pc[a] = "list" /\ dir
  /\ listed' = [listed EXCEPT ![a] = {p \in New : tree[p] # Base}]
  /\ Goto(a, "restore")
  /\ UNCHANGED <<checkoutVars, stampVars, patch, saved, sidecar, historyVars>>

Restore(a) ==
  /\ pc[a] = "restore" /\ dir
  /\ tree' = [p \in Paths |-> IF p \in Tracked THEN Base ELSE tree[p]]
  /\ begun' = (begun \/ a = "prune")
  /\ Goto(a, "rm")
  /\ UNCHANGED <<dir, head, stampVars, patchVars, late, written, tail, torn>>

RemoveFile(a) ==
  /\ pc[a] = "rm"
  /\ \E p \in listed[a] :
       /\ tree[p] # Base
       /\ tree' = [tree EXCEPT ![p] = Base]
       /\ listed' = [listed EXCEPT ![a] = @ \ {p}]
  /\ UNCHANGED <<dir, head, stampVars, pc, patch, saved, sidecar, historyVars>>

FilesRemoved(a) == listed[a] = {} /\ Step(a, "rm", "remove")

\* git worktree remove without force: it refuses a dirty checkout, and does not
\* look at ignored files.
RemoveWorktree(a) ==
  /\ pc[a] = "remove" /\ dir /\ Dirty = {}
  /\ dir' = FALSE
  /\ tree' = [p \in Paths |-> Base]
  /\ Goto(a, "unstamp")
  /\ UNCHANGED <<head, stampVars, patchVars, historyVars>>

\* A file that is missing or protected, a dirty or locked checkout: kept as it is.
RemovalFails(a) == pc[a] \in {"compare", "list", "restore", "rm", "remove"} /\ Keeps(a)

\* The other process took the directory away: git throws.
LosesDirectory(a) == pc[a] = "status" /\ ~dir /\ Keeps(a)

RemoveStamp(a) ==
  /\ pc[a] = "unstamp"
  /\ stamp' = FALSE
  /\ Goto(a, "disown")
  /\ UNCHANGED <<checkoutVars, owner, patchVars, historyVars>>

RemoveOwner(a) ==
  /\ pc[a] = "disown"
  /\ owner' = "none"
  /\ Leaves(a)
  /\ UNCHANGED <<checkoutVars, stamp, historyVars>>

\* The process dies; what it held in memory is gone.
Dies(a) ==
  /\ pc[a] \notin {"done", "idle", "dead"}
  /\ Goto(a, IF a = "owner" THEN "dead" ELSE "idle")
  /\ patch' = [patch EXCEPT ![a] = NoPatch]
  /\ listed' = [listed EXCEPT ![a] = {}]
  /\ UNCHANGED <<checkoutVars, stampVars, saved, sidecar, historyVars>>
-----------------------------------------------------------------------------
Create == Refused \/ AddWorktree \/ WriteStamp \/ WriteOwner

Run == RunWrites \/ RunCommits \/ RunEnds

Surface(a) == SurfaceHashes(a) \/ SurfaceDiff(a) \/ SurfaceFails(a)

Check(a) ==
  \/ AlreadyGone(a) \/ Admit(a) \/ NothingDirty(a) \/ Represented(a) \/ Compare(a)
  \/ Objects(a) \/ LosesDirectory(a)

Reclaim(a) ==
  \/ ListUntracked(a) \/ Restore(a) \/ RemoveFile(a) \/ FilesRemoved(a)
  \/ RemoveWorktree(a) \/ RemovalFails(a) \/ RemoveStamp(a) \/ RemoveOwner(a)

Next ==
  \/ Create \/ Run \/ LateWrite \/ StartPrune \/ OwnerPersists \/ PrunePersists
  \/ \E a \in Actors : Surface(a) \/ Check(a) \/ Reclaim(a) \/ Dies(a)

Spec == Init /\ [][Next]_vars
-----------------------------------------------------------------------------
(***************************************************************************)
(* Properties.                                                             *)
(***************************************************************************)
InCheckout(p) == dir /\ tree[p] = written[p]

InPatch(p, file) == p \in Patchable /\ file # NoPatch /\ file.complete[p] = written[p]

\* What was last written to a path is in the checkout, or in a patch on disk.
Kept(p) ==
  \/ written[p] = Base \/ InCheckout(p)
  \/ InPatch(p, saved) \/ InPatch(p, sidecar)

\* A run's work survives its checkout, whatever process dies, whatever fails and
\* whoever else writes meanwhile: unless a prune surfaces a checkout it had begun
\* to restore, only what was written between the last comparison and the removal
\* can be missing from the checkout and from every patch on disk.
WorkIsKept == torn \/ \A p \in Paths \ tail : Kept(p)

\* While its run is alive nobody else touches a checkout: it stays, and it only
\* changes by what is written to it.
LiveRunsAreLeftAlone ==
  [][pc["owner"] \in Running /\ pc'["owner"] # "dead" =>
       dir' /\ \A p \in Paths : tree'[p] # tree[p] => tree'[p] = written'[p]]_vars

\* A checkout that was owned never loses its stamp or its owner's file before it
\* is gone itself: without them nobody would ever reclaim it.
ReclaimableWhileItExists ==
  dir => /\ owner # "none" => stamp
         /\ pc["owner"] \notin {"added", "stamped", "dead"} => owner # "none"

\* Nothing of a run is lost, and nothing of it is left over for good
\* (src/runtime/worktree.ts:378-740).
NothingIsLost == TypeOK /\ WorkIsKept /\ ReclaimableWhileItExists

\* What the proofs add.  Where the owner is tells what exists, and until its run is
\* over no prune is at work.
OwnerPlace ==
  /\ pc["owner"] # "idle"
  /\ pc["owner"] \in Running \union {"start"} => pc["prune"] = "idle"
  /\ pc["owner"] = "start" => ~dir
  /\ pc["owner"] \in Running => dir
  /\ pc["owner"] \in {"start", "added", "stamped"} =>
       owner = "none" /\ \A p \in Paths : written[p] = Base
  /\ pc["owner"] \in {"stamped", "running"} => stamp
  /\ pc["owner"] = "running" => owner = "pid"
  /\ pc["owner"] \in Running \union {"start", "surface", "capture", "persist"} =>
       saved = NoPatch

\* A prune has the places of surfacing and cleaning up only, and has restored
\* something by the time it removes files.
PrunePlace ==
  /\ pc["prune"] \notin Running \union {"start", "done", "dead"}
  /\ pc["prune"] = "rm" => begun
  /\ pc["prune"] \in {"idle", "surface"} => patch["prune"] = NoPatch

Cleaning == {"check", "status", "compare", "list", "restore", "rm", "remove"}

\* The patch on disk that an actor's cleanup relies on.
Store(a) == IF a = "owner" THEN saved ELSE sidecar

\* The patch in memory is the one on disk, and what a cleanup no longer looks at
\* is as it was admitted or compared.
CleanupOK(a) ==
  /\ pc[a] \in {"unstamp", "disown"} => ~dir
  /\ pc[a] \in Cleaning /\ patch[a] # NoPatch => Store(a) = patch[a]
  /\ pc[a] \in {"capture", "persist", "compare", "list", "restore", "rm"} =>
       patch[a] # NoPatch
  /\ pc[a] \in Cleaning \ {"check"} => \A p \in Patchable : head[p] = Base
  /\ \A p \in Settled(pc[a]) \ tail :
       tree[p] = Base \/ (p \in Patchable /\ tree[p] = patch[a].complete[p])

\* A path has what was written to it last, unless it was restored or removed.
TreeOK ==
  \A p \in Paths : /\ tree[p] = written[p] \/ tree[p] = Base
                   /\ p \in Ignored /\ dir => tree[p] = written[p]

\* Until a prune restores something no work rests on its patch.
NotYetOnSidecar ==
  ~begun => \A p \in Paths \ tail :
              written[p] = Base \/ InCheckout(p) \/ InPatch(p, saved)

WorktreeInv ==
  /\ TypeOK /\ OwnerPlace /\ PrunePlace /\ (\A a \in Actors : CleanupOK(a))
  /\ TreeOK /\ NotYetOnSidecar /\ WorkIsKept
=============================================================================
