--------------------------- MODULE WorkspaceProofs ---------------------------
(***************************************************************************)
(* What is not lost of a session's work.                                   *)
(*                                                                         *)
(* First part, the isolated run: for every set of paths and contents and   *)
(* any number of late writes its work survives its checkout, nobody        *)
(* touches it while it runs, and it stays reclaimable while it exists.     *)
(*                                                                         *)
(* Second part, the outputs a session keeps before the model: for every    *)
(* set of outputs, calls and batches each stays whole or by a reference    *)
(* whose bytes are stored, through reductions, compactions and restarts.   *)
(*                                                                         *)
(* Third part, the exploration that selects files: for every set of files, *)
(* whatever they cost, and every budget, what is selected is paid for,     *)
(* accounted and justified.  Its loops are folds; a fold is proved about   *)
(* by the values it passes through, up to the first that would be wrong.   *)
(***************************************************************************)
EXTENDS Worktree, Context, FiniteSetTheorems, WellFoundedInduction, TLAPS

------------------------------------------------------ (* an isolated run *)

\* The initial state satisfies the invariant.
LEMMA InitInv == Init => WorktreeInv
<1> SUFFICES ASSUME Init PROVE WorktreeInv
  OBVIOUS
<1> USE WorktreeAssumption
<1>1. TypeOK
  BY DEF Init, TypeOK, Actors, Places, Running, Values
<1>2. OwnerPlace /\ PrunePlace /\ TreeOK
  BY DEF Init, OwnerPlace, PrunePlace, TreeOK, Actors, Running, Paths
<1>3. \A a \in Actors : CleanupOK(a)
  BY DEF Init, CleanupOK, Actors, Cleaning, Settled
<1>4. NotYetOnSidecar /\ WorkIsKept
  BY DEF Init, NotYetOnSidecar, WorkIsKept, Kept, InCheckout, InPatch
<1>5. QED
  BY <1>1, <1>2, <1>3, <1>4 DEF WorktreeInv

\* What surfacing puts together, in two steps, is a patch and not its absence.
LEMMA HashesArePatch ==
  ASSUME TypeOK
  PROVE  LET surfaced ==
           [hashes   |-> [p \in Patchable |-> IF p \in Dirty THEN tree[p] ELSE Unlisted],
            complete |-> [p \in Patchable |-> Base]]
         IN surfaced \in Patches /\ surfaced # NoPatch
  BY WorktreeAssumption DEF TypeOK, Patches, Values, Paths

LEMMA DiffCompletesPatch ==
  ASSUME TypeOK, NEW file \in Patches
  PROVE  [file EXCEPT !.complete = [p \in Patchable |-> tree[p]]] \in Patches
  BY DEF TypeOK, Patches, Paths

\* Every step keeps the types; a patch that is completed was begun.
LEMMA TypeStep == WorktreeInv /\ [Next]_vars => TypeOK'
<1> SUFFICES ASSUME WorktreeInv, [Next]_vars PROVE TypeOK'
  OBVIOUS
<1> USE WorktreeAssumption DEF WorktreeInv, TypeOK, CleanupOK, Places, Running, Values,
        Patches, Paths, Patchable, Actors, checkoutVars, stampVars, patchVars,
        historyVars, Goto, Leaves, Keeps, Step, Writes
<1>1. CASE Refused
  BY <1>1 DEF Refused
<1>2. CASE AddWorktree
  BY <1>2 DEF AddWorktree
<1>3. CASE WriteStamp
  BY <1>3 DEF WriteStamp
<1>4. CASE WriteOwner
  BY <1>4 DEF WriteOwner
<1>5. CASE RunWrites
  BY <1>5 DEF RunWrites
<1>6. CASE RunCommits
  BY <1>6 DEF RunCommits
<1>7. CASE RunEnds
  BY <1>7 DEF RunEnds
<1>8. CASE LateWrite
  BY <1>8 DEF LateWrite
<1>9. CASE StartPrune
  BY <1>9 DEF StartPrune
<1>10. CASE OwnerPersists
  BY <1>10 DEF OwnerPersists
<1>11. CASE PrunePersists
  BY <1>11 DEF PrunePersists
<1>a. ASSUME NEW a \in Actors, Surface(a) \/ Check(a) \/ Reclaim(a) \/ Dies(a)
  PROVE  TypeOK'
  <2>1. CASE SurfaceHashes(a)
    BY <2>1 DEF SurfaceHashes
  <2>2. CASE SurfaceDiff(a)
    <3>1. patch[a] \in Patches
      BY <2>2 DEF SurfaceDiff
    <3>2. [patch[a] EXCEPT !.complete = [p \in Patchable |-> tree[p]]] \in Patches
      BY <3>1, DiffCompletesPatch
    <3>3. patch' \in [Actors -> Patches \union {NoPatch}]
      BY <2>2, <3>2 DEF SurfaceDiff
    <3> QED
      BY <2>2, <3>3 DEF SurfaceDiff
  <2>3. CASE SurfaceFails(a)
    BY <2>3 DEF SurfaceFails
  <2>4. CASE AlreadyGone(a)
    BY <2>4 DEF AlreadyGone
  <2>5. CASE Admit(a)
    BY <2>5 DEF Admit
  <2>6. CASE NothingDirty(a)
    BY <2>6 DEF NothingDirty
  <2>7. CASE Represented(a)
    BY <2>7 DEF Represented
  <2>8. CASE Compare(a)
    BY <2>8 DEF Compare
  <2>9. CASE Objects(a)
    BY <2>9 DEF Objects
  <2>10. CASE LosesDirectory(a)
    BY <2>10 DEF LosesDirectory
  <2>11. CASE ListUntracked(a)
    BY <2>11 DEF ListUntracked
  <2>12. CASE Restore(a)
    BY <2>12 DEF Restore
  <2>13. CASE RemoveFile(a)
    BY <2>13 DEF RemoveFile
  <2>14. CASE FilesRemoved(a)
    BY <2>14 DEF FilesRemoved
  <2>15. CASE RemoveWorktree(a)
    BY <2>15 DEF RemoveWorktree
  <2>16. CASE RemovalFails(a)
    BY <2>16 DEF RemovalFails
  <2>17. CASE RemoveStamp(a)
    BY <2>17 DEF RemoveStamp
  <2>18. CASE RemoveOwner(a)
    BY <2>18 DEF RemoveOwner
  <2>19. CASE Dies(a)
    BY <2>19 DEF Dies
  <2> QED
    BY <1>a, <2>1, <2>2, <2>3, <2>4, <2>5, <2>6, <2>7, <2>8, <2>9, <2>10, <2>11, <2>12,
      <2>13, <2>14, <2>15, <2>16, <2>17, <2>18, <2>19 DEF Surface, Check, Reclaim
<1>s. CASE UNCHANGED vars
  BY <1>s DEF vars
<1> QED
  BY <1>1, <1>2, <1>3, <1>4, <1>5, <1>6, <1>7, <1>8, <1>9, <1>10, <1>11, <1>a, <1>s DEF
    Next, Create, Run

\* No prune starts before the run is over, and what exists follows the owner.
LEMMA PlaceStep == WorktreeInv /\ [Next]_vars => OwnerPlace' /\ PrunePlace'
<1> SUFFICES ASSUME WorktreeInv, [Next]_vars PROVE OwnerPlace' /\ PrunePlace'
  OBVIOUS
<1> USE WorktreeAssumption DEF WorktreeInv, TypeOK, Places, OwnerPlace, PrunePlace,
        Running, Inactive, CleanupOK, Paths, Patchable, Cleaning, Actors, checkoutVars,
        stampVars, patchVars, historyVars, Goto, Leaves, Keeps, Step, Writes
<1>1. CASE Refused
  BY <1>1 DEF Refused
<1>2. CASE AddWorktree
  BY <1>2 DEF AddWorktree
<1>3. CASE WriteStamp
  BY <1>3 DEF WriteStamp
<1>4. CASE WriteOwner
  BY <1>4 DEF WriteOwner
<1>5. CASE RunWrites
  BY <1>5 DEF RunWrites
<1>6. CASE RunCommits
  BY <1>6 DEF RunCommits
<1>7. CASE RunEnds
  BY <1>7 DEF RunEnds
<1>8. CASE LateWrite
  BY <1>8 DEF LateWrite
<1>9. CASE StartPrune
  BY <1>9 DEF StartPrune
<1>10. CASE OwnerPersists
  BY <1>10 DEF OwnerPersists
<1>11. CASE PrunePersists
  BY <1>11 DEF PrunePersists
<1>a. ASSUME NEW a \in Actors, Surface(a) \/ Check(a) \/ Reclaim(a) \/ Dies(a)
  PROVE  OwnerPlace' /\ PrunePlace'
  <2>1. CASE SurfaceHashes(a)
    BY <2>1 DEF SurfaceHashes
  <2>2. CASE SurfaceDiff(a)
    BY <2>2 DEF SurfaceDiff
  <2>3. CASE SurfaceFails(a)
    BY <2>3 DEF SurfaceFails
  <2>4. CASE AlreadyGone(a)
    BY <2>4 DEF AlreadyGone
  <2>5. CASE Admit(a)
    BY <2>5 DEF Admit
  <2>6. CASE NothingDirty(a)
    BY <2>6 DEF NothingDirty
  <2>7. CASE Represented(a)
    BY <2>7 DEF Represented
  <2>8. CASE Compare(a)
    BY <2>8 DEF Compare
  <2>9. CASE Objects(a)
    BY <2>9 DEF Objects
  <2>10. CASE LosesDirectory(a)
    BY <2>10 DEF LosesDirectory
  <2>11. CASE ListUntracked(a)
    BY <2>11 DEF ListUntracked
  <2>12. CASE Restore(a)
    BY <2>12 DEF Restore
  <2>13. CASE RemoveFile(a)
    BY <2>13 DEF RemoveFile
  <2>14. CASE FilesRemoved(a)
    BY <2>14 DEF FilesRemoved
  <2>15. CASE RemoveWorktree(a)
    BY <2>15 DEF RemoveWorktree
  <2>16. CASE RemovalFails(a)
    BY <2>16 DEF RemovalFails
  <2>17. CASE RemoveStamp(a)
    BY <2>17 DEF RemoveStamp
  <2>18. CASE RemoveOwner(a)
    BY <2>18 DEF RemoveOwner
  <2>19. CASE Dies(a)
    BY <2>19 DEF Dies
  <2> QED
    BY <1>a, <2>1, <2>2, <2>3, <2>4, <2>5, <2>6, <2>7, <2>8, <2>9, <2>10, <2>11, <2>12,
      <2>13, <2>14, <2>15, <2>16, <2>17, <2>18, <2>19 DEF Surface, Check, Reclaim
<1>s. CASE UNCHANGED vars
  BY <1>s DEF vars
<1> QED
  BY <1>1, <1>2, <1>3, <1>4, <1>5, <1>6, <1>7, <1>8, <1>9, <1>10, <1>11, <1>a, <1>s DEF
    Next, Create, Run

\* A cleanup relies on a patch that is on disk and on content that was compared.
LEMMA CleanupStep == WorktreeInv /\ [Next]_vars => \A b \in Actors : CleanupOK(b)'
<1> SUFFICES ASSUME WorktreeInv, [Next]_vars PROVE \A b \in Actors : CleanupOK(b)'
  OBVIOUS
<1> USE WorktreeAssumption DEF WorktreeInv, TypeOK, OwnerPlace, PrunePlace, CleanupOK,
        Running, Cleaning, Store, Settled, Admissible, Dirty, Matches, Paths, Patchable,
        Patches, Actors, checkoutVars, stampVars, patchVars, historyVars, Goto, Leaves,
        Keeps, Step, Writes
<1>1. CASE Refused
  BY <1>1 DEF Refused
<1>2. CASE AddWorktree
  BY <1>2 DEF AddWorktree
<1>3. CASE WriteStamp
  BY <1>3 DEF WriteStamp
<1>4. CASE WriteOwner
  BY <1>4 DEF WriteOwner
<1>5. CASE RunWrites
  BY <1>5 DEF RunWrites
<1>6. CASE RunCommits
  BY <1>6 DEF RunCommits
<1>7. CASE RunEnds
  BY <1>7 DEF RunEnds
<1>8. CASE LateWrite
  BY <1>8 DEF LateWrite
<1>9. CASE StartPrune
  BY <1>9 DEF StartPrune
<1>10. CASE OwnerPersists
  BY <1>10 DEF OwnerPersists
<1>11. CASE PrunePersists
  BY <1>11 DEF PrunePersists
<1>a. ASSUME NEW a \in Actors, Surface(a) \/ Check(a) \/ Reclaim(a) \/ Dies(a)
  PROVE  \A b \in Actors : CleanupOK(b)'
  <2>1. CASE SurfaceHashes(a)
    BY <2>1, HashesArePatch DEF SurfaceHashes
  <2>2. CASE SurfaceDiff(a)
    BY <2>2 DEF SurfaceDiff
  <2>3. CASE SurfaceFails(a)
    BY <2>3 DEF SurfaceFails
  <2>4. CASE AlreadyGone(a)
    BY <2>4 DEF AlreadyGone
  <2>5. CASE Admit(a)
    BY <2>5 DEF Admit
  <2>6. CASE NothingDirty(a)
    BY <2>6 DEF NothingDirty
  <2>7. CASE Represented(a)
    BY <2>7 DEF Represented
  <2>8. CASE Compare(a)
    BY <2>8 DEF Compare
  <2>9. CASE Objects(a)
    BY <2>9 DEF Objects
  <2>10. CASE LosesDirectory(a)
    BY <2>10 DEF LosesDirectory
  <2>11. CASE ListUntracked(a)
    BY <2>11 DEF ListUntracked
  <2>12. CASE Restore(a)
    BY <2>12 DEF Restore
  <2>13. CASE RemoveFile(a)
    BY <2>13 DEF RemoveFile
  <2>14. CASE FilesRemoved(a)
    BY <2>14 DEF FilesRemoved
  <2>15. CASE RemoveWorktree(a)
    BY <2>15 DEF RemoveWorktree
  <2>16. CASE RemovalFails(a)
    BY <2>16 DEF RemovalFails
  <2>17. CASE RemoveStamp(a)
    BY <2>17 DEF RemoveStamp
  <2>18. CASE RemoveOwner(a)
    BY <2>18 DEF RemoveOwner
  <2>19. CASE Dies(a)
    BY <2>19 DEF Dies
  <2> QED
    BY <1>a, <2>1, <2>2, <2>3, <2>4, <2>5, <2>6, <2>7, <2>8, <2>9, <2>10, <2>11, <2>12,
      <2>13, <2>14, <2>15, <2>16, <2>17, <2>18, <2>19 DEF Surface, Check, Reclaim
<1>s. CASE UNCHANGED vars
  BY <1>s DEF vars
<1> QED
  BY <1>1, <1>2, <1>3, <1>4, <1>5, <1>6, <1>7, <1>8, <1>9, <1>10, <1>11, <1>a, <1>s DEF
    Next, Create, Run

\* What a step takes from the checkout is on disk, or was written too late.
LEMMA WorkStep == WorktreeInv /\ [Next]_vars => TreeOK' /\ NotYetOnSidecar' /\ WorkIsKept'
<1> SUFFICES ASSUME WorktreeInv, [Next]_vars PROVE TreeOK' /\ NotYetOnSidecar' /\
  WorkIsKept'
  OBVIOUS
<1> USE WorktreeAssumption DEF WorktreeInv, TypeOK, OwnerPlace, PrunePlace, CleanupOK,
        TreeOK, NotYetOnSidecar, WorkIsKept, Kept, InCheckout, InPatch, Running,
        Cleaning, Store, Settled, Dirty, Paths, Patchable, Patches, Actors,
        checkoutVars, stampVars, patchVars, historyVars, Goto, Leaves, Keeps, Step,
        Writes
<1>1. CASE Refused
  BY <1>1 DEF Refused
<1>2. CASE AddWorktree
  BY <1>2 DEF AddWorktree
<1>3. CASE WriteStamp
  BY <1>3 DEF WriteStamp
<1>4. CASE WriteOwner
  BY <1>4 DEF WriteOwner
<1>5. CASE RunWrites
  BY <1>5 DEF RunWrites
<1>6. CASE RunCommits
  BY <1>6 DEF RunCommits
<1>7. CASE RunEnds
  BY <1>7 DEF RunEnds
<1>8. CASE LateWrite
  BY <1>8 DEF LateWrite
<1>9. CASE StartPrune
  BY <1>9 DEF StartPrune
<1>10. CASE OwnerPersists
  BY <1>10 DEF OwnerPersists
<1>11. CASE PrunePersists
  BY <1>11 DEF PrunePersists
<1>a. ASSUME NEW a \in Actors, Surface(a) \/ Check(a) \/ Reclaim(a) \/ Dies(a)
  PROVE  TreeOK' /\ NotYetOnSidecar' /\ WorkIsKept'
  <2>1. CASE SurfaceHashes(a)
    BY <2>1 DEF SurfaceHashes
  <2>2. CASE SurfaceDiff(a)
    BY <2>2 DEF SurfaceDiff
  <2>3. CASE SurfaceFails(a)
    BY <2>3 DEF SurfaceFails
  <2>4. CASE AlreadyGone(a)
    BY <2>4 DEF AlreadyGone
  <2>5. CASE Admit(a)
    BY <2>5 DEF Admit
  <2>6. CASE NothingDirty(a)
    BY <2>6 DEF NothingDirty
  <2>7. CASE Represented(a)
    BY <2>7 DEF Represented
  <2>8. CASE Compare(a)
    BY <2>8 DEF Compare
  <2>9. CASE Objects(a)
    BY <2>9 DEF Objects
  <2>10. CASE LosesDirectory(a)
    BY <2>10 DEF LosesDirectory
  <2>11. CASE ListUntracked(a)
    BY <2>11 DEF ListUntracked
  <2>12. CASE Restore(a)
    BY <2>12 DEF Restore
  <2>13. CASE RemoveFile(a)
    BY <2>13 DEF RemoveFile
  <2>14. CASE FilesRemoved(a)
    BY <2>14 DEF FilesRemoved
  <2>15. CASE RemoveWorktree(a)
    BY <2>15 DEF RemoveWorktree
  <2>16. CASE RemovalFails(a)
    BY <2>16 DEF RemovalFails
  <2>17. CASE RemoveStamp(a)
    BY <2>17 DEF RemoveStamp
  <2>18. CASE RemoveOwner(a)
    BY <2>18 DEF RemoveOwner
  <2>19. CASE Dies(a)
    BY <2>19 DEF Dies
  <2> QED
    BY <1>a, <2>1, <2>2, <2>3, <2>4, <2>5, <2>6, <2>7, <2>8, <2>9, <2>10, <2>11, <2>12,
      <2>13, <2>14, <2>15, <2>16, <2>17, <2>18, <2>19 DEF Surface, Check, Reclaim
<1>s. CASE UNCHANGED vars
  BY <1>s DEF vars
<1> QED
  BY <1>1, <1>2, <1>3, <1>4, <1>5, <1>6, <1>7, <1>8, <1>9, <1>10, <1>11, <1>a, <1>s DEF
    Next, Create, Run

LEMMA NextInv == WorktreeInv /\ [Next]_vars => WorktreeInv'
<1> SUFFICES ASSUME WorktreeInv, [Next]_vars PROVE WorktreeInv'
  OBVIOUS
<1>1. TypeOK'
  BY TypeStep
<1>2. OwnerPlace' /\ PrunePlace'
  BY PlaceStep
<1>3. \A a \in Actors : CleanupOK(a)'
  BY CleanupStep
<1>4. TreeOK' /\ NotYetOnSidecar' /\ WorkIsKept'
  BY WorkStep
<1> QED
  BY <1>1, <1>2, <1>3, <1>4 DEF WorktreeInv

LEMMA Invariance == Spec => []WorktreeInv
  BY InitInv, NextInv, PTL DEF Spec

\* Every variable of an isolated run keeps its type.
THEOREM TypeCorrect == Spec => []TypeOK
  BY Invariance, PTL DEF WorktreeInv

\* Whatever processes die, and whatever step of a cleanup fails: a run's work is in
\* its checkout or in a patch on disk, until a prune surfaces what an interrupted
\* prune left of the checkout.
THEOREM WorkSurvives == Spec => []WorkIsKept
  BY Invariance, PTL DEF WorktreeInv

\* No prune, and nothing else than the run's own processes, changes or removes the
\* checkout of a live run.
LEMMA LiveStep ==
  ASSUME WorktreeInv, [Next]_vars, pc["owner"] \in Running, pc'["owner"] # "dead"
  PROVE  dir' /\ \A p \in Paths : tree'[p] # tree[p] => tree'[p] = written'[p]
<1> USE DEF WorktreeInv, OwnerPlace, Running
<1>1. dir /\ pc["prune"] = "idle"
  OBVIOUS
<1>2. CASE Refused \/ AddWorktree
  BY <1>2 DEF Refused, AddWorktree
<1>3. CASE WriteStamp \/ WriteOwner \/ RunCommits \/ RunEnds
  BY <1>1, <1>3 DEF WriteStamp, WriteOwner, RunCommits, RunEnds, checkoutVars
<1>4. CASE RunWrites \/ LateWrite
  BY <1>1, <1>4 DEF RunWrites, LateWrite, Writes, TypeOK, Paths
<1>5. CASE StartPrune \/ OwnerPersists \/ PrunePersists
  BY <1>1, <1>5 DEF StartPrune, OwnerPersists, PrunePersists, checkoutVars
<1>6. ASSUME NEW a \in Actors, Surface(a) \/ Check(a) \/ Reclaim(a) \/ Dies(a)
      PROVE  UNCHANGED <<dir, tree>>
  <2>1. CASE Surface(a)
    BY <1>1, <2>1 DEF Surface, SurfaceHashes, SurfaceDiff, SurfaceFails, Actors, Keeps,
      checkoutVars
  <2>2. CASE Check(a)
    BY <1>1, <2>2 DEF Check, AlreadyGone, Admit, NothingDirty, Represented, Compare,
      Objects, LosesDirectory, Actors, Keeps, Step, checkoutVars
  <2>3. CASE Reclaim(a)
    BY <1>1, <2>3 DEF Reclaim, ListUntracked, Restore, RemoveFile, FilesRemoved,
      RemoveWorktree, RemovalFails, RemoveStamp, RemoveOwner, Actors, Keeps, Step,
      checkoutVars
  <2>4. CASE Dies(a)
    BY <2>4 DEF Dies, checkoutVars
  <2> QED
    BY <1>6, <2>1, <2>2, <2>3, <2>4
<1>7. CASE UNCHANGED vars
  BY <1>1, <1>7 DEF vars, checkoutVars
<1> QED
  BY <1>1, <1>2, <1>3, <1>4, <1>5, <1>6, <1>7 DEF Next, Create, Run

THEOREM LiveRunsUntouched == Spec => LiveRunsAreLeftAlone
  BY Invariance, LiveStep, PTL DEF Spec, LiveRunsAreLeftAlone

\* Whenever a cleanup or a process stops, a checkout that still exists has the two
\* files by which a later prune recognizes it.
LEMMA ReclaimableStep ==
  ReclaimableWhileItExists /\ WorktreeInv /\ [Next]_vars => ReclaimableWhileItExists'
<1> SUFFICES ASSUME ReclaimableWhileItExists, WorktreeInv, [Next]_vars
             PROVE  ReclaimableWhileItExists'
  OBVIOUS
<1> USE DEF ReclaimableWhileItExists, WorktreeInv, TypeOK, OwnerPlace, PrunePlace,
        CleanupOK, Running, Actors, checkoutVars, stampVars, Goto, Leaves, Keeps, Step
<1>1. CASE Create \/ Run
  BY <1>1 DEF Create, Run, Refused, AddWorktree, WriteStamp, WriteOwner, RunWrites, Writes,
    RunCommits, RunEnds
<1>2. CASE LateWrite \/ StartPrune \/ OwnerPersists \/ PrunePersists
  BY <1>2 DEF LateWrite, Writes, StartPrune, OwnerPersists, PrunePersists
<1>3. ASSUME NEW a \in Actors, Surface(a) \/ Check(a) PROVE ReclaimableWhileItExists'
  BY <1>3 DEF Surface, SurfaceHashes, SurfaceDiff, SurfaceFails, Check, AlreadyGone, Admit,
    NothingDirty, Represented, Compare, Objects, LosesDirectory
<1>4. ASSUME NEW a \in Actors, Reclaim(a) PROVE ReclaimableWhileItExists'
  BY <1>4 DEF Reclaim, ListUntracked, Restore, RemoveFile, FilesRemoved, RemoveWorktree,
    RemovalFails, RemoveStamp, RemoveOwner
<1>5. ASSUME NEW a \in Actors, Dies(a) PROVE ReclaimableWhileItExists'
  BY <1>5 DEF Dies
<1>6. CASE UNCHANGED vars
  BY <1>6 DEF vars
<1> QED
  BY <1>1, <1>2, <1>3, <1>4, <1>5, <1>6 DEF Next

THEOREM StaysReclaimable == Spec => []ReclaimableWhileItExists
<1>1. Init => ReclaimableWhileItExists
  BY DEF Init, ReclaimableWhileItExists
<1> QED
  BY <1>1, Invariance, ReclaimableStep, PTL DEF Spec

\* A run's work and its leftovers stay reachable (worktree.ts:378-740).
THEOREM RunsLoseNothing == Spec => []NothingIsLost
BY TypeCorrect, WorkSurvives, StaysReclaimable, PTL DEF NothingIsLost

--------------------------------------------- (* the outputs of a session *)

\* What a block of the context comes to: it is whole, or of a tool and the
\* bytes behind its reference are stored in its own activation.
Recallable(b, held) ==
  b.form = "whole" \/ (b.who = "tool" /\ [home |-> b.home, kind |-> b.kind, of |-> b.of] \in held)

\* A message knows its place; a compaction keeps an earlier one, and each message
\* before that one is in its summary.
EntryOK(entries, held, i) ==
  LET e == entries[i] IN
  \/ e.type = "message" /\ e.block.id = i /\ Recallable(e.block, held)
  \/ /\ e.type = "compaction" /\ e.kept \in 1 .. i - 1
     /\ \A b \in e.summary : Recallable(b, held)
     /\ \A j \in 1 .. e.kept - 1 : entries[j].type = "message" => \E b \in e.summary : b.id = j

BranchOK(entries, held) ==
  /\ entries \in Seq({entries[i] : i \in DOMAIN entries})
  /\ \A i \in DOMAIN entries : EntryOK(entries, held, i)

\* What a reducer may cut is in the store before it starts.
ReducingOK ==
  \A c \in Calls : calling[c].at = "reducing" => [home |-> activation, kind |-> calling[c].tool, of |-> calling[c].of] \in store

\* What compact made of what it was given; the prompt's record fits or is cut.
CompactedOK ==
  \/ compacted = NoCompaction
  \/ \E items \in Batches : \E drop \in SUBSET ClassifyCandidates(items).undecided : compacted = Compact(items, drop)

RetentionInv ==
  /\ calling = [c \in Calls |-> calling[c]]
  /\ BranchOK(branch, store) /\ ReducingOK /\ CompactedOK /\ StateIsBounded

LEMMA Lengthened ==
  ASSUME NEW entries, entries \in Seq({entries[i] : i \in DOMAIN entries}), NEW e
  PROVE  /\ Len(entries) \in Nat /\ DOMAIN entries = 1 .. Len(entries)
         /\ DOMAIN Append(entries, e) = 1 .. Len(entries) + 1
         /\ \A i \in 1 .. Len(entries) : Append(entries, e)[i] = entries[i]
         /\ Append(entries, e)[Len(entries) + 1] = e
         /\ Append(entries, e) \in Seq({Append(entries, e)[i] : i \in DOMAIN Append(entries, e)})
<1> DEFINE old == {entries[i] : i \in DOMAIN entries}
           all == old \union {e}
           longer == Append(entries, e)
<1>1. entries \in Seq(all)
  OBVIOUS
<1> HIDE DEF old, all
<1>2. e \in all
  BY DEF all
<1>3. /\ Len(entries) \in Nat /\ DOMAIN entries = 1 .. Len(entries)
      /\ longer \in Seq(all) /\ Len(longer) = Len(entries) + 1 /\ DOMAIN longer = 1 .. Len(entries) + 1
      /\ \A i \in 1 .. Len(entries) : longer[i] = entries[i]
      /\ longer[Len(entries) + 1] = e
  BY <1>1, <1>2
<1> HIDE DEF longer
<1>4. longer \in Seq({longer[i] : i \in DOMAIN longer})
  <2> DEFINE range == {longer[i] : i \in DOMAIN longer}
  <2>1. longer \in [1 .. Len(longer) -> range] /\ Len(longer) \in Nat
    BY <1>3
  <2> HIDE DEF range
  <2>2. longer \in Seq(range)
    BY <2>1
  <2> QED
    BY <2>2 DEF range
<1> QED
  BY <1>3, <1>4 DEF longer

\* The branch stays in order when the store grows and an entry in order is added.
LEMMA BranchGrows ==
  ASSUME NEW entries, NEW held, NEW more, BranchOK(entries, held), held \subseteq more, NEW e,
         EntryOK(Append(entries, e), more, Len(entries) + 1)
  PROVE  BranchOK(Append(entries, e), more)
<1>1. /\ Len(entries) \in Nat /\ DOMAIN entries = 1 .. Len(entries)
      /\ DOMAIN Append(entries, e) = 1 .. Len(entries) + 1
      /\ \A i \in 1 .. Len(entries) : Append(entries, e)[i] = entries[i]
      /\ Append(entries, e) \in Seq({Append(entries, e)[i] : i \in DOMAIN Append(entries, e)})
  BY Lengthened DEF BranchOK
<1>2. ASSUME NEW i \in 1 .. Len(entries) PROVE EntryOK(Append(entries, e), more, i)
  <2>1. EntryOK(entries, held, i)
    BY <1>1 DEF BranchOK
  <2>2. \A b : Recallable(b, held) => Recallable(b, more)
    BY DEF Recallable
  <2>3. Append(entries, e)[i] = entries[i] /\ \A j \in 1 .. i - 1 : Append(entries, e)[j] = entries[j]
    BY <1>1
  <2>4. CASE entries[i].type = "message" /\ entries[i].block.id = i /\ Recallable(entries[i].block, held)
    BY <2>2, <2>3, <2>4 DEF EntryOK
  <2>5. CASE /\ entries[i].type = "compaction" /\ entries[i].kept \in 1 .. i - 1
             /\ \A b \in entries[i].summary : Recallable(b, held)
             /\ \A j \in 1 .. entries[i].kept - 1 : entries[j].type = "message" => \E b \in entries[i].summary : b.id = j
    <3>1. \A j \in 1 .. entries[i].kept - 1 : j \in 1 .. i - 1
      BY <2>5, <1>1
    <3> QED
      BY <2>2, <2>3, <2>5, <3>1 DEF EntryOK
  <2> QED
    BY <2>1, <2>4, <2>5 DEF EntryOK
<1> QED
  BY <1>1, <1>2 DEF BranchOK

LEMMA StoreGrows ==
  ASSUME NEW entries, NEW held, NEW more, BranchOK(entries, held), held \subseteq more
  PROVE  BranchOK(entries, more)
<1>1. \A b : Recallable(b, held) => Recallable(b, more)
  BY DEF Recallable
<1> QED
  BY <1>1 DEF BranchOK, EntryOK

\* A message in order, once its block can be recalled.
LEMMA MessageGrows ==
  ASSUME RetentionInv, NEW more, store \subseteq more, NEW b, b.id = Len(branch) + 1, Recallable(b, more)
  PROVE  BranchOK(Append(branch, Message(b)), more)
<1>1. Append(branch, Message(b))[Len(branch) + 1] = Message(b)
  BY Lengthened DEF RetentionInv, BranchOK
<1>2. Message(b).type = "message" /\ Message(b).block = b
  BY DEF Message
<1>3. EntryOK(Append(branch, Message(b)), more, Len(branch) + 1)
  BY <1>1, <1>2 DEF EntryOK
<1> QED
  BY <1>3, BranchGrows DEF RetentionInv

LEMMA RetentionStarts == KeepInit => RetentionInv
<1> SUFFICES ASSUME KeepInit PROVE RetentionInv
  OBVIOUS
<1>1. branch \in Seq({branch[i] : i \in DOMAIN branch}) /\ DOMAIN branch = {}
  BY DEF KeepInit
<1>2. calling = [c \in Calls |-> calling[c]] /\ ReducingOK
  BY DEF KeepInit, ReducingOK, Idle
<1>3. CompactedOK /\ StateIsBounded
  BY DEF KeepInit, CompactedOK, StateIsBounded
<1> QED
  BY <1>1, <1>2, <1>3 DEF RetentionInv, BranchOK

\* The block of a tool's result, in the form the store gives it or a shorter one.
LEMMA ResultIsRecallable ==
  ASSUME NEW id, NEW text, NEW tool, NEW form, NEW more,
         \/ form = Captured(text, tool).form /\ Captured(text, tool).stored \subseteq more
         \/ [home |-> activation, kind |-> tool, of |-> text] \in more
  PROVE  /\ Recallable(Block(id, "tool", text, form, tool), more)
         /\ Block(id, "tool", text, form, tool).id = id
BY DEF Recallable, Block, Captured

\* Calls whose places change, one of them or none at work on what is stored.
LEMMA CallMoves ==
  ASSUME RetentionInv, NEW c \in Calls, NEW call, calling' = [calling EXCEPT ![c] = call],
         store \subseteq store', activation' = activation,
         call.at = "reducing" => [home |-> activation, kind |-> call.tool, of |-> call.of] \in store'
  PROVE  calling' = [d \in Calls |-> calling'[d]] /\ ReducingOK'
<1>1. calling' = [d \in Calls |-> IF d = c THEN call ELSE calling[d]]
  BY DEF RetentionInv
<1>2. \A d \in Calls : calling'[d] = IF d = c THEN call ELSE calling[d]
  BY <1>1
<1>3. ASSUME NEW d \in Calls, calling'[d].at = "reducing"
      PROVE  [home |-> activation', kind |-> calling'[d].tool, of |-> calling'[d].of] \in store'
  <2>1. CASE d = c
    BY <1>2, <1>3, <2>1
  <2>2. CASE d # c
    BY <1>2, <1>3, <2>2 DEF RetentionInv, ReducingOK
  <2> QED
    BY <2>1, <2>2
<1> QED
  BY <1>1, <1>3 DEF ReducingOK

LEMMA CompactionStays ==
  ASSUME RetentionInv, UNCHANGED <<setting, compacted, prompt>>
  PROVE  CompactedOK' /\ StateIsBounded'
BY DEF RetentionInv, CompactedOK, StateIsBounded

\* The reducer starts on what is stored.
LEMMA ReducesKeeps ==
  ASSUME RetentionInv, NEW c \in Calls, NEW text, NEW tool, Reduces(c, text, tool),
         UNCHANGED <<setting, report, activation, compacted, prompt>>
  PROVE  RetentionInv'
<1> DEFINE call == [at |-> "reducing", tool |-> tool, of |-> text, rule |-> TRUE]
<1>1. /\ calling' = [calling EXCEPT ![c] = call] /\ branch' = branch
      /\ store' = store \union {[home |-> activation, kind |-> tool, of |-> text]}
  BY DEF Reduces
<1>2. BranchOK(branch', store')
  BY <1>1, StoreGrows DEF RetentionInv
<1>3. calling' = [d \in Calls |-> calling'[d]] /\ ReducingOK'
  <2>1. store \subseteq store' /\ [home |-> activation, kind |-> call.tool, of |-> call.of] \in store'
    BY <1>1
  <2> HIDE DEF call
  <2> QED
    BY <1>1, <2>1, CallMoves
<1> QED
  BY <1>2, <1>3, CompactionStays DEF RetentionInv

\* A result is shown, of a text captured before it.
LEMMA ShowsKeeps ==
  ASSUME RetentionInv, NEW c \in Calls, NEW text, NEW tool, NEW form, Shows(text, tool, form),
         calling' = [calling EXCEPT ![c] = Idle], store \subseteq store',
         UNCHANGED <<setting, report, activation, compacted, prompt>>,
         \/ form = Captured(text, tool).form /\ Captured(text, tool).stored \subseteq store'
         \/ [home |-> activation, kind |-> tool, of |-> text] \in store'
  PROVE  RetentionInv'
<1> DEFINE b == Block(Len(branch) + 1, "tool", text, form, tool)
<1>1. branch' = Append(branch, Message(b))
  BY DEF Shows
<1>2. b.id = Len(branch) + 1 /\ Recallable(b, store')
  BY ResultIsRecallable
<1> HIDE DEF b
<1>3. BranchOK(branch', store')
  BY <1>1, <1>2, MessageGrows
<1>4. calling' = [d \in Calls |-> calling'[d]] /\ ReducingOK'
  BY CallMoves DEF Idle
<1> QED
  BY <1>3, <1>4, CompactionStays DEF RetentionInv

LEMMA KeepsRawKeeps ==
  ASSUME RetentionInv, NEW c \in Calls, NEW text, NEW tool, KeepsRaw(c, text, tool),
         UNCHANGED <<setting, report, activation, compacted, prompt>>
  PROVE  RetentionInv'
BY ShowsKeeps DEF KeepsRaw

LEMMA ToolOutputKeeps ==
  ASSUME RetentionInv, NEW c \in Calls, NEW text, NEW tool, ReduceToolOutput(c, text, tool),
         UNCHANGED <<setting, report, activation, compacted, prompt>>
  PROVE  RetentionInv'
<1>1. CASE Reduces(c, text, tool)
  BY <1>1, ReducesKeeps
<1>2. CASE KeepsRaw(c, text, tool)
  BY <1>2, KeepsRawKeeps
<1>3. ASSUME NEW rule,
             calling' = [calling EXCEPT ![c] = [at |-> "asked", tool |-> tool, of |-> text, rule |-> rule]],
             store' = store \union Captured(text, tool).stored, UNCHANGED branch
      PROVE  RetentionInv'
  <2>1. BranchOK(branch', store')
    BY <1>3, StoreGrows DEF RetentionInv
  <2>2. calling' = [d \in Calls |-> calling'[d]] /\ ReducingOK'
    BY <1>3, CallMoves
  <2> QED
    BY <2>1, <2>2, CompactionStays DEF RetentionInv
<1> QED
  BY <1>1, <1>2, <1>3 DEF ReduceToolOutput

LEMMA SiteAnswersKeeps ==
  ASSUME RetentionInv, NEW c \in Calls, SiteAnswers(c)
  PROVE  RetentionInv'
BY ReducesKeeps, KeepsRawKeeps DEF SiteAnswers

LEMMA ReducerEndsKeeps ==
  ASSUME RetentionInv, NEW c \in Calls, ReducerEnds(c)
  PROVE  RetentionInv'
<1>1. [home |-> activation, kind |-> calling[c].tool, of |-> calling[c].of] \in store'
  BY DEF ReducerEnds, RetentionInv, ReducingOK
<1>2. PICK form : Shows(calling[c].of, calling[c].tool, form)
  BY DEF ReducerEnds
<1> QED
  BY <1>1, <1>2, ShowsKeeps DEF ReducerEnds

LEMMA ExpandKeeps ==
  ASSUME RetentionInv, NEW c \in Calls, Expand(c)
  PROVE  RetentionInv'
<1>1. PICK b \in Visible :
        IF [home |-> activation, kind |-> b.kind, of |-> b.of] \in store
        THEN ReduceToolOutput(c, b.of, "artifact")
        ELSE Shows(Notice(b), "artifact", "whole") /\ UNCHANGED <<calling, store>>
  BY DEF Expand
<1>2. UNCHANGED <<setting, report, activation, compacted, prompt>>
  BY DEF Expand
<1>3. CASE [home |-> activation, kind |-> b.kind, of |-> b.of] \in store
  BY <1>1, <1>2, <1>3, ToolOutputKeeps
<1>4. CASE [home |-> activation, kind |-> b.kind, of |-> b.of] \notin store
  <2> DEFINE line == Block(Len(branch) + 1, "tool", Notice(b), "whole", "artifact")
  <2>1. branch' = Append(branch, Message(line)) /\ UNCHANGED <<calling, store>>
    BY <1>1, <1>4 DEF Shows
  <2>2. line.id = Len(branch) + 1 /\ Recallable(line, store')
    BY DEF Block, Recallable
  <2> HIDE DEF line
  <2>3. BranchOK(branch', store')
    BY <2>1, <2>2, MessageGrows
  <2>4. calling' = [d \in Calls |-> calling'[d]] /\ ReducingOK'
    BY <1>2, <2>1 DEF RetentionInv, ReducingOK
  <2> QED
    BY <1>2, <2>3, <2>4, CompactionStays DEF RetentionInv
<1> QED
  BY <1>3, <1>4

LEMMA UserSaysKeeps == RetentionInv /\ UserSays => RetentionInv'
<1> SUFFICES ASSUME RetentionInv, UserSays PROVE RetentionInv'
  OBVIOUS
<1> DEFINE said == Block(Len(branch) + 1, "user", [n |-> 0], "whole", "none")
<1>1. branch' = Append(branch, Message(said)) /\ UNCHANGED <<setting, report, calling, store, activation, compacted, prompt>>
  BY DEF UserSays
<1>2. said.id = Len(branch) + 1 /\ Recallable(said, store')
  BY DEF Block, Recallable
<1> HIDE DEF said
<1>3. BranchOK(branch', store')
  BY <1>1, <1>2, MessageGrows
<1>4. calling' = [d \in Calls |-> calling'[d]] /\ ReducingOK'
  BY <1>1 DEF RetentionInv, ReducingOK
<1> QED
  BY <1>1, <1>3, <1>4, CompactionStays DEF RetentionInv

LEMMA MeasuredKeeps == RetentionInv /\ (Measured \/ Restarts) => RetentionInv'
<1> SUFFICES ASSUME RetentionInv, Measured \/ Restarts PROVE RetentionInv'
  OBVIOUS
<1>1. UNCHANGED <<setting, branch, store, compacted, prompt>>
  BY DEF Measured, Restarts
<1>2. calling' = [d \in Calls |-> calling'[d]] /\ ReducingOK'
  BY DEF Measured, Restarts, RetentionInv, ReducingOK, Idle
<1> QED
  BY <1>1, <1>2, CompactionStays DEF RetentionInv

\* A set of numbers up to n has a greatest.
LEMMA HasGreatest ==
  ASSUME NEW n \in Nat, NEW S \in SUBSET (0 .. n), S # {}
  PROVE  \E m \in S : \A x \in S : m >= x
<1> DEFINE D == {d \in Nat : n - d \in S}
<1>1. D \subseteq Nat /\ D # {}
  <2>1. PICK x \in S : TRUE
    OBVIOUS
  <2>2. n - x \in Nat /\ n - (n - x) = x
    BY <2>1
  <2> QED
    BY <2>1, <2>2
<1> HIDE DEF D
<1>2. PICK d \in D : \A e \in D : ~(<<e, d>> \in OpToRel(<, Nat))
  BY <1>1, NatLessThanWellFounded, WFMin
<1>3. \A e \in D : ~(e < d)
  BY <1>1, <1>2 DEF OpToRel
<1>4. d \in Nat /\ n - d \in S
  BY <1>2 DEF D
<1>5. ASSUME NEW x \in S PROVE n - d >= x
  <2>1. x \in Int /\ n - x \in Nat /\ n - (n - x) = x
    BY <1>5
  <2>2. n - x \in D
    BY <1>5, <2>1 DEF D
  <2>3. ~(n - x < d)
    BY <1>3, <2>2
  <2> QED
    BY <1>4, <2>1, <2>3
<1> QED
  BY <1>4, <1>5

\* The last compaction of a branch, and what it keeps.
LEMMA LatestIsLast ==
  ASSUME RetentionInv, Compactions # {}
  PROVE  /\ Latest \in DOMAIN branch /\ Latest \in Nat /\ branch[Latest].type = "compaction"
         /\ branch[Latest].kept \in 1 .. Latest - 1
         /\ \A b \in branch[Latest].summary : Recallable(b, store)
         /\ \A j \in 1 .. branch[Latest].kept - 1 :
              branch[j].type = "message" => \E b \in branch[Latest].summary : b.id = j
<1>1. Len(branch) \in Nat /\ DOMAIN branch = 1 .. Len(branch)
  BY Lengthened DEF RetentionInv, BranchOK
<1>2. Compactions \in SUBSET (0 .. Len(branch))
  BY <1>1 DEF Compactions
<1>3. \E i \in Compactions : \A j \in Compactions : j <= i
  BY <1>1, <1>2, HasGreatest
<1>4. Latest \in Compactions
  BY <1>3 DEF Latest
<1>5. EntryOK(branch, store, Latest)
  BY <1>4 DEF RetentionInv, BranchOK, Compactions
<1> QED
  BY <1>1, <1>4, <1>5 DEF EntryOK, Compactions

\* Every message is before the model, and what is before it can be recalled.
LEMMA VisibleIsRecallable ==
  ASSUME RetentionInv
  PROVE  /\ \A b \in Visible : Recallable(b, store)
         /\ \A i \in DOMAIN branch : branch[i].type = "message" => \E b \in Visible : b.id = i
<1>1. Len(branch) \in Nat /\ DOMAIN branch = 1 .. Len(branch)
  BY Lengthened DEF RetentionInv, BranchOK
<1>2. ASSUME NEW i \in DOMAIN branch, branch[i].type = "message"
      PROVE  branch[i].block.id = i /\ Recallable(branch[i].block, store)
  BY <1>2 DEF RetentionInv, BranchOK, EntryOK
<1>3. \A b \in Carried : Recallable(b, store)
  BY LatestIsLast DEF Carried
<1>4. \A b \in Visible : Recallable(b, store)
  BY <1>2, <1>3 DEF Visible, Live
<1>5. ASSUME NEW i \in DOMAIN branch, branch[i].type = "message" PROVE \E b \in Visible : b.id = i
  <2>1. CASE i \in Live
    BY <1>2, <1>5, <2>1 DEF Visible
  <2>2. CASE i \notin Live
    <3>1. Compactions # {} /\ ~(i >= branch[Latest].kept)
      BY <1>1, <1>5, <2>2 DEF Live
    <3>2. i \in 1 .. branch[Latest].kept - 1
      BY <1>1, <3>1, LatestIsLast
    <3>3. \E b \in Carried : b.id = i
      BY <1>5, <3>1, <3>2, LatestIsLast DEF Carried
    <3> QED
      BY <3>3 DEF Visible
  <2> QED
    BY <2>1, <2>2
<1> QED
  BY <1>4, <1>5

\* Of messages nothing is dropped, and only a tool's is reduced.
LEMMA MessagesAreKept ==
  ASSUME NEW places, NEW blocks, NEW result,
         result = Compact([i \in places |-> ItemOf(blocks[i])], {})
  PROVE  /\ result.kept \subseteq places /\ result.refs \subseteq places /\ places \subseteq result.kept \union result.refs
         /\ \A i \in result.refs : blocks[i].who = "tool"
<1> DEFINE items == [i \in places |-> ItemOf(blocks[i])]
           g == ClassifyCandidates(items)
<1>1. \A i \in places : items[i] = ItemOf(blocks[i])
  OBVIOUS
<1>2. \A i \in places : /\ ~items[i].stale
                        /\ blocks[i].who # "tool" => Preserved(items[i])
  BY DEF ItemOf, Preserved
<1>3. DOMAIN items = places
  OBVIOUS
<1> HIDE DEF items
<1>4. g.gone = {}
  BY <1>2, <1>3 DEF ClassifyCandidates, Stale
<1>5. g.reduced \subseteq places /\ \A i \in g.reduced : blocks[i].who = "tool"
  BY <1>2, <1>3 DEF ClassifyCandidates, Superseded, Duplicate
<1>6. result.kept = places \ (g.reduced \union g.gone \union {}) /\ result.refs = g.reduced \union {}
  BY <1>3 DEF Compact, items
<1> HIDE DEF g
<1> QED
  BY <1>4, <1>5, <1>6

\* /compact-refs leaves every message before the model: what an earlier summary
\* carried, what is kept, and what now has a reference of its own.
LEMMA CompactRefsKeeps == RetentionInv /\ CompactRefs => RetentionInv'
<1> SUFFICES ASSUME RetentionInv, CompactRefs PROVE RetentionInv'
  OBVIOUS
<1> DEFINE before == {i \in Live : \E j \in Live : i < j}
           result == Compact([i \in before |-> ItemOf(branch[i].block)], {})
           blocks == [i \in before |-> branch[i].block]
<1>1. PICK last \in Live \ before :
        branch' = Append(branch, [type |-> "compaction", summary |-> Summary(result), kept |-> last])
  BY DEF CompactRefs
<1>2. /\ store' = store \union {[home |-> activation, kind |-> "context", of |-> branch[i].block.of] : i \in result.refs}
      /\ UNCHANGED <<setting, report, calling, activation, compacted, prompt>>
  BY DEF CompactRefs
<1>3. Len(branch) \in Nat /\ DOMAIN branch = 1 .. Len(branch)
  BY Lengthened DEF RetentionInv, BranchOK
<1>4. /\ result.kept \subseteq before /\ result.refs \subseteq before /\ before \subseteq result.kept \union result.refs
      /\ \A i \in result.refs : branch[i].block.who = "tool"
  <2>1. result = Compact([i \in before |-> ItemOf(blocks[i])], {})
    <3>1. \A i \in before : blocks[i] = branch[i].block
      OBVIOUS
    <3>2. [i \in before |-> ItemOf(blocks[i])] = [i \in before |-> ItemOf(branch[i].block)]
      BY <3>1
    <3> QED
      BY <3>2
  <2>2. \A i \in before : blocks[i] = branch[i].block
    OBVIOUS
  <2> HIDE DEF result, before, blocks
  <2>3. /\ result.kept \subseteq before /\ result.refs \subseteq before /\ before \subseteq result.kept \union result.refs
        /\ \A i \in result.refs : blocks[i].who = "tool"
    BY <2>1, MessagesAreKept
  <2> QED
    BY <2>2, <2>3
<1>5. /\ last \in 1 .. Len(branch) /\ \A j \in Live : ~(last < j)
      /\ before \subseteq Live /\ Live \subseteq 1 .. Len(branch)
  BY <1>1, <1>3 DEF Live
<1> DEFINE sum == Summary(result)
           entry == [type |-> "compaction", summary |-> sum, kept |-> last]
           n == Len(branch) + 1
<1>6. sum = Carried \union {branch[i].block : i \in result.kept} \union {Referred(branch[i].block) : i \in result.refs}
  BY DEF Summary
<1>7. \A j \in before : \E i \in Live : j < i
  OBVIOUS
<1>8. \A j \in Live : j \in before \/ ~(\E i \in Live : j < i)
  OBVIOUS
<1> HIDE DEF before, result, sum
<1>9. ASSUME NEW b \in sum PROVE Recallable(b, store')
  <2>1. CASE b \in Carried
    <3>1. Recallable(b, store)
      BY <2>1, VisibleIsRecallable DEF Visible
    <3> QED
      BY <1>2, <3>1 DEF Recallable
  <2>2. CASE b \in {branch[i].block : i \in result.kept}
    <3>1. PICK i \in result.kept : b = branch[i].block
      BY <2>2
    <3>2. b \in Visible
      BY <1>4, <1>5, <3>1 DEF Visible
    <3>3. Recallable(b, store)
      BY <3>2, VisibleIsRecallable
    <3> QED
      BY <1>2, <3>3 DEF Recallable
  <2>3. CASE b \in {Referred(branch[i].block) : i \in result.refs}
    <3>1. PICK i \in result.refs : b = Referred(branch[i].block)
      BY <2>3
    <3> DEFINE old == branch[i].block
    <3>2. EntryOK(branch, store, i) /\ branch[i].type = "message"
      BY <1>3, <1>4, <1>5, <3>1 DEF RetentionInv, BranchOK, Live
    <3>3. old.who = "tool"
      BY <1>4, <3>1
    <3>4. b.who = "tool" /\ b.kind = "context" /\ b.home = activation /\ b.of = old.of
      BY <3>1, <3>3 DEF Referred
    <3> QED
      BY <1>2, <3>1, <3>4 DEF Recallable
  <2> QED
    BY <1>6, <2>1, <2>2, <2>3
<1>10. ASSUME NEW j \in 1 .. last - 1, branch[j].type = "message" PROVE \E b \in sum : b.id = j
  <2>1. j \in DOMAIN branch /\ j < last
    BY <1>3, <1>5
  <2>2. EntryOK(branch, store, j)
    BY <2>1 DEF RetentionInv, BranchOK
  <2>3. branch[j].block.id = j
    BY <1>10, <2>2 DEF EntryOK
  <2>4. CASE j \in Live
    <3>1. j \in before
      BY <1>1, <1>8, <2>1, <2>4
    <3>2. CASE j \in result.kept
      BY <1>6, <2>3, <3>2
    <3>3. CASE j \in result.refs
      <4>1. Referred(branch[j].block).id = j
        BY <1>5, <2>3, <2>1, <3>3 DEF Referred
      <4> QED
        BY <1>6, <3>3, <4>1
    <3> QED
      BY <1>4, <3>1, <3>2, <3>3
  <2>5. CASE j \notin Live
    <3>1. Compactions # {} /\ ~(j >= branch[Latest].kept)
      BY <1>10, <2>1, <2>5 DEF Live
    <3>2. j \in 1 .. branch[Latest].kept - 1
      BY <1>3, <2>1, <3>1, LatestIsLast
    <3>3. \E b \in Carried : b.id = j
      BY <1>10, <3>1, <3>2, LatestIsLast DEF Carried
    <3> QED
      BY <1>6, <3>3
  <2> QED
    BY <2>4, <2>5
<1>11. EntryOK(branch', store', n)
  <2>1. /\ \A i \in 1 .. Len(branch) : branch'[i] = branch[i]
        /\ branch'[n] = entry
    BY <1>1, Lengthened DEF RetentionInv, BranchOK, sum
  <2>2. entry.type = "compaction" /\ entry.summary = sum /\ entry.kept = last
    OBVIOUS
  <2>3. last \in 1 .. n - 1 /\ \A j \in 1 .. last - 1 : branch'[j] = branch[j]
    BY <1>3, <1>5, <2>1
  <2> HIDE DEF entry
  <2> QED
    BY <1>9, <1>10, <2>1, <2>2, <2>3 DEF EntryOK
<1>12. BranchOK(branch', store')
  <2>1. branch' = Append(branch, entry)
    BY <1>1 DEF sum
  <2>2. store \subseteq store'
    BY <1>2
  <2> HIDE DEF entry
  <2> QED
    BY <1>11, <2>1, <2>2, BranchGrows DEF RetentionInv
<1>13. calling' = [d \in Calls |-> calling'[d]] /\ ReducingOK'
  BY <1>2 DEF RetentionInv, ReducingOK
<1> QED
  BY <1>2, <1>12, <1>13, CompactionStays DEF RetentionInv

\* What a host gives to compact is answered by one of its results.
LEMMA HostCompactsKeeps ==
  ASSUME RetentionInv, NEW items \in Batches, HostCompacts(items)
  PROVE  RetentionInv'
<1>1. UNCHANGED <<setting, report, calling, branch, store, activation, prompt>>
  BY DEF HostCompacts
<1>2. CompactedOK'
  <2>1. PICK drop \in RetentionReplies(ClassifyCandidates(items).undecided) : compacted' = Compact(items, drop)
    BY DEF HostCompacts
  <2>2. drop \in SUBSET ClassifyCandidates(items).undecided
    BY DEF RetentionReplies
  <2>3. compacted' = Compact(items, drop)'
    BY <1>1, <2>1 DEF Compact, ClassifyCandidates
  <2> QED
    BY <2>1, <2>2 DEF CompactedOK
<1> QED
  BY <1>1, <1>2 DEF RetentionInv, ReducingOK, StateIsBounded, BranchOK

\* The record of a prompt: uncut it fits, or its lists are cut as far as the
\* longest cut that fits, or to three entries and a line.
LEMMA StateFits ==
  ASSUME NEW load \in Loads
  PROVE  LET s == BuildWorkingState(load) IN
         s.files + s.unresolved + load.rest <= load.ceiling \/ (s.files <= 4 /\ s.unresolved <= 4)
<1> DEFINE Cut(n, k) == IF n <= k THEN n ELSE k + 1
           CutTo(k)  == [files |-> Cut(load.files, k), unresolved |-> Cut(load.unresolved, k)]
           Fits(s)   == s.files + s.unresolved + load.rest <= load.ceiling
           uncut     == [files |-> 0, unresolved |-> load.unresolved]
           fitting   == {k \in Cuts : Fits(CutTo(k))}
           state     == BuildWorkingState(load)
<1>1. load.files \in Nat /\ load.unresolved \in Nat /\ load.rest \in Nat /\ load.ceiling \in Nat
  BY RetentionAssumption
<1>2. state = IF Fits(uncut) THEN uncut ELSE CutTo(IF fitting = {} THEN 3 ELSE Max(fitting))
  BY DEF BuildWorkingState
<1>3. CASE Fits(uncut)
  BY <1>2, <1>3
<1>4. CASE ~Fits(uncut) /\ fitting = {}
  <2>1. state = CutTo(3)
    BY <1>2, <1>4
  <2>2. Cut(load.files, 3) <= 4 /\ Cut(load.unresolved, 3) <= 4
    BY <1>1
  <2> QED
    BY <2>1, <2>2
<1>5. CASE ~Fits(uncut) /\ fitting # {}
  <2>1. fitting \in SUBSET (0 .. 24)
    BY DEF Cuts
  <2> HIDE DEF fitting
  <2>2. \E m \in fitting : \A x \in fitting : m >= x
    BY <1>5, <2>1, HasGreatest
  <2>3. Max(fitting) \in fitting
    BY <2>2 DEF Max
  <2>4. Fits(CutTo(Max(fitting)))
    BY <2>3 DEF fitting
  <2> QED
    BY <1>2, <1>5, <2>4
<1> QED
  BY <1>3, <1>4, <1>5

LEMMA AssemblesKeeps ==
  ASSUME RetentionInv, NEW load \in Loads, Assembles(load)
  PROVE  RetentionInv'
<1>1. UNCHANGED <<setting, report, calling, branch, store, activation, compacted>>
  BY DEF Assembles
<1>2. prompt' = [load |-> load, state |-> BuildWorkingState(load)]
  BY DEF Assembles
<1>3. StateIsBounded'
  <2>1. prompt'.load = load /\ prompt'.state = BuildWorkingState(load)
    BY <1>2
  <2> QED
    BY <2>1, StateFits DEF StateIsBounded
<1> QED
  BY <1>1, <1>3 DEF RetentionInv, ReducingOK, CompactedOK, BranchOK

\* The last item of a source that is not superseded is its newest.
LEMMA NewestIsGreatest ==
  ASSUME NEW items, DOMAIN items \subseteq Nat, NEW i \in DOMAIN items, ~items[i].superseded,
         \A j \in DOMAIN items : j > i => items[j].source # items[i].source
  PROVE  NewestOf(items, items[i].source) = i
<1> DEFINE of == items[i].source
           mine == {k \in DOMAIN items : items[k].source = of /\ ~items[k].superseded}
           newest == CHOOSE k \in mine : \A j \in mine : j <= k
<1>1. i \in mine /\ mine \subseteq Nat /\ \A j \in mine : j <= i
  OBVIOUS
<1>2. NewestOf(items, of) = IF mine = {} THEN 0 ELSE newest
  BY DEF NewestOf
<1> HIDE DEF mine
<1>3. \A k \in mine : (\A j \in mine : j <= k) => k = i
  BY <1>1
<1>4. newest \in mine /\ \A j \in mine : j <= newest
  BY <1>1
<1>5. newest = i
  BY <1>3, <1>4
<1>6. mine # {}
  BY <1>1
<1> HIDE DEF newest
<1> QED
  BY <1>2, <1>5, <1>6

\* What compact promises of what it was given.
LEMMA CompactPreserves == RetentionInv => CompactionPreserves
<1> SUFFICES ASSUME RetentionInv PROVE CompactionPreserves
  OBVIOUS
<1>1. CASE compacted = NoCompaction
  BY <1>1 DEF NoCompaction, CompactionPreserves
<1>2. ASSUME NEW items \in Batches, NEW drop \in SUBSET ClassifyCandidates(items).undecided, compacted = Compact(items, drop)
      PROVE  CompactionPreserves
  <2> DEFINE g == ClassifyCandidates(items)
  <2>1. /\ compacted.items = items /\ compacted.kept = DOMAIN items \ (g.reduced \union g.gone \union drop)
        /\ compacted.refs = g.reduced \union drop /\ compacted.gone = g.gone
    BY <1>2 DEF Compact
  <2>2. /\ \A i \in g.reduced : i \in DOMAIN items /\ (Superseded(items, i) \/ Duplicate(items, i))
        /\ \A i \in g.gone : i \in DOMAIN items /\ Stale(items, i) /\ ~items[i].referenced
        /\ \A i \in g.undecided : i \in DOMAIN items /\ Stale(items, i)
    BY DEF ClassifyCandidates
  <2> HIDE DEF g
  <2>3. \A i \in drop : i \in DOMAIN items /\ Stale(items, i)
    BY <2>2 DEF g
  <2>4. compacted.kept \union compacted.refs \union compacted.gone = DOMAIN items
    BY <2>1, <2>2, <2>3
  <2>5. ASSUME NEW i \in DOMAIN items, Preserved(items[i]) PROVE i \in compacted.kept
    BY <2>1, <2>2, <2>3, <2>5 DEF Superseded, Duplicate, Stale
  <2>6. ASSUME NEW i \in compacted.gone PROVE items[i].kind = "evidence" /\ items[i].stale /\ ~items[i].referenced
    BY <2>1, <2>2 DEF Stale
  <2>7. ASSUME NEW i \in compacted.refs, items[i].kind = "tool_result", ~items[i].superseded,
               \A j \in DOMAIN items : j > i => items[j].source # items[i].source
        PROVE  \E j \in DOMAIN items : j < i /\ items[j].hash = items[i].hash
    <3>1. i \in DOMAIN items /\ (Superseded(items, i) \/ Duplicate(items, i))
      BY <2>1, <2>2, <2>3, <2>7 DEF Stale
    <3>2. NewestOf(items, items[i].source) = i
      BY <2>7, <3>1, NewestIsGreatest, RetentionAssumption
    <3>3. ~Superseded(items, i)
      BY <2>7, <3>2 DEF Superseded
    <3> QED
      BY <3>1, <3>3 DEF Duplicate
  <2> QED
    BY <2>1, <2>4, <2>5, <2>6, <2>7 DEF CompactionPreserves
<1> QED
  BY <1>1, <1>2 DEF RetentionInv, CompactedOK

LEMMA RetentionKeeps == RetentionInv /\ [ContextNext]_contextVars => RetentionInv'
<1> SUFFICES ASSUME RetentionInv, [ContextNext]_contextVars PROVE RetentionInv'
  OBVIOUS
<1>1. CASE UNCHANGED keepVars
  BY <1>1 DEF keepVars, RetentionInv, ReducingOK, CompactedOK, StateIsBounded, BranchOK
<1>2. CASE KeepActs
  <2>1. ASSUME NEW c \in Calls, NEW tool \in Tools, NEW text \in Outputs, ToolEnds(c, tool, text) PROVE RetentionInv'
    BY <2>1, ToolOutputKeeps DEF ToolEnds
  <2> QED
    BY <1>2, <2>1, ExpandKeeps, UserSaysKeeps, CompactRefsKeeps, MeasuredKeeps DEF KeepActs
<1>3. CASE KeepEnds
  BY <1>3, SiteAnswersKeeps, ReducerEndsKeeps DEF KeepEnds
<1>4. CASE \E items \in Batches : HostCompacts(items)
  BY <1>4, HostCompactsKeeps
<1>5. CASE \E load \in Loads : Assembles(load)
  BY <1>5, AssemblesKeeps
<1> QED
  BY <1>1, <1>2, <1>3, <1>4, <1>5
     DEF ContextNext, contextVars, Exploring, Keeping, Ending, Compacting, Prompting

\* For every set of outputs, calls and batches: whatever is reduced, compacted,
\* read back or restarted, each message of a session stays before the model,
\* whole or by a reference whose bytes are stored; compact drops nothing but
\* stale evidence; and a working state fits or is cut to its last three entries
\* (src/rtk/reducer.ts, src/context/compaction.ts, src/context/working-state.ts).
THEOREM NothingForgotten == ContextSpec => []NothingIsForgotten
<1>1. ContextInit => RetentionInv
  BY RetentionStarts DEF ContextInit
<1>2. RetentionInv /\ [ContextNext]_contextVars => RetentionInv'
  BY RetentionKeeps
<1>3. RetentionInv => NothingIsForgotten
  <2> SUFFICES ASSUME RetentionInv PROVE NothingIsForgotten
    OBVIOUS
  <2>1. NothingBeyondRecall
    BY VisibleIsRecallable DEF NothingBeyondRecall, Recallable, Stored, RetentionInv, ReducingOK
  <2>2. CompactionPreserves
    BY CompactPreserves
  <2>3. StateIsBounded
    BY DEF RetentionInv
  <2> QED
    BY <2>1, <2>2, <2>3 DEF NothingIsForgotten
<1> QED
  BY <1>1, <1>2, <1>3, PTL DEF ContextSpec

-------------------------------------------------------- (* an exploration *)

\* A set of numbers has a least one.
LEMMA HasLeast ==
  ASSUME NEW S \in SUBSET Nat, S # {}
  PROVE  \E m \in S : \A n \in S : m <= n
<1>1. PICK m \in S : \A n \in S : ~(<<n, m>> \in OpToRel(<, Nat))
  BY NatLessThanWellFounded, WFMin
<1>2. \A n \in S : ~(n < m)
  BY <1>1 DEF OpToRel
<1> QED
  BY <1>2

\* Induction over the numbers up to n, with a set for the predicate.
LEMMA UpTo ==
  ASSUME NEW n \in Nat, NEW S, 0 \in S, \A j \in 1..n : j - 1 \in S => j \in S
  PROVE  \A j \in 0..n : j \in S
<1> DEFINE missing == {j \in Nat : j <= n /\ j \notin S}
<1>1. SUFFICES ASSUME missing # {} PROVE FALSE
  OBVIOUS
<1>2. PICK m \in missing : \A k \in missing : m <= k
  BY <1>1, HasLeast
<1>3. m # 0 /\ m \in 1..n /\ m - 1 \in Nat /\ m - 1 \notin missing
  BY <1>2
<1> QED
  BY <1>2, <1>3

\* An iteration takes an element out and goes on with the rest.
Goes(it, step, s, x) == it[s] = step[x][it[s \ {x}]]

\* What an iteration is made of: pick says what is taken out of a set.
Iteration(S, T, base, step, pick) ==
  /\ IsFiniteSet(S) /\ base \in T /\ step \in [S -> [T -> T]]
  /\ \A s \in SUBSET S : s # {} => pick[s] \in s

Iterated(it, S, T, base, step, pick) ==
  it \in [SUBSET S -> T] /\ it[{}] = base /\ \A s \in SUBSET S : s # {} => Goes(it, step, s, pick[s])

\* An iteration over a finite set: the function that takes an element out and goes
\* on with the rest exists, and stays in T.
LEMMA Iterates ==
  ASSUME NEW S, NEW T, NEW base, NEW step, NEW pick, Iteration(S, T, base, step, pick)
  PROVE  \E it : Iterated(it, S, T, base, step, pick)
<1>0. /\ IsFiniteSet(S) /\ base \in T /\ step \in [S -> [T -> T]]
      /\ \A s \in SUBSET S : s # {} => pick[s] \in s
  BY DEF Iteration
<1> DEFINE Fits(it, k) == it[{}] = base /\ \A s \in SUBSET S : s # {} /\ Cardinality(s) <= k => Goes(it, step, s, pick[s])
           Good == {k \in Nat : \E it \in [SUBSET S -> T] : Fits(it, k)}
<1>1. \A s \in SUBSET S : /\ IsFiniteSet(s) /\ Cardinality(s) \in Nat /\ Cardinality(s) <= Cardinality(S)
                          /\ Cardinality(s) = 0 <=> s = {}
  BY <1>0, FS_Subset, FS_CardinalityType, FS_EmptySet
<1>2. \A s \in SUBSET S : s # {} => /\ pick[s] \in s /\ s \ {pick[s]} \in SUBSET S
                                    /\ Cardinality(s \ {pick[s]}) = Cardinality(s) - 1
  BY <1>0, <1>1, FS_RemoveElement
<1>3. 0 \in Good
  <2> DEFINE it == [s \in SUBSET S |-> base]
  <2>1. it \in [SUBSET S -> T] /\ it[{}] = base
    BY <1>0
  <2>2. Fits(it, 0)
    BY <1>1, <2>1
  <2> HIDE DEF it, Fits
  <2> QED
    BY <2>1, <2>2
<1>4. ASSUME NEW j \in Nat, j > 0, j - 1 \in Good PROVE j \in Good
  <2>1. PICK it \in [SUBSET S -> T] : Fits(it, j - 1)
    BY <1>4
  <2> DEFINE next == [s \in SUBSET S |-> IF s = {} THEN base ELSE step[pick[s]][it[s \ {pick[s]}]]]
  <2>2. next \in [SUBSET S -> T] /\ next[{}] = base
    BY <1>0, <1>2
  <2>3. \A s \in SUBSET S : s # {} => next[s] = step[pick[s]][it[s \ {pick[s]}]]
    OBVIOUS
  <2> HIDE DEF next
  <2>4. ASSUME NEW t \in SUBSET S, Cardinality(t) <= j - 1 PROVE next[t] = it[t]
    <3>1. CASE t = {}
      BY <2>1, <2>2, <3>1
    <3>2. CASE t # {}
      <4>1. Goes(it, step, t, pick[t])
        BY <2>1, <2>4, <3>2
      <4> QED
        BY <2>3, <3>2, <4>1 DEF Goes
    <3> QED
      BY <3>1, <3>2
  <2>5. ASSUME NEW s \in SUBSET S, s # {}, Cardinality(s) <= j PROVE Goes(next, step, s, pick[s])
    <3>1. Cardinality(s \ {pick[s]}) <= j - 1 /\ s \ {pick[s]} \in SUBSET S
      BY <1>1, <1>2, <2>5
    <3>2. next[s \ {pick[s]}] = it[s \ {pick[s]}]
      BY <2>4, <3>1
    <3> QED
      BY <2>3, <2>5, <3>2 DEF Goes
  <2>6. Fits(next, j)
    BY <2>2, <2>5
  <2> HIDE DEF Fits
  <2> QED
    BY <2>2, <2>6
<1>5. Cardinality(S) \in Good
  <2>1. Cardinality(S) \in Nat
    BY <1>0, FS_CardinalityType
  <2> HIDE DEF Good
  <2> QED
    BY <1>3, <1>4, <2>1, UpTo
<1>6. PICK it \in [SUBSET S -> T] : Fits(it, Cardinality(S))
  BY <1>5
<1>7. Iterated(it, S, T, base, step, pick)
  BY <1>1, <1>6 DEF Iterated
<1> QED
  BY <1>7

\* The greatest of some of the numbers up to n.
LEMMA GreatestUpTo ==
  ASSUME NEW n \in Nat, NEW s \in SUBSET (1..n), s # {}
  PROVE  Max(s) \in s /\ \A y \in s : Max(s) >= y
<1>1. s \in SUBSET (0..n)
  OBVIOUS
<1>2. \E x \in s : \A y \in s : x >= y
  BY <1>1, HasGreatest
<1> QED
  BY <1>2 DEF Max

\* A step of a walk takes the greatest number out.
LEMMA GreatestOut ==
  ASSUME NEW n \in Nat, NEW j \in 1..n
  PROVE  1..j \in SUBSET (1..n) /\ 1..j # {} /\ Max(1..j) = j /\ (1..j) \ {Max(1..j)} = 1..(j - 1)
<1>1. 1..j \in SUBSET (1..n) /\ j \in 1..j /\ \A y \in 1..j : j >= y
  OBVIOUS
<1>2. Max(1..j) \in 1..j /\ \A y \in 1..j : Max(1..j) >= y
  BY <1>1, GreatestUpTo
<1>3. Max(1..j) = j
  BY <1>1, <1>2
<1> QED
  BY <1>1, <1>3

\* The same along the numbers up to n, acc being what is reached at each of them.
Walk(n, T, base, step) == n \in Nat /\ base \in T /\ step \in [1..n -> [T -> T]]

Walked(it, acc, n, T, base, step) ==
  /\ it \in [SUBSET (1..n) -> T] /\ it[{}] = base /\ \A s \in SUBSET (1..n) : s # {} => Goes(it, step, s, Max(s))
  /\ acc \in [0..n -> T] /\ acc[0] = base /\ \A j \in 1..n : acc[j] = step[j][acc[j - 1]]

\* Such a walk exists.
LEMMA Walks ==
  ASSUME NEW n, NEW T, NEW base, NEW step, Walk(n, T, base, step)
  PROVE  \E it, acc : Walked(it, acc, n, T, base, step)
<1> DEFINE S == 1..n
           pick == [s \in (SUBSET S) \ {{}} |-> Max(s)]
<1>1. n \in Nat /\ base \in T /\ step \in [S -> [T -> T]] /\ IsFiniteSet(S)
  BY FS_Interval DEF Walk
<1>2. \A s \in SUBSET S : s # {} => pick[s] = Max(s) /\ pick[s] \in s
  BY <1>1, GreatestUpTo
<1> HIDE DEF pick, S
<1>3. Iteration(S, T, base, step, pick)
  BY <1>1, <1>2 DEF Iteration
<1>4. PICK it : Iterated(it, S, T, base, step, pick)
  BY <1>3, Iterates
<1>5. it \in [SUBSET S -> T] /\ it[{}] = base /\ \A s \in SUBSET S : s # {} => Goes(it, step, s, Max(s))
  BY <1>2, <1>4 DEF Iterated
<1> DEFINE acc == [j \in 0..n |-> it[1..j]]
<1>6. acc \in [0..n -> T]
  <2>1. \A j \in 0..n : 1..j \in SUBSET S
    BY <1>1 DEF S
  <2> QED
    BY <1>5, <2>1
<1>7. acc[0] = base
  <2>1. 1..0 = {} /\ 0 \in 0..n
    BY <1>1
  <2>2. acc[0] = it[1..0]
    BY <2>1
  <2> QED
    BY <1>5, <2>1, <2>2
<1>8. ASSUME NEW j \in 1..n PROVE acc[j] = step[j][acc[j - 1]]
  <2>1. 1..j \in SUBSET S /\ 1..j # {} /\ Max(1..j) = j /\ (1..j) \ {j} = 1..(j - 1)
    BY <1>1, GreatestOut DEF S
  <2>2. Goes(it, step, 1..j, j)
    <3>1. Goes(it, step, 1..j, Max(1..j))
      BY <1>5, <2>1
    <3> QED
      BY <2>1, <3>1
  <2>3. acc[j] = it[1..j] /\ acc[j - 1] = it[1..(j - 1)]
    BY <1>1
  <2> QED
    BY <2>1, <2>2, <2>3 DEF Goes
<1> HIDE DEF acc
<1>9. Walked(it, acc, n, T, base, step)
  BY <1>5, <1>6, <1>7, <1>8 DEF Walked, S
<1> QED
  BY <1>9

\* What agrees with a walk at nothing and over every step agrees with it at its end.
Agrees(f, acc, n) == f[{}] = acc[0] /\ \A j \in 1..n : f[1..(j - 1)] = acc[j - 1] => f[1..j] = acc[j]

\* Two that agree are the same at the end.
LEMMA SameWalk ==
  ASSUME NEW n \in Nat, NEW f, NEW acc, Agrees(f, acc, n)
  PROVE  f[1..n] = acc[n]
<1> DEFINE same == {j \in 0..n : f[1..j] = acc[j]}
<1>1. 0 \in same
  <2>1. 1..0 = {}
    OBVIOUS
  <2> QED
    BY <2>1 DEF Agrees
<1>2. \A j \in 1..n : j - 1 \in same => j \in same
  BY DEF Agrees
<1> HIDE DEF same
<1>3. n \in same
  BY <1>1, <1>2, UpTo
<1> QED
  BY <1>3 DEF same

\* The sums a total is made of.
LEMMA TotalRuns ==
  ASSUME NEW cost \in [Files -> Nat], NEW files \in Seq(Files)
  PROVE  \E acc \in [0..Len(files) -> Nat] :
           /\ acc[0] = 0 /\ \A j \in 1..Len(files) : acc[j] = acc[j - 1] + cost[files[j]]
           /\ Total(cost, files) = acc[Len(files)]
<1> DEFINE n == Len(files)
           step == [i \in 1..n |-> [v \in Nat |-> v + cost[files[i]]]]
           Runs(it) == it = [s \in SUBSET (1..n) |-> IF s = {} THEN 0 ELSE it[s \ {Max(s)}] + cost[files[Max(s)]]]
           f == CHOOSE it : Runs(it)
<1>1. n \in Nat /\ DOMAIN files = 1..n /\ \A i \in 1..n : files[i] \in Files /\ cost[files[i]] \in Nat
  OBVIOUS
<1>2. Total(cost, files) = f[1..n]
  BY <1>1 DEF Total, FoldLeft, MapThenFoldSet
<1>3. step \in [1..n -> [Nat -> Nat]] /\ \A i \in 1..n, v \in Nat : step[i][v] = v + cost[files[i]]
  BY <1>1
<1> HIDE DEF step, n
<1>4. PICK it, acc : Walked(it, acc, n, Nat, 0, step)
  <2>1. Walk(n, Nat, 0, step)
    BY <1>1, <1>3 DEF Walk
  <2> QED
    BY <2>1, Walks
<1>5. \A s \in SUBSET (1..n) : s # {} => Max(s) \in s /\ Max(s) \in 1..n /\ s \ {Max(s)} \in SUBSET (1..n)
  BY <1>1, GreatestUpTo
<1>6. Runs(it)
  <2>1. ASSUME NEW s \in SUBSET (1..n)
        PROVE  it[s] = IF s = {} THEN 0 ELSE it[s \ {Max(s)}] + cost[files[Max(s)]]
    <3>1. CASE s = {}
      BY <1>4, <3>1 DEF Walked
    <3>2. CASE s # {}
      <4>1. Goes(it, step, s, Max(s)) /\ it[s \ {Max(s)}] \in Nat
        BY <1>4, <1>5, <3>2 DEF Walked
      <4> QED
        BY <1>3, <1>5, <3>2, <4>1 DEF Goes
    <3> QED
      BY <3>1, <3>2
  <2>2. it \in [SUBSET (1..n) -> Nat]
    BY <1>4 DEF Walked
  <2> QED
    BY <2>1, <2>2
<1>7. Runs(f)
  <2> HIDE DEF Runs
  <2> QED
    BY <1>6
<1> HIDE DEF f
<1>8. f[{}] = 0 /\ \A j \in 1..n : f[1..j] = f[1..(j - 1)] + cost[files[j]]
  <2>1. \A s \in SUBSET (1..n) : f[s] = IF s = {} THEN 0 ELSE f[s \ {Max(s)}] + cost[files[Max(s)]]
    BY <1>7
  <2> QED
    BY <1>1, <2>1, GreatestOut
<1>9. acc \in [0..n -> Nat] /\ acc[0] = 0
  BY <1>4 DEF Walked
<1>10. ASSUME NEW j \in 1..n PROVE acc[j] = acc[j - 1] + cost[files[j]]
  <2>1. acc[j] = step[j][acc[j - 1]]
    BY <1>4 DEF Walked
  <2>2. acc[j - 1] \in Nat
    BY <1>1, <1>9
  <2> QED
    BY <1>3, <2>1, <2>2
<1>11. f[1..n] = acc[n]
  <2>1. \A j \in 1..n : f[1..(j - 1)] = acc[j - 1] => f[1..j] = acc[j]
    BY <1>8, <1>10
  <2>2. Agrees(f, acc, n)
    BY <1>8, <1>9, <2>1 DEF Agrees
  <2> QED
    BY <1>1, <2>2, SameWalk
<1> QED
  BY <1>2, <1>9, <1>10, <1>11 DEF n

\* A walk's end: what unfolds like it ends where the walk does.
Follows(f, n, T, base, step) ==
  f[{}] = base /\ \A j \in 1..n : f[1..(j - 1)] \in T => f[1..j] = step[j][f[1..(j - 1)]]

Reaches(acc, n, T, base, step, end) ==
  /\ acc \in [0..n -> T] /\ acc[0] = base /\ acc[n] = end
  /\ \A j \in 1..n : acc[j - 1] \in T /\ acc[j] = step[j][acc[j - 1]]

\* A walk ends where what follows its steps does.
LEMMA WalkEnds ==
  ASSUME NEW it, NEW acc, NEW n \in Nat, NEW T, NEW base, NEW step, NEW f,
         Walked(it, acc, n, T, base, step), Follows(f, n, T, base, step)
  PROVE  Reaches(acc, n, T, base, step, f[1..n])
<1>1. acc \in [0..n -> T] /\ acc[0] = base /\ \A j \in 1..n : acc[j] = step[j][acc[j - 1]]
  BY DEF Walked
<1>2. \A j \in 1..n : acc[j - 1] \in T
  BY <1>1
<1>3. Agrees(f, acc, n)
  BY <1>1, <1>2 DEF Agrees, Follows
<1>4. f[1..n] = acc[n]
  BY <1>3, SameWalk
<1> QED
  BY <1>1, <1>2, <1>4 DEF Reaches

\* The sums of a total.
Sums(acc, cost, files) ==
  /\ acc \in [0..Len(files) -> Nat] /\ acc[0] = 0 /\ Total(cost, files) = acc[Len(files)]
  /\ \A j \in 1..Len(files) : acc[j] = acc[j - 1] + cost[files[j]]

\* A total has its sums.
LEMMA TotalSums ==
  ASSUME NEW cost \in [Files -> Nat], NEW files \in Seq(Files)
  PROVE  \E acc : Sums(acc, cost, files)
<1>1. PICK acc \in [0..Len(files) -> Nat] :
        /\ acc[0] = 0 /\ \A j \in 1..Len(files) : acc[j] = acc[j - 1] + cost[files[j]]
        /\ Total(cost, files) = acc[Len(files)]
  BY TotalRuns
<1>2. Sums(acc, cost, files)
  BY <1>1 DEF Sums
<1> QED
  BY <1>2

\* A total is a number.
LEMMA TotalIsNat ==
  ASSUME NEW cost \in [Files -> Nat], NEW files \in Seq(Files)
  PROVE  Total(cost, files) \in Nat
<1>1. PICK acc : Sums(acc, cost, files)
  BY TotalSums
<1> QED
  BY <1>1 DEF Sums

\* Nothing costs nothing.
LEMMA TotalOfNone ==
  ASSUME NEW cost \in [Files -> Nat]
  PROVE  Total(cost, <<>>) = 0
<1>1. <<>> \in Seq(Files) /\ Len(<<>>) = 0
  OBVIOUS
<1>2. PICK acc : Sums(acc, cost, <<>>)
  BY <1>1, TotalSums
<1> QED
  BY <1>1, <1>2 DEF Sums

\* One file costs its own.
LEMMA TotalOfOne ==
  ASSUME NEW cost \in [Files -> Nat], NEW x \in Files
  PROVE  Total(cost, <<x>>) = cost[x]
<1>1. <<x>> \in Seq(Files) /\ Len(<<x>>) = 1 /\ <<x>>[1] = x
  OBVIOUS
<1>2. PICK acc : Sums(acc, cost, <<x>>)
  BY <1>1, TotalSums
<1>3. acc[1] = acc[0] + cost[x] /\ acc[0] = 0 /\ Total(cost, <<x>>) = acc[1]
  BY <1>1, <1>2 DEF Sums
<1> QED
  BY <1>3

\* What is put together costs what its parts do.
LEMMA TotalOfBoth ==
  ASSUME NEW cost \in [Files -> Nat], NEW s \in Seq(Files), NEW t \in Seq(Files)
  PROVE  Total(cost, s \o t) = Total(cost, s) + Total(cost, t)
<1>1. /\ s \o t \in Seq(Files) /\ Len(s \o t) = Len(s) + Len(t) /\ Len(s) \in Nat /\ Len(t) \in Nat
      /\ \A j \in 1..Len(s) : (s \o t)[j] = s[j] /\ s[j] \in Files
      /\ \A j \in 1..Len(t) : (s \o t)[Len(s) + j] = t[j] /\ t[j] \in Files
  OBVIOUS
<1> DEFINE both == s \o t
           m == Len(s)
           n == Len(t)
<1>2. PICK a : Sums(a, cost, s)
  BY TotalSums
<1>3. PICK b : Sums(b, cost, t)
  BY TotalSums
<1>4. PICK c : Sums(c, cost, both)
  BY <1>1, TotalSums
<1>5. /\ m \in Nat /\ n \in Nat /\ a[0] = 0 /\ b[0] = 0 /\ c[0] = 0
      /\ \A j \in 0..m : a[j] \in Nat
      /\ \A j \in 0..n : b[j] \in Nat
      /\ Total(cost, s) = a[m] /\ Total(cost, t) = b[n] /\ Total(cost, both) = c[m + n]
  BY <1>1, <1>2, <1>3, <1>4 DEF Sums
<1>6. /\ \A j \in 1..m : a[j] = a[j - 1] + cost[s[j]] /\ c[j] = c[j - 1] + cost[s[j]]
      /\ \A j \in 1..n : b[j] = b[j - 1] + cost[t[j]] /\ c[m + j] = c[(m + j) - 1] + cost[t[j]]
  <2>1. \A j \in 1..(m + n) : c[j] = c[j - 1] + cost[both[j]]
    BY <1>1, <1>4 DEF Sums
  <2>2. ASSUME NEW j \in 1..m PROVE a[j] = a[j - 1] + cost[s[j]] /\ c[j] = c[j - 1] + cost[s[j]]
    <3>1. j \in 1..(m + n) /\ both[j] = s[j]
      BY <1>1
    <3>2. a[j] = a[j - 1] + cost[s[j]]
      BY <1>2 DEF Sums
    <3> HIDE DEF both, m, n
    <3> QED
      BY <2>1, <3>1, <3>2
  <2>3. ASSUME NEW j \in 1..n PROVE b[j] = b[j - 1] + cost[t[j]] /\ c[m + j] = c[(m + j) - 1] + cost[t[j]]
    <3>1. m + j \in 1..(m + n) /\ both[m + j] = t[j]
      BY <1>1
    <3>2. b[j] = b[j - 1] + cost[t[j]]
      BY <1>3 DEF Sums
    <3> HIDE DEF both, m, n
    <3> QED
      BY <2>1, <3>1, <3>2
  <2> QED
    BY <2>2, <2>3
<1> HIDE DEF both, m, n
<1>7. \A j \in 0..m : c[j] = a[j]
  <2> DEFINE same == {j \in 0..m : c[j] = a[j]}
  <2>1. 0 \in same /\ \A j \in 1..m : j - 1 \in same => j \in same
    BY <1>5, <1>6
  <2> HIDE DEF same
  <2>2. \A j \in 0..m : j \in same
    BY <1>5, <2>1, UpTo
  <2> QED
    BY <2>2 DEF same
<1>8. \A j \in 0..n : c[m + j] = a[m] + b[j]
  <2> DEFINE same == {j \in 0..n : c[m + j] = a[m] + b[j]}
  <2>1. 0 \in same
    BY <1>5, <1>7
  <2>2. ASSUME NEW j \in 1..n, j - 1 \in same PROVE j \in same
    <3>1. (m + j) - 1 = m + (j - 1) /\ a[m] \in Nat /\ b[j - 1] \in Nat /\ j - 1 \in 0..n
      BY <1>5
    <3>2. c[m + j] = (a[m] + b[j - 1]) + cost[t[j]] /\ b[j] = b[j - 1] + cost[t[j]]
      BY <1>6, <2>2, <3>1
    <3>3. cost[t[j]] \in Nat
      BY <1>1 DEF n
    <3> QED
      BY <3>1, <3>2, <3>3
  <2> HIDE DEF same
  <2>3. \A j \in 0..n : j \in same
    BY <1>5, <2>1, <2>2, UpTo
  <2> QED
    BY <2>3 DEF same
<1> QED
  BY <1>5, <1>8 DEF both

\* A prefix costs no more than a longer one.
LEMMA TotalOfFirst ==
  ASSUME NEW cost \in [Files -> Nat], NEW s \in Seq(Files), NEW k \in 1..Len(s)
  PROVE  /\ Total(cost, SubSeq(s, 1, 1)) = cost[s[1]]
         /\ Total(cost, SubSeq(s, 1, k)) >= cost[s[1]]
<1>1. SubSeq(s, 1, 1) = <<s[1]>> /\ s[1] \in Files /\ cost[s[1]] \in Nat
  <2>1. 1 \in 1..Len(s) /\ Len(s) \in Nat
    OBVIOUS
  <2>2. SubSeq(s, 1, 1) = <<s[1]>> \o SubSeq(s, 2, 1)
    BY <2>1
  <2>3. SubSeq(s, 2, 1) = <<>>
    BY <2>1
  <2>4. <<s[1]>> \o <<>> = <<s[1]>>
    OBVIOUS
  <2>5. SubSeq(s, 1, 1) = <<s[1]>>
    BY <2>2, <2>3, <2>4, Zenon
  <2>6. s[1] \in Files
    BY <2>1
  <2>7. cost[s[1]] \in Nat
    BY <2>6
  <2> QED
    BY <2>5, <2>6, <2>7
<1>2. SubSeq(s, 1, k) = <<s[1]>> \o SubSeq(s, 2, k) /\ SubSeq(s, 2, k) \in Seq(Files) /\ <<s[1]>> \in Seq(Files)
  OBVIOUS
<1>3. Total(cost, SubSeq(s, 1, k)) = Total(cost, <<s[1]>>) + Total(cost, SubSeq(s, 2, k))
  BY <1>2, TotalOfBoth
<1>4. Total(cost, <<s[1]>>) = cost[s[1]] /\ Total(cost, SubSeq(s, 2, k)) \in Nat
  BY <1>1, <1>2, TotalOfOne, TotalIsNat
<1>5. Total(cost, SubSeq(s, 1, 1)) = cost[s[1]]
  BY <1>1, <1>4
<1>6. Total(cost, SubSeq(s, 1, k)) >= cost[s[1]]
  <2> DEFINE rest == Total(cost, SubSeq(s, 2, k))
             all == Total(cost, SubSeq(s, 1, k))
  <2>1. all = cost[s[1]] + rest /\ rest \in Nat /\ cost[s[1]] \in Nat
    BY <1>1, <1>3, <1>4
  <2> HIDE DEF rest, all
  <2>2. all >= cost[s[1]]
    BY <2>1
  <2> QED
    BY <2>2 DEF all
<1> QED
  BY <1>5, <1>6

\* The sums of a weight: what is taken out of a set adds its own.
Heavier(f, cost, s, x) == f[s] = f[s \ {x}] + cost[x]

Weighs(f, S, cost) == f[{}] = 0 /\ \A s \in SUBSET S : s # {} => Heavier(f, cost, s, CHOOSE x \in s : TRUE)

\* The sums are numbers, and the same whatever they were made for.
LEMMA SameWeights ==
  ASSUME NEW S, NEW U, IsFiniteSet(S), NEW cost, NEW f, NEW g, Weighs(f, S, cost), Weighs(g, U, cost), S \subseteq U
  PROVE  \A s \in SUBSET S : f[s] = g[s]
<1> DEFINE same == {k \in Nat : \A s \in SUBSET S : Cardinality(s) <= k => f[s] = g[s]}
<1>1. \A s \in SUBSET S : /\ IsFiniteSet(s) /\ Cardinality(s) \in Nat /\ Cardinality(s) <= Cardinality(S)
                          /\ Cardinality(s) = 0 <=> s = {}
  BY FS_Subset, FS_CardinalityType, FS_EmptySet
<1>2. 0 \in same
  BY <1>1 DEF Weighs
<1>3. ASSUME NEW j \in Nat, j > 0, j - 1 \in same PROVE j \in same
  <2>1. SUFFICES ASSUME NEW s \in SUBSET S, Cardinality(s) <= j, s # {} PROVE f[s] = g[s]
    BY <1>1, <1>3 DEF Weighs
  <2> DEFINE x == CHOOSE x \in s : TRUE
  <2>2. x \in s
    BY <2>1
  <2>3. Heavier(f, cost, s, x) /\ Heavier(g, cost, s, x)
    BY <2>1 DEF Weighs
  <2> HIDE DEF x
  <2>4. s \ {x} \in SUBSET S /\ Cardinality(s \ {x}) = Cardinality(s) - 1
    BY <1>1, <2>2, FS_RemoveElement
  <2>5. Cardinality(s \ {x}) <= j - 1
    BY <1>1, <2>1, <2>4
  <2>6. f[s \ {x}] = g[s \ {x}]
    BY <1>3, <2>4, <2>5
  <2> QED
    BY <2>3, <2>6 DEF Heavier
<1>4. Cardinality(S) \in Nat
  BY FS_CardinalityType
<1> HIDE DEF same
<1>5. Cardinality(S) \in same
  BY <1>2, <1>3, <1>4, UpTo
<1> QED
  BY <1>1, <1>5 DEF same

\* A weight is reached by taking one file out after the other.
LEMMA WeightRuns ==
  ASSUME NEW S, IsFiniteSet(S), NEW cost, \A x \in S : cost[x] \in Nat
  PROVE  \E f : Weighs(f, S, cost) /\ Weight(cost, S) = f[S] /\ \A s \in SUBSET S : f[s] \in Nat
<1> DEFINE AnyOf(s) == CHOOSE x \in s : TRUE
           pick == [s \in (SUBSET S) \ {{}} |-> AnyOf(s)]
           step == [x \in S |-> [v \in Nat |-> v + cost[x]]]
           Runs(it) == it = [s \in SUBSET S |-> IF s = {} THEN 0 ELSE it[s \ {AnyOf(s)}] + cost[AnyOf(s)]]
           f == CHOOSE it : Runs(it)
<1>1. Weight(cost, S) = f[S]
  BY DEF Weight, FoldSet, MapThenFoldSet
<1>2. \A s \in SUBSET S : s # {} => pick[s] = AnyOf(s) /\ pick[s] \in s
  OBVIOUS
<1>3. step \in [S -> [Nat -> Nat]] /\ \A x \in S, v \in Nat : step[x][v] = v + cost[x]
  OBVIOUS
<1>4. PICK it : Iterated(it, S, Nat, 0, step, pick)
  <2> HIDE DEF pick, step
  <2>1. Iteration(S, Nat, 0, step, pick)
    BY <1>2, <1>3 DEF Iteration
  <2> QED
    BY <2>1, Iterates
<1> HIDE DEF pick, step
<1>5. ASSUME NEW s \in SUBSET S, s # {} PROVE it[s] = it[s \ {AnyOf(s)}] + cost[AnyOf(s)]
  <2>1. Goes(it, step, s, AnyOf(s)) /\ AnyOf(s) \in S
    BY <1>2, <1>4, <1>5 DEF Iterated
  <2>2. it[s \ {AnyOf(s)}] \in Nat
    BY <1>4 DEF Iterated
  <2> HIDE DEF AnyOf
  <2> QED
    BY <1>3, <2>1, <2>2 DEF Goes
<1>6. it \in [SUBSET S -> Nat] /\ it[{}] = 0
  BY <1>4 DEF Iterated
<1>7. Runs(it)
  <2>1. ASSUME NEW s \in SUBSET S
        PROVE  it[s] = IF s = {} THEN 0 ELSE it[s \ {AnyOf(s)}] + cost[AnyOf(s)]
    BY <1>5, <1>6
  <2> HIDE DEF AnyOf
  <2> QED
    BY <1>6, <2>1
<1>8. Runs(f)
  <2> HIDE DEF Runs
  <2> QED
    BY <1>7
<1> HIDE DEF f
<1>9. ASSUME NEW s \in SUBSET S
      PROVE  f[s] = IF s = {} THEN 0 ELSE f[s \ {AnyOf(s)}] + cost[AnyOf(s)]
  BY <1>8
<1>10. Weighs(f, S, cost)
  BY <1>9 DEF Weighs, Heavier
<1>11. Weighs(it, S, cost)
  BY <1>5, <1>6 DEF Weighs, Heavier
<1>12. \A s \in SUBSET S : f[s] = it[s]
  BY <1>10, <1>11, SameWeights
<1> QED
  BY <1>1, <1>6, <1>10, <1>12

\* It does not matter what is taken out first.
LEMMA AnyOrder ==
  ASSUME NEW S, IsFiniteSet(S), NEW cost, \A x \in S : cost[x] \in Nat,
         NEW f, Weighs(f, S, cost), \A s \in SUBSET S : f[s] \in Nat
  PROVE  \A s \in SUBSET S : \A x \in s : Heavier(f, cost, s, x)
<1> DEFINE good == {k \in Nat : \A s \in SUBSET S : Cardinality(s) <= k => \A x \in s : Heavier(f, cost, s, x)}
<1>1. \A s \in SUBSET S : /\ IsFiniteSet(s) /\ Cardinality(s) \in Nat /\ Cardinality(s) <= Cardinality(S)
                          /\ Cardinality(s) = 0 <=> s = {}
  BY FS_Subset, FS_CardinalityType, FS_EmptySet
<1>2. 0 \in good
  BY <1>1
<1>3. ASSUME NEW j \in Nat, j > 0, j - 1 \in good PROVE j \in good
  <2>1. SUFFICES ASSUME NEW s \in SUBSET S, Cardinality(s) <= j, NEW x \in s PROVE Heavier(f, cost, s, x)
    BY <1>3
  <2> DEFINE z == CHOOSE z \in s : TRUE
  <2>2. z \in s /\ Heavier(f, cost, s, z)
    BY DEF Weighs
  <2> HIDE DEF z
  <2>3. CASE x = z
    BY <2>2, <2>3
  <2>4. CASE x # z
    <3>1. /\ s \ {x} \in SUBSET S /\ s \ {z} \in SUBSET S
          /\ Cardinality(s \ {x}) = Cardinality(s) - 1 /\ Cardinality(s \ {z}) = Cardinality(s) - 1
      BY <1>1, <2>1, <2>2, FS_RemoveElement
    <3>2. Cardinality(s \ {x}) <= j - 1 /\ Cardinality(s \ {z}) <= j - 1
      BY <1>1, <2>1, <3>1
    <3>3. Heavier(f, cost, s \ {x}, z) /\ Heavier(f, cost, s \ {z}, x)
      BY <1>3, <2>1, <2>2, <2>4, <3>1, <3>2
    <3>4. (s \ {x}) \ {z} = (s \ {z}) \ {x} /\ (s \ {z}) \ {x} \in SUBSET S
      OBVIOUS
    <3> DEFINE rest == f[(s \ {z}) \ {x}]
    <3>5. f[s \ {x}] = rest + cost[z] /\ f[s \ {z}] = rest + cost[x] /\ f[s] = f[s \ {z}] + cost[z]
      BY <2>2, <3>3, <3>4 DEF Heavier
    <3>6. rest \in Nat /\ cost[x] \in Nat /\ cost[z] \in Nat /\ f[s] \in Nat /\ f[s \ {x}] \in Nat
      BY <2>2, <3>1, <3>4
    <3> HIDE DEF rest
    <3>7. f[s] = f[s \ {x}] + cost[x]
      BY <3>5, <3>6
    <3> QED
      BY <3>7 DEF Heavier
  <2> QED
    BY <2>3, <2>4
<1>4. Cardinality(S) \in Nat
  BY FS_CardinalityType
<1> HIDE DEF good
<1>5. Cardinality(S) \in good
  BY <1>2, <1>3, <1>4, UpTo
<1> QED
  BY <1>1, <1>5 DEF good

\* What a set of files weighs: nothing for none, and one more adds its own.
LEMMA WeightAdds ==
  ASSUME NEW cost \in [Files -> Nat], NEW S \in SUBSET Files
  PROVE  /\ IsFiniteSet(S) /\ Weight(cost, S) \in Nat /\ Weight(cost, {}) = 0
         /\ \A x \in Files \ S : Weight(cost, S \union {x}) = Weight(cost, S) + cost[x]
<1>1. IsFiniteSet(S) /\ \A x \in Files : IsFiniteSet(S \union {x}) /\ S \union {x} \in SUBSET Files
  BY ExplorationAssumption, FS_Subset
<1>2. PICK f : Weighs(f, S, cost) /\ Weight(cost, S) = f[S] /\ \A s \in SUBSET S : f[s] \in Nat
  BY <1>1, WeightRuns
<1>3. Weight(cost, {}) = 0
  <2>1. IsFiniteSet({})
    BY FS_EmptySet
  <2>2. PICK g : Weighs(g, {}, cost) /\ Weight(cost, {}) = g[{}] /\ \A s \in SUBSET {} : g[s] \in Nat
    BY <2>1, WeightRuns
  <2> QED
    BY <2>2 DEF Weighs
<1>4. ASSUME NEW x \in Files \ S PROVE Weight(cost, S \union {x}) = Weight(cost, S) + cost[x]
  <2> DEFINE U == S \union {x}
  <2>1. IsFiniteSet(U) /\ \A y \in U : cost[y] \in Nat
    BY <1>1
  <2>2. x \in U /\ U \ {x} = S /\ U \in SUBSET U /\ S \subseteq U
    OBVIOUS
  <2> HIDE DEF U
  <2>3. PICK g : Weighs(g, U, cost) /\ Weight(cost, U) = g[U] /\ \A s \in SUBSET U : g[s] \in Nat
    BY <2>1, WeightRuns
  <2>4. Heavier(g, cost, U, x)
    BY <2>1, <2>2, <2>3, AnyOrder
  <2>5. f[S] = g[S]
    BY <1>1, <1>2, <2>2, <2>3, SameWeights
  <2>6. Weight(cost, U) = Weight(cost, S) + cost[x]
    BY <1>2, <2>2, <2>3, <2>4, <2>5 DEF Heavier
  <2> QED
    BY <2>6 DEF U
<1> QED
  BY <1>1, <1>2, <1>3, <1>4

\* A finite set has its members in any strict order: the greatest last.
Ordered(S, R) ==
  \A a, b \in S : a # b => (<<a, b>> \in R \/ <<b, a>> \in R)

Transitive(S, R) == \A a, b, c \in S : <<a, b>> \in R /\ <<b, c>> \in R => <<a, c>> \in R

\* A finite set in a strict order has a last member.
LEMMA LastOf ==
  ASSUME NEW S, IsFiniteSet(S), S # {}, NEW R, Ordered(S, R), Transitive(S, R)
  PROVE  \E m \in S : \A x \in S : x # m => <<x, m>> \in R
<1> DEFINE HasLast(T) == T = {} \/ \E m \in T : \A x \in T : x # m => <<x, m>> \in R
           good == {k \in Nat : \A T \in SUBSET S : Cardinality(T) <= k => HasLast(T)}
<1>1. \A T \in SUBSET S : /\ IsFiniteSet(T) /\ Cardinality(T) \in Nat /\ Cardinality(T) <= Cardinality(S)
                          /\ Cardinality(T) = 0 <=> T = {}
  BY FS_Subset, FS_CardinalityType, FS_EmptySet
<1>2. 0 \in good
  BY <1>1
<1>3. ASSUME NEW j \in Nat, j > 0, j - 1 \in good PROVE j \in good
  <2>1. SUFFICES ASSUME NEW T \in SUBSET S, Cardinality(T) <= j, T # {} PROVE \E m \in T : \A x \in T : x # m => <<x, m>> \in R
    BY <1>3
  <2>2. PICK t \in T : TRUE
    BY <2>1
  <2>3. T \ {t} \in SUBSET S /\ Cardinality(T \ {t}) = Cardinality(T) - 1
    BY <1>1, <2>2, FS_RemoveElement
  <2>4. Cardinality(T \ {t}) <= j - 1
    BY <1>1, <2>1, <2>3
  <2>5. HasLast(T \ {t})
    BY <1>3, <2>3, <2>4
  <2>6. CASE T \ {t} = {}
    BY <2>2, <2>6
  <2>7. CASE T \ {t} # {}
    <3>1. PICK m \in T \ {t} : \A x \in T \ {t} : x # m => <<x, m>> \in R
      BY <2>5, <2>7
    <3>2. <<t, m>> \in R \/ <<m, t>> \in R
      BY <2>2, <3>1 DEF Ordered
    <3>3. CASE <<t, m>> \in R
      BY <3>1, <3>3
    <3>4. CASE <<m, t>> \in R
      <4>1. \A x \in T : x # t => <<x, t>> \in R
        BY <2>2, <3>1, <3>4 DEF Transitive
      <4> QED
        BY <2>2, <4>1
    <3> QED
      BY <3>2, <3>3, <3>4
  <2> QED
    BY <2>6, <2>7
<1>4. Cardinality(S) \in Nat
  BY FS_CardinalityType
<1> HIDE DEF good
<1>5. Cardinality(S) \in good
  BY <1>2, <1>3, <1>4, UpTo
<1> QED
  BY <1>1, <1>5 DEF good

InTurn(s, R, n) == \A i, j \in 1..n : i < j => <<s[i], s[j]>> \in R

\* A finite set in a strict order can be put in it.
LEMMA Arrangement ==
  ASSUME NEW S, IsFiniteSet(S), NEW R, Ordered(S, R), Transitive(S, R)
  PROVE  \E s \in [1..Cardinality(S) -> S] : InTurn(s, R, Cardinality(S))
<1> DEFINE Fits(T) == \E s \in [1..Cardinality(T) -> T] : InTurn(s, R, Cardinality(T))
           good == {k \in Nat : \A T \in SUBSET S : Cardinality(T) <= k => Fits(T)}
<1>1. \A T \in SUBSET S : /\ IsFiniteSet(T) /\ Cardinality(T) \in Nat /\ Cardinality(T) <= Cardinality(S)
                          /\ Cardinality(T) = 0 <=> T = {}
  BY FS_Subset, FS_CardinalityType, FS_EmptySet
<1>2. \A T \in SUBSET S : Cardinality(T) = 0 => Fits(T)
  <2>1. ASSUME NEW T \in SUBSET S, Cardinality(T) = 0 PROVE Fits(T)
    <3> DEFINE s == [i \in 1..0 |-> T]
    <3>1. s \in [1..0 -> T] /\ InTurn(s, R, 0)
      BY DEF InTurn
    <3> HIDE DEF s
    <3> QED
      BY <2>1, <3>1
  <2> QED
    BY <2>1
<1>3. ASSUME NEW j \in Nat, j > 0, j - 1 \in good PROVE j \in good
  <2>1. SUFFICES ASSUME NEW T \in SUBSET S, Cardinality(T) <= j, Cardinality(T) # 0 PROVE Fits(T)
    BY <1>2, <1>3
  <2> DEFINE n == Cardinality(T)
  <2>2. n \in Nat /\ T # {} /\ IsFiniteSet(T) /\ n > 0 /\ n <= j
    BY <1>1, <2>1
  <2>3. PICK m \in T : \A x \in T : x # m => <<x, m>> \in R
    <3>1. Ordered(T, R) /\ Transitive(T, R)
      BY DEF Ordered, Transitive
    <3> QED
      BY <2>2, <3>1, LastOf
  <2>4. T \ {m} \in SUBSET S /\ Cardinality(T \ {m}) = n - 1
    BY <2>2, FS_RemoveElement
  <2> HIDE DEF n
  <2>5. PICK s \in [1..(n - 1) -> T \ {m}] : InTurn(s, R, n - 1)
    <3>1. Fits(T \ {m})
      BY <1>3, <2>2, <2>4
    <3> QED
      BY <2>4, <3>1
  <2> DEFINE whole == [i \in 1..n |-> IF i = n THEN m ELSE s[i]]
  <2>6. \A i \in 1..n : i # n => i \in 1..(n - 1) /\ s[i] \in T \ {m}
    BY <2>2, <2>5
  <2>7. whole \in [1..n -> T] /\ \A i \in 1..n : whole[i] = IF i = n THEN m ELSE s[i]
    BY <2>6
  <2> HIDE DEF whole
  <2>8. ASSUME NEW i \in 1..n, NEW k \in 1..n, i < k PROVE <<whole[i], whole[k]>> \in R
    <3>1. i # n /\ i \in 1..(n - 1) /\ whole[i] = s[i] /\ s[i] \in T /\ s[i] # m
      BY <2>2, <2>6, <2>7, <2>8
    <3>2. CASE k = n
      BY <2>3, <2>7, <3>1, <3>2
    <3>3. CASE k # n
      BY <2>5, <2>6, <2>7, <2>8, <3>1, <3>3 DEF InTurn
    <3> QED
      BY <3>2, <3>3
  <2>9. InTurn(whole, R, n)
    BY <2>8 DEF InTurn
  <2> QED
    BY <2>7, <2>9 DEF n
<1>4. Cardinality(S) \in Nat
  BY FS_CardinalityType
<1> HIDE DEF good, Fits
<1>5. Cardinality(S) \in good
  <2>1. 0 \in good
    BY <1>1, <1>2 DEF good
  <2> QED
    BY <2>1, <1>3, <1>4, UpTo
<1>6. Fits(S)
  BY <1>1, <1>5 DEF good
<1> QED
  BY <1>6 DEF Fits

\* A numbering that repeats nothing is a sequence, each once.
LEMMA EachOnce ==
  ASSUME NEW n \in Nat, NEW S, NEW s \in [1..n -> S], \A i, j \in 1..n : s[i] = s[j] => i = j
  PROVE  s \in Seq(S) /\ IsInjective(s)
<1>1. s \in Seq(S)
  OBVIOUS
<1>2. DOMAIN s = 1..n
  OBVIOUS
<1> QED
  BY <1>1, <1>2 DEF IsInjective

\* An order of a set of files by a strict one is a sequence of them, each once.
LEMMA ArrangedOnce ==
  ASSUME NEW S \in SUBSET Files, NEW R, Ordered(S, R), Transitive(S, R), \A a \in S : <<a, a>> \notin R,
         NEW s, s = CHOOSE t \in [1..Cardinality(S) -> S] : \A i, j \in 1..Cardinality(S) : i < j => <<t[i], t[j]>> \in R
  PROVE  s \in Seq(S) /\ IsInjective(s)
<1> DEFINE n == Cardinality(S)
           Fits(t) == \A i, j \in 1..n : i < j => <<t[i], t[j]>> \in R
<1>1. n \in Nat /\ IsFiniteSet(S)
  BY ExplorationAssumption, FS_Subset, FS_CardinalityType
<1>2. \E t \in [1..n -> S] : Fits(t)
  BY <1>1, Arrangement DEF InTurn
<1>3. s \in [1..n -> S] /\ Fits(s)
  BY <1>2
<1> HIDE DEF n
<1>4. \A i, j \in 1..n : s[i] = s[j] => i = j
  <2>1. ASSUME NEW i \in 1..n, NEW j \in 1..n, i < j PROVE s[i] # s[j]
    <3>1. <<s[i], s[j]>> \in R /\ s[i] \in S
      BY <1>3, <2>1
    <3> QED
      BY <3>1
  <2>2. \A i, j \in 1..n : i < j \/ j < i \/ i = j
    BY <1>1
  <2> QED
    BY <2>1, <2>2
<1>5. s \in [1..n -> S] /\ n \in Nat
  BY <1>1, <1>3
<1> QED
  BY <1>4, <1>5, EachOnce

\* A ranking has each candidate at most once.
LEMMA OverlaidOnce ==
  ASSUME NEW S \in SUBSET Files, NEW score \in [Files -> Nat]
  PROVE  Overlaid(S, score) \in Seq(S) /\ IsInjective(Overlaid(S, score))
<1> DEFINE Before(a, b) == \/ score[a] > score[b]
                           \/ score[a] = score[b] /\ Near[a] > Near[b]
                           \/ score[a] = score[b] /\ Near[a] = Near[b] /\ Name[a] < Name[b]
           R == {p \in S \X S : Before(p[1], p[2])}
           s == Overlaid(S, score)
<1>1. \A a, b \in S : <<a, b>> \in R <=> Before(a, b)
  OBVIOUS
<1>2. /\ \A a \in S : score[a] \in Nat /\ Near[a] \in Nat /\ Name[a] \in Nat
      /\ \A a, b \in S : Name[a] = Name[b] => a = b
  BY ExplorationAssumption
<1>3. Ordered(S, R)
  <2>1. ASSUME NEW a \in S, NEW b \in S, a # b PROVE Before(a, b) \/ Before(b, a)
    BY <1>2, <2>1
  <2> QED
    BY <1>1, <2>1 DEF Ordered
<1>4. Transitive(S, R)
  BY <1>1, <1>2 DEF Transitive
<1>5. \A a \in S : <<a, a>> \notin R
  BY <1>1, <1>2
<1>6. s = CHOOSE t \in [1..Cardinality(S) -> S] : \A i, j \in 1..Cardinality(S) : i < j => <<t[i], t[j]>> \in R
  <2>1. \A t \in [1..Cardinality(S) -> S] :
          (\A i, j \in 1..Cardinality(S) : i < j => Before(t[i], t[j]))
            <=> (\A i, j \in 1..Cardinality(S) : i < j => <<t[i], t[j]>> \in R)
    <3>1. ASSUME NEW t \in [1..Cardinality(S) -> S], NEW i \in 1..Cardinality(S), NEW j \in 1..Cardinality(S)
          PROVE  Before(t[i], t[j]) <=> <<t[i], t[j]>> \in R
      BY <1>1, <3>1
    <3> HIDE DEF Before, R
    <3> QED
      BY <3>1
  <2> HIDE DEF R
  <2> QED
    BY <2>1 DEF Overlaid, Arranged
<1> HIDE DEF R, s
<1>7. s \in Seq(S) /\ IsInjective(s)
  BY <1>3, <1>4, <1>5, <1>6, ArrangedOnce
<1> QED
  BY <1>7 DEF s

\* So does the order of a set by name.
LEMMA NamedOnce ==
  ASSUME NEW S \in SUBSET Files
  PROVE  Arranged(S, LAMBDA a, b : Name[a] < Name[b]) \in Seq(S)
<1> DEFINE R == {p \in S \X S : Name[p[1]] < Name[p[2]]}
           s == Arranged(S, LAMBDA a, b : Name[a] < Name[b])
<1>1. \A a, b \in S : <<a, b>> \in R <=> Name[a] < Name[b]
  OBVIOUS
<1>2. (\A a \in S : Name[a] \in Nat) /\ \A a, b \in S : Name[a] = Name[b] => a = b
  BY ExplorationAssumption
<1>3. Ordered(S, R)
  <2>1. ASSUME NEW a \in S, NEW b \in S, a # b PROVE Name[a] < Name[b] \/ Name[b] < Name[a]
    BY <1>2, <2>1
  <2> QED
    BY <1>1, <2>1 DEF Ordered
<1>4. Transitive(S, R)
  BY <1>1, <1>2 DEF Transitive
<1>5. \A a \in S : <<a, a>> \notin R
  BY <1>1, <1>2
<1>6. s = CHOOSE t \in [1..Cardinality(S) -> S] : \A i, j \in 1..Cardinality(S) : i < j => <<t[i], t[j]>> \in R
  <2>1. \A t \in [1..Cardinality(S) -> S] :
          (\A i, j \in 1..Cardinality(S) : i < j => Name[t[i]] < Name[t[j]])
            <=> (\A i, j \in 1..Cardinality(S) : i < j => <<t[i], t[j]>> \in R)
    BY <1>1
  <2> HIDE DEF R
  <2> QED
    BY <2>1 DEF Arranged
<1> HIDE DEF R, s
<1>7. s \in Seq(S)
  BY <1>3, <1>4, <1>5, <1>6, ArrangedOnce
<1> QED
  BY <1>7 DEF s

\* An estimate is a number.
LEMMA EstimateIsNat == Estimate \in [Files -> Nat]
<1>1. ASSUME NEW f \in Files PROVE Least(Bytes[f], Excerpt) + Reference \in Nat
  <2>1. Bytes[f] \in Nat /\ Excerpt \in Nat /\ Reference \in Nat
    BY ExplorationAssumption
  <2> QED
    BY <2>1 DEF Least
<1> QED
  BY <1>1 DEF Estimate

\* The gate admits a prefix that fits in what is left of both budgets.
LEMMA GateFits ==
  ASSUME NEW ranked \in Seq(Files), NEW files \in Seq(Files), NEW bytes \in Nat,
         hunt.files \in Nat, hunt.bytes \in Nat, Len(files) <= hunt.files, bytes <= hunt.bytes
  PROVE  LET k == GateSelection(ranked, files, bytes) IN
         /\ k \in 0..Len(ranked) /\ Len(files) + k <= hunt.files
         /\ bytes + Total(Estimate, SubSeq(ranked, 1, k)) <= hunt.bytes
<1> DEFINE n == Len(ranked)
           Fits(k) == k <= RemainingFiles(files) /\ bytes + Total(Estimate, SubSeq(ranked, 1, k)) <= hunt.bytes
           fitting == {k \in 0..n : Fits(k)}
<1>1. n \in Nat /\ Estimate \in [Files -> Nat]
  BY EstimateIsNat
<1>2. 0 \in fitting
  <2>1. SubSeq(ranked, 1, 0) = <<>> /\ 0 <= RemainingFiles(files)
    BY DEF RemainingFiles
  <2>2. Total(Estimate, SubSeq(ranked, 1, 0)) = 0
    BY <1>1, <2>1, TotalOfNone
  <2> QED
    BY <1>1, <2>1, <2>2
<1>3. PICK m \in fitting : \A x \in fitting : m >= x
  <2> HIDE DEF fitting, n
  <2>1. fitting \subseteq 0..n
    BY DEF fitting
  <2> QED
    BY <1>1, <1>2, <2>1, HasGreatest
<1> HIDE DEF Fits
<1>4. m \in 0..n /\ Fits(m) /\ \A j \in (m + 1)..n : ~Fits(j)
  BY <1>1, <1>3
<1> DEFINE k == CHOOSE k \in 0..n : Fits(k) /\ \A j \in (k + 1)..n : ~Fits(j)
<1>5. k \in 0..n /\ Fits(k)
  BY <1>4
<1>6. GateSelection(ranked, files, bytes) = k
  BY DEF GateSelection, Fits
<1> HIDE DEF k
<1> QED
  BY <1>1, <1>5, <1>6 DEF Fits, RemainingFiles

\* What a decision about a snippet starts from and leads to.
Shelf == [spent : Nat, shown : SUBSET Files, dropped : SUBSET [what : {"snippet", "overflow"}, of : Files]]

Tails(verdict) == Blocks("overflow", ToSet(round.added) \intersect verdict \intersect Overflows)

\* The decisions about a round's snippets, one after the other.
Decisions(acc, verdict) ==
  /\ acc \in [0..Len(round.added) -> Shelf]
  /\ acc[0] = [spent |-> spent, shown |-> {}, dropped |-> Tails(verdict)]
  /\ acc[Len(round.added)] = Snippets(verdict)
  /\ \A j \in 1..Len(round.added) : acc[j] = ShownOrDropped(acc[j - 1], round.added[j], verdict)

\* A decision about a snippet keeps the types.
LEMMA ShelfStays ==
  ASSUME NEW s \in Shelf, NEW f \in Files, NEW verdict
  PROVE  ShownOrDropped(s, f, verdict) \in Shelf
<1>1. Inline[f] \in Nat /\ s.spent \in Nat /\ s.spent + Inline[f] \in Nat
  BY ExplorationAssumption DEF Shelf
<1>2. Blocks("snippet", {f}) \subseteq [what : {"snippet", "overflow"}, of : Files]
  BY DEF Blocks
<1> QED
  BY <1>1, <1>2 DEF Shelf, ShownOrDropped

\* The decisions of Snippets are taken in the files' order.
LEMMA SnippetsRun ==
  ASSUME spent \in Nat, round.added \in Seq(Files), NEW verdict
  PROVE  \E acc : Decisions(acc, verdict)
<1> DEFINE files == round.added
           n == Len(files)
           base == [spent |-> spent, shown |-> {}, dropped |-> Tails(verdict)]
           step == [i \in 1..n |-> [v \in Shelf |-> ShownOrDropped(v, files[i], verdict)]]
           Runs(it) == it = [s \in SUBSET (1..n) |-> IF s = {} THEN base ELSE ShownOrDropped(it[s \ {Max(s)}], files[Max(s)], verdict)]
           f == CHOOSE it : Runs(it)
<1>1. n \in Nat /\ DOMAIN files = 1..n /\ \A i \in 1..n : files[i] \in Files
  OBVIOUS
<1>2. Snippets(verdict) = f[1..n]
  BY <1>1 DEF Snippets, FoldLeft, MapThenFoldSet, Tails
<1>3. base \in Shelf
  <2>1. ToSet(round.added) \subseteq Files
    BY DEF ToSet
  <2>2. Tails(verdict) \subseteq [what : {"snippet", "overflow"}, of : Files]
    BY <2>1 DEF Tails, Blocks
  <2> QED
    BY <2>2 DEF Shelf
<1>4. step \in [1..n -> [Shelf -> Shelf]] /\ \A i \in 1..n, v \in Shelf : step[i][v] = ShownOrDropped(v, files[i], verdict)
  <2>1. \A i \in 1..n, v \in Shelf : ShownOrDropped(v, files[i], verdict) \in Shelf
    BY <1>1, ShelfStays
  <2> QED
    BY <2>1
<1> HIDE DEF step, n, base
<1>5. PICK it, acc : Walked(it, acc, n, Shelf, base, step)
  <2>1. Walk(n, Shelf, base, step)
    BY <1>1, <1>3, <1>4 DEF Walk
  <2> QED
    BY <2>1, Walks
<1>6. \A s \in SUBSET (1..n) : s # {} => Max(s) \in s /\ Max(s) \in 1..n /\ s \ {Max(s)} \in SUBSET (1..n)
  BY <1>1, GreatestUpTo
<1>7. Runs(it)
  <2>1. ASSUME NEW s \in SUBSET (1..n)
        PROVE  it[s] = IF s = {} THEN base ELSE ShownOrDropped(it[s \ {Max(s)}], files[Max(s)], verdict)
    <3>1. CASE s = {}
      BY <1>5, <3>1 DEF Walked
    <3>2. CASE s # {}
      <4>1. Goes(it, step, s, Max(s)) /\ it[s \ {Max(s)}] \in Shelf
        BY <1>5, <1>6, <3>2 DEF Walked
      <4> QED
        BY <1>4, <1>6, <3>2, <4>1 DEF Goes
    <3> QED
      BY <3>1, <3>2
  <2>2. it \in [SUBSET (1..n) -> Shelf]
    BY <1>5 DEF Walked
  <2> QED
    BY <2>1, <2>2
<1>8. Runs(f)
  <2> HIDE DEF Runs
  <2> QED
    BY <1>7
<1> HIDE DEF f
<1>9. f[{}] = base /\ \A j \in 1..n : f[1..j] = ShownOrDropped(f[1..(j - 1)], files[j], verdict)
  <2>1. \A s \in SUBSET (1..n) : f[s] = IF s = {} THEN base ELSE ShownOrDropped(f[s \ {Max(s)}], files[Max(s)], verdict)
    BY <1>8
  <2> QED
    BY <1>1, <2>1, GreatestOut
<1> HIDE DEF Runs
<1>10. Follows(f, n, Shelf, base, step)
  BY <1>4, <1>9 DEF Follows
<1>11. Reaches(acc, n, Shelf, base, step, f[1..n])
  BY <1>1, <1>5, <1>10, WalkEnds
<1>12. \A j \in 1..n : acc[j] = ShownOrDropped(acc[j - 1], files[j], verdict)
  BY <1>4, <1>11 DEF Reaches
<1>13. Decisions(acc, verdict)
  BY <1>2, <1>11, <1>12 DEF Decisions, Reaches, n, base
<1> QED
  BY <1>13

\* What the decisions about the first j snippets have come to.
Shelved(v, j, verdict) ==
  /\ v.spent <= hunt.bytes
  /\ v.spent + Weight(Inline, shown) = spent + Weight(Inline, shown \union v.shown)
  /\ v.shown \subseteq verdict /\ \A f \in v.shown : \E i \in 1..j : f = round.added[i]
  /\ Tails(verdict) \subseteq v.dropped
  /\ \A d \in v.dropped : d \in Tails(verdict) \/ \E i \in 1..j : d = [what |-> "snippet", of |-> round.added[i]]
  /\ \A i \in 1..j : round.added[i] \in v.shown \/ [what |-> "snippet", of |-> round.added[i]] \in v.dropped

\* What a round shows was added by it, each file once.
Shelving ==
  /\ hunt.bytes \in Nat /\ spent \in Nat /\ spent <= hunt.bytes
  /\ round.added \in Seq(Files) /\ IsInjective(round.added)
  /\ shown \in SUBSET Files /\ ToSet(round.added) \intersect shown = {}

\* A decision keeps what the ones before it came to.
LEMMA NextShelved ==
  ASSUME Shelving, NEW v \in Shelf, NEW verdict, NEW j \in 1..Len(round.added), Shelved(v, j - 1, verdict)
  PROVE  Shelved(ShownOrDropped(v, round.added[j], verdict), j, verdict)
<1> DEFINE f == round.added[j]
           w == ShownOrDropped(v, f, verdict)
           drop == [what |-> "snippet", of |-> f]
<1>1. /\ f \in Files /\ f \notin shown /\ \A i \in 1..(j - 1) : round.added[i] # f
      /\ j \in Nat /\ 1..j = (1..(j - 1)) \union {j} /\ hunt.bytes \in Nat
  <2>1. f \in Files /\ f \in ToSet(round.added) /\ j \in DOMAIN round.added /\ 1..(j - 1) \subseteq DOMAIN round.added
    BY DEF Shelving, ToSet
  <2>2. \A i \in 1..(j - 1) : round.added[i] # f
    BY <2>1 DEF Shelving, IsInjective
  <2> QED
    BY <2>1, <2>2 DEF Shelving
<1>2. /\ v.spent \in Nat /\ v.shown \in SUBSET Files /\ Inline[f] \in Nat /\ Inline \in [Files -> Nat]
      /\ v.spent <= hunt.bytes
      /\ v.spent + Weight(Inline, shown) = spent + Weight(Inline, shown \union v.shown)
      /\ v.shown \subseteq verdict /\ \A g \in v.shown : \E i \in 1..(j - 1) : g = round.added[i]
      /\ Tails(verdict) \subseteq v.dropped
      /\ \A d \in v.dropped : d \in Tails(verdict) \/ \E i \in 1..(j - 1) : d = [what |-> "snippet", of |-> round.added[i]]
      /\ \A i \in 1..(j - 1) : round.added[i] \in v.shown \/ [what |-> "snippet", of |-> round.added[i]] \in v.dropped
  <2>1. Inline \in [Files -> Nat]
    BY ExplorationAssumption
  <2>2. v.spent \in Nat /\ v.shown \in SUBSET Files /\ Inline[f] \in Nat
    BY <1>1, <2>1 DEF Shelf
  <2> HIDE DEF f
  <2> QED
    BY <2>1, <2>2 DEF Shelved
<1>3. CASE f \in verdict /\ Inline[f] > 0 /\ v.spent + Inline[f] <= hunt.bytes
  <2>1. w.spent = v.spent + Inline[f] /\ w.shown = v.shown \union {f} /\ w.dropped = v.dropped
    BY <1>3 DEF Shelf, ShownOrDropped
  <2> HIDE DEF w, f, drop
  <2>2. w.spent + Weight(Inline, shown) = spent + Weight(Inline, shown \union w.shown)
    <3> DEFINE U == shown \union v.shown
    <3>1. f \notin v.shown
      BY <1>1, <1>2
    <3>2. U \in SUBSET Files /\ f \in Files \ U /\ shown \union w.shown = U \union {f} /\ shown \in SUBSET Files
      BY <1>1, <1>2, <2>1, <3>1 DEF Shelving
    <3> DEFINE all == shown \union w.shown
    <3>3. spent \in Nat /\ v.spent \in Nat /\ Inline[f] \in Nat /\ w.spent = v.spent + Inline[f] /\ Inline \in [Files -> Nat]
      BY <1>2, <2>1 DEF Shelving
    <3> HIDE DEF U, all
    <3>4. all = U \union {f}
      BY <3>2 DEF all
    <3>5. Weight(Inline, all) = Weight(Inline, U) + Inline[f] /\ Weight(Inline, U) \in Nat /\ Weight(Inline, shown) \in Nat
      <4>1. Weight(Inline, U) \in Nat /\ \A x \in Files \ U : Weight(Inline, U \union {x}) = Weight(Inline, U) + Inline[x]
        BY <3>2, <3>3, WeightAdds
      <4>2. Weight(Inline, shown) \in Nat
        BY <3>2, <3>3, WeightAdds
      <4> QED
        BY <3>2, <3>4, <4>1, <4>2
    <3>6. v.spent + Weight(Inline, shown) = spent + Weight(Inline, U)
      BY <1>2 DEF U
    <3>7. w.spent + Weight(Inline, shown) = spent + Weight(Inline, all)
      <4> DEFINE a == Weight(Inline, all)
                 b == Weight(Inline, U)
                 c == Weight(Inline, shown)
                 d == Inline[f]
                 x == v.spent
                 y == w.spent
      <4>1. /\ b \in Nat /\ c \in Nat /\ d \in Nat /\ x \in Nat /\ spent \in Nat
            /\ a = b + d /\ x + c = spent + b /\ y = x + d
        BY <3>5, <3>6, <3>3
      <4> HIDE DEF a, b, c, d, x, y
      <4>2. y + c = spent + a
        BY <4>1
      <4> QED
        BY <4>2 DEF a, c, y
    <3> QED
      BY <3>7 DEF all
  <2>3. f = round.added[j]
    BY DEF f
  <2>4. w.shown \subseteq verdict /\ \A g \in w.shown : \E i \in 1..j : g = round.added[i]
    BY <1>1, <1>2, <1>3, <2>1, <2>3
  <2>5. /\ Tails(verdict) \subseteq w.dropped
        /\ \A d \in w.dropped : d \in Tails(verdict) \/ \E i \in 1..j : d = [what |-> "snippet", of |-> round.added[i]]
    BY <1>1, <1>2, <2>1
  <2>6. \A i \in 1..j : round.added[i] \in w.shown \/ [what |-> "snippet", of |-> round.added[i]] \in w.dropped
    BY <1>1, <1>2, <2>1, <2>3
  <2>7. w.spent <= hunt.bytes
    BY <1>3, <2>1
  <2>8. Shelved(w, j, verdict)
    BY <2>2, <2>4, <2>5, <2>6, <2>7 DEF Shelved
  <2> QED
    BY <2>8 DEF w, f
<1>4. CASE ~(f \in verdict /\ Inline[f] > 0 /\ v.spent + Inline[f] <= hunt.bytes)
  <2>1. w.spent = v.spent /\ w.shown = v.shown /\ w.dropped = v.dropped \union {drop}
    BY <1>4 DEF Shelf, ShownOrDropped, Blocks
  <2>2. drop = [what |-> "snippet", of |-> round.added[j]]
    BY DEF drop, f
  <2> HIDE DEF w, f, drop
  <2>3. w.spent <= hunt.bytes /\ w.spent + Weight(Inline, shown) = spent + Weight(Inline, shown \union w.shown)
    BY <1>2, <2>1
  <2>4. w.shown \subseteq verdict /\ \A g \in w.shown : \E i \in 1..j : g = round.added[i]
    BY <1>1, <1>2, <2>1
  <2>5. /\ Tails(verdict) \subseteq w.dropped
        /\ \A d \in w.dropped : d \in Tails(verdict) \/ \E i \in 1..j : d = [what |-> "snippet", of |-> round.added[i]]
    <3>1. ASSUME NEW d \in w.dropped PROVE d \in Tails(verdict) \/ \E i \in 1..j : d = [what |-> "snippet", of |-> round.added[i]]
      <4>1. CASE d = drop
        BY <1>1, <2>2, <4>1
      <4>2. CASE d \in v.dropped
        BY <1>1, <1>2, <4>2
      <4> QED
        BY <2>1, <4>1, <4>2
    <3> QED
      BY <1>2, <2>1, <3>1
  <2>6. \A i \in 1..j : round.added[i] \in w.shown \/ [what |-> "snippet", of |-> round.added[i]] \in w.dropped
    BY <1>1, <1>2, <2>1, <2>2
  <2>7. Shelved(w, j, verdict)
    BY <2>3, <2>4, <2>5, <2>6 DEF Shelved
  <2> QED
    BY <2>7 DEF w, f
<1> QED
  BY <1>3, <1>4

\* The decisions about a round's snippets: nothing over the budget, everything
\* shown or in the store.
LEMMA SnippetsShow ==
  ASSUME Shelving, NEW verdict
  PROVE  Snippets(verdict) \in Shelf /\ Shelved(Snippets(verdict), Len(round.added), verdict)
<1> DEFINE n == Len(round.added)
<1>1. PICK acc : Decisions(acc, verdict)
  BY SnippetsRun DEF Shelving
<1>2. n \in Nat
  BY DEF Shelving
<1> DEFINE good == {j \in 0..n : Shelved(acc[j], j, verdict)}
<1>3. 0 \in good
  <2>1. acc[0] = [spent |-> spent, shown |-> {}, dropped |-> Tails(verdict)]
    BY <1>1 DEF Decisions
  <2>2. Shelved(acc[0], 0, verdict)
    BY <2>1 DEF Shelved, Shelving
  <2> QED
    BY <1>2, <2>2
<1>4. ASSUME NEW j \in 1..n, j - 1 \in good PROVE j \in good
  <2>1. acc[j - 1] \in Shelf /\ acc[j] = ShownOrDropped(acc[j - 1], round.added[j], verdict)
    <3>1. acc \in [0..n -> Shelf] /\ acc[j] = ShownOrDropped(acc[j - 1], round.added[j], verdict)
      BY <1>1 DEF Decisions
    <3>2. j - 1 \in 0..n
      BY <1>2
    <3> QED
      BY <3>1, <3>2
  <2>2. Shelved(acc[j - 1], j - 1, verdict)
    BY <1>4
  <2>3. Shelved(acc[j], j, verdict)
    BY <2>1, <2>2, NextShelved
  <2> QED
    BY <1>2, <2>3
<1> HIDE DEF good, n
<1>5. n \in good
  BY <1>2, <1>3, <1>4, UpTo
<1> QED
  BY <1>1, <1>2, <1>5 DEF good, Decisions, n

\* The kin of what a round added.
KinOfAdded == {g \in Files : \E f \in ToSet(round.added) : \E class \in {"test", "type", "caller"} : g \in Kin[f][class]}

\* A file's siblings are its kin.
LEMMA FollowingKin ==
  ASSUME NEW chosen, round.added \in Seq(Files), NEW f \in ToSet(round.added), NEW class \in {"test", "type", "caller"}
  PROVE  Following(chosen, f, class) \in Seq(KinOfAdded)
<1> DEFINE paths == SiblingPaths([file |-> f, class |-> class])
<1>1. f \in Files
  BY DEF ToSet
<1>2. Kin[f][class] \in SUBSET Files
  BY <1>1, ExplorationAssumption
<1>3. paths \subseteq Kin[f][class]
  BY DEF SiblingPaths
<1>4. paths \in SUBSET Files /\ paths \subseteq KinOfAdded
  <2> HIDE DEF paths
  <2> QED
    BY <1>2, <1>3 DEF KinOfAdded
<1>5. Arranged(paths, LAMBDA a, b : Name[a] < Name[b]) \in Seq(paths)
  <2> HIDE DEF paths
  <2> QED
    BY <1>4, NamedOnce
<1> DEFINE s == Arranged(paths, LAMBDA a, b : Name[a] < Name[b])
<1>6. Following(chosen, f, class) = s \/ Following(chosen, f, class) = <<>>
  BY DEF Following
<1> HIDE DEF s, paths
<1>7. s \in Seq(KinOfAdded)
  <2>1. s \in Seq(paths)
    BY <1>5 DEF s
  <2> QED
    BY <1>4, <2>1
<1>8. <<>> \in Seq(KinOfAdded)
  OBVIOUS
<1> QED
  BY <1>6, <1>7, <1>8

\* The siblings a round may read are kin of what it added.
LEMMA LineOfKin ==
  ASSUME NEW chosen, round.added \in Seq(Files)
  PROVE  Line(chosen) \in Seq(KinOfAdded)
<1> DEFINE files == round.added
           n == Len(files)
           T == Seq(KinOfAdded)
           More(v, f) == v \o Following(chosen, f, "test") \o Following(chosen, f, "type") \o Following(chosen, f, "caller")
           step == [i \in 1..n |-> [v \in T |-> More(v, files[i])]]
           Runs(it) == it = [s \in SUBSET (1..n) |-> IF s = {} THEN <<>> ELSE More(it[s \ {Max(s)}], files[Max(s)])]
           f == CHOOSE it : Runs(it)
<1>1. n \in Nat /\ DOMAIN files = 1..n /\ \A i \in 1..n : files[i] \in ToSet(round.added)
  BY DEF ToSet
<1>2. Line(chosen) = f[1..n]
  BY <1>1 DEF Line, FoldLeft, MapThenFoldSet
<1>3. \A i \in 1..n, v \in T : More(v, files[i]) \in T
  <2>1. ASSUME NEW i \in 1..n, NEW v \in T PROVE More(v, files[i]) \in T
    <3> DEFINE a == Following(chosen, files[i], "test")
               b == Following(chosen, files[i], "type")
               c == Following(chosen, files[i], "caller")
    <3>1. a \in T /\ b \in T /\ c \in T
      <4>1. files[i] \in ToSet(round.added)
        BY <1>1
      <4> QED
        BY <4>1, FollowingKin
    <3> HIDE DEF a, b, c
    <3>2. v \o a \o b \o c \in T
      BY <3>1
    <3> QED
      BY <3>2 DEF a, b, c
  <2> QED
    BY <2>1
<1>4. step \in [1..n -> [T -> T]] /\ \A i \in 1..n, v \in T : step[i][v] = More(v, files[i])
  <2> HIDE DEF More, T
  <2> QED
    BY <1>3
<1>5. <<>> \in T
  OBVIOUS
<1> HIDE DEF step, n, More, T
<1>6. PICK it, acc : Walked(it, acc, n, T, <<>>, step)
  <2>1. Walk(n, T, <<>>, step)
    BY <1>1, <1>4, <1>5 DEF Walk
  <2> QED
    BY <2>1, Walks
<1>7. \A s \in SUBSET (1..n) : s # {} => Max(s) \in s /\ Max(s) \in 1..n /\ s \ {Max(s)} \in SUBSET (1..n)
  BY <1>1, GreatestUpTo
<1>8. Runs(it)
  <2>1. ASSUME NEW s \in SUBSET (1..n)
        PROVE  it[s] = IF s = {} THEN <<>> ELSE More(it[s \ {Max(s)}], files[Max(s)])
    <3>1. CASE s = {}
      BY <1>6, <3>1 DEF Walked
    <3>2. CASE s # {}
      <4>1. Goes(it, step, s, Max(s)) /\ it[s \ {Max(s)}] \in T
        BY <1>6, <1>7, <3>2 DEF Walked
      <4> QED
        BY <1>4, <1>7, <3>2, <4>1 DEF Goes
    <3> QED
      BY <3>1, <3>2
  <2>2. it \in [SUBSET (1..n) -> T]
    BY <1>6 DEF Walked
  <2> QED
    BY <2>1, <2>2
<1>9. Runs(f)
  <2> HIDE DEF Runs
  <2> QED
    BY <1>8
<1> HIDE DEF f
<1>10. f[{}] = <<>> /\ \A j \in 1..n : f[1..j] = More(f[1..(j - 1)], files[j])
  <2>1. \A s \in SUBSET (1..n) : f[s] = IF s = {} THEN <<>> ELSE More(f[s \ {Max(s)}], files[Max(s)])
    BY <1>9
  <2> QED
    BY <1>1, <2>1, GreatestOut
<1> HIDE DEF Runs
<1>11. Follows(f, n, T, <<>>, step)
  BY <1>4, <1>10 DEF Follows
<1>12. Reaches(acc, n, T, <<>>, step, f[1..n])
  BY <1>1, <1>6, <1>11, WalkEnds
<1>13. f[1..n] \in T
  BY <1>1, <1>12 DEF Reaches
<1> QED
  BY <1>2, <1>13 DEF T

\* What the reading of a round's siblings has come to.
Grown(v) ==
  /\ Len(v.files) <= hunt.files /\ v.spent <= hunt.bytes
  /\ v.spent = Total(Cost, v.files) + Weight(Inline, shown)
  /\ IsInjective(v.files)
  /\ Len(picked) <= Len(v.files) /\ \A i \in 1..Len(picked) : v.files[i] = picked[i]
  /\ \A i \in (Len(picked) + 1)..Len(v.files) : v.files[i] \in KinOfAdded /\ v.files[i] \in v.opened

Reading == {v \in [files : Seq(Files), spent : Nat, opened : SUBSET Files] : Grown(v)}

Budgeted ==
  /\ hunt.files \in Nat /\ hunt.bytes \in Nat /\ spent \in Nat /\ picked \in Seq(Files) /\ shown \in SUBSET Files
  /\ Len(picked) <= hunt.files /\ spent <= hunt.bytes /\ IsInjective(picked)
  /\ spent = Total(Cost, picked) + Weight(Inline, shown)

\* A sibling that is read keeps the budgets, and one that is not changes nothing.
LEMMA NextGrown ==
  ASSUME Budgeted, NEW v \in Reading, NEW f \in KinOfAdded
  PROVE  ReadNext(v, f) \in Reading
<1> DEFINE w == ReadNext(v, f)
<1>1. /\ hunt.files \in Nat /\ hunt.bytes \in Nat /\ f \in Files /\ Cost \in [Files -> Nat] /\ Cost[f] \in Nat
      /\ picked \in Seq(Files) /\ shown \in SUBSET Files
  BY ExplorationAssumption DEF Budgeted, KinOfAdded
<1>2. v.files \in Seq(Files) /\ v.spent \in Nat /\ v.opened \in SUBSET Files /\ Grown(v)
      /\ v = [files |-> v.files, spent |-> v.spent, opened |-> v.opened]
  BY DEF Reading
<1>3. CASE f \in ToSet(v.files) \/ RemainingFiles(v.files) <= 0 \/ f \notin present
  BY <1>3 DEF ReadNext
<1>4. CASE ~(f \in ToSet(v.files) \/ RemainingFiles(v.files) <= 0 \/ f \notin present) /\ v.spent + Cost[f] > hunt.bytes
  <2>1. w = [files |-> v.files, spent |-> v.spent, opened |-> v.opened \union {f}]
    BY <1>2, <1>4 DEF ReadNext
  <2> HIDE DEF w
  <2>2. w.files = v.files /\ w.spent = v.spent /\ w.opened = v.opened \union {f}
    BY <2>1
  <2>3. Grown(w)
    BY <1>2, <2>2 DEF Grown
  <2>4. w \in Reading
    BY <1>1, <1>2, <2>1, <2>3 DEF Reading
  <2> QED
    BY <2>4 DEF w
<1>5. CASE ~(f \in ToSet(v.files) \/ RemainingFiles(v.files) <= 0 \/ f \notin present) /\ ~(v.spent + Cost[f] > hunt.bytes)
  <2>1. w = [files |-> Append(v.files, f), spent |-> v.spent + Cost[f], opened |-> v.opened \union {f}]
    BY <1>5 DEF ReadNext
  <2> HIDE DEF w
  <2> DEFINE n == Len(v.files)
  <2>2. /\ w.files \in Seq(Files) /\ w.files = Append(v.files, f) /\ n \in Nat /\ Len(w.files) = n + 1 /\ w.files[n + 1] = f
        /\ \A i \in 1..n : w.files[i] = v.files[i]
        /\ w.spent = v.spent + Cost[f] /\ w.opened = v.opened \union {f}
    BY <1>1, <1>2, <2>1
  <2>3. f \notin ToSet(v.files) /\ n < hunt.files /\ w.spent <= hunt.bytes
    BY <1>1, <1>2, <1>5, <2>2 DEF RemainingFiles
  <2>4. w.spent = Total(Cost, w.files) + Weight(Inline, shown)
    <3>1. w.files = v.files \o <<f>> /\ <<f>> \in Seq(Files)
      BY <1>1, <1>2, <2>2
    <3>2. Total(Cost, v.files \o <<f>>) = Total(Cost, v.files) + Total(Cost, <<f>>)
      BY <1>1, <1>2, <3>1, TotalOfBoth
    <3>3. Total(Cost, <<f>>) = Cost[f] /\ Total(Cost, v.files) \in Nat
      BY <1>1, <1>2, TotalOfOne, TotalIsNat
    <3>4. Weight(Inline, shown) \in Nat
      BY <1>1, ExplorationAssumption, WeightAdds
    <3>5. v.spent = Total(Cost, v.files) + Weight(Inline, shown)
      BY <1>2 DEF Grown
    <3> QED
      BY <1>1, <2>2, <3>1, <3>2, <3>3, <3>4, <3>5
  <2>5. IsInjective(w.files)
    <3>1. \A i \in 1..n : w.files[i] # f
      BY <1>2, <2>2, <2>3 DEF ToSet
    <3>2. DOMAIN w.files = 1..(n + 1) /\ DOMAIN v.files = 1..n /\ 1..(n + 1) = (1..n) \union {n + 1}
      BY <1>2, <2>2
    <3>3. \A i, j \in 1..n : v.files[i] = v.files[j] => i = j
      BY <1>2, <3>2 DEF Grown, IsInjective
    <3>4. \A i, j \in 1..(n + 1) : w.files[i] = w.files[j] => i = j
      BY <2>2, <3>1, <3>2, <3>3
    <3> QED
      BY <3>2, <3>4 DEF IsInjective
  <2>6. /\ Len(picked) <= Len(w.files) /\ \A i \in 1..Len(picked) : w.files[i] = picked[i]
        /\ \A i \in (Len(picked) + 1)..Len(w.files) : w.files[i] \in KinOfAdded /\ w.files[i] \in w.opened
    <3>1. /\ Len(picked) \in Nat /\ Len(picked) <= n /\ \A i \in 1..Len(picked) : v.files[i] = picked[i]
          /\ \A i \in (Len(picked) + 1)..n : v.files[i] \in KinOfAdded /\ v.files[i] \in v.opened
      BY <1>1, <1>2 DEF Grown
    <3> HIDE DEF n
    <3>2. ASSUME NEW i \in (Len(picked) + 1)..(n + 1) PROVE w.files[i] \in KinOfAdded /\ w.files[i] \in w.opened
      <4>1. CASE i = n + 1
        BY <2>2, <4>1
      <4>2. CASE i # n + 1
        <5>1. i \in (Len(picked) + 1)..n /\ i \in 1..n
          BY <2>2, <3>1, <4>2
        <5> QED
          BY <2>2, <3>1, <5>1
      <4> QED
        BY <4>1, <4>2
    <3>3. \A i \in 1..Len(picked) : i \in 1..n
      BY <2>2, <3>1
    <3> QED
      BY <2>2, <3>1, <3>2, <3>3
  <2>7. Len(w.files) <= hunt.files
    BY <1>1, <2>2, <2>3
  <2>8. Grown(w)
    BY <2>3, <2>4, <2>5, <2>6, <2>7 DEF Grown
  <2>9. w \in [files : Seq(Files), spent : Nat, opened : SUBSET Files]
    <3>1. Append(v.files, f) \in Seq(Files) /\ v.spent + Cost[f] \in Nat /\ v.opened \union {f} \in SUBSET Files
      BY <1>1, <1>2
    <3> QED
      BY <2>1, <3>1
  <2>10. w \in Reading
    BY <2>8, <2>9 DEF Reading
  <2> QED
    BY <2>10 DEF w
<1> QED
  BY <1>3, <1>4, <1>5

\* What a round's siblings come to: a longer selection within the same budgets.
LEMMA ExpandedGrows ==
  ASSUME Budgeted, round.added \in Seq(Files), NEW chosen
  PROVE  Expanded(chosen) \in Reading
<1> DEFINE line == Line(chosen)
           n == Len(line)
           base == [files |-> picked, spent |-> spent, opened |-> {}]
           step == [i \in 1..n |-> [v \in Reading |-> ReadNext(v, line[i])]]
           Runs(it) == it = [s \in SUBSET (1..n) |-> IF s = {} THEN base ELSE ReadNext(it[s \ {Max(s)}], line[Max(s)])]
           f == CHOOSE it : Runs(it)
<1>1. line \in Seq(KinOfAdded)
  BY LineOfKin
<1>2. Expanded(chosen) = f[1..n]
  <2>1. DOMAIN line = 1..n
    BY <1>1
  <2> HIDE DEF line
  <2>2. FoldLeft(LAMBDA s, x : ReadNext(s, x), base, line) = f[1..n]
    BY <2>1 DEF FoldLeft, MapThenFoldSet
  <2> QED
    BY <2>2 DEF Expanded, line
<1> HIDE DEF line
<1>3. n \in Nat /\ DOMAIN line = 1..n /\ \A i \in 1..n : line[i] \in KinOfAdded
  BY <1>1
<1>4. base \in Reading
  <2>1. base.files = picked /\ base.spent = spent /\ base.opened = {}
    OBVIOUS
  <2>2. base \in [files : Seq(Files), spent : Nat, opened : SUBSET Files]
    BY DEF Budgeted
  <2> HIDE DEF base
  <2>3. Grown(base)
    BY <2>1 DEF Grown, Budgeted
  <2> QED
    BY <2>2, <2>3 DEF Reading
<1>5. step \in [1..n -> [Reading -> Reading]] /\ \A i \in 1..n, v \in Reading : step[i][v] = ReadNext(v, line[i])
  <2>1. \A i \in 1..n, v \in Reading : ReadNext(v, line[i]) \in Reading
    BY <1>3, NextGrown
  <2> QED
    BY <2>1
<1> HIDE DEF step, n, base
<1>6. PICK it, acc : Walked(it, acc, n, Reading, base, step)
  <2>1. Walk(n, Reading, base, step)
    BY <1>3, <1>4, <1>5 DEF Walk
  <2> QED
    BY <2>1, Walks
<1>7. \A s \in SUBSET (1..n) : s # {} => Max(s) \in s /\ Max(s) \in 1..n /\ s \ {Max(s)} \in SUBSET (1..n)
  BY <1>3, GreatestUpTo
<1>8. Runs(it)
  <2>1. ASSUME NEW s \in SUBSET (1..n)
        PROVE  it[s] = IF s = {} THEN base ELSE ReadNext(it[s \ {Max(s)}], line[Max(s)])
    <3>1. CASE s = {}
      BY <1>6, <3>1 DEF Walked
    <3>2. CASE s # {}
      <4>1. Goes(it, step, s, Max(s)) /\ it[s \ {Max(s)}] \in Reading
        BY <1>6, <1>7, <3>2 DEF Walked
      <4> QED
        BY <1>5, <1>7, <3>2, <4>1 DEF Goes
    <3> QED
      BY <3>1, <3>2
  <2>2. it \in [SUBSET (1..n) -> Reading]
    BY <1>6 DEF Walked
  <2> QED
    BY <2>1, <2>2
<1>9. Runs(f)
  <2> HIDE DEF Runs
  <2> QED
    BY <1>8
<1> HIDE DEF f
<1>10. f[{}] = base /\ \A j \in 1..n : f[1..j] = ReadNext(f[1..(j - 1)], line[j])
  <2>1. \A s \in SUBSET (1..n) : f[s] = IF s = {} THEN base ELSE ReadNext(f[s \ {Max(s)}], line[Max(s)])
    BY <1>9
  <2> QED
    BY <1>3, <2>1, GreatestOut
<1> HIDE DEF Runs
<1>11. Follows(f, n, Reading, base, step)
  BY <1>5, <1>10 DEF Follows
<1>12. Reaches(acc, n, Reading, base, step, f[1..n])
  BY <1>3, <1>6, <1>11, WalkEnds
<1>13. f[1..n] \in Reading
  BY <1>3, <1>12 DEF Reaches
<1> QED
  BY <1>2, <1>13

\* The types of an exploration's state.
HuntTypes ==
  /\ hunt.jev \in BOOLEAN /\ hunt.rounds \in Nat /\ hunt.files \in Nat /\ hunt.bytes \in Nat
  /\ present \in SUBSET Files
  /\ round \in [n : Nat, fresh : SUBSET Files, gated : Nat, added : Seq(Files), leaning : SUBSET Files, grown : Nat]
  /\ picked \in Seq(Files) /\ spent \in Nat /\ shown \in SUBSET Files

\* Nothing is selected before the first round.
BeforeRounds == round = NoRound /\ picked = <<>> /\ spent = 0 /\ shown = {}

\* The candidates a round asks about are those of a searched subsystem that are
\* not selected.
Asking ==
  /\ round.fresh # {} /\ round.fresh \intersect ToSet(picked) = {}
  /\ \A f \in round.fresh : Home[f] \in searched \/ "." \in searched
  /\ round.added = <<>> /\ round.grown = 0

\* What a round added is selected, once.
Added ==
  /\ round.fresh # {} /\ round.gated # 0 /\ round.added # <<>>
  /\ ToSet(round.added) \subseteq ToSet(picked)

Undecided == IsInjective(round.added) /\ ToSet(round.added) \intersect shown = {}

\* A round that admitted a candidate and selected nothing read one that cost more
\* than its estimate, or one that was gone.
NotEmptyHanded ==
  picked = <<>> /\ present = Files /\ round.fresh # {} => \E f \in round.fresh : Cost[f] > Estimate[f]

\* Why an exploration ends, from the moment it does.
Reasoned ==
  /\ stop = "budget_exhausted" => Exhausted(round.n, picked, spent) \/ (round.fresh # {} /\ round.gated = 0)
  /\ stop = "enough_evidence" => hunt.jev \/ (round.added = <<>> /\ round.grown = 0)
  /\ stop = "no_new_file" => round.added = <<>> /\ round.grown = 0
  /\ stop # "budget_exhausted" => NotEmptyHanded

HuntInv ==
  /\ HuntTypes /\ SelectionIsAccounted
  /\ phase \in {"idle", "subsystem"} => BeforeRounds
  /\ phase = "candidate" => Asking
  /\ phase = "snippet" => Added /\ Undecided
  /\ phase = "sibling" => Added
  /\ phase = "sufficiency" => NotEmptyHanded
  /\ phase \in {"test", "over"} => Reasoned

\* Before an exploration nothing is selected.
LEMMA HuntStarts == HuntInit => HuntInv
<1> SUFFICES ASSUME HuntInit PROVE HuntInv
  OBVIOUS
<1>1. Total(Cost, <<>>) = 0 /\ Weight(Inline, {}) = 0
  <2>1. Cost \in [Files -> Nat] /\ Inline \in [Files -> Nat] /\ {} \in SUBSET Files
    BY ExplorationAssumption
  <2> QED
    BY <2>1, TotalOfNone, WeightAdds
<1>2. HuntTypes
  BY DEF HuntInit, HuntTypes, NoRound
<1>3. BeforeRounds /\ phase = "idle" /\ round.n = 0 /\ kept = {} /\ dropped = {}
  BY DEF HuntInit, BeforeRounds, NoRound
<1>4. SelectionIsAccounted
  <2>1. Charged = 0 /\ Decided = {} /\ ToSet(picked) = {} /\ Len(picked) = 0 /\ IsInjective(picked)
    BY <1>1, <1>3 DEF Charged, Decided, BeforeRounds, ToSet, IsInjective
  <2> QED
    BY <1>2, <1>3, <2>1 DEF SelectionIsAccounted, BeforeRounds, HuntTypes
<1> QED
  BY <1>2, <1>3, <1>4 DEF HuntInv

\* What the next round starts from.
Searching(n) ==
  /\ round' \in [n : Nat, fresh : SUBSET Files, gated : Nat, added : Seq(Files), leaning : SUBSET Files, grown : Nat]
  /\ round'.n <= hunt.rounds /\ round'.added = <<>> /\ round'.grown = 0 /\ searched \subseteq searched'
  /\ \/ /\ phase' = "candidate"
        /\ round'.fresh # {} /\ round'.fresh \intersect ToSet(picked) = {}
        /\ \A f \in round'.fresh : Home[f] \in searched' \/ "." \in searched'
     \/ /\ phase' \in {"test", "over"} /\ round'.fresh = {} /\ round'.n = hunt.rounds
        /\ stop' = IF picked = <<>> THEN "no_new_file" ELSE "budget_exhausted"

\* A next round asks about fresh candidates of a root it searches, or there is none.
LEMMA NextRoundSearches ==
  ASSUME hunt.rounds \in Nat, present \in SUBSET Files, NEW n \in Nat, n <= hunt.rounds, NEW subsystems,
         NextRound(n, subsystems, picked)
  PROVE  Searching(n)
<1> DEFINE RootOf(k) == subsystems[((k - 1) % Len(subsystems)) + 1]
           Fresh(k)  == Candidates(RootOf(k)) \ ToSet(picked)
           fruitful  == {k \in (n + 1)..hunt.rounds : Fresh(k) # {}}
           k         == IF fruitful = {} THEN hunt.rounds ELSE CHOOSE j \in fruitful : \A i \in fruitful : j <= i
           F         == IF fruitful = {} THEN {} ELSE Fresh(k)
<1>1. /\ searched' = searched \union {RootOf(j) : j \in (n + 1)..k}
      /\ round' = [NoRound EXCEPT !.n = k, !.fresh = F]
      /\ fruitful = {} => Ended(IF picked = <<>> THEN "no_new_file" ELSE "budget_exhausted", picked)
      /\ fruitful # {} => phase' = "candidate"
  BY DEF NextRound
<1>2. \A root : \A f \in Candidates(root) : f \in Files /\ (root = "." \/ Home[f] = root)
  BY DEF Candidates, Under
<1>3. fruitful # {} => k \in fruitful
  <2>1. fruitful \in SUBSET Nat
    OBVIOUS
  <2> HIDE DEF fruitful
  <2>2. fruitful # {} => \E m \in fruitful : \A i \in fruitful : m <= i
    BY <2>1, HasLeast
  <2> QED
    BY <2>2
<1>4. k \in Nat /\ k <= hunt.rounds /\ (fruitful = {} => k = hunt.rounds) /\ F \in SUBSET Files
  <2>1. Fresh(k) \in SUBSET Files
    <3> HIDE DEF RootOf
    <3> QED
      BY <1>2
  <2> HIDE DEF Fresh
  <2> QED
    BY <1>3, <2>1
<1>5. fruitful # {} => /\ F # {} /\ F \intersect ToSet(picked) = {}
                       /\ \A f \in F : Home[f] \in searched' \/ "." \in searched'
  <2>1. fruitful # {} => RootOf(k) \in searched' /\ F = Candidates(RootOf(k)) \ ToSet(picked) /\ F # {}
    <3> HIDE DEF RootOf, k
    <3> QED
      BY <1>1, <1>3, <1>4
  <2> HIDE DEF RootOf, k, F, fruitful
  <2> QED
    BY <1>2, <2>1
<1> HIDE DEF k, F, RootOf, fruitful
<1>6. round' = [n |-> k, fresh |-> F, gated |-> 0, added |-> <<>>, leaning |-> {}, grown |-> 0]
  BY <1>1 DEF NoRound
<1>7. round' \in [n : Nat, fresh : SUBSET Files, gated : Nat, added : Seq(Files), leaning : SUBSET Files, grown : Nat]
  BY <1>4, <1>6
<1>8. round'.n = k /\ round'.fresh = F /\ round'.added = <<>> /\ round'.grown = 0
  BY <1>6
<1>9. fruitful = {} => /\ phase' \in {"test", "over"} /\ F = {}
                       /\ stop' = IF picked = <<>> THEN "no_new_file" ELSE "budget_exhausted"
  BY <1>1 DEF Ended, F
<1>10. searched \subseteq searched'
  BY <1>1
<1> QED
  BY <1>1, <1>4, <1>5, <1>7, <1>8, <1>9, <1>10 DEF Searching

\* A search keeps what is selected.
LEMMA SearchKeeps ==
  ASSUME HuntInv, NEW n \in Nat, Searching(n), phase \notin {"idle"},
         UNCHANGED <<hunt, present, picked, spent, shown, kept, dropped>>
  PROVE  HuntInv'
<1>1. HuntTypes /\ SelectionIsAccounted
  BY DEF HuntInv
<1>2. HuntTypes'
  BY <1>1 DEF HuntTypes, Searching
<1>3. Charged' = Charged /\ Decided' = Decided
  BY DEF Charged, Decided
<1>4. SelectionIsAccounted'
  <2>1. phase' \in {"idle", "subsystem", "candidate", "snippet", "sibling", "sufficiency", "test", "over"}
    BY DEF Searching
  <2>2. (round.n <= hunt.rounds /\ Len(picked) <= hunt.files /\ spent <= hunt.bytes /\ spent = Charged)'
    BY <1>1, <1>3 DEF SelectionIsAccounted, Searching
  <2>3. \A i \in DOMAIN picked : \/ Home[picked[i]] \in searched' \/ "." \in searched'
                                 \/ \E j \in 1..(i - 1) : \E class \in {"test", "type", "caller"} : picked[i] \in Kin[picked[j]][class]
    BY <1>1 DEF SelectionIsAccounted, Searching
  <2> QED
    BY <1>1, <1>3, <2>1, <2>2, <2>3 DEF SelectionIsAccounted
<1>5. CASE phase' = "candidate"
  <2>1. Asking'
    BY <1>5 DEF Searching, Asking
  <2> QED
    BY <1>2, <1>4, <1>5, <2>1 DEF HuntInv
<1>6. CASE phase' \in {"test", "over"}
  <2>1. round'.fresh = {} /\ round'.n = hunt.rounds /\ round'.added = <<>> /\ round'.grown = 0
        /\ stop' = IF picked = <<>> THEN "no_new_file" ELSE "budget_exhausted"
    BY <1>6 DEF Searching
  <2>2. NotEmptyHanded'
    BY <2>1 DEF NotEmptyHanded
  <2>3. Reasoned'
    BY <1>1, <2>1, <2>2 DEF Reasoned, Exhausted, HuntTypes
  <2> QED
    BY <1>2, <1>4, <1>6, <2>3 DEF HuntInv
<1> QED
  BY <1>5, <1>6 DEF Searching

\* The order of the subsystems is chosen, and the first round begins.
LEMMA SubsystemKeeps == HuntInv /\ SubsystemAnswered => HuntInv'
<1> SUFFICES ASSUME HuntInv, SubsystemAnswered PROVE HuntInv'
  OBVIOUS
<1>1. phase = "subsystem" /\ UNCHANGED <<hunt, present, picked, spent, shown, kept, dropped>>
  BY DEF SubsystemAnswered
<1>2. HuntTypes
  BY DEF HuntInv
<1>3. PICK chosen : NextRound(0, chosen, picked)
  BY DEF SubsystemAnswered
<1>4. Searching(0)
  BY <1>2, <1>3, NextRoundSearches DEF HuntTypes
<1> QED
  BY <1>1, <1>4, SearchKeeps

\* An exploration that ends keeps what is selected.
LEMMA EndKeeps ==
  ASSUME HuntInv, Reasoned', phase' \in {"test", "over"},
         UNCHANGED <<hunt, present, round, searched, picked, spent, shown, kept, dropped>>
  PROVE  HuntInv'
<1>1. HuntTypes /\ SelectionIsAccounted
  BY DEF HuntInv
<1>2. HuntTypes'
  BY <1>1 DEF HuntTypes
<1>3. Charged' = Charged /\ Decided' = Decided
  BY DEF Charged, Decided
<1>4. SelectionIsAccounted'
  BY <1>1, <1>3 DEF SelectionIsAccounted
<1> QED
  BY <1>2, <1>4 DEF HuntInv

\* The evidence is enough, or nothing new came, or another round begins.
LEMMA SufficiencyKeeps == HuntInv /\ SufficiencyAnswered => HuntInv'
<1> SUFFICES ASSUME HuntInv, SufficiencyAnswered PROVE HuntInv'
  OBVIOUS
<1>1. phase = "sufficiency" /\ UNCHANGED <<hunt, present, picked, spent, shown, kept, dropped>>
  BY DEF SufficiencyAnswered
<1>2. HuntTypes /\ SelectionIsAccounted /\ NotEmptyHanded
  BY <1>1 DEF HuntInv
<1>3. PICK answer \in SufficiencyReplies :
        IF answer = "enough" THEN Ended("enough_evidence", picked) /\ UNCHANGED <<round, searched>>
        ELSE IF round.added = <<>> /\ round.grown = 0 THEN Ended("no_new_file", picked) /\ UNCHANGED <<round, searched>>
        ELSE NextRound(round.n, order, picked)
  BY DEF SufficiencyAnswered
<1>4. CASE answer = "enough"
  <2>1. stop' = "enough_evidence" /\ phase' \in {"test", "over"} /\ UNCHANGED <<round, searched>>
    BY <1>3, <1>4 DEF Ended
  <2>2. hunt.jev \/ (round.added = <<>> /\ round.grown = 0)
    BY <1>2, <1>4 DEF SufficiencyReplies, SufficiencyFallback, HuntTypes
  <2>3. Reasoned'
    BY <1>1, <1>2, <2>1, <2>2 DEF Reasoned, NotEmptyHanded, Estimate
  <2> QED
    BY <1>1, <2>1, <2>3, EndKeeps
<1>5. CASE answer # "enough" /\ round.added = <<>> /\ round.grown = 0
  <2>1. stop' = "no_new_file" /\ phase' \in {"test", "over"} /\ UNCHANGED <<round, searched>>
    BY <1>3, <1>5 DEF Ended
  <2>2. Reasoned'
    BY <1>1, <1>2, <1>5, <2>1 DEF Reasoned, NotEmptyHanded, Estimate
  <2> QED
    BY <1>1, <2>1, <2>2, EndKeeps
<1>6. CASE answer # "enough" /\ ~(round.added = <<>> /\ round.grown = 0)
  <2>1. NextRound(round.n, order, picked)
    BY <1>3, <1>6
  <2>2. round.n \in Nat /\ round.n <= hunt.rounds
    BY <1>2 DEF HuntTypes, SelectionIsAccounted
  <2>3. Searching(round.n)
    BY <1>2, <2>1, <2>2, NextRoundSearches DEF HuntTypes
  <2> QED
    BY <1>1, <2>2, <2>3, SearchKeeps
<1> QED
  BY <1>4, <1>5, <1>6

\* The tests are ranked.
LEMMA TestsKeep == HuntInv /\ TestsAnswered => HuntInv'
<1> SUFFICES ASSUME HuntInv, TestsAnswered PROVE HuntInv'
  OBVIOUS
<1>1. phase = "test" /\ phase' = "over" /\ UNCHANGED <<hunt, present, round, searched, picked, spent, shown, kept, dropped, stop>>
  BY DEF TestsAnswered
<1>2. Reasoned
  BY <1>1 DEF HuntInv
<1>3. Reasoned'
  BY <1>1, <1>2 DEF Reasoned, NotEmptyHanded, Estimate, Exhausted, RemainingFiles
<1> QED
  BY <1>1, <1>3, EndKeeps

\* An exploration begins.
LEMMA ExploreKeeps == ASSUME HuntInv, NEW h \in Hunts, Explore(h) PROVE HuntInv'
<1>1. phase = "idle" /\ phase' = "subsystem" /\ hunt' = h /\ UNCHANGED <<present, round, searched, picked, spent, shown, kept, dropped>>
  BY DEF Explore
<1>2. HuntTypes /\ SelectionIsAccounted /\ BeforeRounds
  BY <1>1 DEF HuntInv
<1>3. h.jev \in BOOLEAN /\ h.rounds \in Nat /\ h.files \in Nat /\ h.bytes \in Nat
  BY ExplorationAssumption
<1>4. HuntTypes' /\ BeforeRounds'
  BY <1>1, <1>2, <1>3 DEF HuntTypes, BeforeRounds, NoRound
<1>5. Charged' = Charged /\ Decided' = Decided
  BY <1>1 DEF Charged, Decided
<1>6. SelectionIsAccounted'
  <2>1. round.n = 0 /\ Len(picked) = 0 /\ spent = 0
    BY <1>2 DEF BeforeRounds, NoRound
  <2> QED
    BY <1>1, <1>2, <1>3, <1>5, <2>1 DEF SelectionIsAccounted
<1> QED
  BY <1>1, <1>4, <1>6 DEF HuntInv

\* A file vanishes.
LEMMA VanishKeeps == HuntInv /\ Vanishes => HuntInv'
<1> SUFFICES ASSUME HuntInv, Vanishes PROVE HuntInv'
  OBVIOUS
<1>1. /\ phase \notin {"idle", "over", "test"} /\ present' \subseteq present
      /\ UNCHANGED <<hunt, phase, round, searched, picked, spent, shown, kept, dropped, stop>>
  BY DEF Vanishes
<1>2. HuntTypes /\ SelectionIsAccounted
  BY DEF HuntInv
<1>3. HuntTypes'
  BY <1>1, <1>2 DEF HuntTypes
<1>4. Charged' = Charged /\ Decided' = Decided
  BY <1>1 DEF Charged, Decided
<1>5. SelectionIsAccounted'
  BY <1>1, <1>2, <1>4 DEF SelectionIsAccounted
<1>6. /\ BeforeRounds => BeforeRounds'
      /\ Asking => Asking'
      /\ Added => Added'
      /\ Undecided => Undecided'
  BY <1>1 DEF BeforeRounds, Asking, Added, Undecided
<1>7. NotEmptyHanded => NotEmptyHanded'
  BY <1>1, <1>2 DEF NotEmptyHanded, HuntTypes, Estimate
<1> QED
  BY <1>1, <1>3, <1>5, <1>6, <1>7 DEF HuntInv

\* A round's snippets are decided.
LEMMA SnippetsKeep == HuntInv /\ SnippetsAnswered => HuntInv'
<1> SUFFICES ASSUME HuntInv, SnippetsAnswered PROVE HuntInv'
  OBVIOUS
<1>1. phase = "snippet" /\ phase' = "sibling" /\ UNCHANGED <<hunt, present, round, searched, picked, stop>>
  BY DEF SnippetsAnswered
<1>2. HuntTypes /\ SelectionIsAccounted /\ Added /\ Undecided
  BY <1>1 DEF HuntInv
<1>3. PICK verdict \in SnippetReplies :
        /\ spent' = Snippets(verdict).spent /\ shown' = shown \union Snippets(verdict).shown
        /\ dropped' = dropped \union Snippets(verdict).dropped
        /\ kept' = kept \union Blocks("snippet", ToSet(round.added)) \union {d \in Snippets(verdict).dropped : d.what = "overflow"}
  BY DEF SnippetsAnswered
<1> DEFINE s == Snippets(verdict)
           news == ToSet(round.added)
<1>4. round.added \in Seq(Files) /\ news \subseteq ToSet(picked) /\ news \in SUBSET Files
  <2>1. round.added \in Seq(Files)
    BY <1>2 DEF HuntTypes
  <2>2. news \in SUBSET Files
    BY <2>1 DEF ToSet
  <2> QED
    BY <1>2, <2>1, <2>2 DEF Added
<1>5. s \in Shelf /\ Shelved(s, Len(round.added), verdict)
  <2>1. Shelving
    BY <1>2, <1>4 DEF Shelving, HuntTypes, Undecided, SelectionIsAccounted
  <2> QED
    BY <2>1, SnippetsShow
<1> HIDE DEF s
<1>6. /\ s.spent \in Nat /\ s.shown \in SUBSET Files
      /\ s.spent <= hunt.bytes
      /\ s.spent + Weight(Inline, shown) = spent + Weight(Inline, shown \union s.shown)
      /\ s.shown \subseteq verdict /\ s.shown \subseteq news
      /\ Tails(verdict) \subseteq s.dropped
      /\ \A d \in s.dropped : d \in Tails(verdict) \/ d \in Blocks("snippet", news)
      /\ \A f \in news : f \in s.shown \/ [what |-> "snippet", of |-> f] \in s.dropped
  <2>1. DOMAIN round.added = 1..Len(round.added) /\ \A i \in 1..Len(round.added) : round.added[i] \in news
    BY <1>4 DEF ToSet
  <2>2. \A f \in news : \E i \in 1..Len(round.added) : f = round.added[i]
    BY <2>1 DEF ToSet
  <2>3. \A i \in 1..Len(round.added) : [what |-> "snippet", of |-> round.added[i]] \in Blocks("snippet", news)
    BY <2>1 DEF Blocks
  <2> HIDE DEF news
  <2>4. s.spent \in Nat /\ s.shown \in SUBSET Files
    BY <1>5 DEF Shelf
  <2> QED
    BY <1>5, <2>1, <2>2, <2>3, <2>4 DEF Shelved
<1>7. /\ spent' = s.spent /\ shown' = shown \union s.shown /\ dropped' = dropped \union s.dropped
      /\ kept' = kept \union Blocks("snippet", news) \union {d \in s.dropped : d.what = "overflow"}
  BY <1>3 DEF s
<1>8. HuntTypes'
  BY <1>1, <1>2, <1>6, <1>7 DEF HuntTypes
<1>9. spent' = Charged'
  <2>1. Weight(Inline, shown) \in Nat /\ Weight(Inline, shown') \in Nat /\ Total(Cost, picked) \in Nat
    <3>1. Cost \in [Files -> Nat] /\ Inline \in [Files -> Nat]
      BY ExplorationAssumption
    <3>2. shown \in SUBSET Files /\ shown' \in SUBSET Files /\ picked \in Seq(Files)
      BY <1>2, <1>8 DEF HuntTypes
    <3> QED
      BY <3>1, <3>2, WeightAdds, TotalIsNat
  <2>2. spent = Total(Cost, picked) + Weight(Inline, shown)
    BY <1>2 DEF SelectionIsAccounted, Charged
  <2>3. s.spent + Weight(Inline, shown) = spent + Weight(Inline, shown')
    BY <1>6, <1>7
  <2>4. spent' = Total(Cost, picked) + Weight(Inline, shown')
    BY <1>6, <1>7, <2>1, <2>2, <2>3
  <2> QED
    BY <1>1, <2>4 DEF Charged
<1>10. (dropped \subseteq kept)'
  <2>1. \A d \in Tails(verdict) : d.what = "overflow"
    BY DEF Tails, Blocks
  <2>2. dropped \subseteq kept
    BY <1>2 DEF SelectionIsAccounted
  <2> QED
    BY <1>6, <1>7, <2>1, <2>2
<1>11. (\A f \in Decided : f \in shown \/ [what |-> "snippet", of |-> f] \in dropped)'
  <2>1. \A f \in Decided : f \in shown \/ [what |-> "snippet", of |-> f] \in dropped
    BY <1>2 DEF SelectionIsAccounted
  <2>2. ASSUME NEW f \in Files, [what |-> "snippet", of |-> f] \in kept'
        PROVE  f \in shown' \/ [what |-> "snippet", of |-> f] \in dropped'
    <3>1. CASE [what |-> "snippet", of |-> f] \in kept
      BY <1>7, <2>1, <2>2, <3>1 DEF Decided
    <3>2. CASE [what |-> "snippet", of |-> f] \in Blocks("snippet", news)
      <4>1. f \in news
        BY <3>2 DEF Blocks
      <4> QED
        BY <1>6, <1>7, <4>1
    <3>3. CASE [what |-> "snippet", of |-> f] \in {d \in s.dropped : d.what = "overflow"}
      BY <3>3
    <3> QED
      BY <1>7, <2>2, <3>1, <3>2, <3>3
  <2> QED
    BY <2>2 DEF Decided
<1>12. (\A f \in shown \intersect Overflows : [what |-> "overflow", of |-> f] \in dropped)'
  <2>1. \A f \in shown \intersect Overflows : [what |-> "overflow", of |-> f] \in dropped
    BY <1>2 DEF SelectionIsAccounted
  <2>2. ASSUME NEW f \in s.shown, f \in Overflows PROVE [what |-> "overflow", of |-> f] \in s.dropped
    BY <1>6, <2>2 DEF Tails, Blocks
  <2> QED
    BY <1>7, <2>1, <2>2
<1>13. SelectionIsAccounted'
  <2>1. (round.n <= hunt.rounds /\ Len(picked) <= hunt.files /\ spent <= hunt.bytes)'
    BY <1>1, <1>2, <1>6, <1>7 DEF SelectionIsAccounted
  <2>2. (IsInjective(picked) /\ shown \subseteq ToSet(picked))'
    BY <1>1, <1>2, <1>4, <1>6, <1>7 DEF SelectionIsAccounted
  <2>3. (\A i \in DOMAIN picked :
           \/ Home[picked[i]] \in searched \/ "." \in searched
           \/ \E j \in 1..(i - 1) : \E class \in {"test", "type", "caller"} : picked[i] \in Kin[picked[j]][class])'
    BY <1>1, <1>2 DEF SelectionIsAccounted
  <2>4. (\A f \in ToSet(picked) : [what |-> "file", of |-> f] \in kept)'
    BY <1>1, <1>2, <1>7 DEF SelectionIsAccounted
  <2> QED
    BY <1>1, <1>9, <1>10, <1>11, <1>12, <2>1, <2>2, <2>3, <2>4 DEF SelectionIsAccounted
<1>14. Added'
  BY <1>1, <1>2 DEF Added
<1> QED
  BY <1>1, <1>8, <1>13, <1>14 DEF HuntInv

\* The budget is looked at when a round is over.
LEMMA RoundEnds ==
  ASSUME NEW r, NEW files, NEW bytes, EndOfRound(r, files, bytes)
  PROVE  \/ phase' \in {"test", "over"} /\ stop' = "budget_exhausted" /\ (Exhausted(r.n, files, bytes) \/ r.gated = 0)
         \/ phase' = "sufficiency" /\ r.gated # 0
BY DEF EndOfRound, Ended

\* What a state after a round keeps, given its selection.
LEMMA RoundKeeps ==
  ASSUME HuntTypes', SelectionIsAccounted', hunt' = hunt, EndOfRound(round', picked', spent'),
         round'.fresh # {}, round'.gated # 0 => NotEmptyHanded'
  PROVE  HuntInv'
<1>1. CASE phase' = "sufficiency" /\ round'.gated # 0
  BY <1>1 DEF HuntInv
<1>2. CASE phase' \in {"test", "over"} /\ stop' = "budget_exhausted" /\ (Exhausted(round'.n, picked', spent') \/ round'.gated = 0)
  <2>1. Reasoned'
    BY <1>2 DEF Reasoned, Exhausted, RemainingFiles
  <2> QED
    BY <1>2, <2>1 DEF HuntInv
<1> QED
  BY <1>1, <1>2, RoundEnds

\* A round's siblings are read.
LEMMA SiblingsKeep == HuntInv /\ SiblingsAnswered => HuntInv'
<1> SUFFICES ASSUME HuntInv, SiblingsAnswered PROVE HuntInv'
  OBVIOUS
<1>1. phase = "sibling" /\ UNCHANGED <<hunt, present, searched, shown, dropped>>
  BY DEF SiblingsAnswered
<1>2. HuntTypes /\ SelectionIsAccounted /\ Added
  BY <1>1 DEF HuntInv
<1>3. PICK chosen \in SiblingReplies :
        /\ picked' = Expanded(chosen).files /\ spent' = Expanded(chosen).spent
        /\ round' = [round EXCEPT !.grown = Len(Expanded(chosen).files) - Len(picked)]
        /\ kept' = kept \union Blocks("file", Expanded(chosen).opened)
        /\ EndOfRound([round EXCEPT !.grown = Len(Expanded(chosen).files) - Len(picked)], Expanded(chosen).files, Expanded(chosen).spent)
  BY DEF SiblingsAnswered
<1> DEFINE s == Expanded(chosen)
<1>4. s \in Reading
  <2>1. Budgeted /\ round.added \in Seq(Files)
    BY <1>2 DEF Budgeted, HuntTypes, SelectionIsAccounted, Charged
  <2> QED
    BY <2>1, ExpandedGrows
<1> HIDE DEF s
<1>5. /\ picked' = s.files /\ spent' = s.spent /\ kept' = kept \union Blocks("file", s.opened)
      /\ round' = [round EXCEPT !.grown = Len(s.files) - Len(picked)]
      /\ EndOfRound(round', picked', spent')
  BY <1>3 DEF s
<1>6. /\ s.files \in Seq(Files) /\ s.spent \in Nat /\ s.opened \in SUBSET Files
      /\ Len(s.files) <= hunt.files /\ s.spent <= hunt.bytes /\ IsInjective(s.files)
      /\ s.spent = Total(Cost, s.files) + Weight(Inline, shown)
      /\ Len(picked) <= Len(s.files) /\ \A i \in 1..Len(picked) : s.files[i] = picked[i]
      /\ \A i \in (Len(picked) + 1)..Len(s.files) : s.files[i] \in KinOfAdded /\ s.files[i] \in s.opened
  BY <1>4 DEF Reading, Grown
<1> DEFINE m == Len(picked)
           n == Len(picked')
<1>7. /\ m \in Nat /\ n \in Nat /\ m <= n /\ picked \in Seq(Files) /\ picked' \in Seq(Files)
      /\ DOMAIN picked = 1..m /\ DOMAIN picked' = 1..n
      /\ \A i \in 1..m : picked'[i] = picked[i] /\ i \in 1..n
      /\ \A i \in (m + 1)..n : picked'[i] \in KinOfAdded /\ picked'[i] \in s.opened
      /\ \A i \in 1..n : i \notin 1..m => i \in (m + 1)..n
  <2>1. picked \in Seq(Files)
    BY <1>2 DEF HuntTypes
  <2> QED
    BY <1>5, <1>6, <2>1
<1>8. /\ round'.n = round.n /\ round'.fresh = round.fresh /\ round'.gated = round.gated /\ round'.added = round.added
      /\ round' \in [n : Nat, fresh : SUBSET Files, gated : Nat, added : Seq(Files), leaning : SUBSET Files, grown : Nat]
  <2>1. Len(s.files) - Len(picked) \in Nat
    BY <1>5, <1>7
  <2> QED
    BY <1>2, <1>5, <2>1 DEF HuntTypes
<1>9. HuntTypes'
  BY <1>1, <1>2, <1>5, <1>6, <1>8 DEF HuntTypes
<1>10. ToSet(picked) \subseteq ToSet(picked')
  BY <1>7 DEF ToSet
<1>11. (\A i \in DOMAIN picked :
          \/ Home[picked[i]] \in searched \/ "." \in searched
          \/ \E j \in 1..(i - 1) : \E class \in {"test", "type", "caller"} : picked[i] \in Kin[picked[j]][class])'
  <2>1. ASSUME NEW i \in 1..n
        PROVE  \/ Home[picked'[i]] \in searched \/ "." \in searched
               \/ \E j \in 1..(i - 1) : \E class \in {"test", "type", "caller"} : picked'[i] \in Kin[picked'[j]][class]
    <3>1. CASE i \in 1..m
      <4>1. \/ Home[picked[i]] \in searched \/ "." \in searched
            \/ \E j \in 1..(i - 1) : \E class \in {"test", "type", "caller"} : picked[i] \in Kin[picked[j]][class]
        BY <1>2, <1>7, <3>1 DEF SelectionIsAccounted
      <4>2. picked'[i] = picked[i] /\ \A j \in 1..(i - 1) : picked'[j] = picked[j]
        BY <1>7, <3>1
      <4> QED
        BY <4>1, <4>2
    <3>2. CASE i \notin 1..m
      <4>1. picked'[i] \in KinOfAdded /\ i \in (m + 1)..n
        BY <1>7, <3>2
      <4>2. PICK f \in ToSet(round.added) : \E class \in {"test", "type", "caller"} : picked'[i] \in Kin[f][class]
        BY <4>1 DEF KinOfAdded
      <4>3. f \in ToSet(picked)
        BY <1>2 DEF Added
      <4>4. PICK j \in 1..m : picked[j] = f
        BY <1>7, <4>3 DEF ToSet
      <4>5. j \in 1..(i - 1) /\ picked'[j] = f
        BY <1>7, <4>1, <4>4
      <4> QED
        BY <4>2, <4>5
    <3> QED
      BY <3>1, <3>2
  <2> QED
    BY <1>1, <1>7, <2>1
<1>12. (\A f \in ToSet(picked) : [what |-> "file", of |-> f] \in kept)'
  <2>1. ASSUME NEW i \in 1..n PROVE [what |-> "file", of |-> picked'[i]] \in kept'
    <3>1. CASE i \in 1..m
      <4>1. picked[i] \in ToSet(picked) /\ picked'[i] = picked[i]
        BY <1>7, <3>1 DEF ToSet
      <4> QED
        BY <1>2, <1>5, <4>1 DEF SelectionIsAccounted
    <3>2. CASE i \notin 1..m
      <4>1. picked'[i] \in s.opened
        BY <1>7, <3>2
      <4> QED
        BY <1>5, <4>1 DEF Blocks
    <3> QED
      BY <3>1, <3>2
  <2> QED
    BY <1>7, <2>1 DEF ToSet
<1>13. Decided' = Decided
  <2>1. \A f \in Files : [what |-> "snippet", of |-> f] \notin Blocks("file", s.opened)
    BY DEF Blocks
  <2> QED
    BY <1>5, <2>1 DEF Decided
<1>14. spent' = Charged'
  BY <1>1, <1>5, <1>6 DEF Charged
<1>15. SelectionIsAccounted'
  <2>1. phase' \in {"idle", "subsystem", "candidate", "snippet", "sibling", "sufficiency", "test", "over"}
    BY <1>5, RoundEnds
  <2>2. (round.n <= hunt.rounds /\ Len(picked) <= hunt.files /\ spent <= hunt.bytes /\ IsInjective(picked))'
    BY <1>1, <1>2, <1>5, <1>6, <1>8 DEF SelectionIsAccounted
  <2>3. (dropped \subseteq kept /\ shown \subseteq ToSet(picked))'
    BY <1>1, <1>2, <1>5, <1>10 DEF SelectionIsAccounted
  <2>4. /\ (\A f \in Decided : f \in shown \/ [what |-> "snippet", of |-> f] \in dropped)'
        /\ (\A f \in shown \intersect Overflows : [what |-> "overflow", of |-> f] \in dropped)'
    BY <1>1, <1>2, <1>13 DEF SelectionIsAccounted
  <2> QED
    BY <1>11, <1>12, <1>14, <2>1, <2>2, <2>3, <2>4 DEF SelectionIsAccounted
<1>16. NotEmptyHanded'
  <2>1. m > 0
    <3>1. Len(round.added) > 0 /\ round.added \in Seq(Files)
      BY <1>2 DEF Added, HuntTypes
    <3>2. round.added[1] \in ToSet(picked)
      BY <1>2, <3>1 DEF Added, ToSet
    <3> QED
      BY <1>7, <3>2 DEF ToSet
  <2>2. picked' # <<>>
    BY <1>7, <2>1
  <2> QED
    BY <2>2 DEF NotEmptyHanded
<1>17. round'.fresh # {}
  BY <1>2, <1>8 DEF Added
<1> QED
  BY <1>1, <1>5, <1>9, <1>15, <1>16, <1>17, RoundKeeps

\* The control plane's scores are numbers.
LEMMA ScoresAreNumbers ==
  ASSUME NEW candidates, NEW score \in ScoreReplies(candidates)
  PROVE  score \in [Files -> Nat]
<1>1. Near \in [Files -> Nat] /\ Levels \subseteq Nat
  BY ExplorationAssumption
<1>2. CASE score = Near
  BY <1>1, <1>2
<1>3. CASE score # Near
  <2>1. PICK s \in [candidates -> Levels] : score = [f \in Files |-> IF f \in candidates THEN s[f] ELSE Near[f]]
    BY <1>3 DEF ScoreReplies
  <2> QED
    BY <1>1, <2>1
<1> QED
  BY <1>2, <1>3

\* What is put together has each file once when its parts do and share none.
LEMMA BothOnce ==
  ASSUME NEW s \in Seq(Files), NEW t \in Seq(Files), IsInjective(s), IsInjective(t), ToSet(s) \intersect ToSet(t) = {}
  PROVE  IsInjective(s \o t)
<1> DEFINE m == Len(s)
           n == Len(t)
           both == s \o t
<1>1. /\ m \in Nat /\ n \in Nat /\ DOMAIN s = 1..m /\ DOMAIN t = 1..n /\ DOMAIN both = 1..(m + n)
      /\ \A i \in 1..m : both[i] = s[i]
      /\ \A i \in 1..n : both[m + i] = t[i]
  OBVIOUS
<1> HIDE DEF both, m, n
<1>2. \A i \in 1..(m + n) : i \in 1..m \/ (i - m \in 1..n /\ i = m + (i - m))
  BY <1>1
<1>3. ASSUME NEW i \in 1..m, NEW j \in 1..n PROVE s[i] # t[j]
  BY <1>1 DEF ToSet
<1>4. ASSUME NEW i \in 1..(m + n), NEW j \in 1..(m + n), both[i] = both[j] PROVE i = j
  <2>1. CASE i \in 1..m /\ j \in 1..m
    BY <1>1, <1>4, <2>1 DEF IsInjective
  <2>2. CASE i \in 1..m /\ j \notin 1..m
    <3>1. j - m \in 1..n /\ both[j] = t[j - m] /\ both[i] = s[i]
      <4>1. j - m \in 1..n /\ j = m + (j - m)
        BY <1>2, <2>2
      <4> QED
        BY <1>1, <2>2, <4>1
    <3> QED
      BY <1>3, <1>4, <2>2, <3>1
  <2>3. CASE i \notin 1..m /\ j \in 1..m
    <3>1. i - m \in 1..n /\ both[i] = t[i - m] /\ both[j] = s[j]
      <4>1. i - m \in 1..n /\ i = m + (i - m)
        BY <1>2, <2>3
      <4> QED
        BY <1>1, <2>3, <4>1
    <3> QED
      BY <1>3, <1>4, <2>3, <3>1
  <2>4. CASE i \notin 1..m /\ j \notin 1..m
    <3>1. i - m \in 1..n /\ both[i] = t[i - m] /\ j - m \in 1..n /\ both[j] = t[j - m]
      <4>1. i - m \in 1..n /\ i = m + (i - m) /\ j - m \in 1..n /\ j = m + (j - m)
        BY <1>2, <2>4
      <4> QED
        BY <1>1, <4>1
    <3>2. i - m = j - m
      BY <1>1, <1>4, <3>1 DEF IsInjective
    <3> QED
      BY <1>1, <3>2
  <2> QED
    BY <2>1, <2>2, <2>3, <2>4
<1>5. IsInjective(both)
  BY <1>1, <1>4 DEF IsInjective
<1> QED
  BY <1>5 DEF both

\* What a round reads of its ranking: a prefix of what the gate admitted.
ReadsTo(ranked, k, m) ==
  LET Read(i) == \A j \in 1..i : ranked[j] \in present /\ spent + Total(Cost, SubSeq(ranked, 1, j)) <= hunt.bytes
  IN m \in 0..k /\ Read(m) /\ (m = k \/ ~Read(m + 1))

\* There is such a prefix, and it is the one chosen.
LEMMA ReadsSome ==
  ASSUME NEW ranked, NEW k \in Nat
  PROVE  LET Read(i) == \A j \in 1..i : ranked[j] \in present /\ spent + Total(Cost, SubSeq(ranked, 1, j)) <= hunt.bytes
         IN ReadsTo(ranked, k, CHOOSE i \in 0..k : Read(i) /\ (i = k \/ ~Read(i + 1)))
<1> DEFINE Read(i) == \A j \in 1..i : ranked[j] \in present /\ spent + Total(Cost, SubSeq(ranked, 1, j)) <= hunt.bytes
           reads == {i \in 0..k : Read(i)}
<1>1. 0 \in reads
  OBVIOUS
<1>2. reads \in SUBSET (0..k) /\ \A i \in 0..k : i \in reads <=> Read(i)
  OBVIOUS
<1> HIDE DEF Read, reads
<1>3. PICK m \in reads : \A x \in reads : m >= x
  BY <1>1, <1>2, HasGreatest
<1>4. m \in 0..k /\ Read(m) /\ (m = k \/ ~Read(m + 1))
  <2>1. m \in 0..k /\ Read(m)
    BY <1>2, <1>3
  <2>2. m # k => m + 1 \in 0..k /\ ~(m >= m + 1)
    BY <2>1
  <2>3. m # k => m + 1 \notin reads
    BY <1>3, <2>2
  <2> QED
    BY <1>2, <2>1, <2>2, <2>3
<1>5. LET i == CHOOSE i \in 0..k : Read(i) /\ (i = k \/ ~Read(i + 1)) IN i \in 0..k /\ Read(i) /\ (i = k \/ ~Read(i + 1))
  BY <1>4
<1> QED
  BY <1>5 DEF ReadsTo, Read

\* What is put together has its parts in a row.
LEMMA BothParts ==
  ASSUME NEW s \in Seq(Files), NEW t \in Seq(Files)
  PROVE  /\ s \o t \in Seq(Files) /\ Len(s \o t) = Len(s) + Len(t) /\ Len(s) \in Nat /\ Len(t) \in Nat
         /\ DOMAIN (s \o t) = 1..(Len(s) + Len(t))
         /\ \A i \in 1..Len(s) : (s \o t)[i] = s[i]
         /\ \A i \in 1..Len(t) : (s \o t)[Len(s) + i] = t[i]
OBVIOUS

\* The prefix of a ranking that a round reads.
LEMMA PrefixOf ==
  ASSUME NEW S \in SUBSET Files, NEW ranked \in Seq(S), IsInjective(ranked), NEW m \in 0..Len(ranked)
  PROVE  LET added == SubSeq(ranked, 1, m) IN
         /\ added \in Seq(S) /\ added \in Seq(Files) /\ Len(added) = m /\ IsInjective(added)
         /\ \A i \in 1..m : added[i] = ranked[i]
         /\ ToSet(added) \subseteq S /\ \A f \in ToSet(added) : \E i \in 1..m : f = ranked[i]
<1> DEFINE added == SubSeq(ranked, 1, m)
           n == Len(ranked)
<1>1. /\ n \in Nat /\ m \in Nat /\ m <= n /\ DOMAIN ranked = 1..n /\ added \in Seq(S) /\ Len(added) = m
      /\ DOMAIN added = 1..m /\ \A i \in 1..m : added[i] = ranked[i] /\ i \in 1..n
  OBVIOUS
<1>2. added \in Seq(Files)
  BY <1>1
<1> HIDE DEF added, n
<1>3. IsInjective(added)
  BY <1>1 DEF IsInjective
<1>4. ToSet(added) \subseteq S /\ \A f \in ToSet(added) : \E i \in 1..m : f = ranked[i]
  BY <1>1 DEF ToSet
<1> QED
  BY <1>1, <1>2, <1>3, <1>4 DEF added

\* What a round's reading is made of.
Reads(ranked, k, m) ==
  /\ ranked \in Seq(round.fresh) /\ IsInjective(ranked)
  /\ k \in 0..Len(ranked) /\ Len(picked) + k <= hunt.files
  /\ spent + Total(Estimate, SubSeq(ranked, 1, k)) <= hunt.bytes
  /\ ReadsTo(ranked, k, m)
  /\ picked' = picked \o SubSeq(ranked, 1, m) /\ spent' = spent + Total(Cost, SubSeq(ranked, 1, m))
  /\ \E leaning \in SUBSET Files :
       round' = [round EXCEPT !.gated = k, !.added = SubSeq(ranked, 1, m), !.leaning = leaning]
  /\ kept \subseteq kept'
  /\ \A f \in ToSet(SubSeq(ranked, 1, m)) : [what |-> "file", of |-> f] \in kept'
  /\ \A f \in Files : [what |-> "snippet", of |-> f] \in kept' => [what |-> "snippet", of |-> f] \in kept
  /\ IF m > 0 THEN phase' = "snippet" ELSE EndOfRound(round', picked', spent')

\* An answered ranking is read like this.
LEMMA CandidatesRead ==
  ASSUME HuntInv, CandidatesAnswered
  PROVE  \E ranked, k, m : Reads(ranked, k, m)
<1>1. phase = "candidate"
  BY DEF CandidatesAnswered
<1>2. HuntTypes /\ SelectionIsAccounted /\ Asking
  BY <1>1 DEF HuntInv
<1>3. PICK score \in ScoreReplies(round.fresh) :
       LET ranked == Overlaid(round.fresh, score)
           k      == GateSelection(ranked, picked, spent)
           Read(m) == \A j \in 1..m : ranked[j] \in present /\ spent + Total(Cost, SubSeq(ranked, 1, j)) <= hunt.bytes
           m      == CHOOSE i \in 0..k : Read(i) /\ (i = k \/ ~Read(i + 1))
           added  == SubSeq(ranked, 1, m)
           opened == {f \in ToSet(SubSeq(ranked, 1, Least(m + 1, k))) : f \in present}
           r      == [round EXCEPT !.gated = k, !.added = added, !.leaning = {f \in ToSet(added) : score[f] >= Threshold}]
       IN /\ round' = r /\ picked' = picked \o added /\ spent' = spent + Total(Cost, added)
          /\ kept' = kept \union {[what |-> "file", of |-> f] : f \in opened}
          /\ IF m > 0 THEN phase' = "snippet" /\ UNCHANGED stop ELSE EndOfRound(r, picked', spent')
  BY DEF CandidatesAnswered
<1> DEFINE ranked == Overlaid(round.fresh, score)
           k      == GateSelection(ranked, picked, spent)
           Read(m) == \A j \in 1..m : ranked[j] \in present /\ spent + Total(Cost, SubSeq(ranked, 1, j)) <= hunt.bytes
           m      == CHOOSE i \in 0..k : Read(i) /\ (i = k \/ ~Read(i + 1))
           added  == SubSeq(ranked, 1, m)
           opened == {f \in ToSet(SubSeq(ranked, 1, Least(m + 1, k))) : f \in present}
           leaning == {f \in ToSet(added) : score[f] >= Threshold}
<1>4. /\ round' = [round EXCEPT !.gated = k, !.added = added, !.leaning = leaning]
      /\ picked' = picked \o added /\ spent' = spent + Total(Cost, added)
      /\ kept' = kept \union {[what |-> "file", of |-> f] : f \in opened}
      /\ IF m > 0 THEN phase' = "snippet" ELSE EndOfRound(round', picked', spent')
  BY <1>3
<1>5. round.fresh \in SUBSET Files /\ picked \in Seq(Files) /\ spent \in Nat
  BY <1>2 DEF HuntTypes
<1> HIDE DEF ranked
<1>6. ranked \in Seq(round.fresh) /\ IsInjective(ranked)
  <2>1. score \in [Files -> Nat]
    BY ScoresAreNumbers
  <2> QED
    BY <1>5, <2>1, OverlaidOnce DEF ranked
<1>7. ranked \in Seq(Files)
  BY <1>5, <1>6
<1> HIDE DEF k
<1>8. /\ k \in 0..Len(ranked) /\ Len(picked) + k <= hunt.files
      /\ spent + Total(Estimate, SubSeq(ranked, 1, k)) <= hunt.bytes
  <2>1. hunt.files \in Nat /\ hunt.bytes \in Nat /\ Len(picked) <= hunt.files /\ spent <= hunt.bytes
    BY <1>2 DEF HuntTypes, SelectionIsAccounted
  <2> QED
    BY <1>5, <1>7, <2>1, GateFits DEF k
<1>9. ReadsTo(ranked, k, m) /\ m \in 0..k
  <2>1. k \in Nat
    BY <1>7, <1>8
  <2>2. ReadsTo(ranked, k, m)
    BY <2>1, ReadsSome
  <2> HIDE DEF m
  <2> QED
    BY <2>2 DEF ReadsTo
<1> HIDE DEF m
<1>10. m \in 0..Len(ranked) /\ m \in Nat
  BY <1>7, <1>8, <1>9
<1>11. ToSet(added) \subseteq opened /\ leaning \in SUBSET Files
  <2>1. /\ Len(added) = m /\ \A i \in 1..m : added[i] = ranked[i]
        /\ ToSet(added) \subseteq round.fresh /\ \A f \in ToSet(added) : \E i \in 1..m : f = ranked[i]
    BY <1>5, <1>6, <1>10, PrefixOf
  <2>2. leaning \in SUBSET Files
    BY <1>5, <2>1
  <2> DEFINE l == Least(m + 1, k)
             more == SubSeq(ranked, 1, l)
  <2>3. l \in 0..Len(ranked) /\ m <= l /\ l \in Nat
    BY <1>7, <1>8, <1>9, <1>10 DEF Least
  <2> HIDE DEF l
  <2>4. DOMAIN more = 1..l /\ \A i \in 1..l : more[i] = ranked[i]
    BY <1>7, <2>3
  <2> HIDE DEF more, added
  <2>5. ASSUME NEW f \in ToSet(added) PROVE f \in ToSet(more) /\ f \in present
    <3>1. PICK i \in 1..m : f = ranked[i]
      BY <2>1
    <3>2. i \in 1..l /\ more[i] = f
      BY <1>10, <2>3, <2>4, <3>1
    <3>3. ranked[i] \in present
      BY <1>9, <3>1 DEF ReadsTo
    <3> QED
      BY <2>4, <3>1, <3>2, <3>3 DEF ToSet
  <2> QED
    BY <2>2, <2>5 DEF more, l
<1> HIDE DEF opened, leaning
<1>12. /\ kept \subseteq kept'
       /\ \A f \in ToSet(added) : [what |-> "file", of |-> f] \in kept'
       /\ \A f \in Files : [what |-> "snippet", of |-> f] \in kept' => [what |-> "snippet", of |-> f] \in kept
  <2> HIDE DEF added
  <2> QED
    BY <1>4, <1>11
<1>13. Reads(ranked, k, m)
  <2>1. \E l \in SUBSET Files : round' = [round EXCEPT !.gated = k, !.added = added, !.leaning = l]
    <3> HIDE DEF added
    <3> QED
      BY <1>4, <1>11
  <2> QED
    BY <1>4, <1>6, <1>8, <1>9, <1>12, <2>1 DEF Reads
<1> QED
  BY <1>13

\* A round's candidates are ranked, gated and read.
LEMMA CandidatesKeep == HuntInv /\ CandidatesAnswered => HuntInv'
<1> SUFFICES ASSUME HuntInv, CandidatesAnswered PROVE HuntInv'
  OBVIOUS
<1>1. phase = "candidate" /\ UNCHANGED <<hunt, present, searched, shown, dropped>>
  BY DEF CandidatesAnswered
<1>2. HuntTypes /\ SelectionIsAccounted /\ Asking
  BY <1>1 DEF HuntInv
<1>3. PICK ranked, k, m : Reads(ranked, k, m)
  BY CandidatesRead
<1> DEFINE added == SubSeq(ranked, 1, m)
<1>4. /\ ranked \in Seq(round.fresh) /\ IsInjective(ranked) /\ k \in 0..Len(ranked) /\ Len(picked) + k <= hunt.files
      /\ spent + Total(Estimate, SubSeq(ranked, 1, k)) <= hunt.bytes
      /\ ReadsTo(ranked, k, m) /\ m \in 0..k
      /\ picked' = picked \o added /\ spent' = spent + Total(Cost, added)
      /\ kept \subseteq kept' /\ \A f \in ToSet(added) : [what |-> "file", of |-> f] \in kept'
      /\ \A f \in Files : [what |-> "snippet", of |-> f] \in kept' => [what |-> "snippet", of |-> f] \in kept
      /\ IF m > 0 THEN phase' = "snippet" ELSE EndOfRound(round', picked', spent')
  BY <1>3 DEF Reads, ReadsTo
<1>5. /\ round.fresh \in SUBSET Files /\ picked \in Seq(Files) /\ spent \in Nat /\ hunt.files \in Nat /\ hunt.bytes \in Nat
      /\ Cost \in [Files -> Nat] /\ Inline \in [Files -> Nat] /\ Estimate \in [Files -> Nat] /\ shown \in SUBSET Files
      /\ ranked \in Seq(Files)
  <2>1. Estimate \in [Files -> Nat]
    BY EstimateIsNat
  <2>2. round.fresh \in SUBSET Files /\ ranked \in Seq(Files)
    <3>1. round.fresh \in SUBSET Files
      BY <1>2 DEF HuntTypes
    <3>2. ranked \in Seq(round.fresh)
      BY <1>4
    <3> QED
      BY <3>1, <3>2
  <2>3. Cost \in [Files -> Nat] /\ Inline \in [Files -> Nat]
    BY ExplorationAssumption
  <2>4. picked \in Seq(Files) /\ spent \in Nat /\ hunt.files \in Nat /\ hunt.bytes \in Nat /\ shown \in SUBSET Files
    BY <1>2 DEF HuntTypes
  <2> QED
    BY <2>1, <2>2, <2>3, <2>4
<1>6. m \in 0..Len(ranked) /\ m \in Nat /\ k \in Nat
  BY <1>4, <1>5
<1>7. /\ added \in Seq(round.fresh) /\ added \in Seq(Files) /\ Len(added) = m /\ IsInjective(added)
      /\ ToSet(added) \subseteq round.fresh
  <2>1. ranked \in Seq(round.fresh) /\ IsInjective(ranked) /\ added = SubSeq(ranked, 1, m)
    BY <1>4
  <2>2. round.fresh \in SUBSET Files
    BY <1>5
  <2> HIDE DEF added
  <2> QED
    BY <1>6, <2>1, <2>2, PrefixOf
<1>8. PICK leaning \in SUBSET Files : round' = [round EXCEPT !.gated = k, !.added = added, !.leaning = leaning]
  BY <1>3 DEF Reads
<1> HIDE DEF added
<1>9. /\ round'.n = round.n /\ round'.fresh = round.fresh /\ round'.gated = k /\ round'.added = added
      /\ round' \in [n : Nat, fresh : SUBSET Files, gated : Nat, added : Seq(Files), leaning : SUBSET Files, grown : Nat]
  BY <1>2, <1>6, <1>7, <1>8 DEF HuntTypes
<1>10. Total(Cost, added) \in Nat /\ spent' \in Nat
  <2>1. Total(Cost, added) \in Nat
    BY <1>5, <1>7, TotalIsNat
  <2>2. spent' = spent + Total(Cost, added)
    BY <1>4
  <2>3. spent \in Nat
    BY <1>5
  <2> QED
    BY <2>1, <2>2, <2>3
<1>11. /\ picked' \in Seq(Files) /\ Len(picked') = Len(picked) + m /\ Len(picked) \in Nat
       /\ DOMAIN picked' = 1..(Len(picked) + m)
       /\ \A i \in 1..Len(picked) : picked'[i] = picked[i]
       /\ \A i \in 1..m : picked'[Len(picked) + i] = added[i]
       /\ ToSet(picked') = ToSet(picked) \union ToSet(added)
  <2>1. /\ picked' \in Seq(Files) /\ Len(picked') = Len(picked) + m /\ Len(picked) \in Nat
        /\ DOMAIN picked' = 1..(Len(picked) + m)
        /\ \A i \in 1..Len(picked) : picked'[i] = picked[i]
        /\ \A i \in 1..m : picked'[Len(picked) + i] = added[i]
    <3>1. picked \in Seq(Files) /\ added \in Seq(Files) /\ Len(added) = m /\ picked' = picked \o added
      BY <1>4, <1>5, <1>7
    <3> QED
      BY <3>1, BothParts
  <2>2. DOMAIN picked = 1..Len(picked) /\ DOMAIN added = 1..m
    BY <1>5, <1>7
  <2>3. ASSUME NEW i \in 1..(Len(picked) + m) PROVE picked'[i] \in ToSet(picked) \union ToSet(added)
    <3>1. CASE i \in 1..Len(picked)
      BY <2>1, <2>2, <3>1 DEF ToSet
    <3>2. CASE i \notin 1..Len(picked)
      <4>1. i - Len(picked) \in 1..m /\ i = Len(picked) + (i - Len(picked))
        BY <1>6, <2>1, <3>2
      <4>2. picked'[i] = added[i - Len(picked)]
        BY <2>1, <4>1
      <4> QED
        BY <2>2, <4>1, <4>2 DEF ToSet
    <3> QED
      BY <3>1, <3>2
  <2>4. ASSUME NEW i \in 1..Len(picked) PROVE picked[i] \in ToSet(picked')
    <3>1. i \in 1..(Len(picked) + m)
      BY <1>6, <2>1
    <3> QED
      BY <2>1, <3>1 DEF ToSet
  <2>5. ASSUME NEW i \in 1..m PROVE added[i] \in ToSet(picked')
    <3>1. Len(picked) + i \in 1..(Len(picked) + m)
      BY <1>6, <2>1
    <3> QED
      BY <2>1, <3>1 DEF ToSet
  <2>6. ToSet(picked') \subseteq ToSet(picked) \union ToSet(added)
    BY <2>1, <2>3 DEF ToSet
  <2>7. ToSet(picked) \subseteq ToSet(picked') /\ ToSet(added) \subseteq ToSet(picked')
    BY <2>2, <2>4, <2>5 DEF ToSet
  <2> QED
    BY <2>1, <2>6, <2>7
<1>12. HuntTypes'
  BY <1>1, <1>2, <1>9, <1>10, <1>11 DEF HuntTypes
<1>13. spent' <= hunt.bytes
  <2>1. CASE m = 0
    <3>1. added = <<>>
      BY <1>7, <2>1
    <3>2. Total(Cost, added) = 0
      BY <1>5, <3>1, TotalOfNone
    <3> QED
      BY <1>2, <1>4, <1>5, <3>2 DEF SelectionIsAccounted
  <2>2. CASE m # 0
    <3>1. m \in 1..m
      BY <1>6, <2>2
    <3> QED
      BY <1>4, <3>1 DEF ReadsTo, added
  <2> QED
    BY <2>1, <2>2
<1>14. spent' = Charged'
  <2>1. Total(Cost, picked') = Total(Cost, picked) + Total(Cost, added) /\ Total(Cost, picked) \in Nat
    BY <1>4, <1>5, <1>7, TotalOfBoth, TotalIsNat
  <2>2. Weight(Inline, shown) \in Nat
    BY <1>5, WeightAdds
  <2>3. spent = Total(Cost, picked) + Weight(Inline, shown)
    BY <1>2 DEF SelectionIsAccounted, Charged
  <2>4. spent' = Total(Cost, picked') + Weight(Inline, shown)
    BY <1>4, <1>10, <2>1, <2>2, <2>3
  <2> QED
    BY <1>1, <2>4 DEF Charged
<1>15. IsInjective(picked')
  <2>1. ToSet(picked) \intersect ToSet(added) = {} /\ IsInjective(picked)
    BY <1>2, <1>7 DEF Asking, SelectionIsAccounted
  <2>2. IsInjective(picked \o added)
    BY <1>5, <1>7, <2>1, BothOnce
  <2> QED
    BY <1>4, <2>2
<1>16. (\A i \in DOMAIN picked :
          \/ Home[picked[i]] \in searched \/ "." \in searched
          \/ \E j \in 1..(i - 1) : \E class \in {"test", "type", "caller"} : picked[i] \in Kin[picked[j]][class])'
  <2>1. ASSUME NEW i \in 1..(Len(picked) + m)
        PROVE  \/ Home[picked'[i]] \in searched \/ "." \in searched
               \/ \E j \in 1..(i - 1) : \E class \in {"test", "type", "caller"} : picked'[i] \in Kin[picked'[j]][class]
    <3>1. CASE i \in 1..Len(picked)
      <4>1. \/ Home[picked[i]] \in searched \/ "." \in searched
            \/ \E j \in 1..(i - 1) : \E class \in {"test", "type", "caller"} : picked[i] \in Kin[picked[j]][class]
        <5>1. DOMAIN picked = 1..Len(picked)
          BY <1>5
        <5> QED
          BY <1>2, <3>1, <5>1 DEF SelectionIsAccounted
      <4>2. picked'[i] = picked[i] /\ \A j \in 1..(i - 1) : picked'[j] = picked[j]
        BY <1>11, <3>1
      <4> QED
        BY <4>1, <4>2
    <3>2. CASE i \notin 1..Len(picked)
      <4>1. i - Len(picked) \in 1..m /\ i = Len(picked) + (i - Len(picked))
        BY <1>6, <1>11, <3>2
      <4>2. picked'[i] = added[i - Len(picked)]
        BY <1>11, <4>1
      <4>3. DOMAIN added = 1..m
        BY <1>7
      <4>4. picked'[i] \in round.fresh
        BY <1>7, <4>1, <4>2, <4>3
      <4> QED
        BY <1>2, <4>4 DEF Asking
    <3> QED
      BY <3>1, <3>2
  <2> QED
    BY <1>1, <1>11, <2>1
<1>17. (\A f \in ToSet(picked) : [what |-> "file", of |-> f] \in kept)'
  BY <1>2, <1>4, <1>11 DEF SelectionIsAccounted
<1>18. /\ (\A f \in Decided : f \in shown \/ [what |-> "snippet", of |-> f] \in dropped)'
       /\ (\A f \in shown \intersect Overflows : [what |-> "overflow", of |-> f] \in dropped)'
       /\ (dropped \subseteq kept /\ shown \subseteq ToSet(picked))'
  <2>1. Decided' = Decided
    BY <1>4 DEF Decided
  <2> QED
    BY <1>1, <1>2, <1>4, <1>11, <2>1 DEF SelectionIsAccounted
<1>19. SelectionIsAccounted'
  <2>1. phase' \in {"idle", "subsystem", "candidate", "snippet", "sibling", "sufficiency", "test", "over"}
    BY <1>4, RoundEnds
  <2>2. (round.n <= hunt.rounds /\ Len(picked) <= hunt.files /\ spent <= hunt.bytes)'
    <3>1. Len(picked') <= hunt.files
      BY <1>4, <1>5, <1>6, <1>11
    <3> QED
      BY <1>1, <1>2, <1>9, <1>13, <3>1 DEF SelectionIsAccounted
  <2> QED
    BY <1>14, <1>15, <1>16, <1>17, <1>18, <2>1, <2>2 DEF SelectionIsAccounted
<1>20. round'.fresh # {}
  BY <1>2, <1>9 DEF Asking
<1>21. CASE m > 0
  <2>1. phase' = "snippet"
    BY <1>4, <1>21
  <2>2. round'.gated # 0 /\ round'.added # <<>>
    BY <1>4, <1>6, <1>7, <1>9, <1>21
  <2>3. Added'
    BY <1>9, <1>11, <1>20, <2>2 DEF Added
  <2>4. Undecided'
    BY <1>1, <1>2, <1>7, <1>9 DEF Undecided, SelectionIsAccounted, Asking
  <2> QED
    BY <1>12, <1>19, <2>1, <2>3, <2>4 DEF HuntInv
<1>22. CASE ~(m > 0)
  <2>1. m = 0 /\ EndOfRound(round', picked', spent')
    BY <1>4, <1>6, <1>22
  <2>2. ASSUME k # 0, present = Files PROVE \E f \in round.fresh : Cost[f] > Estimate[f]
    <3>1. 1 \in 1..Len(ranked) /\ k \in 1..Len(ranked) /\ ranked[1] \in round.fresh
      <4>1. k \in 0..Len(ranked) /\ ranked \in Seq(round.fresh) /\ Len(ranked) \in Nat
        BY <1>4, <1>5
      <4>2. 1 \in 1..Len(ranked) /\ k \in 1..Len(ranked)
        BY <2>2, <4>1
      <4> QED
        BY <4>1, <4>2
    <3>2. ~(\A j \in 1..1 : ranked[j] \in present /\ spent + Total(Cost, SubSeq(ranked, 1, j)) <= hunt.bytes)
      BY <1>4, <2>1, <2>2 DEF ReadsTo
    <3>3. ranked[1] \in present
      BY <1>5, <2>2, <3>1
    <3>4. ~(spent + Total(Cost, SubSeq(ranked, 1, 1)) <= hunt.bytes)
      BY <3>2, <3>3
    <3>5. Total(Cost, SubSeq(ranked, 1, 1)) = Cost[ranked[1]] /\ Total(Estimate, SubSeq(ranked, 1, k)) >= Estimate[ranked[1]]
      BY <1>5, <3>1, TotalOfFirst
    <3>6. Total(Estimate, SubSeq(ranked, 1, k)) \in Nat
      <4>1. ranked \in Seq(Files) /\ Estimate \in [Files -> Nat]
        BY <1>5
      <4>2. SubSeq(ranked, 1, k) \in Seq(Files)
        BY <3>1, <4>1
      <4> QED
        BY <4>1, <4>2, TotalIsNat
    <3>7. Cost[ranked[1]] \in Nat /\ Estimate[ranked[1]] \in Nat
      BY <1>5, <3>1
    <3>8. Cost[ranked[1]] > Estimate[ranked[1]]
      <4> DEFINE c == Cost[ranked[1]]
                 e == Estimate[ranked[1]]
                 t == Total(Estimate, SubSeq(ranked, 1, k))
      <4>1. /\ c \in Nat /\ e \in Nat /\ t \in Nat /\ spent \in Nat /\ hunt.bytes \in Nat
            /\ ~(spent + c <= hunt.bytes) /\ t >= e /\ spent + t <= hunt.bytes
        <5>1. spent \in Nat /\ hunt.bytes \in Nat
          BY <1>5
        <5>2. spent + t <= hunt.bytes
          BY <1>4
        <5> QED
          BY <3>4, <3>5, <3>6, <3>7, <5>1, <5>2
      <4> HIDE DEF c, e, t
      <4>2. c > e
        BY <4>1
      <4> QED
        BY <4>2 DEF c, e
    <3> QED
      BY <3>1, <3>8
  <2>3. round'.gated # 0 => NotEmptyHanded'
    BY <1>1, <1>9, <2>2 DEF NotEmptyHanded, Estimate
  <2> QED
    BY <1>1, <1>12, <1>19, <1>20, <2>1, <2>3, RoundKeeps
<1> QED
  BY <1>21, <1>22

\* Every step of the composition keeps what holds of an exploration.
LEMMA HuntKeeps == HuntInv /\ [ContextNext]_contextVars => HuntInv'
<1> SUFFICES ASSUME HuntInv, [ContextNext]_contextVars PROVE HuntInv'
  OBVIOUS
<1>1. CASE HuntNext
  <2>1. ASSUME NEW h \in Hunts, Explore(h) PROVE HuntInv'
    BY <2>1, ExploreKeeps
  <2> QED
    BY <1>1, <2>1, SubsystemKeeps, CandidatesKeep, SnippetsKeep, SiblingsKeep, SufficiencyKeeps, TestsKeep, VanishKeeps
       DEF HuntNext, HuntAnswers
<1>2. CASE UNCHANGED huntVars
  <2>1. UNCHANGED <<hunt, phase, present, round, searched, picked, spent, shown, kept, dropped, stop>>
    BY <1>2 DEF huntVars
  <2>2. HuntTypes' <=> HuntTypes
    BY <2>1 DEF HuntTypes
  <2>3. SelectionIsAccounted' <=> SelectionIsAccounted
    BY <2>1 DEF SelectionIsAccounted, Charged, Decided
  <2>4. /\ BeforeRounds' <=> BeforeRounds
        /\ Asking' <=> Asking
        /\ Added' <=> Added
        /\ Undecided' <=> Undecided
    BY <2>1 DEF BeforeRounds, Asking, Added, Undecided
  <2>5. (NotEmptyHanded' <=> NotEmptyHanded) /\ (Reasoned' <=> Reasoned)
    BY <2>1 DEF NotEmptyHanded, Reasoned, Exhausted, RemainingFiles, Estimate
  <2> QED
    BY <2>1, <2>2, <2>3, <2>4, <2>5 DEF HuntInv
<1> QED
  BY <1>1, <1>2 DEF ContextNext, contextVars, Exploring, Keeping, Ending, Compacting, Prompting

\* For every set of files, whatever they cost, and every budget: whatever the
\* control plane answers and whichever files vanish meanwhile, the selection stays
\* within its three budgets and its bytes are those charged, a file is selected
\* once and because its subsystem was searched or a selected file is its kin, what
\* is cut is in the store, and an exploration that ended says why (the loop of
\* explore, gateSelection, readSelectedFile and expandSiblings in
\* src/exploration/governor.ts).
THEOREM ExplorationsAreAccounted == ContextSpec => []ExplorationIsAccounted
<1>1. ContextInit => HuntInv
  BY HuntStarts DEF ContextInit
<1>2. HuntInv /\ [ContextNext]_contextVars => HuntInv'
  BY HuntKeeps
<1>3. HuntInv => ExplorationIsAccounted
  BY DEF HuntInv, Reasoned, NotEmptyHanded, StopIsTrue, ExplorationIsAccounted
<1> QED
  BY <1>1, <1>2, <1>3, PTL DEF ContextSpec

============================================================================
