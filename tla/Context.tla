-------------------------------- MODULE Context --------------------------------
(***************************************************************************)
(* What of the repository and of the session comes before the model: the   *)
(* exploration of a turn, and the outputs a session keeps.  They share     *)
(* nothing but the kind of store their references point into, so a         *)
(* behaviour is about one of the parts (about).                            *)
(***************************************************************************)
EXTENDS Exploration, Retention

VARIABLE about

contextVars == <<huntVars, keepVars, about>>

ContextInit ==
  /\ HuntInit /\ KeepInit
  /\ about \in {"exploration", "session", "compaction", "prompt"}
  /\ about \in {"exploration", "prompt"} => setting = CHOOSE s \in Settings : TRUE

Exploring == about = "exploration" /\ HuntNext /\ UNCHANGED <<keepVars, about>>

\* The outputs of a session, and what is made of them.
Keeping == about = "session" /\ KeepActs /\ UNCHANGED <<huntVars, about>>

Ending == about = "session" /\ KeepEnds /\ UNCHANGED <<huntVars, about>>

Compacting == about = "compaction" /\ (\E items \in Batches : HostCompacts(items)) /\ UNCHANGED <<huntVars, about>>

Prompting == about = "prompt" /\ (\E load \in Loads : Assembles(load)) /\ UNCHANGED <<huntVars, about>>

ContextNext == Exploring \/ Keeping \/ Ending \/ Compacting \/ Prompting

\* A question is answered or runs into its own deadline, a reducer ends or is
\* killed at its timeout: the control plane's deadlines and the timer of
\* spawnReducerProcess (src/rtk/reducer.ts).
Owed ==
  \/ about = "exploration" /\ HuntAnswers /\ UNCHANGED <<keepVars, about>>
  \/ Ending

ContextSpec == ContextInit /\ [][ContextNext]_contextVars /\ WF_contextVars(Owed)

------------------------------------------------------------- (* properties *)

\* The selection of an exploration and its reason to stop.
ExplorationIsAccounted == about = "exploration" => SelectionIsAccounted /\ StopIsTrue

\* What a session's outputs, compactions and prompts keep before the model.
NothingIsForgotten ==
  CASE about = "session"    -> NothingBeyondRecall
    [] about = "compaction" -> CompactionPreserves
    [] about = "prompt"     -> StateIsBounded
    [] OTHER                -> TRUE

\* An exploration ends, and no tool's result waits for its reducer for ever:
\* neither is on a path that something else's silence could block (explore's
\* round ceiling, and FR-111 in src/rtk/reducer.ts).
ContextSettles ==
  []<>(phase \in {"idle", "over"} /\ \A c \in Calls : calling[c].at = "idle")
=============================================================================
