------------------------------- MODULE Session -------------------------------
(***************************************************************************)
(* A session as Pi drives it (src/index.ts, installSessionHooks and        *)
(* installTurnHooks): the turn's hooks from input to agent_settled, the    *)
(* quota fallback between them, the operator's commands at any moment, and *)
(* the turn's recap.                                                       *)
(*                                                                         *)
(* The hooks await the lanes and Pi; what the operator does in between is  *)
(* read or lost by what they do next.  The recap shares with the rest only *)
(* when a prompt comes and a turn settles, and a behaviour concerns one of *)
(* the two (`about`), so that neither multiplies the other's states.       *)
(***************************************************************************)
EXTENDS Manual, Recap

CONSTANTS
  Home,      \* the model and level Pi starts at
  Picks,     \* the models /model may be given
  FullName,  \* FullName[a]: the id a vendor CLI's alias turns out to run
  Chain      \* Chain[class]: the models of the class's fallback ladder

\* A ladder has a model of its own class to fall back to.
ASSUME SessionAssumption ==
  /\ Home \in [model : Models, level : Levels] /\ Picks \subseteq Models
  /\ DOMAIN FullName \subseteq Models /\ \A a \in DOMAIN FullName : FullName[a] \in Models
  /\ \A class \in DOMAIN Chain : 1 \in DOMAIN Chain[class] /\ \A i \in DOMAIN Chain[class] : Chain[class][i] \in Models

VARIABLES
  about,    \* "recap", "own" (LeanPi owns unpinned turns) or "native"
  manual,   \* the record of module Manual
  limited,  \* the backends in cooldown; a model is known by its backend
  run,      \* the turn: [phase, class, contract, pending, pinned, retried,
            \* backend, billed]
  command,  \* the command that awaits Pi: [kind, model]
  handed    \* /route reset handed a picked level back; since then none was picked
            \* and Pi has stayed on its model (a history variable)

modelVars == <<manual, limited, run, command, handed>>
sessionVars == <<about, modelVars, recapVars>>

Classes == DOMAIN Chain
NoRun   == [phase |-> "idle", class |-> "balanced", contract |-> FALSE, pending |-> FALSE,
            pinned |-> FALSE, retried |-> FALSE, backend |-> None, billed |-> 0]
NoCommand == [kind |-> None, model |-> None]

Started(file) ==
  SessionStart(Restarted([pi |-> Home, applied |-> At(None, None), marker |-> None, file |-> file, pins |-> Unpinned], Home))

SessionInit ==
  /\ about \in {"recap", "own", "native"}
  /\ manual = Started(NoFile)
  /\ limited = {} /\ run = NoRun /\ command = NoCommand /\ handed = FALSE
  /\ RecapInit

------------------------------------------------------------- (* the turn *)

\* LeanPi owns a turn of an all-CLI configuration unless a model is pinned.
OwnsTurn == about = "own" /\ manual.pins.model = None

\* The first model of the class's ladder that is not limited, else its own.
ResolveRoleAvoiding(class, unavailable) ==
  LET first(i) == /\ Chain[class][i] \notin unavailable
                  /\ \A j \in 1..i-1 : Chain[class][j] \in unavailable
  IN  IF \E i \in DOMAIN Chain[class] : first(i)
      THEN Chain[class][CHOOSE i \in DOMAIN Chain[class] : first(i)]
      ELSE Chain[class][1]

\* input, when LeanPi owns the turn: the lanes are the turn.
OwnTurn ==
  /\ run.phase = "idle" /\ OwnsTurn
  /\ \E contract \in BOOLEAN : run' = [NoRun EXCEPT !.phase = "lanes", !.contract = contract]
  /\ UNCHANGED <<manual, limited>>

\* One record if a task was compiled, whether the lanes returned or threw.
OwnTurnEnds ==
  /\ run.phase = "lanes"
  /\ run' = [run EXCEPT !.phase = "idle", !.billed = IF run.contract THEN 1 ELSE 0]
  /\ UNCHANGED <<manual, limited>>

\* A level Pi is at that LeanPi did not leave it at was picked by hand.
Held == manual.applied.model = manual.pi.model /\ manual.applied.level # manual.pi.level

\* before_agent_start up to the lanes; a pinned turn compiles no task.
BeforeAgentStart ==
  /\ run.phase = "idle" /\ ~OwnsTurn
  /\ manual' = IF Held THEN PinEffort(manual, manual.pi.level) ELSE manual
  /\ \E class \in Classes, contract \in BOOLEAN :
       /\ contract => manual.pins.model = None
       /\ ~contract => class = "balanced"
       /\ run' = [NoRun EXCEPT !.phase = "compiling", !.class = class, !.contract = contract]
  /\ UNCHANGED limited

\* The level the turn asks Pi for: the operator's, else the compiled one if any.
TurnLevels(m) ==
  IF m.pins.effort # None THEN {m.pins.effort}
  ELSE IF run.contract THEN Levels \union {None} ELSE {None}

PinnedNow(m) == m.pins.model # None

\* The rest of it: Pi is put on the pinned or the routed model, if it takes
\* it, and on the turn's level.
Installed ==
  /\ run.phase = "compiling"
  /\ LET installs == ~OwnsTurn /\ (PinnedNow(manual) \/ run.contract)
         model    == IF PinnedNow(manual) THEN manual.pins.model ELSE ResolveRoleAvoiding(run.class, limited)
     IN  /\ \E taken \in BOOLEAN :
              LET on == IF installs /\ taken THEN SetModel(manual, model) ELSE manual IN
              \E level \in IF installs THEN TurnLevels(on) ELSE {None} :
                LET set  == IF level = None THEN on ELSE Install(on, level)
                    left == IF OwnsTurn THEN set ELSE [set EXCEPT !.applied = set.pi]
                IN  /\ manual' = Delivered(left, on.pi.level)
                    /\ run' = [run EXCEPT !.phase = "running", !.pending = run.contract \/ ~OwnsTurn,
                                          !.pinned = PinnedNow(manual),
                                          !.backend = IF installs THEN model ELSE on.pi.model]
  /\ UNCHANGED limited

\* agent_end: a pinned alias turned out to run a model of another name.
AgentEnd ==
  /\ run.phase = "running"
  /\ run' = [run EXCEPT !.phase = "ended"]
  /\ \E learned \in BOOLEAN :
       manual' = IF learned /\ manual.pins.model \in DOMAIN FullName
                 THEN LET full == FullName[manual.pins.model] IN
                      SetModel(RememberPins([manual EXCEPT !.pins.model = full]), full)
                 ELSE manual
  /\ UNCHANGED limited

\* Mutant: one limit after another.
EveryTime(attempt) == ~attempt.pinned /\ manual.pins.model = None

\* Only a turn no one pinned, then or now, and only once.
MayFallBack(attempt) == ~attempt.pinned /\ manual.pins.model = None /\ ~attempt.retried

\* agent_before_settle: a quota refusal is retried on a backend not limited.
BeforeSettle ==
  /\ run.phase = "ended"
  /\ \E refused, taken \in BOOLEAN :
       LET limit  == refused /\ run.pending
           marked == IF limit /\ ~run.pinned THEN limited \union {run.backend} ELSE limited
           model  == ResolveRoleAvoiding(run.class, marked)
           again  == limit /\ MayFallBack(run) /\ model # run.backend /\ model \notin marked /\ taken
       IN  /\ limited' = marked
           /\ manual' = IF again THEN SetModel(manual, model) ELSE manual
           /\ run' = IF again THEN [run EXCEPT !.phase = "running", !.retried = TRUE, !.backend = model]
                      ELSE [run EXCEPT !.phase = "settling"]

\* agent_settled: one record, for every attempt of the turn.
AgentSettled ==
  /\ run.phase = "settling"
  /\ run' = [NoRun EXCEPT !.contract = run.contract,
                          !.billed = run.billed + IF run.pending /\ run.contract THEN 1 ELSE 0]
  /\ UNCHANGED <<manual, limited>>

CooldownEnds ==
  /\ \E backend \in limited : limited' = limited \ {backend}
  /\ UNCHANGED <<manual, run>>

Hooks ==
  /\ \/ OwnTurn \/ OwnTurnEnds \/ BeforeAgentStart \/ Installed
     \/ AgentEnd \/ BeforeSettle \/ AgentSettled \/ CooldownEnds
  /\ UNCHANGED command

--------------------------------------------------------- (* the operator *)

Pin ==
  /\ command = NoCommand
  /\ \E model \in Picks :
       manual' = PinStarts(manual, model) /\ command' = [kind |-> "pin", model |-> model]

Automatic ==
  /\ command = NoCommand
  /\ manual' = ClearPin(manual)
  /\ command' = [kind |-> "auto", model |-> manual.pins.previous]

CommandEnds ==
  /\ command # NoCommand /\ command' = NoCommand
  /\ manual' = IF command.kind = "pin" THEN PinModel(manual, command.model) ELSE Return(manual, command.model)

Picking ==
  /\ command = NoCommand /\ handed' = FALSE
  /\ \E level \in Levels :
       \/ HeldLevel(manual, level) # manual.pi.level /\ manual' = PickLevel(manual, level)
       \/ manual' = Effort(manual, level)

HandBack ==
  /\ command = NoCommand /\ handed' = (handed \/ manual.pins.effort # None)
  /\ manual' = RouteReset(manual)

\* /new, /resume, /fork, between turns.
Switch ==
  /\ command = NoCommand
  /\ run.phase = "idle" /\ manual' = SessionSwitch(manual)
  /\ handed' = FALSE

\* The process ends at any moment and starts again.
Restart ==
  /\ manual' = Started(manual.file) /\ command' = NoCommand
  /\ limited' = {} /\ run' = NoRun /\ handed' = FALSE

Turns ==
  \/ Hooks /\ handed' = (handed /\ manual'.pi.model = manual.pi.model)
  \/ (Pin \/ Automatic \/ CommandEnds) /\ handed' = FALSE /\ UNCHANGED <<limited, run>>
  \/ (Picking \/ HandBack \/ Switch) /\ UNCHANGED <<limited, run, command>>
  \/ Restart

SessionNext ==
  /\ UNCHANGED about
  /\ \/ about = "recap" /\ RecapNext /\ UNCHANGED modelVars
     \/ about # "recap" /\ Turns /\ UNCHANGED recapVars

SessionSpec == SessionInit /\ [][SessionNext]_sessionVars

------------------------------------------------------------- (* claims *)

SessionTypeOK ==
  /\ ManualOK(manual) /\ limited \subseteq Models
  /\ run.phase \in {"idle", "lanes", "compiling", "running", "ended", "settling"}
  /\ command.model \in Models \union {None} /\ handed \in BOOLEAN

\* With no command under way, what a restart comes back to is the Manual pins
\* in force (src/commands/model.ts:107-121 and every place that sets a pin).
RestartKeepsManual ==
  /\ SessionTypeOK
  /\ Remember /\ command = NoCommand =>
       manual.file = [model |-> manual.pins.model, effort |-> manual.pins.effort]

\* A level handed back by /route reset is the router's again: while Pi stays on
\* its model and the operator picks none, none is pinned
\* (src/compiler/pins.ts:46-50, src/commands/route.ts:113-122).
HandedBackStaysBack == handed => manual.pins.effort = None

\* A pinned turn is not moved by the harness, but to its alias's own name.
PinnedTurnStays ==
  run.phase \in {"ended", "settling"} /\ run.pinned /\ run' \notin {run, NoRun} =>
    manual'.pi = manual.pi

\* A second attempt is the turn's first, is off a backend that has just
\* refused, and is on one that is not known to.
FallbackIsFree ==
  run.phase = "ended" /\ run'.phase = "running" =>
    /\ ~run.retried /\ ~run.pinned /\ manual.pins.model = None
    /\ run.backend \in limited' /\ run'.backend \notin limited' /\ manual'.pi.model = run'.backend

\* A settled turn has one record if it compiled a task, whatever was retried.
BilledOnce ==
  run.phase # "idle" /\ run'.phase = "idle" /\ run' # NoRun =>
    run'.billed = IF run.contract THEN 1 ELSE 0

\* A turn the harness puts on its model runs at the pinned level, if one is, or at
\* the step that stands for it on the model the turn is on, not on the one it was
\* picked on: the switch of model, which resets the level, comes first.
RunsAtThePick ==
  run.phase = "compiling" /\ run'.phase = "running" /\ manual'.pins.effort # None
     /\ ~OwnsTurn /\ (run.contract \/ manual.pins.model # None) 
       => manual'.pi.level = HeldLevel(manual', manual'.pins.effort)

\* Together they are what a turn promises the operator (src/index.ts:1084-1183).
TurnKeepsItsPlace == [][PinnedTurnStays /\ RunsAtThePick /\ FallbackIsFree /\ BilledOnce]_sessionVars

==============================================================================
