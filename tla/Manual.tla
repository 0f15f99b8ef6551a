-------------------------------- MODULE Manual --------------------------------
(***************************************************************************)
(* Who decides the model and the thinking level: the operator's pins       *)
(* (src/compiler/pins.ts), /model (src/commands/model.ts), /route reset,   *)
(* /effort and the thinking-level event of src/index.ts, and the file a    *)
(* restart comes back to.                                                  *)
(*                                                                         *)
(* What the handlers work on is one record:                                *)
(*   pi       the model and level Pi's session is at                       *)
(*   pins     [model, previous, effort]                                    *)
(*   applied  the level LeanPi last left Pi at, and on which model         *)
(*   marker   the level LeanPi installed and has seen no event of          *)
(*   file     <home>/.leanpi/model.json: [model, effort]                   *)
(* Pi is external.  Its events are delivered the way the comments and      *)
(* tests take them to be: the event of a setModel before its promise       *)
(* resolves, the event of a setThinkingLevel once the handler that called  *)
(* it is done.                                                             *)
(***************************************************************************)
EXTENDS Naturals

CONSTANTS
  Models,    \* the models Pi can run
  Levels,    \* the thinking levels
  Default,   \* Default[m]: the level Pi gives a model it switches to
  Clamp,     \* Clamp[m][level]: the step of model m that Pi keeps when asked for a level
  Remember   \* remember_manual_model

None == "none"

ASSUME ManualAssumption ==
  /\ None \notin Models \union Levels
  /\ Default \in [Models -> Levels] /\ Clamp \in [Models -> [Levels -> Levels]]
  /\ Remember \in BOOLEAN

At(model, level) == [model |-> model, level |-> level]
Unpinned == [model |-> None, previous |-> None, effort |-> None]
NoFile   == [model |-> None, effort |-> None]

------------------------------------------------------------- (* the file *)

\* Mutant: a model pin is saved on its own.
RememberModel(m, model, effort) ==
  [m EXCEPT !.file = IF model = None THEN NoFile ELSE IF Remember THEN [model |-> model, effort |-> None] ELSE @]

RememberManual(m, model, effort) ==
  LET picks == [model |-> model, effort |-> effort] IN
  [m EXCEPT !.file = IF picks = NoFile THEN NoFile ELSE IF Remember THEN picks ELSE @]

RememberPins(m) == RememberManual(m, m.pins.model, m.pins.effort)

\* An activation: nothing but the file, and not even that when opted out.
Restarted(m, pi) ==
  [pi |-> pi, applied |-> At(None, None), marker |-> None, file |-> m.file,
   pins |-> IF Remember THEN [Unpinned EXCEPT !.model = m.file.model, !.effort = m.file.effort]
                         ELSE Unpinned]

----------------------------------------------------- (* the thinking level *)

PinEffort(m, level) == RememberPins([m EXCEPT !.pins.effort = level])

\* thinking_level_select: Pi's level was `previous` before.
ThinkingLevelSelect(m, previous) ==
  LET own  == m.marker = m.pi.level
      base == IF m.applied.model = None THEN At(m.pi.model, previous) ELSE m.applied
      seen == [m EXCEPT !.applied = base, !.marker = None]
  IN  IF own THEN seen
      ELSE IF base.model # m.pi.model THEN [seen EXCEPT !.applied = m.pi]
      ELSE PinEffort(seen, m.pi.level)

\* Pi changes its model, and with it the level; whoever asked.
SetModel(m, model) ==
  LET switched == [m EXCEPT !.pi = At(model, Default[model])] IN
  IF model = m.pi.model THEN m
  ELSE IF switched.pi.level = m.pi.level THEN switched
  ELSE ThinkingLevelSelect(switched, m.pi.level)

\* The marker an install leaves: none if the level was that already.
NoteInstalled(before, after) == IF before # after THEN after ELSE None

\* What Pi holds when it is asked for a level: a step its model has, and a
\* model without reasoning has one (a CLI's model, a backend that says so).
HeldLevel(m, level) == Clamp[m.pi.model][level]

Install(m, level) ==
  LET held == HeldLevel(m, level) IN
  [m EXCEPT !.pi.level = held, !.marker = NoteInstalled(m.pi.level, held)]

\* The event of what a handler installed, after the handler.
Delivered(m, previous) == IF m.pi.level # previous THEN ThinkingLevelSelect(m, previous) ELSE m

\* The operator picks a level, in Pi's selector or by /effort, which pins what
\* Pi kept of it, also when it was that already.
PickLevel(m, level) == Delivered([m EXCEPT !.pi.level = HeldLevel(m, level)], m.pi.level)

Effort(m, level) ==
  LET kept == HeldLevel(m, level) IN
  Delivered(PinEffort([m EXCEPT !.pi.level = kept], kept), m.pi.level)

------------------------------------------------------------ (* /model, /route *)

\* /model <pick> up to its await, and after it.
PinStarts(m, model) ==
  SetModel([m EXCEPT !.pins.previous = IF m.pins.model = None THEN m.pi.model ELSE @], model)

PinModel(m, model) == RememberPins([m EXCEPT !.pins.model = model])

\* /model auto: the pin goes first, then Pi goes back.
ClearPin(m) == [m EXCEPT !.pins.model = None, !.pins.previous = None]

Return(m, previous) ==
  LET back == IF previous = None THEN m ELSE SetModel(m, previous) IN
  RememberManual(back, None, back.pins.effort)

\* /route reset: the level goes back to the router, a model pin stays.
RouteReset(m) == RememberPins([m EXCEPT !.pins.effort = None, !.marker = None])

\* session_start, on a start or a switch: Pi goes to the pin, then to the
\* effort that is pinned once it has.
SessionStart(m) ==
  LET kept == IF m.pins.model # None /\ m.pins.previous = None THEN [m EXCEPT !.pins.previous = m.pi.model] ELSE m
      on   == IF kept.pins.model = None THEN kept ELSE SetModel(kept, kept.pins.model)
  IN  IF on.pins.effort = None THEN on
      ELSE Delivered(Install(on, on.pins.effort), on.pi.level)

\* A switch of session keeps the Manual pins and forgets the marker.
SessionSwitch(m) == SessionStart([m EXCEPT !.marker = None])

ManualOK(m) ==
  /\ m.pi \in [model : Models, level : Levels]
  /\ m.pins \in [model : Models \union {None}, previous : Models \union {None}, effort : Levels \union {None}]
  /\ m.applied \in [model : Models \union {None}, level : Levels \union {None}]
  /\ m.marker \in Levels \union {None}
  /\ m.file \in [model : Models \union {None}, effort : Levels \union {None}]

==============================================================================
