------------------------------- MODULE Retention -------------------------------
(***************************************************************************)
(* What becomes of a tool's output in a session: the pipeline every result *)
(* passes (installToolOutputPipeline in src/index.ts, src/rtk/), the store *)
(* of the bytes behind a reference (src/context/artifacts.ts), the tool    *)
(* that reads one back, and /compact-refs (src/commands/context.ts over    *)
(* src/context/compaction.ts).                                             *)
(*                                                                         *)
(* An output is a text, known by the facts the rules look at.  A store     *)
(* belongs to one activation of the extension: the next one, on the same   *)
(* session, has its own.  The session a host gives to /compact-refs is the *)
(* one whose messages are here; Pi's sessions are external, and its own    *)
(* compaction, which writes a summary of its model's, is left out.         *)
(***************************************************************************)
EXTENDS Integers, FiniteSets, Sequences, SequencesExt

CONSTANTS
  Outputs,   \* the texts a tool prints: [n, large, loud, long, structured, banded, gone]
  Tools,     \* the tools with output, among "execute", "read" and "artifact"
  Calls,     \* the calls that may run beside each other
  Settings,  \* what the configuration may say: [mode, policy]
  Batches,   \* what a host may hand to compact: sequences of items
  Loads,     \* what a prompt may carry: [files, unresolved, rest, ceiling]
  MaxEntries, MaxCompactions, MaxStarts

ASSUME RetentionAssumption ==
  /\ \A items \in Batches : DOMAIN items \subseteq Nat
  /\ Loads \subseteq [files : Nat, unresolved : Nat, rest : Nat, ceiling : Nat]

VARIABLES
  setting,   \* the configuration's
  report,    \* the recorded measurement, "improved" or "no_benefit"
  calling,   \* [Calls -> [at, tool, of, rule]]: the results being decided
  branch,    \* the session's entries, messages and compactions
  store,     \* what is stored: [home, kind, of]
  activation,
  compacted, \* what compact was last given and made of it
  prompt     \* the lists of the last prompt's working state

keepVars == <<setting, report, calling, branch, store, activation, compacted, prompt>>

----------------------------------------------------------------- (* blocks *)

\* A block as the model sees it: whole, or with a reference to the bytes.
Block(id, who, text, form, kind) ==
  [id |-> id, who |-> who, of |-> text, form |-> form, kind |-> kind, home |-> activation]

Message(block) == [type |-> "message", block |-> block]

Stored(b) == [home |-> b.home, kind |-> b.kind, of |-> b.of] \in store

Compactions == {i \in DOMAIN branch : branch[i].type = "compaction"}

Latest == CHOOSE i \in Compactions : \A j \in Compactions : j <= i

\* The messages that are whole in the context: those from the kept one on.
Live ==
  LET from == IF Compactions = {} THEN 1 ELSE branch[Latest].kept
  IN {i \in DOMAIN branch : i >= from /\ branch[i].type = "message"}

Carried == IF Compactions = {} THEN {} ELSE branch[Latest].summary

Visible == Carried \union {branch[i].block : i \in Live}

-------------------------------------------------------------- (* reduction *)

\* An experiment's arm hangs on a task's name, and the pipeline gives none.
ArmOf == "off"

\* The measurement decides where the configuration does not; anything but a
\* recorded improvement is "auto".
ModeOf ==
  IF setting.mode # "unset" THEN setting.mode
  ELSE IF report = "improved" THEN "on" ELSE "auto"

Effective == IF ModeOf = "experiment" THEN ArmOf ELSE ModeOf

\* Machine-readable output, and that of a tool that prints no log.
Structured(text, tool) == text.structured \/ tool # "execute"

Ambiguous(text) == Effective = "auto" /\ text.loud /\ text.banded

DecideReduction(text, tool) ==
  /\ text.loud
  /\ Effective = "on" \/ (~Structured(text, tool) /\ text.long)

\* The raw bytes go to the store first: always when they are many.
Captured(text, tool) ==
  IF text.large THEN [form |-> "excerpt", stored |-> {[home |-> activation, kind |-> tool, of |-> text]}]
  ELSE [form |-> "whole", stored |-> {}]

Idle == [at |-> "idle", tool |-> "none", of |-> 0, rule |-> FALSE]

Shows(text, tool, form) == branch' = Append(branch, Message(Block(Len(branch) + 1, "tool", text, form, tool)))

\* The reducer starts; what it may cut is in the store before.
Reduces(c, text, tool) ==
  /\ calling' = [calling EXCEPT ![c] = [at |-> "reducing", tool |-> tool, of |-> text, rule |-> TRUE]]
  /\ store' = store \union {[home |-> activation, kind |-> tool, of |-> text]}
  /\ UNCHANGED branch

KeepsRaw(c, text, tool) ==
  /\ Shows(text, tool, Captured(text, tool).form)
  /\ calling' = [calling EXCEPT ![c] = Idle]
  /\ store' = store \union Captured(text, tool).stored

\* A tool's result, or what the artifact tool read.
ReduceToolOutput(c, text, tool) ==
  IF Effective # "off" /\ Ambiguous(text) /\ setting.policy
  THEN /\ calling' = [calling EXCEPT ![c] = [at |-> "asked", tool |-> tool, of |-> text, rule |-> DecideReduction(text, tool)]]
       /\ store' = store \union Captured(text, tool).stored
       /\ UNCHANGED branch
  ELSE IF Effective # "off" /\ DecideReduction(text, tool) THEN Reduces(c, text, tool)
  ELSE KeepsRaw(c, text, tool)

Room == Cardinality(DOMAIN branch \ Compactions) + Cardinality({c \in Calls : calling[c].at # "idle"}) < MaxEntries

ToolEnds(c, tool, text) ==
  /\ calling[c].at = "idle" /\ Room
  /\ ReduceToolOutput(c, text, tool)
  /\ UNCHANGED <<setting, report, activation, compacted, prompt>>

\* Only "reduce" is taken from the site; whatever else it says, the rule stands.
SiteAnswers(c) ==
  /\ calling[c].at = "asked"
  /\ \E reduce \in {TRUE, calling[c].rule} :
       IF reduce THEN Reduces(c, calling[c].of, calling[c].tool) ELSE KeepsRaw(c, calling[c].of, calling[c].tool)
  /\ UNCHANGED <<setting, report, activation, compacted, prompt>>

\* Mutant: no timer, and the reducer of a large output never exits.
ReducerHangs(c) ==
  /\ calling[c].at = "reducing" /\ ~calling[c].of.large
  /\ \E form \in {"reduced", Captured(calling[c].of, calling[c].tool).form} : Shows(calling[c].of, calling[c].tool, form)
  /\ calling' = [calling EXCEPT ![c] = Idle]
  /\ UNCHANGED <<setting, report, store, activation, compacted, prompt>>

\* The reducer printed something shorter; or it was not there, failed, ran out of
\* time or reduced nothing, and the output is shown as the store shows it.
ReducerEnds(c) ==
  /\ calling[c].at = "reducing"
  /\ \E form \in {"reduced", Captured(calling[c].of, calling[c].tool).form} : Shows(calling[c].of, calling[c].tool, form)
  /\ calling' = [calling EXCEPT ![c] = Idle]
  /\ UNCHANGED <<setting, report, store, activation, compacted, prompt>>

\* The line that a reference is not stored.
Notice(b) ==
  [b.of EXCEPT !.large = FALSE, !.loud = FALSE, !.gone = Append(@, [kind |-> b.kind, home |-> b.home])]

\* The model asks for the bytes behind a reference it sees.  What it gets is a
\* tool's result like any other.
Expand(c) ==
  /\ calling[c].at = "idle" /\ Room
  /\ \E b \in Visible :
       /\ b.form \in {"excerpt", "reduced", "ref"}
       /\ IF [home |-> activation, kind |-> b.kind, of |-> b.of] \in store
          THEN ReduceToolOutput(c, b.of, "artifact")
          ELSE Shows(Notice(b), "artifact", "whole") /\ UNCHANGED <<calling, store>>
  /\ UNCHANGED <<setting, report, activation, compacted, prompt>>

------------------------------------------------------------- (* compaction *)

\* items: by their place, [id, kind, source, hash, superseded, stale, referenced,
\* active], of a host, or of a message.
Preserved(item) == item.kind \in {"requirement", "criterion"} \/ (item.kind = "error" /\ item.active)

\* The newest of a source that is not marked superseded.
NewestOf(items, source) ==
  LET mine == {i \in DOMAIN items : items[i].source = source /\ ~items[i].superseded}
  IN IF mine = {} THEN 0 ELSE CHOOSE i \in mine : \A j \in mine : j <= i

Superseded(items, i) ==
  /\ ~Preserved(items[i])
  /\ items[i].superseded \/ (items[i].source # 0 /\ items[i].kind = "tool_result" /\ NewestOf(items, items[i].source) # i)

\* The same content met before, in an item that is neither.
Duplicate(items, i) ==
  /\ ~Preserved(items[i]) /\ ~Superseded(items, i) /\ items[i].hash # {}
  /\ \E j \in DOMAIN items : j < i /\ items[j].hash = items[i].hash /\ ~Preserved(items[j]) /\ ~Superseded(items, j)

Stale(items, i) ==
  /\ ~Preserved(items[i]) /\ ~Superseded(items, i) /\ ~Duplicate(items, i)
  /\ items[i].kind = "evidence" /\ items[i].stale

ClassifyCandidates(items) ==
  LET Those(Is(_, _)) == {i \in DOMAIN items : Is(items, i)} IN
  [reduced   |-> Those(Superseded) \union Those(Duplicate),
   gone      |-> {i \in Those(Stale) : ~items[i].referenced},
   undecided |-> {i \in Those(Stale) : items[i].referenced}]

\* The retention question is answered for all of the undecided or for none.
RetentionReplies(undecided) == {{}} \union (IF setting.policy THEN SUBSET undecided ELSE {})

\* Mutant: the newest duplicate is kept and no copy is stored.
CompactedUnstored(items, drop) ==
  LET g == ClassifyCandidates(items) IN
  [items |-> items, kept |-> DOMAIN items \ (g.reduced \union g.gone \union drop), refs |-> drop, gone |-> g.gone \union g.reduced]

\* What is reduced leaves a reference; stale evidence nothing refers to, none.
Compact(items, drop) ==
  LET g == ClassifyCandidates(items) IN
  [items |-> items, kept |-> DOMAIN items \ (g.reduced \union g.gone \union drop), refs |-> g.reduced \union drop, gone |-> g.gone]

NoCompaction == [items |-> <<>>, kept |-> {}, refs |-> {}, gone |-> {}]

HostCompacts(items) ==
  /\ compacted = NoCompaction
  /\ \E drop \in RetentionReplies(ClassifyCandidates(items).undecided) : compacted' = Compact(items, drop)
  /\ UNCHANGED <<setting, report, calling, branch, store, activation, prompt>>

\* A whole result's text is its content; what the pipeline wrote is of its call.
ItemOf(b) ==
  [id |-> b.id, kind |-> IF b.who = "tool" THEN "tool_result" ELSE "requirement", source |-> IF b.who = "tool" THEN b.id ELSE 0,
   hash |-> IF b.who = "tool" /\ b.form = "whole" THEN {b.of} ELSE {[n |-> b.id]},
   superseded |-> FALSE, stale |-> FALSE, referenced |-> FALSE, active |-> FALSE]

\* A message's block as /compact-refs hands it on: reduced to a reference.
Referred(b) == [b EXCEPT !.form = "ref", !.kind = "context", !.home = activation]

\* Mutant: the summary of an earlier compaction is not carried on.
SummaryAnew(result) ==
  {branch[i].block : i \in result.kept} \union {Referred(branch[i].block) : i \in result.refs}

\* The earlier summary, the kept blocks whole, and those reduced by reference.
Summary(result) ==
  Carried \union {branch[i].block : i \in result.kept} \union {Referred(branch[i].block) : i \in result.refs}

\* /compact-refs: what comes before the last message is reduced; it refuses when
\* nothing is.
CompactRefs ==
  LET before == {i \in Live : \E j \in Live : i < j}
      result == Compact([i \in before |-> ItemOf(branch[i].block)], {})
  IN /\ Cardinality(Compactions) < MaxCompactions
     /\ result.refs # {}
     /\ \E last \in Live \ before :
          branch' = Append(branch, [type |-> "compaction", summary |-> Summary(result), kept |-> last])
     /\ store' = store \union {[home |-> activation, kind |-> "context", of |-> branch[i].block.of] : i \in result.refs}
     /\ UNCHANGED <<setting, report, calling, activation, compacted, prompt>>

--------------------------------------------------------- (* working state *)

\* The lists are cut to fewer and fewer entries, with a line for the rest, until
\* the record fits or three are left.  The first record names no files at all:
\* the caller's empty list stands for the session's, until a cut reads them.
Cuts == {24, 12, 6, 3}

BuildWorkingState(load) ==
  LET Cut(n, k) == IF n <= k THEN n ELSE k + 1
      CutTo(k)  == [files |-> Cut(load.files, k), unresolved |-> Cut(load.unresolved, k)]
      Fits(s)   == s.files + s.unresolved + load.rest <= load.ceiling
      uncut     == [files |-> 0, unresolved |-> load.unresolved]
      fitting   == {k \in Cuts : Fits(CutTo(k))}
  IN IF Fits(uncut) THEN uncut ELSE CutTo(IF fitting = {} THEN 3 ELSE Max(fitting))

Assembles(load) ==
  /\ prompt' = [load |-> load, state |-> BuildWorkingState(load)]
  /\ prompt' # prompt
  /\ UNCHANGED <<setting, report, calling, branch, store, activation, compacted>>

------------------------------------------------------------------ (* steps *)

KeepInit ==
  /\ setting \in Settings /\ report = "no_benefit"
  /\ calling = [c \in Calls |-> Idle]
  /\ branch = <<>> /\ store = {} /\ activation = 1 /\ compacted = NoCompaction
  /\ prompt = [load |-> [files |-> 0, unresolved |-> 0, rest |-> 0, ceiling |-> 0], state |-> [files |-> 0, unresolved |-> 0]]

UserSays ==
  /\ Room
  /\ branch' = Append(branch, Message(Block(Len(branch) + 1, "user", [n |-> 0], "whole", "none")))
  /\ UNCHANGED <<setting, report, calling, store, activation, compacted, prompt>>

\* Solving and cost per success of the two arms decide the verdict.
VerdictFromArms(off, on) ==
  IF off.solved > 0 /\ on.solved >= off.solved /\ on.cost < off.cost THEN "improved" ELSE "no_benefit"

\* A measurement of the two arms replaces the report.  Where there is none yet, or
\* its write was cut short, it reads like one of no benefit.
Measured ==
  /\ setting.mode = "unset" /\ report = "no_benefit"
  /\ report' \in {VerdictFromArms(off, on) : off, on \in [solved : 0..1, cost : 1..2]}
  /\ UNCHANGED <<setting, calling, branch, store, activation, compacted, prompt>>

\* The process ends and another resumes the session, with a store of its own.
Restarts ==
  /\ activation < MaxStarts
  /\ activation' = activation + 1 /\ calling' = [c \in Calls |-> Idle]
  /\ UNCHANGED <<setting, report, branch, store, compacted, prompt>>

KeepEnds == \E c \in Calls : SiteAnswers(c) \/ ReducerEnds(c)

KeepActs ==
  \/ \E c \in Calls : \/ \E tool \in Tools, text \in Outputs : ToolEnds(c, tool, text)
                      \/ Expand(c)
  \/ UserSays \/ CompactRefs \/ Measured \/ Restarts

------------------------------------------------------------- (* properties *)

\* Whatever was reduced, and however often the session was compacted, each
\* of its messages is before the model, whole or by a reference; what the user
\* said is whole; and the bytes of every reference before the model are stored,
\* in its own activation (reduceToolOutput, compact, /compact-refs and the
\* artifact tool).
NothingBeyondRecall ==
  /\ \A i \in DOMAIN branch :
       branch[i].type = "message" => \E b \in Visible : b.id = i /\ (b.form = "whole" \/ b.who = "tool")
  /\ \A b \in Visible : b.form = "whole" \/ Stored(b)
  /\ \A c \in Calls : calling[c].at = "reducing" => [home |-> activation, kind |-> calling[c].tool, of |-> calling[c].of] \in store

\* What compact was given is inline, or by reference, or stale evidence nothing
\* refers to; a requirement, a criterion and an open error are inline; and the
\* newest result of a source is inline unless an item with its content came
\* before (compact in src/context/compaction.ts).
CompactionPreserves ==
  LET items == compacted.items IN
  /\ compacted.kept \union compacted.refs \union compacted.gone = DOMAIN items
  /\ \A i \in DOMAIN items :
       /\ Preserved(items[i]) => i \in compacted.kept
       /\ i \in compacted.gone => items[i].kind = "evidence" /\ items[i].stale /\ ~items[i].referenced
       /\ /\ i \in compacted.refs /\ items[i].kind = "tool_result" /\ ~items[i].superseded
          /\ \A j \in DOMAIN items : j > i => items[j].source # items[i].source
          => \E j \in DOMAIN items : j < i /\ items[j].hash = items[i].hash

\* The working state fits its ceiling, or its lists were cut to three entries and
\* a line (buildWorkingState in src/context/working-state.ts).
StateIsBounded ==
  LET s == prompt.state IN
  s.files + s.unresolved + prompt.load.rest <= prompt.load.ceiling \/ (s.files <= 4 /\ s.unresolved <= 4)
=============================================================================
