-------------------------------- MODULE Recap --------------------------------
(***************************************************************************)
(* The turn recap (src/recap/index.ts, createRecap), the hooks that drive  *)
(* it (src/index.ts) and /recap.                                           *)
(*                                                                         *)
(* A turn is known by what was asked and done (its text).  The branches of *)
(* a session's tree are sequences of entries: "turn" for a completed pair  *)
(* of Pi's own transcript, "input" and "recap" for the entries the         *)
(* controller appends.  A run id is compared with the current one only, so *)
(* a call in flight records whether the id it took is still current.       *)
(***************************************************************************)
EXTENDS SequencesExt

CONSTANTS
  Texts,      \* what a turn may have asked and done
  Branches,   \* the branches a session can be on
  MaxEntries  \* entries of a branch (a bound)

Nothing == "nothing"   \* no turn, no cached recap, no widget

ASSUME RecapAssumption == MaxEntries \in Nat /\ Nothing \notin Texts

VARIABLES
  tree,      \* the entries of each branch
  here,      \* the active branch
  recap,     \* [enabled, lastTurn, cache, shown]
  calls,     \* the generations in flight: [text, live]
  turning,   \* a turn runs
  late       \* /recap was typed while a turn ran (a history variable)

recapVars == <<tree, here, recap, calls, turning, late>>

RecapInit ==
  /\ tree = [b \in Branches |-> <<>>] /\ here \in Branches
  /\ recap = [enabled |-> TRUE, lastTurn |-> Nothing, cache |-> Nothing, shown |-> Nothing]
  /\ calls = {} /\ turning = FALSE /\ late = FALSE

Entry(kind, text) == [kind |-> kind, text |-> text]

\* Mutant: hiding the widget leaves the call in flight its id.
Unbumped(inFlight) == inFlight

\* Taking the next run id makes every call in flight stale.
Bumped(inFlight) == {[c EXCEPT !.live = FALSE] : c \in inFlight}

Hidden == [recap EXCEPT !.shown = Nothing]

\* The last entry of one of the kinds, as its index; 0 if there is none.
LastOf(entries, kinds) == Max({0} \union {i \in DOMAIN entries : entries[i].kind \in kinds})

\* The newest completed pair of the branch.
LatestCompletedTurn(entries) == LastOf(entries, {"turn"})

\* The newest entry of the controller's that is not older than that pair.
NewestSaved(entries) ==
  LET at == LastOf(entries, {"input", "recap"})
  IN  IF at < LatestCompletedTurn(entries) THEN 0 ELSE at

\* What a session or a branch shows when it becomes the active one.
Restored(r, entries) ==
  LET saved == NewestSaved(entries)
      pair  == LatestCompletedTurn(entries)
  IN  IF saved # 0 /\ entries[saved].kind = "recap"
      THEN [r EXCEPT !.shown = entries[saved].text, !.cache = entries[saved].text]
      ELSE IF saved # 0 \/ pair # 0
      THEN [r EXCEPT !.lastTurn = entries[IF saved # 0 THEN saved ELSE pair].text, !.cache = Nothing]
      ELSE r

Reset(r) == [r EXCEPT !.lastTurn = Nothing, !.cache = Nothing, !.shown = Nothing]

Room(entries) == Len(entries) < MaxEntries

\* A prompt: the previous turn's recap is hidden before anything runs.
Prompted ==
  /\ ~turning /\ turning' = TRUE
  /\ recap' = Hidden /\ calls' = Bumped(calls)
  /\ UNCHANGED <<tree, here, late>>

\* turn(): off, it asks for nothing; else the call takes the next id.
Generate(text) == IF recap.enabled THEN Bumped(calls) \union {[text |-> text, live |-> TRUE]} ELSE calls

\* The turn ends.  Pi's own loop leaves the pair in the transcript, LeanPi's
\* leaves nothing there; a turn under a /model pin, and one that did not
\* complete, is not recorded.  The same ask and answer twice is one turn.
Settle ==
  /\ turning /\ turning' = FALSE
  /\ \E text \in Texts, native, recorded \in BOOLEAN :
       LET before == IF native THEN Append(tree[here], Entry("turn", text)) ELSE tree[here]
       IN  IF recorded /\ recap.lastTurn # text
           THEN /\ Room(before)
                /\ tree' = [tree EXCEPT ![here] = Append(before, Entry("input", text))]
                /\ recap' = [recap EXCEPT !.lastTurn = text]
                /\ calls' = Generate(text)
           ELSE /\ Len(before) <= MaxEntries
                /\ tree' = [tree EXCEPT ![here] = before]
                /\ UNCHANGED <<recap, calls>>
  /\ UNCHANGED <<here, late>>

\* A call answers, or fails; an answer under an older id is dropped.
Reply ==
  /\ \E c \in calls, parsed \in BOOLEAN :
       /\ calls' = calls \ {c}
       /\ IF c.live /\ parsed
          THEN /\ Room(tree[here])
               /\ recap' = [recap EXCEPT !.shown = c.text, !.cache = c.text]
               /\ tree' = [tree EXCEPT ![here] = Append(@, Entry("recap", c.text))]
          ELSE UNCHANGED <<tree, recap>>
  /\ UNCHANGED <<here, turning, late>>

\* /recap, also while a turn runs: the last turn again, else what is cached.
Regenerate ==
  /\ recap.enabled
  /\ IF recap.lastTurn # Nothing
     THEN calls' = Generate(recap.lastTurn) /\ UNCHANGED recap
     ELSE recap.cache # Nothing /\ recap' = [recap EXCEPT !.shown = recap.cache] /\ UNCHANGED calls
  /\ late' = (late \/ turning)
  /\ UNCHANGED <<tree, here, turning>>

SetEnabled ==
  /\ recap' = [recap EXCEPT !.enabled = ~@]
  /\ UNCHANGED <<tree, here, calls, turning, late>>

\* The operator moves to another branch, or starts one from where this one
\* began: the controller forgets, then reads the branch it is on.
Navigate ==
  /\ ~turning
  /\ \E b \in Branches :
       \/ here' = b /\ UNCHANGED tree
       \/ /\ b # here /\ here' = b
          /\ \E n \in 0..Len(tree[here]) :
               tree' = [tree EXCEPT ![b] = SubSeq(tree[here], 1, n)]
  /\ calls' = Bumped(calls)
  /\ recap' = Restored(Reset(recap), tree'[here'])
  /\ UNCHANGED <<turning, late>>

RecapNext == Prompted \/ Settle \/ Reply \/ Regenerate \/ SetEnabled \/ Navigate

-------------------------------------------------------------- (* claims *)

RecapTypeOK ==
  /\ here \in Branches
  /\ recap.enabled \in BOOLEAN
  /\ {recap.lastTurn, recap.cache, recap.shown} \subseteq Texts \union {Nothing}
  /\ \A b \in Branches : Len(tree[b]) <= MaxEntries /\ \A e \in ToSet(tree[b]) : e.text \in Texts
  /\ \A c \in calls : c.text \in Texts

\* What /recap would redo or replay.
Redone == IF recap.lastTurn # Nothing THEN recap.lastTurn ELSE recap.cache

OnThisBranch(text) == \E e \in ToSet(tree[here]) : e.kind # "recap" /\ e.text = text

\* No turn was recorded on this branch since this one was asked.
NewestOfThisBranch(text) ==
  \E i \in DOMAIN tree[here] :
     /\ tree[here][i] \in {Entry("turn", text), Entry("input", text)}
     /\ \A j \in i+1..Len(tree[here]) : tree[here][j].kind = "input" => tree[here][j].text = text

\* The recap on screen, and the one /recap would give, are of the branch the
\* session is on.  Unless /recap was typed while a turn ran, they are also of
\* its last recorded turn, and none is on screen while the next one runs
\* (src/recap/index.ts:335-480: the run id, clear, reset and restore).
RecapIsOfThisBranch ==
  /\ RecapTypeOK
  /\ \A text \in {recap.shown, Redone} \ {Nothing} :
       OnThisBranch(text) /\ (~late => NewestOfThisBranch(text))
  /\ turning /\ ~late => recap.shown = Nothing

==============================================================================
