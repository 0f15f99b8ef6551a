------------------------------ MODULE Exploration ------------------------------
(***************************************************************************)
(* One exploration of a turn (src/exploration/): which subsystem a round   *)
(* searches, which candidates its budget admits, what of them is shown,    *)
(* which siblings follow, and when to stop.                                *)
(*                                                                         *)
(* Between its questions the code runs without a pause; while one is open  *)
(* the working tree may lose a file (Vanishes).  What a file is estimated  *)
(* at and what it costs differ: the excerpt is cut at a line, and its      *)
(* reference has a length of its own.  A question is answered or falls     *)
(* back one by one, so the replies of a site are every answer there is,    *)
(* its fallback among them, and the fallback alone where nothing answers.  *)
(***************************************************************************)
EXTENDS Integers, FiniteSets, Sequences, SequencesExt

CONSTANTS
  Files,     \* the repository's files
  Name,      \* [Files -> Nat]: the order of their paths
  Bytes,     \* [Files -> Nat]: their size, in units of the excerpt
  Cost,      \* [Files -> Nat]: what a file's excerpt and reference really cost
  Hits,   \* [Files -> Nat]: the lines the objective matches
  Home,      \* [Files -> the subsystem of a file]
  RootName,  \* [subsystems -> Nat]: the order of their names
  Near,      \* [Files -> 0..3]: the rule's score of a candidate
  Inline,    \* [Files -> Nat]: what a file's snippet costs inline, 0 when no line fits
  Overflows, \* the files whose snippet is longer than the inline cap
  Kin,       \* [Files -> [{"test", "type", "caller"} -> SUBSET Files]]
  Covers,    \* [tests -> SUBSET Files]: the files a test's path overlaps, the tests
             \* numbered in the order of the rule's own score and their paths
  Levels,    \* the levels the control plane scores at
  Hunts,     \* the explorations: [jev, likely, changed, rounds, files, bytes]
  MaxCandidates, Excerpt, Reference, Threshold, MaxVanished

\* Paths differ; an exploration's budget is natural numbers.
ASSUME ExplorationAssumption ==
  /\ IsFiniteSet(Files) /\ Name \in [Files -> Nat] /\ \A f, g \in Files : Name[f] = Name[g] => f = g
  /\ {Bytes, Cost, Inline} \subseteq [Files -> Nat] /\ Excerpt \in Nat /\ Reference \in Nat
  /\ Levels \subseteq Nat /\ Near \in [Files -> Nat]
  /\ Kin \in [Files -> [{"test", "type", "caller"} -> SUBSET Files]]
  /\ \A h \in Hunts : h.jev \in BOOLEAN /\ {h.rounds, h.files, h.bytes} \subseteq Nat

VARIABLES
  hunt,      \* the exploration at work
  phase,     \* where it waits: "idle", one of its sites, or "over"
  present,   \* the files that are still there
  order,     \* its subsystems
  round,     \* [n, fresh, gated, added, leaning, grown]
  searched,  \* the subsystems searched so far
  picked,    \* the files of the selection, in order
  spent,     \* the bytes charged
  shown,     \* the files whose snippet is in the selection
  kept,      \* what is in the artifact store: [what, of]
  dropped,   \* what the context only refers to: [what, of]
  stop,      \* why it ended
  tests      \* the candidate tests, best first

huntVars == <<hunt, phase, present, order, round, searched, picked, spent, shown, kept, dropped, stop, tests>>

----------------------------------------------------------------- (* budget *)

Least(a, b) == IF a <= b THEN a ELSE b

\* What a sequence of files costs, and what a set of them weighs.
Total(cost, files) == FoldLeft(LAMBDA sum, f : sum + cost[f], 0, files)
Weight(cost, files) == FoldSet(LAMBDA f, sum : sum + cost[f], 0, files)

RemainingFiles(files) == hunt.files - Len(files)

Exhausted(n, files, bytes) == n >= hunt.rounds \/ RemainingFiles(files) <= 0 \/ bytes >= hunt.bytes

Estimate == [f \in Files |-> Least(Bytes[f], Excerpt) + Reference]

\* The longest prefix of the ranking that fits.
GateSelection(ranked, files, bytes) ==
  LET Fits(k) == k <= RemainingFiles(files) /\ bytes + Total(Estimate, SubSeq(ranked, 1, k)) <= hunt.bytes
  IN CHOOSE k \in 0..Len(ranked) : Fits(k) /\ \A j \in (k + 1)..Len(ranked) : ~Fits(j)

----------------------------------------------------- (* gather and ranking *)

\* The members of a set in an order.
Arranged(S, Before(_, _)) ==
  CHOOSE s \in [1..Cardinality(S) -> S] : \A i, j \in 1..Cardinality(S) : i < j => Before(s[i], s[j])

Under(root) == {f \in present : root = "." \/ Home[f] = root}

\* The grep stops at its ceiling, in the order of the walk.
Candidates(root) == {f \in Under(root) : Cardinality({g \in Under(root) : Name[g] < Name[f]}) < MaxCandidates}

\* The packet's modules, then the changed files' directories, then those that
\* matched the objective, the most matches first.
EnumerateSubsystems(h) ==
  LET all == Candidates(".")
      Matches(root) == Weight(Hits, {f \in all : Home[f] = root})
      byMatches == Arranged({Home[f] : f \in all},
        LAMBDA a, b : Matches(a) > Matches(b) \/ (Matches(a) = Matches(b) /\ RootName[a] < RootName[b]))
      named == h.likely \o h.changed \o byMatches
      once  == SelectSeq([i \in DOMAIN named |-> <<i, named[i]>>],
                         LAMBDA e : e[2] # "." /\ \A j \in 1..(e[1] - 1) : named[j] # e[2])
  IN IF once = <<>> THEN <<".">> ELSE [i \in DOMAIN once |-> once[i][2]]

\* Score first, then the rule's own score, then the path.
Overlaid(candidates, score) ==
  Arranged(candidates,
    LAMBDA a, b : \/ score[a] > score[b]
                  \/ score[a] = score[b] /\ Near[a] > Near[b]
                  \/ score[a] = score[b] /\ Near[a] = Near[b] /\ Name[a] < Name[b])

----------------------------------------------------------------- (* sites *)

SubsystemReplies == {"none"} \union (IF hunt.jev THEN ToSet(order) ELSE {})

ScoreReplies(candidates) ==
  {Near} \union (IF hunt.jev THEN {[f \in Files |-> IF f \in candidates THEN s[f] ELSE Near[f]] : s \in [candidates -> Levels]} ELSE {})

\* The files whose snippet is kept.
SnippetReplies == IF hunt.jev THEN SUBSET ToSet(round.added) ELSE {round.leaning}

\* The classes of the added files' siblings that are there and not selected.
Siblings ==
  {s \in [file : ToSet(round.added), class : {"test", "type", "caller"}] :
     (Kin[s.file][s.class] \intersect present) \ ToSet(picked) # {}}

SiblingPaths(s) == (Kin[s.file][s.class] \intersect present) \ ToSet(picked)

\* Never a caller, and each of the others on half of the bytes that are left.
SiblingVerdict(s) ==
  /\ s.class # "caller"
  /\ 2 * Weight([f \in Files |-> Least(Bytes[f], Excerpt)], SiblingPaths(s)) <= hunt.bytes - spent

SiblingReplies == IF hunt.jev THEN SUBSET Siblings ELSE {{s \in Siblings : SiblingVerdict(s)}}

\* A round that added nothing is evidence enough to stop.
SufficiencyFallback == IF round.added = <<>> /\ round.grown = 0 THEN "enough" ELSE "more"

SufficiencyReplies == IF hunt.jev THEN {"enough", "more"} ELSE {SufficiencyFallback}

----------------------------------------------------------------- (* rounds *)

NoRound == [n |-> 0, fresh |-> {}, gated |-> 0, added |-> <<>>, leaning |-> {}, grown |-> 0]

\* Only a test whose path overlaps a selected file qualifies.
RankTests(files) == {t \in DOMAIN Covers : Covers[t] \intersect ToSet(files) # {}}

TestReplies ==
  LET ranked == RankTests(picked) IN
  {[t \in ranked |-> 0]} \union (IF hunt.jev THEN [ranked -> Levels] ELSE {})

Ended(why, files) ==
  /\ stop' = why
  /\ phase' = IF RankTests(files) = {} THEN "over" ELSE "test"

\* The rounds from the next one on, up to the first whose subsystem has a
\* candidate that is not selected; a round without one is spent.
NextRound(n, subsystems, files) ==
  LET RootOf(k) == subsystems[((k - 1) % Len(subsystems)) + 1]
      Fresh(k)  == Candidates(RootOf(k)) \ ToSet(files)
      fruitful  == {k \in (n + 1)..hunt.rounds : Fresh(k) # {}}
      k         == IF fruitful = {} THEN hunt.rounds ELSE CHOOSE j \in fruitful : \A i \in fruitful : j <= i
  IN /\ searched' = searched \union {RootOf(j) : j \in (n + 1)..k}
     /\ round' = [NoRound EXCEPT !.n = k, !.fresh = IF fruitful = {} THEN {} ELSE Fresh(k)]
     /\ IF fruitful = {}
        THEN Ended(IF files = <<>> THEN "no_new_file" ELSE "budget_exhausted", files)
        ELSE phase' = "candidate" /\ UNCHANGED stop

\* The budget is looked at before the control plane is asked.
EndOfRound(r, files, bytes) ==
  IF Exhausted(r.n, files, bytes) \/ r.gated = 0
  THEN Ended("budget_exhausted", files)
  ELSE phase' = "sufficiency" /\ UNCHANGED stop

HuntInit ==
  /\ hunt = [jev |-> FALSE, likely |-> <<>>, changed |-> <<>>, rounds |-> 0, files |-> 0, bytes |-> 0]
  /\ phase = "idle" /\ present = Files /\ order = <<>> /\ round = NoRound /\ searched = {} /\ picked = <<>>
  /\ spent = 0 /\ shown = {} /\ kept = {} /\ dropped = {} /\ stop = "none" /\ tests = <<>>

Explore(h) ==
  /\ phase = "idle"
  /\ hunt' = h /\ order' = EnumerateSubsystems(h) /\ phase' = "subsystem"
  /\ UNCHANGED <<present, round, searched, picked, spent, shown, kept, dropped, stop, tests>>

\* A root that is clearly implicated is searched first.
SubsystemAnswered ==
  /\ phase = "subsystem"
  /\ \E root \in SubsystemReplies :
       LET chosen == IF root = "none" THEN order ELSE <<root>> \o SelectSeq(order, LAMBDA r : r # root) IN
       order' = chosen /\ NextRound(0, chosen, picked)
  /\ UNCHANGED <<hunt, present, picked, spent, shown, kept, dropped, tests>>

\* The admitted prefix is read up to the first file that is gone or does not
\* fit; one that does not fit is in the store already.
CandidatesAnswered ==
  /\ phase = "candidate"
  /\ \E score \in ScoreReplies(round.fresh) :
       LET ranked == Overlaid(round.fresh, score)
           k      == GateSelection(ranked, picked, spent)
           Read(m) == \A j \in 1..m : ranked[j] \in present /\ spent + Total(Cost, SubSeq(ranked, 1, j)) <= hunt.bytes
           m      == CHOOSE i \in 0..k : Read(i) /\ (i = k \/ ~Read(i + 1))
           added  == SubSeq(ranked, 1, m)
           opened == {f \in ToSet(SubSeq(ranked, 1, Least(m + 1, k))) : f \in present}
           r      == [round EXCEPT !.gated = k, !.added = added, !.leaning = {f \in ToSet(added) : score[f] >= Threshold}]
       IN /\ round' = r /\ picked' = picked \o added /\ spent' = spent + Total(Cost, added)
          /\ kept' = kept \union {[what |-> "file", of |-> f] : f \in opened}
          /\ IF m > 0 THEN phase' = "snippet" /\ UNCHANGED stop ELSE EndOfRound(r, picked', spent')
  /\ UNCHANGED <<hunt, present, order, searched, shown, dropped, tests>>

Blocks(what, files) == {[what |-> what, of |-> f] : f \in files}

\* Mutant: a snippet that does not fit is left out, and referred to nowhere.
ShownOrLost(s, f, verdict) ==
  IF f \in verdict /\ Inline[f] > 0 /\ s.spent + Inline[f] <= hunt.bytes
  THEN [s EXCEPT !.spent = @ + Inline[f], !.shown = @ \union {f}]
  ELSE IF f \in verdict THEN s ELSE [s EXCEPT !.dropped = @ \union Blocks("snippet", {f})]

\* A snippet is shown up to the cap when its head fits in the bytes left.
ShownOrDropped(s, f, verdict) ==
  IF f \in verdict /\ Inline[f] > 0 /\ s.spent + Inline[f] <= hunt.bytes
  THEN [s EXCEPT !.spent = @ + Inline[f], !.shown = @ \union {f}]
  ELSE [s EXCEPT !.dropped = @ \union Blocks("snippet", {f})]

\* The tail of a snippet that is too long is dropped beside its head.
Snippets(verdict) ==
  FoldLeft(LAMBDA s, f : ShownOrDropped(s, f, verdict),
    [spent |-> spent, shown |-> {}, dropped |-> Blocks("overflow", ToSet(round.added) \intersect verdict \intersect Overflows)],
    round.added)

\* Every snippet is stored before it is shown or dropped.
SnippetsAnswered ==
  /\ phase = "snippet"
  /\ \E verdict \in SnippetReplies :
       LET s == Snippets(verdict) IN
       /\ spent' = s.spent /\ shown' = shown \union s.shown /\ dropped' = dropped \union s.dropped
       /\ kept' = kept \union Blocks("snippet", ToSet(round.added)) \union {d \in s.dropped : d.what = "overflow"}
  /\ phase' = "sibling"
  /\ UNCHANGED <<hunt, present, order, round, searched, picked, stop, tests>>

\* The siblings that follow a file, of a class that was chosen.
Following(chosen, f, class) ==
  IF [file |-> f, class |-> class] \in chosen
  THEN Arranged(SiblingPaths([file |-> f, class |-> class]), LAMBDA a, b : Name[a] < Name[b]) ELSE <<>>

\* The chosen siblings in the order of their files and classes.
Line(chosen) ==
  FoldLeft(LAMBDA l, f : l \o Following(chosen, f, "test") \o Following(chosen, f, "type") \o Following(chosen, f, "caller"),
           <<>>, round.added)

\* Mutant: the question's answer is followed whatever is left of the budget.
ReadAnyway(s, f) ==
  IF f \in ToSet(s.files) \/ f \notin present THEN s
  ELSE [files |-> Append(s.files, f), spent |-> s.spent + Cost[f], opened |-> s.opened \union {f}]

\* A sibling is read while a file is left; one that does not fit is passed over,
\* in the store already.
ReadNext(s, f) ==
  IF f \in ToSet(s.files) \/ RemainingFiles(s.files) <= 0 \/ f \notin present THEN s
  ELSE IF s.spent + Cost[f] > hunt.bytes THEN [s EXCEPT !.opened = @ \union {f}]
  ELSE [files |-> Append(s.files, f), spent |-> s.spent + Cost[f], opened |-> s.opened \union {f}]

Expanded(chosen) ==
  FoldLeft(LAMBDA s, f : ReadNext(s, f), [files |-> picked, spent |-> spent, opened |-> {}], Line(chosen))

SiblingsAnswered ==
  /\ phase = "sibling"
  /\ \E chosen \in SiblingReplies :
       LET s == Expanded(chosen)
           r == [round EXCEPT !.grown = Len(s.files) - Len(picked)]
       IN /\ picked' = s.files /\ spent' = s.spent /\ round' = r
          /\ kept' = kept \union Blocks("file", s.opened)
          /\ EndOfRound(r, s.files, s.spent)
  /\ UNCHANGED <<hunt, present, order, searched, shown, dropped, tests>>

SufficiencyAnswered ==
  /\ phase = "sufficiency"
  /\ \E answer \in SufficiencyReplies :
       IF answer = "enough" THEN Ended("enough_evidence", picked) /\ UNCHANGED <<round, searched>>
       ELSE IF round.added = <<>> /\ round.grown = 0 THEN Ended("no_new_file", picked) /\ UNCHANGED <<round, searched>>
       ELSE NextRound(round.n, order, picked)
  /\ UNCHANGED <<hunt, present, order, picked, spent, shown, kept, dropped, tests>>

TestsAnswered ==
  /\ phase = "test"
  /\ \E score \in TestReplies :
       tests' = Arranged(RankTests(picked), LAMBDA a, b : score[a] > score[b] \/ (score[a] = score[b] /\ a < b))
  /\ phase' = "over"
  /\ UNCHANGED <<hunt, present, order, round, searched, picked, spent, shown, kept, dropped, stop>>

\* External: something else deletes a file while a question is open.
Vanishes ==
  /\ phase \notin {"idle", "over", "test"}
  /\ Cardinality(Files \ present) < MaxVanished
  /\ \E f \in present : present' = present \ {f}
  /\ UNCHANGED <<hunt, phase, order, round, searched, picked, spent, shown, kept, dropped, stop, tests>>

\* The steps an open question leads to: it is answered or it falls back.
HuntAnswers ==
  \/ SubsystemAnswered \/ CandidatesAnswered \/ SnippetsAnswered
  \/ SiblingsAnswered \/ SufficiencyAnswered \/ TestsAnswered

HuntNext == (\E h \in Hunts : Explore(h)) \/ HuntAnswers \/ Vanishes

------------------------------------------------------------- (* properties *)

Charged == Total(Cost, picked) + Weight(Inline, shown)

\* What a round added by its ranking, once its snippets were decided.
Decided == {f \in Files : [what |-> "snippet", of |-> f] \in kept}

\* The selection stays within the three budgets whatever the control plane
\* answers, and its bytes are those charged; a file is selected once, because
\* its subsystem was searched or a selected file is its kin; and every block the
\* exploration opened is in the store, whether it is shown or only referred to
\* (gateSelection, readSelectedFile, expandSiblings and storeDrop in
\* src/exploration/governor.ts).
SelectionIsAccounted ==
  /\ phase \in {"idle", "subsystem", "candidate", "snippet", "sibling", "sufficiency", "test", "over"}
  /\ round.n <= hunt.rounds /\ Len(picked) <= hunt.files /\ spent <= hunt.bytes /\ spent = Charged
  /\ IsInjective(picked)
  /\ \A i \in DOMAIN picked :
       \/ Home[picked[i]] \in searched \/ "." \in searched
       \/ \E j \in 1..(i - 1) : \E class \in {"test", "type", "caller"} : picked[i] \in Kin[picked[j]][class]
  /\ \A f \in ToSet(picked) : [what |-> "file", of |-> f] \in kept
  /\ dropped \subseteq kept
  /\ shown \subseteq ToSet(picked)
  /\ \A f \in Decided : f \in shown \/ [what |-> "snippet", of |-> f] \in dropped
  /\ \A f \in shown \intersect Overflows : [what |-> "overflow", of |-> f] \in dropped

\* An exploration that ended says why: out of budget when a budget is used up or
\* nothing of the last round fitted, enough when something answered so or the
\* last round added nothing, and nothing new when it added nothing; one that
\* nothing answered and whose tree stood still does not stop empty-handed
\* beside a candidate it had the budget for (the loop of explore).
StopIsTrue ==
  phase = "over" =>
    /\ stop = "budget_exhausted" => Exhausted(round.n, picked, spent) \/ (round.fresh # {} /\ round.gated = 0)
    /\ stop = "enough_evidence" => hunt.jev \/ (round.added = <<>> /\ round.grown = 0)
    /\ stop = "no_new_file" => round.added = <<>> /\ round.grown = 0
    /\ picked = <<>> /\ present = Files /\ round.fresh # {} /\ stop # "budget_exhausted"
         => \E f \in round.fresh : Cost[f] > Estimate[f]

=============================================================================
