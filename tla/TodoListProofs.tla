---------------------------- MODULE TodoListProofs ----------------------------
(***************************************************************************)
(* Proofs about TodoList, for any set of criteria, callers and lanes: what *)
(* is true of the list whatever the order of its writers, what a sync with *)
(* its awaited gate has achieved when it ends, and that work goes on.      *)
(***************************************************************************)
EXTENDS TodoList, FiniteSetTheorems, TLAPS

(* What is true of the array, as a predicate of the array: lemmas say which    *)
(* transitions keep it, and the steps of the specification compose these.      *)
Typed(list, top) ==
  /\ list = [p \in DOMAIN list |-> list[p]]
  /\ \A p \in DOMAIN list : p \in 1 .. top /\ list[p] \in Item

Lone(list) == \A p, q \in In(list, "in_progress") : p = q

Unrepeated(list) ==
  \A p, q \in Derived(list) : list[p].criterion = list[q].criterion => p = q

Passed(c, history) == \E lane \in Lanes : <<c, lane>> \in history

Proven(list, history) ==
  \A p \in Derived(list) :
    list[p].status = "done" => Passed(list[p].criterion, history)

Fine(list, top, history) ==
  /\ Typed(list, top) /\ Lone(list) /\ Unrepeated(list)
  /\ Proven(list, history)

(* The derived items of one array are those of another, at the same places. *)
Keeps(old, new) ==
  \A p \in Derived(old) : p \in Derived(new) /\ new[p].criterion = old[p].criterion

(* A pass in the gate's snapshot, or on its way to a caller, was reported, and *)
(* a call under way waits for an item that is on the list.                     *)
GateReported == \A c \in Criteria : gate[c] = "PASS" => Passed(c, passes)

WaitsFor(list, call, history) ==
  call.op # "idle" =>
    /\ call.place \in Derived(list)
    /\ call.verdict = "PASS" => Passed(list[call.place].criterion, history)

CallsWait == \A k \in Callers : WaitsFor(items, calls[k], passes)

TodoInv == TypeOK /\ Fine(items, pushed, passes) /\ GateReported /\ CallsWait

-------------------------------------------------------------------------------
(* Writing the status of one item keeps the array fine, if the item may become *)
(* active or done.                                                             *)
LEMMA SetIsFine ==
  ASSUME NEW list, NEW top, NEW history, Fine(list, top, history),
         NEW p \in DOMAIN list, NEW s \in Statuses,
         s = "in_progress" => In(list, "in_progress") \subseteq {p},
         (s = "done" /\ p \in Derived(list)) => Passed(list[p].criterion, history)
  PROVE  /\ Fine(Set(list, p, s), top, history)
         /\ Keeps(list, Set(list, p, s))
         /\ DOMAIN Set(list, p, s) = DOMAIN list
<1> DEFINE new == Set(list, p, s)
<1>1. /\ DOMAIN new = DOMAIN list
      /\ new = [q \in DOMAIN new |-> new[q]]
  BY DEF Set
<1>2. \A q \in DOMAIN list : list[q] \in Item
  BY DEF Fine, Typed
<1>3. \A q \in DOMAIN list :
        /\ new[q] \in Item
        /\ new[q].criterion = list[q].criterion
        /\ new[q].status = IF q = p THEN s ELSE list[q].status
  BY <1>2 DEF Set, Item
<1>4. Derived(new) = Derived(list)
  BY <1>1, <1>3 DEF Derived
<1>5. Typed(new, top)
  BY <1>1, <1>3 DEF Fine, Typed
<1>6. Lone(new)
  BY <1>1, <1>3 DEF Fine, Lone, In
<1>7. Unrepeated(new)
  BY <1>1, <1>3, <1>4 DEF Fine, Unrepeated, Derived
<1>8. Proven(new, history)
  BY <1>1, <1>3, <1>4 DEF Fine, Proven, Derived
<1>9. Keeps(list, new)
  BY <1>3, <1>4 DEF Keeps, Derived
<1> QED BY <1>1, <1>5, <1>6, <1>7, <1>8, <1>9 DEF Fine

(* The promotion never makes a second item active, and makes nothing done. *)
LEMMA PromoteIsFine ==
  ASSUME NEW list, NEW top, NEW history, Fine(list, top, history)
  PROVE  /\ Fine(PromoteNext(list), top, history)
         /\ Keeps(list, PromoteNext(list))
<1> DEFINE x == First(In(list, "pending"))
           new == Set(list, x, "in_progress")
<1>0. Keeps(list, list)
  BY DEF Keeps
<1>1. CASE PromoteNext(list) = list
  BY <1>0, <1>1
<1>2. CASE PromoteNext(list) = new /\ In(list, "in_progress") = {}
  <2>1. /\ DOMAIN new = DOMAIN list
        /\ new = [q \in DOMAIN new |-> new[q]]
    BY DEF Set
  <2>2. \A q \in DOMAIN list : list[q] \in Item
    BY DEF Fine, Typed
  <2>3. \A q \in DOMAIN list :
          /\ new[q] \in Item
          /\ new[q].criterion = list[q].criterion
          /\ new[q].status = IF q = x THEN "in_progress" ELSE list[q].status
    BY <2>2 DEF Set, Item, Statuses
  <2>4. Derived(new) = Derived(list)
    BY <2>1, <2>3 DEF Derived
  <2>5. Typed(new, top)
    BY <2>1, <2>3 DEF Fine, Typed
  <2>6. Lone(new)
    BY <1>2, <2>1, <2>3 DEF Lone, In
  <2>7. Unrepeated(new)
    BY <2>1, <2>3, <2>4 DEF Fine, Unrepeated, Derived
  <2>8. Proven(new, history)
    BY <2>1, <2>3, <2>4 DEF Fine, Proven, Derived
  <2>9. Keeps(list, new)
    BY <2>3, <2>4 DEF Keeps, Derived
  <2> QED BY <1>2, <2>5, <2>6, <2>7, <2>8, <2>9 DEF Fine
<1> QED BY <1>1, <1>2 DEF PromoteNext

(* Appending pending items for criteria that are not listed yet. *)
LEMMA PushIsFine ==
  ASSUME NEW list, NEW top \in Nat, NEW above \in Nat, NEW history, NEW new,
         Fine(list, top, history), top <= above,
         \A p \in DOMAIN new : /\ p \in top + 1 .. above
                               /\ new[p] \in Criteria \cup {NoCriterion},
         \A p, q \in DOMAIN new : new[p] = new[q] /\ new[p] # NoCriterion => p = q,
         \A p \in DOMAIN new, q \in DOMAIN list :
           new[p] = list[q].criterion => new[p] = NoCriterion
  PROVE  /\ Fine(Push(list, new), above, history)
         /\ Keeps(list, Push(list, new))
<1> DEFINE all == Push(list, new)
<1>1. /\ DOMAIN all = DOMAIN list \cup DOMAIN new
      /\ all = [q \in DOMAIN all |-> all[q]]
  BY DEF Push
<1>2. \A q \in DOMAIN list : q \in 1 .. top /\ list[q] \in Item
  BY DEF Fine, Typed
<1>3. \A q \in DOMAIN list : q \notin DOMAIN new
  BY <1>2
<1>4. \A q \in DOMAIN list : all[q] = list[q]
  BY <1>1, <1>3 DEF Push
<1>5. \A q \in DOMAIN new : all[q] = [criterion |-> new[q], status |-> "pending"]
  BY <1>1 DEF Push
<1>6. Typed(all, above)
  <2>1. \A q \in DOMAIN all : all[q] \in Item
    BY <1>1, <1>2, <1>4, <1>5 DEF Item, Statuses
  <2>2. \A q \in DOMAIN all : q \in 1 .. above
    BY <1>1, <1>2
  <2> QED BY <1>1, <2>1, <2>2 DEF Typed
<1>7. Lone(all)
  BY <1>1, <1>4, <1>5 DEF Fine, Lone, In
<1>8. Unrepeated(all)
  BY <1>1, <1>4, <1>5 DEF Fine, Unrepeated, Derived
<1>9. Proven(all, history)
  BY <1>1, <1>4, <1>5 DEF Fine, Proven, Derived
<1>10. Keeps(list, all)
  BY <1>1, <1>4 DEF Keeps, Derived
<1> QED BY <1>6, <1>7, <1>8, <1>9, <1>10 DEF Fine

(* Dropping the items written by hand. *)
LEMMA ClearIsFine ==
  ASSUME NEW list, NEW top, NEW history, Fine(list, top, history)
  PROVE  /\ Fine([p \in Derived(list) |-> list[p]], top, history)
         /\ Keeps(list, [p \in Derived(list) |-> list[p]])
<1> DEFINE kept == [p \in Derived(list) |-> list[p]]
<1>1. /\ DOMAIN kept = Derived(list)
      /\ kept = [p \in DOMAIN kept |-> kept[p]]
      /\ \A p \in Derived(list) : kept[p] = list[p] /\ p \in DOMAIN list
  BY DEF Derived
<1>2. Derived(kept) = Derived(list)
  BY <1>1 DEF Derived
<1>3. Typed(kept, top)
  BY <1>1 DEF Fine, Typed
<1>4. Lone(kept)
  BY <1>1 DEF Fine, Lone, In
<1>5. Unrepeated(kept)
  BY <1>1, <1>2 DEF Fine, Unrepeated
<1>6. Proven(kept, history)
  BY <1>1, <1>2 DEF Fine, Proven
<1>7. Keeps(list, kept)
  BY <1>1, <1>2 DEF Keeps
<1> QED BY <1>3, <1>4, <1>5, <1>6, <1>7 DEF Fine

-------------------------------------------------------------------------------
(* Every change of the array leaves the calls under way waiting for listed     *)
(* items, because derived items stay.                                          *)
LEMMA StillWaits ==
  ASSUME NEW old, NEW new, NEW call, NEW history, NEW later, Keeps(old, new),
         history \subseteq later, WaitsFor(old, call, history)
  PROVE  WaitsFor(new, call, later)
BY DEF WaitsFor, Keeps, Passed

LEMMA CallsStay ==
  ASSUME TodoInv, NEW list, Keeps(items, list)
  PROVE  /\ Disturbed \in [Callers -> Call]
         /\ \A k \in Callers : WaitsFor(list, Disturbed[k], passes)
<1>1. ASSUME NEW k \in Callers
      PROVE  /\ Disturbed[k] \in Call
             /\ WaitsFor(items, Disturbed[k], passes)
  <2>1. calls[k] \in Call /\ WaitsFor(items, calls[k], passes)
    BY DEF TodoInv, TypeOK, CallsWait
  <2>2. /\ Disturbed[k] = [calls[k] EXCEPT !.quiet = FALSE]
        /\ Disturbed[k].op = calls[k].op
        /\ Disturbed[k].place = calls[k].place
        /\ Disturbed[k].verdict = calls[k].verdict
    BY <2>1 DEF Disturbed, Call
  <2>3. Disturbed[k] \in Call
    BY <2>1, <2>2 DEF Call
  <2> QED BY <2>1, <2>2, <2>3 DEF WaitsFor
<1>2. Disturbed \in [Callers -> Call]
  BY <1>1 DEF Disturbed
<1>3. \A k \in Callers : WaitsFor(list, Disturbed[k], passes)
  BY <1>1, StillWaits
<1> QED BY <1>2, <1>3

(* A step that only changes the list, to a list that is fine. *)
LEMMA ChangeKeepsInv ==
  ASSUME TodoInv, NEW list, Change(list), Keeps(items, list),
         pushed' \in Nat, manual' \in Nat, Fine(list, pushed', passes)
  PROVE  TodoInv'
<1>1. /\ items' = list /\ calls' = Disturbed
      /\ gate' = gate /\ remaining' = remaining /\ events' = events
      /\ passes' = passes
  BY DEF Change, environment
<1>2. TypeOK'
  BY <1>1, CallsStay DEF TodoInv, TypeOK, Fine, Typed
<1>3. CallsWait'
  BY <1>1, CallsStay DEF CallsWait
<1>4. GateReported'
  BY <1>1 DEF TodoInv, GateReported
<1>5. Fine(items, pushed, passes)'
  BY <1>1
<1> QED BY <1>2, <1>3, <1>4, <1>5 DEF TodoInv

LEMMA IdleIsCall == Idle \in Call
BY DEF Idle, Call, Verdicts, Places

(* A step of a sync: to the next open criterion, or to the end of the list. *)
LEMMA WalkKeepsInv ==
  ASSUME TodoInv, NEW k \in Callers, NEW list, NEW live \in SUBSET Criteria,
         NEW n \in Nat, NEW quiet \in BOOLEAN, Walk(k, list, live, n, quiet),
         UNCHANGED environment, Keeps(items, list),
         pushed' \in Nat, manual' \in Nat, Fine(list, pushed', passes)
  PROVE  TodoInv'
<1>0. /\ gate' = gate /\ remaining' = remaining /\ events' = events
      /\ passes' = passes
  BY DEF environment
<1>1. CASE items' = PromoteNext(list) /\ calls' = [Disturbed EXCEPT ![k] = Idle]
  <2>1. /\ Fine(items', pushed', passes')
        /\ Keeps(list, items')
    BY <1>0, <1>1, PromoteIsFine
  <2>2. Keeps(items, items')
    BY <2>1 DEF Keeps
  <2>3. /\ Disturbed \in [Callers -> Call]
        /\ \A j \in Callers : WaitsFor(items', Disturbed[j], passes')
    BY <2>2, <1>0, CallsStay
  <2>4. calls' \in [Callers -> Call]
    BY <1>1, <2>3, IdleIsCall
  <2>5. CallsWait'
    BY <1>1, <2>3 DEF CallsWait, WaitsFor, Idle
  <2>6. TypeOK'
    BY <1>0, <2>1, <2>4 DEF TodoInv, TypeOK, Fine, Typed
  <2>7. GateReported'
    BY <1>0 DEF TodoInv, GateReported
  <2> QED BY <2>1, <2>5, <2>6, <2>7 DEF TodoInv
<1>2. ASSUME NEW p \in Ahead(list, live, n), items' = list,
             calls' = [Disturbed EXCEPT
               ![k] = [op |-> "sync", place |-> p, verdict |-> gate[list[p].criterion],
                       live |-> live, at |-> Index(list, p), quiet |-> quiet]]
      PROVE  TodoInv'
  <2> DEFINE call == [op |-> "sync", place |-> p, verdict |-> gate[list[p].criterion],
                      live |-> live, at |-> Index(list, p), quiet |-> quiet]
  <2>1. /\ p \in Derived(list) /\ p \in DOMAIN list
        /\ list[p].criterion \in Criteria
        /\ gate[list[p].criterion] \in Verdicts
        /\ p \in Nat
    BY DEF Ahead, Derived, Fine, Typed, Item, TodoInv, TypeOK
  <2>2. Index(list, p) \in Nat
    <3>1. {q \in DOMAIN list : q <= p} \subseteq 1 .. pushed'
      BY DEF Fine, Typed
    <3>2. IsFiniteSet(1 .. pushed')
      BY FS_Interval
    <3>3. IsFiniteSet({q \in DOMAIN list : q <= p})
      BY <3>1, <3>2, FS_Subset
    <3> QED BY <3>3, FS_CardinalityType DEF Index
  <2>3. call \in Call
    BY <2>1, <2>2 DEF Call, Places
  <2>4. WaitsFor(list, call, passes)
    BY <2>1 DEF WaitsFor, TodoInv, GateReported
  <2>5. /\ Disturbed \in [Callers -> Call]
        /\ \A j \in Callers : WaitsFor(list, Disturbed[j], passes)
    BY CallsStay
  <2>6. calls' = [Disturbed EXCEPT ![k] = call]
    BY <1>2
  <2> HIDE DEF call
  <2>7. calls' \in [Callers -> Call]
    BY <2>3, <2>5, <2>6
  <2>8. CallsWait'
    BY <1>0, <1>2, <2>4, <2>5, <2>6 DEF CallsWait
  <2>9. TypeOK'
    BY <1>0, <1>2, <2>7 DEF TodoInv, TypeOK, Fine, Typed
  <2>10. GateReported'
    BY <1>0 DEF TodoInv, GateReported
  <2>11. Fine(items, pushed, passes)'
    BY <1>0, <1>2
  <2> QED BY <2>8, <2>9, <2>10, <2>11 DEF TodoInv
<1> QED BY <1>1, <1>2 DEF Walk

-------------------------------------------------------------------------------
(* The steps.                                                                  *)
LEMMA InitInv == Init => TodoInv
<1> SUFFICES ASSUME Init PROVE TodoInv
  OBVIOUS
<1>1. DOMAIN items = {} /\ items = [p \in DOMAIN items |-> items[p]]
  BY DEF Init
<1>2. TypeOK
  BY <1>1, IdleIsCall DEF Init, TypeOK, Verdicts
<1>3. Fine(items, pushed, passes)
  BY <1>1 DEF Fine, Typed, Lone, Unrepeated, Proven, In, Derived
<1>4. GateReported
  BY DEF Init, GateReported
<1>5. CallsWait
  BY DEF Init, CallsWait, WaitsFor, Idle
<1> QED BY <1>2, <1>3, <1>4, <1>5 DEF TodoInv

(* A status written by a transition that asks nobody. *)
LEMMA SetKeepsInv ==
  ASSUME TodoInv, NEW p \in DOMAIN items, NEW s \in Statuses,
         Change(Set(items, p, s)), UNCHANGED added,
         s = "in_progress" => In(items, "in_progress") \subseteq {p},
         s # "done"
  PROVE  TodoInv'
<1>1. pushed' = pushed /\ manual' = manual
  BY DEF added
<1>2. Fine(items, pushed, passes)
  BY DEF TodoInv
<1>3. /\ Fine(Set(items, p, s), pushed, passes)
      /\ Keeps(items, Set(items, p, s))
  BY <1>2, SetIsFine
<1>4. pushed' \in Nat /\ manual' \in Nat
  BY <1>1 DEF TodoInv, TypeOK
<1> QED BY <1>1, <1>3, <1>4, ChangeKeepsInv

LEMMA AddKeepsInv == ASSUME TodoInv, Add PROVE TodoInv'
<1> DEFINE new == [q \in {pushed + 1} |-> NoCriterion]
<1>1. pushed \in Nat /\ manual \in Nat /\ Fine(items, pushed, passes)
  BY DEF TodoInv, TypeOK
<1>2. pushed' = pushed + 1 /\ manual' = manual + 1 /\ Change(Push(items, new))
  BY DEF Add
<1>3. DOMAIN new = {pushed + 1} /\ \A q \in DOMAIN new : new[q] = NoCriterion
  OBVIOUS
<1> HIDE DEF new
<1>4. /\ Fine(Push(items, new), pushed + 1, passes)
      /\ Keeps(items, Push(items, new))
  <2>1. pushed + 1 \in Nat /\ pushed <= pushed + 1 /\ pushed + 1 \in pushed + 1 .. pushed + 1
    BY <1>1
  <2> QED BY <1>1, <1>3, <2>1, PushIsFine
<1> QED BY <1>1, <1>2, <1>4, ChangeKeepsInv

LEMMA ClearKeepsInv == ASSUME TodoInv, ClearItems PROVE TodoInv'
<1> DEFINE kept == [p \in Derived(items) |-> items[p]]
<1>1. /\ pushed \in Nat /\ manual \in Nat /\ pushed' = pushed /\ manual' = manual
      /\ Fine(items, pushed, passes) /\ Change(kept)
  BY DEF TodoInv, TypeOK, ClearItems, added
<1>2. Fine(kept, pushed, passes) /\ Keeps(items, kept)
  BY <1>1, ClearIsFine
<1> HIDE DEF kept
<1> QED BY <1>1, <1>2, ChangeKeepsInv

LEMMA CompleteManualKeepsInv ==
  ASSUME TodoInv, NEW p \in DOMAIN items, CompleteManual(p) PROVE TodoInv'
<1> DEFINE list == Set(items, p, "done")
<1>1. /\ pushed \in Nat /\ manual \in Nat /\ pushed' = pushed /\ manual' = manual
      /\ Fine(items, pushed, passes) /\ Change(PromoteNext(list))
      /\ p \notin Derived(items)
  BY DEF TodoInv, TypeOK, CompleteManual, added
<1>2. Fine(list, pushed, passes) /\ Keeps(items, list)
  <2>1. "done" \in Statuses
    BY DEF Statuses
  <2> QED BY <1>1, <2>1, SetIsFine
<1> HIDE DEF list
<1>3. Fine(PromoteNext(list), pushed, passes) /\ Keeps(list, PromoteNext(list))
  BY <1>2, PromoteIsFine
<1>4. Keeps(items, PromoteNext(list))
  BY <1>2, <1>3 DEF Keeps
<1> QED BY <1>1, <1>3, <1>4, ChangeKeepsInv

(* A question to the gate reads a verdict that a turn has reported. *)
LEMMA AskKeepsInv ==
  ASSUME TodoInv, NEW k \in Callers, NEW p \in DOMAIN items, AskToComplete(k, p)
  PROVE  TodoInv'
<1> DEFINE call == [Idle EXCEPT !.op = "complete", !.place = p,
                                !.verdict = gate[items[p].criterion]]
<1>1. /\ p \in Derived(items) /\ items[p].criterion \in Criteria
      /\ gate[items[p].criterion] \in Verdicts /\ p \in Nat
  BY DEF AskToComplete, Derived, TodoInv, TypeOK, Item
<1>2. call \in Call /\ call.place = p /\ call.verdict = gate[items[p].criterion]
  BY <1>1 DEF Call, Idle, Places
<1>3. WaitsFor(items, call, passes)
  BY <1>1, <1>2 DEF WaitsFor, TodoInv, GateReported
<1>4. /\ calls' = [calls EXCEPT ![k] = call]
      /\ items' = items /\ pushed' = pushed /\ manual' = manual /\ gate' = gate
      /\ remaining' = remaining /\ events' = events /\ passes' = passes
  BY DEF AskToComplete, added, environment
<1> HIDE DEF call
<1>5. TypeOK'
  BY <1>2, <1>4 DEF TodoInv, TypeOK
<1>6. CallsWait'
  BY <1>3, <1>4 DEF TodoInv, TypeOK, CallsWait
<1>7. GateReported' /\ Fine(items, pushed, passes)'
  BY <1>4 DEF TodoInv, GateReported
<1> QED BY <1>5, <1>6, <1>7 DEF TodoInv

LEMMA RefuseKeepsInv ==
  ASSUME TodoInv, NEW k \in Callers, RefuseCompletion(k) PROVE TodoInv'
<1>1. /\ calls' = [calls EXCEPT ![k] = Idle]
      /\ items' = items /\ pushed' = pushed /\ manual' = manual /\ gate' = gate
      /\ remaining' = remaining /\ events' = events /\ passes' = passes
  BY DEF RefuseCompletion, added, environment
<1>2. TypeOK'
  BY <1>1, IdleIsCall DEF TodoInv, TypeOK
<1>3. CallsWait'
  BY <1>1 DEF TodoInv, TypeOK, CallsWait, WaitsFor, Idle
<1>4. GateReported' /\ Fine(items, pushed, passes)'
  BY <1>1 DEF TodoInv, GateReported
<1> QED BY <1>2, <1>3, <1>4 DEF TodoInv

(* The answer is written to an item whose status may have changed meanwhile:   *)
(* what it rests on is the verdict, which was reported, and not the status.    *)
LEMMA CompleteKeepsInv ==
  ASSUME TodoInv, NEW k \in Callers, Complete(k) PROVE TodoInv'
<1> DEFINE p == calls[k].place
           list == Set(items, p, "done")
<1>1. /\ pushed \in Nat /\ manual \in Nat /\ pushed' = pushed /\ manual' = manual
      /\ Fine(items, pushed, passes) /\ items' = PromoteNext(list)
      /\ calls' = [Disturbed EXCEPT ![k] = Idle]
      /\ gate' = gate /\ remaining' = remaining /\ events' = events
      /\ passes' = passes
  BY DEF TodoInv, TypeOK, Complete, added, environment
<1>2. p \in Derived(items) /\ Passed(items[p].criterion, passes)
  BY DEF Complete, TodoInv, CallsWait, WaitsFor
<1>3. p \in DOMAIN items /\ "done" \in Statuses
  BY <1>2 DEF Derived, Statuses
<1> HIDE DEF p
<1>4. Fine(list, pushed, passes) /\ Keeps(items, list)
  BY <1>1, <1>2, <1>3, SetIsFine
<1> HIDE DEF list
<1>5. Fine(PromoteNext(list), pushed, passes) /\ Keeps(list, PromoteNext(list))
  BY <1>4, PromoteIsFine
<1>6. Keeps(items, items')
  BY <1>1, <1>4, <1>5 DEF Keeps
<1>7. /\ Disturbed \in [Callers -> Call]
      /\ \A j \in Callers : WaitsFor(items', Disturbed[j], passes)
  BY <1>6, CallsStay
<1>8. calls' \in [Callers -> Call]
  BY <1>1, <1>7, IdleIsCall
<1>9. CallsWait'
  BY <1>1, <1>7 DEF CallsWait, WaitsFor, Idle
<1>10. TypeOK'
  BY <1>1, <1>5, <1>8 DEF TodoInv, TypeOK, Fine, Typed
<1>11. GateReported' /\ Fine(items, pushed, passes)'
  BY <1>1, <1>5 DEF TodoInv, GateReported
<1> QED BY <1>9, <1>10, <1>11 DEF TodoInv

(* What the sync appends: one pending item for each missing criterion, at      *)
(* places of their own.                                                        *)
LEMMA WithMissingIsFine ==
  ASSUME TodoInv,
         pushed' = IF Missing = {} THEN pushed ELSE pushed + Cardinality(Criteria)
  PROVE  /\ pushed' \in Nat
         /\ Fine(WithMissing, pushed', passes)
         /\ Keeps(items, WithMissing)
<1> DEFINE new == [p \in {PlaceFor(c) : c \in Missing} |->
                     CHOOSE c \in Missing : PlaceFor(c) = p]
<1>1. pushed \in Nat /\ Fine(items, pushed, passes) /\ Missing \subseteq Criteria
  BY DEF TodoInv, TypeOK, Missing
<1>2. Cardinality(Criteria) \in Nat
  BY TodoAssumption, FS_CardinalityType
<1>3. pushed' \in Nat /\ pushed <= pushed'
  BY <1>1, <1>2
<1>4. \A c \in Missing : PlaceFor(c) \in pushed + 1 .. pushed'
  BY <1>1, <1>2, TodoAssumption DEF PlaceFor
<1>5. \A p \in DOMAIN new : new[p] \in Missing /\ PlaceFor(new[p]) = p
  OBVIOUS
<1>6. \A p \in DOMAIN new : /\ p \in pushed + 1 .. pushed'
                            /\ new[p] \in Criteria \cup {NoCriterion}
  BY <1>1, <1>4, <1>5
<1>7. WithMissing = Push(items, new)
  BY DEF WithMissing
<1> HIDE DEF new
<1>8. \A p, q \in DOMAIN new : new[p] = new[q] /\ new[p] # NoCriterion => p = q
  BY <1>5
<1>9. \A p \in DOMAIN new, q \in DOMAIN items :
        new[p] = items[q].criterion => new[p] = NoCriterion
  BY <1>5 DEF Missing
<1>10. /\ Fine(Push(items, new), pushed', passes)
       /\ Keeps(items, Push(items, new))
  BY <1>1, <1>3, <1>6, <1>8, <1>9, PushIsFine
<1> QED BY <1>3, <1>7, <1>10

LEMMA StartSyncKeepsInv ==
  ASSUME TodoInv, NEW k \in Callers, StartSync(k) PROVE TodoInv'
<1>1. /\ pushed' = IF Missing = {} THEN pushed ELSE pushed + Cardinality(Criteria)
      /\ Walk(k, WithMissing, remaining, 0, TRUE)
      /\ manual' = manual /\ UNCHANGED environment
  BY DEF StartSync
<1>2. remaining \in SUBSET Criteria /\ manual' \in Nat
  BY <1>1 DEF TodoInv, TypeOK
<1>3. /\ pushed' \in Nat /\ Fine(WithMissing, pushed', passes)
      /\ Keeps(items, WithMissing)
  BY <1>1, WithMissingIsFine
<1> QED BY <1>1, <1>2, <1>3, WalkKeepsInv

(* The sync writes "done" on a reported pass only, and never makes an item     *)
(* active that was not.                                                        *)
LEMMA ApplyVerdictKeepsInv ==
  ASSUME TodoInv, NEW k \in Callers, ApplyVerdict(k) PROVE TodoInv'
<1> DEFINE c == calls[k]
           p == calls[k].place
           s == Judged(items[calls[k].place].status, calls[k].verdict)
           list == Set(items, p, s)
<1>1. /\ c \in Call /\ c.op = "sync"
      /\ Walk(k, list, c.live, c.at, c.quiet)
      /\ UNCHANGED environment /\ pushed' = pushed /\ manual' = manual
  BY DEF ApplyVerdict, added, TodoInv, TypeOK
<1>2. c.live \in SUBSET Criteria /\ c.at \in Nat /\ c.quiet \in BOOLEAN
  BY <1>1 DEF Call
<1>3. /\ p \in Derived(items)
      /\ c.verdict = "PASS" => Passed(items[p].criterion, passes)
  BY <1>1 DEF TodoInv, CallsWait, WaitsFor
<1>4. /\ pushed' \in Nat /\ manual' \in Nat /\ Fine(items, pushed, passes)
      /\ p \in DOMAIN items /\ items[p] \in Item
  BY <1>1, <1>3 DEF TodoInv, TypeOK, Derived
<1>5. /\ s \in Statuses
      /\ s = "done" => c.verdict = "PASS"
      /\ s = "in_progress" => items[p].status = "in_progress"
  BY DEF Judged, Statuses
<1>6. s = "in_progress" => In(items, "in_progress") \subseteq {p}
  BY <1>4, <1>5 DEF Fine, Lone, In
<1>7. (s = "done" /\ p \in Derived(items)) => Passed(items[p].criterion, passes)
  BY <1>3, <1>5
<1> HIDE DEF s, p
<1>8. Fine(list, pushed, passes) /\ Keeps(items, list)
  BY <1>4, <1>5, <1>6, <1>7, SetIsFine
<1>9. Fine(list, pushed', passes)
  BY <1>1, <1>8
<1> HIDE DEF list, c
<1> QED BY <1>1, <1>2, <1>4, <1>8, <1>9, WalkKeepsInv

(* A turn's proof replaces the gate's snapshot; what was reported stays so. *)
LEMMA TurnEndsKeepsInv ==
  ASSUME TodoInv, NEW lane \in Lanes, NEW proof \in [Criteria -> Verdicts],
         TurnEnds(lane, proof)
  PROVE  TodoInv'
<1>1. /\ events' = events + 1 /\ calls' = Disturbed /\ items' = items
      /\ pushed' = pushed /\ manual' = manual /\ remaining' = remaining
      /\ gate' = [c \in Criteria |-> IF c \in NamedBy[lane] THEN proof[c] ELSE "unproven"]
      /\ passes' = passes \cup {<<c, lane>> : c \in {d \in NamedBy[lane] : proof[d] = "PASS"}}
  BY DEF TurnEnds, added
<1>2. NamedBy[lane] \subseteq Criteria
  BY TodoAssumption
<1>3. gate' \in [Criteria -> Verdicts]
  BY <1>1 DEF Verdicts
<1>4. /\ passes' \in SUBSET (Criteria \X Lanes)
      /\ passes \subseteq passes'
  BY <1>1, <1>2 DEF TodoInv, TypeOK
<1>5. Keeps(items, items)
  BY DEF Keeps
<1>6. /\ Disturbed \in [Callers -> Call]
      /\ \A k \in Callers : WaitsFor(items, Disturbed[k], passes)
  BY <1>5, CallsStay
<1>7. TypeOK'
  BY <1>1, <1>3, <1>4, <1>6 DEF TodoInv, TypeOK
<1>8. CallsWait'
  <2>1. \A k \in Callers : WaitsFor(items, Disturbed[k], passes')
    BY <1>4, <1>5, <1>6, StillWaits
  <2> QED BY <1>1, <2>1 DEF CallsWait
<1>9. GateReported'
  <2> SUFFICES ASSUME NEW c \in Criteria, gate'[c] = "PASS"
               PROVE  <<c, lane>> \in passes'
    BY DEF GateReported, Passed
  <2>1. c \in NamedBy[lane] /\ proof[c] = "PASS"
    BY <1>1
  <2> QED BY <1>1, <2>1
<1>10. Fine(items, pushed, passes)'
  <2>1. Fine(items, pushed, passes)
    BY DEF TodoInv
  <2>2. Proven(items, passes')
    BY <1>4, <2>1 DEF Fine, Proven, Passed
  <2> QED BY <1>1, <2>1, <2>2 DEF Fine
<1> QED BY <1>7, <1>8, <1>9, <1>10 DEF TodoInv

LEMMA PrdMovesKeepsInv ==
  ASSUME TodoInv, NEW open \in SUBSET Criteria, PrdMoves(open) PROVE TodoInv'
<1>1. /\ events' = events + 1 /\ remaining' = open
      /\ items' = items /\ pushed' = pushed /\ manual' = manual /\ gate' = gate
      /\ calls' = calls /\ passes' = passes
  BY DEF PrdMoves, added
<1>2. TypeOK'
  BY <1>1 DEF TodoInv, TypeOK
<1>3. CallsWait' /\ GateReported' /\ Fine(items, pushed, passes)'
  BY <1>1 DEF TodoInv, CallsWait, GateReported
<1> QED BY <1>2, <1>3 DEF TodoInv

LEMMA OnItemKeepsInv ==
  ASSUME TodoInv, NEW p \in DOMAIN items, OnItem(p) PROVE TodoInv'
<1>0. {"in_progress", "blocked", "pending", "dropped"} \subseteq Statuses
  BY DEF Statuses
<1>1. CASE StartItem(p)
  BY <1>0, <1>1, SetKeepsInv DEF StartItem
<1>2. CASE BlockItem(p)
  BY <1>0, <1>2, SetKeepsInv DEF BlockItem
<1>3. CASE UnblockItem(p)
  BY <1>0, <1>3, SetKeepsInv DEF UnblockItem
<1>4. CASE DropItem(p)
  BY <1>0, <1>4, SetKeepsInv DEF DropItem
<1>5. CASE CompleteManual(p)
  BY <1>5, CompleteManualKeepsInv
<1> QED BY <1>1, <1>2, <1>3, <1>4, <1>5 DEF OnItem

LEMMA NextKeepsInv == TodoInv /\ [Next]_vars => TodoInv'
<1> SUFFICES ASSUME TodoInv, [Next]_vars PROVE TodoInv'
  OBVIOUS
<1>1. CASE Add
  BY <1>1, AddKeepsInv
<1>2. CASE ClearItems
  BY <1>2, ClearKeepsInv
<1>3. ASSUME NEW p \in DOMAIN items, OnItem(p) PROVE TodoInv'
  BY <1>3, OnItemKeepsInv
<1>4. ASSUME NEW k \in Callers, Waiting(k) PROVE TodoInv'
  BY <1>4, RefuseKeepsInv, CompleteKeepsInv, ApplyVerdictKeepsInv DEF Waiting
<1>5. ASSUME NEW k \in Callers, StartSync(k) PROVE TodoInv'
  BY <1>5, StartSyncKeepsInv
<1>6. ASSUME NEW k \in Callers, NEW p \in DOMAIN items, AskToComplete(k, p)
      PROVE  TodoInv'
  BY <1>6, AskKeepsInv
<1>7. ASSUME NEW lane \in Lanes, NEW proof \in [Criteria -> Verdicts],
             TurnEnds(lane, proof)
      PROVE  TodoInv'
  BY <1>7, TurnEndsKeepsInv
<1>8. ASSUME NEW open \in SUBSET Criteria, PrdMoves(open) PROVE TodoInv'
  BY <1>8, PrdMovesKeepsInv
<1>9. CASE UNCHANGED vars
  BY <1>9 DEF vars, TodoInv, TypeOK, CallsWait, GateReported
<1> QED BY <1>1, <1>2, <1>3, <1>4, <1>5, <1>6, <1>7, <1>8, <1>9 DEF Next

THEOREM InvHolds == Spec => []TodoInv
BY InitInv, NextKeepsInv, PTL DEF Spec

-------------------------------------------------------------------------------
(* Every variable keeps its type: the array holds items at places given out,   *)
(* and a caller waits for the answer of one question (todo/state.ts).          *)
THEOREM TypeCorrect == Spec => []TypeOK
<1>1. TodoInv => TypeOK
  BY DEF TodoInv
<1> QED BY <1>1, InvHolds, PTL

(* No interleaving of /todo, todo_update and syncs makes two items active.     *)
THEOREM OneItemIsActive == Spec => []OneActive
<1>1. TodoInv => OneActive
  BY DEF TodoInv, Fine, Lone, OneActive
<1> QED BY <1>1, InvHolds, PTL

(* However many syncs overlap, a criterion of the PRD is listed once.          *)
THEOREM CriteriaAreListedOnce == Spec => []OneItemPerCriterion
<1>1. TodoInv => OneItemPerCriterion
  BY DEF TodoInv, Fine, Unrepeated, OneItemPerCriterion
<1> QED BY <1>1, InvHolds, PTL

(* A derived item that is done was passed by a turn's proof, however late the  *)
(* gate's answer was written and whatever replaced the gate meanwhile.         *)
THEOREM DoneRestsOnProof == Spec => []DoneWasProven
<1>1. TodoInv => DoneWasProven
  BY DEF TodoInv, Fine, Proven, Passed, DoneWasProven
<1> QED BY <1>1, InvHolds, PTL

(* The list stays one a reader can act on (state.ts, derive.ts). *)
THEOREM ListsAreSound == Spec => []ListIsSound
BY TypeCorrect, OneItemIsActive, CriteriaAreListedOnce, DoneRestsOnProof, PTL DEF ListIsSound

-------------------------------------------------------------------------------
(* A set of places of the array has a first one.                               *)
LEMMA FirstPlace ==
  ASSUME NEW top \in Nat, NEW places \in SUBSET (1 .. top), places # {}
  PROVE  First(places) \in places
<1>1. places \subseteq Nat
  OBVIOUS
<1>2. PICK p \in places : \A q \in places : ~ (<<q, p>> \in OpToRel(<, Nat))
  BY <1>1, NatLessThanWellFounded, WFMin
<1>3. \A q \in places : ~ (q < p)
  BY <1>1, <1>2 DEF OpToRel
<1>4. \A q \in places : p <= q
  BY <1>1, <1>3
<1> QED BY <1>4 DEF First

(* What a promotion leaves: every item its criterion and, but for one that was *)
(* pending, its status; and nothing pending with nothing active.               *)
LEMMA PromoteResult ==
  ASSUME NEW top \in Nat, NEW list, Typed(list, top)
  PROVE  /\ \A p \in Derived(list) :
              /\ p \in Derived(PromoteNext(list))
              /\ PromoteNext(list)[p].criterion = list[p].criterion
              /\ \A v : Agrees(list[p].status, v) => Agrees(PromoteNext(list)[p].status, v)
         /\ In(PromoteNext(list), "pending") # {} => In(PromoteNext(list), "in_progress") # {}
<1> DEFINE x == First(In(list, "pending"))
           new == Set(list, x, "in_progress")
<1>1. CASE In(list, "in_progress") # {} \/ In(list, "pending") = {}
  BY <1>1 DEF PromoteNext
<1>2. CASE In(list, "in_progress") = {} /\ In(list, "pending") # {}
  <2>1. x \in In(list, "pending")
    <3>1. In(list, "pending") \in SUBSET (1 .. top)
      BY DEF In, Typed
    <3> QED BY <1>2, <3>1, FirstPlace
  <2>2. x \in DOMAIN list /\ list[x].status = "pending"
    BY <2>1 DEF In
  <2> HIDE DEF x
  <2>3. /\ DOMAIN new = DOMAIN list
        /\ \A q \in DOMAIN list :
             /\ new[q].criterion = list[q].criterion
             /\ new[q].status = IF q = x THEN "in_progress" ELSE list[q].status
    BY DEF Typed, Item, Set
  <2>4. PromoteNext(list) = new
    BY <1>2 DEF PromoteNext, x
  <2> HIDE DEF new
  <2>5. x \in In(new, "in_progress")
    BY <2>2, <2>3 DEF In
  <2>6. ASSUME NEW p \in Derived(list)
        PROVE  /\ p \in Derived(new)
               /\ new[p].criterion = list[p].criterion
               /\ \A v : Agrees(list[p].status, v) => Agrees(new[p].status, v)
    BY <2>2, <2>3, <2>6 DEF Derived, Agrees
  <2> QED BY <2>4, <2>5, <2>6
<1> QED BY <1>1, <1>2

(* The index of an item grows with its place.                                  *)
LEMMA IndexGrows ==
  ASSUME NEW top \in Nat, NEW list, Typed(list, top)
  PROVE  /\ \A p \in DOMAIN list : Index(list, p) \in Nat \ {0}
         /\ \A p, q \in DOMAIN list : p < q => Index(list, p) < Index(list, q)
<1> DEFINE upTo(p) == {q \in DOMAIN list : q <= p}
<1>1. DOMAIN list \subseteq 1 .. top
  BY DEF Typed
<1>2. ASSUME NEW p \in DOMAIN list
      PROVE  /\ IsFiniteSet(upTo(p)) /\ Cardinality(upTo(p)) \in Nat
             /\ p \in upTo(p) /\ Index(list, p) = Cardinality(upTo(p))
  <2>1. upTo(p) \subseteq 1 .. top /\ IsFiniteSet(1 .. top) /\ p \in Nat
    BY <1>1, <1>2, FS_Interval
  <2>2. IsFiniteSet(upTo(p))
    BY <2>1, FS_Subset
  <2>3. Cardinality(upTo(p)) \in Nat
    BY <2>2, FS_CardinalityType
  <2> QED BY <1>2, <2>1, <2>2, <2>3 DEF Index
<1>3. ASSUME NEW p \in DOMAIN list PROVE Cardinality(upTo(p)) # 0
  BY <1>2, <1>3, FS_EmptySet
<1>4. ASSUME NEW p \in DOMAIN list, NEW q \in DOMAIN list, p < q
      PROVE  Cardinality(upTo(p)) < Cardinality(upTo(q))
  <2>1. p \in Nat /\ q \in Nat /\ \A r \in DOMAIN list : r \in Nat
    BY <1>1
  <2>2. upTo(p) \subseteq upTo(q) /\ q \notin upTo(p)
    BY <1>4, <2>1
  <2>3. upTo(p) # upTo(q)
    BY <1>2, <2>2
  <2>4. Cardinality(upTo(p)) <= Cardinality(upTo(q))
        /\ Cardinality(upTo(p)) # Cardinality(upTo(q))
    BY <1>2, <2>2, <2>3, FS_Subset
  <2> QED BY <1>2, <2>4
<1> HIDE DEF upTo
<1> QED BY <1>2, <1>3, <1>4

-------------------------------------------------------------------------------
(* The inductive invariant behind SyncReconciles.  A sync that nothing has     *)
(* disturbed has listed every criterion it is about, has judged the items      *)
(* before the one it waits for, and waits for what the gate still says.        *)
Listed(list, live) == \A c \in live : \E p \in Derived(list) : list[p].criterion = c

AgreesAt(list, p) == Agrees(list[p].status, gate[list[p].criterion])

Reconciling(list, call) ==
  call.op = "sync" /\ call.quiet =>
    /\ Listed(list, call.live)
    /\ call.place \in Derived(list) /\ list[call.place].criterion \in call.live
    /\ call.at = Index(list, call.place)
    /\ call.verdict = gate[list[call.place].criterion]
    /\ \A q \in Derived(list) :
         list[q].criterion \in call.live /\ q < call.place => AgreesAt(list, q)

SyncsReconcile == \A k \in Callers : Reconciling(items, calls[k])

(* What the end of an undisturbed sync has achieved.                           *)
Reconciled(list, live) ==
  \A c \in live : \E p \in Derived(list) :
    list[p].criterion = c /\ Agrees(list[p].status, gate[c])

(* The walk goes on past items that agree only, or ends when all of them do.   *)
LEMMA WalkReconciles ==
  ASSUME TodoInv, NEW k \in Callers, NEW list, NEW live, NEW n \in Nat,
         NEW quiet \in BOOLEAN, Walk(k, list, live, n, quiet), UNCHANGED gate,
         NEW top \in Nat, Typed(list, top),
         quiet => /\ Listed(list, live)
                  /\ \A q \in Derived(list) :
                       list[q].criterion \in live /\ Index(list, q) <= n => AgreesAt(list, q)
  PROVE  /\ SyncsReconcile'
         /\ quiet /\ calls'[k].op = "idle" => Reconciled(items', live)
<1>1. \A j \in Callers : /\ Disturbed[j].quiet = FALSE
                         /\ Disturbed \in [Callers -> Call]
  <2>1. \A j \in Callers : calls[j] \in Call
    BY DEF TodoInv, TypeOK
  <2>2. \A j \in Callers : Disturbed[j] \in Call /\ Disturbed[j].quiet = FALSE
    BY <2>1 DEF Disturbed, Call
  <2>3. Disturbed \in [Callers -> Call]
    BY <2>2 DEF Disturbed
  <2> QED BY <2>2, <2>3
<1>2. CASE /\ Ahead(list, live, n) = {}
           /\ items' = PromoteNext(list)
           /\ calls' = [Disturbed EXCEPT ![k] = Idle]
  <2>1. SyncsReconcile'
    BY <1>1, <1>2 DEF SyncsReconcile, Reconciling, Idle
  <2>2. ASSUME quiet, NEW c \in live
        PROVE  \E p \in Derived(items') :
                 items'[p].criterion = c /\ Agrees(items'[p].status, gate[c])
    <3>1. PICK p \in Derived(list) : list[p].criterion = c
      BY <2>2 DEF Listed
    <3>2. p \in DOMAIN list /\ Index(list, p) \in Nat
      BY <3>1, IndexGrows DEF Derived
    <3>3. Index(list, p) <= n
      BY <1>2, <2>2, <3>1, <3>2 DEF Ahead
    <3>4. Agrees(list[p].status, gate[c])
      BY <2>2, <3>1, <3>3 DEF AgreesAt
    <3>5. /\ p \in Derived(items') /\ items'[p].criterion = c
          /\ Agrees(items'[p].status, gate[c])
      BY <1>2, <3>1, <3>4, PromoteResult
    <3> QED BY <3>5
  <2> QED BY <2>1, <2>2 DEF Reconciled
<1>3. ASSUME NEW p \in Ahead(list, live, n), \A q \in Ahead(list, live, n) : p <= q,
             items' = list,
             calls' = [Disturbed EXCEPT
               ![k] = [op |-> "sync", place |-> p, verdict |-> gate[list[p].criterion],
                       live |-> live, at |-> Index(list, p), quiet |-> quiet]]
      PROVE  SyncsReconcile' /\ calls'[k].op = "sync"
  <2>1. /\ calls'[k].op = "sync" /\ calls'[k].place = p /\ calls'[k].live = live
        /\ calls'[k].verdict = gate[list[p].criterion] /\ calls'[k].at = Index(list, p)
        /\ calls'[k].quiet = quiet
        /\ \A j \in Callers \ {k} : ~calls'[j].quiet
    BY <1>1, <1>3
  <2>2. p \in Derived(list) /\ list[p].criterion \in live
    BY <1>3 DEF Ahead
  <2>3. ASSUME quiet, NEW q \in Derived(list), list[q].criterion \in live, q < p
        PROVE  AgreesAt(list, q)
    <3>1. q \in DOMAIN list /\ q \in Nat /\ p \in Nat /\ Index(list, q) \in Nat
      BY <2>2, <2>3, IndexGrows DEF Derived, Typed
    <3>2. q \notin Ahead(list, live, n)
      BY <1>3, <2>3, <3>1
    <3>3. Index(list, q) <= n
      BY <2>3, <3>1, <3>2 DEF Ahead
    <3> QED BY <2>3, <3>3
  <2>4. quiet => /\ Listed(list, live)
                 /\ \A q \in Derived(list) :
                      list[q].criterion \in live /\ q < p => AgreesAt(list, q)
    BY <2>3
  <2>5. Reconciling(list, calls'[k])
    BY <2>1, <2>2, <2>4 DEF Reconciling
  <2>6. \A j \in Callers : Reconciling(list, calls'[j])
    BY <2>1, <2>5 DEF Reconciling
  <2> QED BY <1>3, <2>1, <2>6 DEF SyncsReconcile, Reconciling, AgreesAt
<1> QED BY <1>2, <1>3 DEF Walk

(* A step that touches neither the list, the gate nor a sync under way keeps   *)
(* what the sync has achieved so far; one that touches the list or the gate    *)
(* takes its quiet.                                                            *)
LEMMA OthersReconcile ==
  ASSUME SyncsReconcile, TodoInv,
         \/ calls' = Disturbed
         \/ UNCHANGED <<items, gate>> /\ \A k \in Callers :
              calls'[k] = calls[k] \/ calls'[k].op # "sync"
  PROVE  SyncsReconcile'
<1>1. CASE calls' = Disturbed
  <2>1. \A k \in Callers : calls[k] \in Call
    BY DEF TodoInv, TypeOK
  <2>2. \A k \in Callers : ~calls'[k].quiet
    BY <1>1, <2>1 DEF Disturbed, Call
  <2> QED BY <2>2 DEF SyncsReconcile, Reconciling
<1>2. CASE UNCHANGED <<items, gate>> /\ \A k \in Callers :
             calls'[k] = calls[k] \/ calls'[k].op # "sync"
  <2>1. \A k \in Callers : Reconciling(items, calls'[k])
    BY <1>2 DEF SyncsReconcile, Reconciling
  <2> QED BY <1>2, <2>1 DEF SyncsReconcile, Reconciling, Listed, AgreesAt
<1> QED BY <1>1, <1>2

(* The array a sync starts its walk on lists every criterion it is about.      *)
LEMMA MissingAreListed ==
  ASSUME TodoInv
  PROVE  Listed(WithMissing, remaining)
<1> DEFINE new == [p \in {PlaceFor(c) : c \in Missing} |->
                     CHOOSE c \in Missing : PlaceFor(c) = p]
<1>1. WithMissing = Push(items, new)
  BY DEF WithMissing
<1>2. DOMAIN new = {PlaceFor(c) : c \in Missing}
  OBVIOUS
<1>3. ASSUME NEW c \in Missing
      PROVE  PlaceFor(c) \in DOMAIN new /\ new[PlaceFor(c)] = c
  <2>1. \A b \in Missing : PlaceFor(b) = PlaceFor(c) => b = c
    <3>1. Missing \subseteq Criteria /\ pushed \in Nat
      BY DEF Missing, TodoInv, TypeOK
    <3>2. \A b \in Missing : Rank[b] \in Nat
      BY <3>1, TodoAssumption, FS_CardinalityType
    <3>3. \A b \in Missing : PlaceFor(b) = PlaceFor(c) => Rank[b] = Rank[c]
      BY <1>3, <3>1, <3>2 DEF PlaceFor
    <3> QED BY <1>3, <3>1, <3>3, TodoAssumption
  <2> QED BY <1>3, <2>1
<1> HIDE DEF new
<1>4. ASSUME NEW c \in remaining
      PROVE  \E p \in Derived(WithMissing) : WithMissing[p].criterion = c
  <2>1. c \in Criteria /\ c # NoCriterion
    BY <1>4, TodoAssumption DEF TodoInv, TypeOK
  <2>2. CASE c \in Missing
    <3>1. /\ PlaceFor(c) \in DOMAIN WithMissing
          /\ WithMissing[PlaceFor(c)].criterion = c
      BY <1>1, <1>3, <2>2 DEF Push
    <3> QED BY <2>1, <3>1 DEF Derived
  <2>3. CASE c \notin Missing
    <3>1. PICK p \in DOMAIN items : items[p].criterion = c
      BY <1>4, <2>3 DEF Missing
    <3>2. p \in Derived(items)
      BY <2>1, <3>1 DEF Derived
    <3>3. Keeps(items, WithMissing)
      <4>1. \A q \in DOMAIN items : q \in 1 .. pushed /\ pushed \in Nat
        BY DEF TodoInv, TypeOK
      <4>2. \A b \in Missing : PlaceFor(b) > pushed /\ PlaceFor(b) \in Nat
        <5>1. Missing \subseteq Criteria /\ pushed \in Nat
          BY DEF Missing, TodoInv, TypeOK
        <5>2. Cardinality(Criteria) \in Nat
          BY TodoAssumption, FS_CardinalityType
        <5> QED BY <5>1, <5>2, TodoAssumption DEF PlaceFor
      <4>3. \A q \in DOMAIN items : q \notin DOMAIN new
        BY <1>2, <4>1, <4>2
      <4> QED BY <1>1, <4>3 DEF Keeps, Push, Derived
    <3> QED BY <3>1, <3>2, <3>3 DEF Keeps
  <2> QED BY <2>2, <2>3
<1> QED BY <1>4 DEF Listed

LEMMA StartSyncReconciles ==
  ASSUME TodoInv, NEW k \in Callers, StartSync(k)
  PROVE  SyncsReconcile'
<1>1. /\ pushed' = IF Missing = {} THEN pushed ELSE pushed + Cardinality(Criteria)
      /\ Walk(k, WithMissing, remaining, 0, TRUE) /\ UNCHANGED gate
  BY DEF StartSync, environment
<1>2. pushed' \in Nat /\ Typed(WithMissing, pushed')
  BY <1>1, WithMissingIsFine DEF Fine
<1>3. \A q \in Derived(WithMissing) : ~(Index(WithMissing, q) <= 0)
  BY <1>2, IndexGrows DEF Derived
<1> QED BY <1>1, <1>2, <1>3, MissingAreListed, WalkReconciles

(* A sync writes what the gate says on the item it waited for, and has then    *)
(* judged every item up to it.                                                 *)
LEMMA ApplyReconciles ==
  ASSUME TodoInv, SyncsReconcile, NEW k \in Callers, ApplyVerdict(k)
  PROVE  /\ SyncsReconcile'
         /\ calls[k].quiet /\ calls'[k].op = "idle" => Reconciled(items', calls[k].live)
<1> DEFINE c == calls[k]
           p == calls[k].place
           s == Judged(items[calls[k].place].status, calls[k].verdict)
           list == Set(items, p, s)
<1>1. /\ c \in Call /\ c.op = "sync" /\ UNCHANGED gate
      /\ Walk(k, list, c.live, c.at, c.quiet)
  BY DEF ApplyVerdict, environment, TodoInv, TypeOK
<1>2. c.at \in Nat /\ c.quiet \in BOOLEAN /\ pushed \in Nat
  BY <1>1 DEF Call, TodoInv, TypeOK
<1>3. p \in Derived(items) /\ p \in DOMAIN items /\ Typed(items, pushed)
  BY <1>1 DEF TodoInv, CallsWait, WaitsFor, Derived, Fine
<1>4. Agrees(s, c.verdict) /\ s \in Statuses
  BY DEF Judged, Agrees, Statuses
<1> HIDE DEF s, p
<1>5. /\ DOMAIN list = DOMAIN items /\ list = [q \in DOMAIN list |-> list[q]]
      /\ \A q \in DOMAIN items :
           /\ list[q] \in Item
           /\ list[q].criterion = items[q].criterion
           /\ list[q].status = IF q = p THEN s ELSE items[q].status
  BY <1>3, <1>4 DEF Set, Typed, Item
<1> HIDE DEF list
<1>6. Typed(list, pushed) /\ Derived(list) = Derived(items)
  BY <1>3, <1>5 DEF Typed, Derived
<1>7. ASSUME c.quiet
      PROVE  /\ Listed(list, c.live)
             /\ \A q \in Derived(list) :
                  list[q].criterion \in c.live /\ Index(list, q) <= c.at => AgreesAt(list, q)
  <2>1. Reconciling(items, c)
    BY DEF SyncsReconcile
  <2>2. /\ Listed(items, c.live)
        /\ c.at = Index(items, p) /\ c.verdict = gate[items[p].criterion]
        /\ \A q \in Derived(items) :
             items[q].criterion \in c.live /\ q < p => AgreesAt(items, q)
    BY <1>1, <1>7, <2>1 DEF Reconciling, p
  <2>3. Listed(list, c.live)
    BY <1>5, <1>6, <2>2 DEF Listed, Derived
  <2>4. ASSUME NEW q \in Derived(list), list[q].criterion \in c.live, Index(list, q) <= c.at
        PROVE  AgreesAt(list, q)
    <3>1. q \in DOMAIN items /\ q \in Nat /\ p \in Nat
      BY <1>3, <1>6, <2>4 DEF Derived, Typed
    <3>2. Index(list, q) = Index(items, q)
      BY <1>5 DEF Index
    <3>3. q <= p
      BY <1>2, <1>3, <2>2, <2>4, <3>1, <3>2, IndexGrows
    <3>4. CASE q = p
      BY <1>4, <1>5, <2>2, <3>1, <3>4 DEF AgreesAt
    <3>5. CASE q < p
      BY <1>5, <1>6, <2>2, <2>4, <3>1, <3>5 DEF AgreesAt
    <3> QED BY <3>1, <3>3, <3>4, <3>5
  <2> QED BY <2>3, <2>4
<1> HIDE DEF c
<1>8. /\ SyncsReconcile'
      /\ c.quiet /\ calls'[k].op = "idle" => Reconciled(items', c.live)
  BY <1>1, <1>2, <1>6, <1>7, WalkReconciles
<1> QED BY <1>8 DEF c

(* A step that is no sync's own leaves every sync under way or ends its quiet. *)
LEMMA ReconcilesKept ==
  ASSUME TodoInv, SyncsReconcile, [Next]_vars,
         \A k \in Callers : ~StartSync(k) /\ ~ApplyVerdict(k)
  PROVE  SyncsReconcile'
<1>1. \/ calls' = Disturbed
      \/ UNCHANGED <<items, gate, calls>>
      \/ \E k \in Callers : \/ RefuseCompletion(k) \/ Complete(k)
                            \/ \E p \in DOMAIN items : AskToComplete(k, p)
  BY DEF Next, vars, Add, ClearItems, OnItem, StartItem, BlockItem, UnblockItem, DropItem,
     CompleteManual, Change, Waiting, TurnEnds, PrdMoves
<1>2. ASSUME NEW k \in Callers, RefuseCompletion(k) PROVE SyncsReconcile'
  <2>1. /\ UNCHANGED <<items, gate>>
        /\ \A j \in Callers : calls'[j] = calls[j] \/ calls'[j].op # "sync"
    BY <1>2 DEF RefuseCompletion, environment, Idle, TodoInv, TypeOK
  <2> QED BY <2>1, OthersReconcile
<1>3. ASSUME NEW k \in Callers, NEW p \in DOMAIN items, AskToComplete(k, p)
      PROVE  SyncsReconcile'
  <2>1. /\ UNCHANGED <<items, gate>>
        /\ \A j \in Callers : calls'[j] = calls[j] \/ calls'[j].op # "sync"
    BY <1>3 DEF AskToComplete, environment, Idle, TodoInv, TypeOK
  <2> QED BY <2>1, OthersReconcile
<1>4. ASSUME NEW k \in Callers, Complete(k) PROVE SyncsReconcile'
  <2>1. calls' = [Disturbed EXCEPT ![k] = Idle]
    BY <1>4 DEF Complete
  <2>2. \A j \in Callers : calls[j] \in Call
    BY DEF TodoInv, TypeOK
  <2>3. \A j \in Callers : calls'[j].op # "sync" \/ ~calls'[j].quiet
    BY <2>1, <2>2 DEF Disturbed, Call, Idle
  <2> QED BY <2>3 DEF SyncsReconcile, Reconciling
<1> QED BY <1>1, <1>2, <1>3, <1>4, OthersReconcile

LEMMA ReconcilesStep == TodoInv /\ SyncsReconcile /\ [Next]_vars => SyncsReconcile'
BY ReconcilesKept, StartSyncReconciles, ApplyReconciles

(* A call under way ends with a step of its own.                               *)
LEMMA CallEnds ==
  ASSUME TodoInv, [Next]_vars, NEW k \in Callers, calls[k].op # "idle",
         calls'[k].op = "idle"
  PROVE  Waiting(k)
<1>1. calls \in [Callers -> Call] /\ calls[k] \in Call
  BY DEF TodoInv, TypeOK
<1>2. DOMAIN Disturbed = Callers /\ Disturbed[k].op = calls[k].op
  BY <1>1 DEF Disturbed, Call
<1>3. calls' # Disturbed /\ calls'[k] # calls[k] /\ calls'[k] # Disturbed[k]
  BY <1>2
<1>4. PICK j \in Callers : \/ Waiting(j) \/ StartSync(j)
                           \/ \E p \in DOMAIN items : AskToComplete(j, p)
  BY <1>3 DEF Next, vars, Add, ClearItems, OnItem, StartItem, BlockItem, UnblockItem,
     DropItem, CompleteManual, Change, TurnEnds, PrdMoves
<1>5. CASE j = k
  BY <1>4, <1>5 DEF Waiting, StartSync, AskToComplete
<1>6. CASE j # k
  <2>1. \A x : calls' # [Disturbed EXCEPT ![j] = x]
    BY <1>2, <1>3, <1>6
  <2>2. \A x : calls' # [calls EXCEPT ![j] = x]
    BY <1>1, <1>3, <1>6
  <2>3. ~StartSync(j) /\ ~ApplyVerdict(j)
    BY <2>1 DEF StartSync, ApplyVerdict, Walk
  <2> QED BY <1>4, <2>1, <2>2, <2>3 DEF Waiting, RefuseCompletion, Complete, AskToComplete
<1> QED BY <1>5, <1>6

(* A sync ends with its last verdict.                                          *)
LEMMA SyncEnds ==
  ASSUME TodoInv, [Next]_vars, NEW k \in Callers, calls[k].op = "sync",
         calls'[k].op = "idle"
  PROVE  ApplyVerdict(k)
BY CallEnds DEF Waiting, RefuseCompletion, Complete

(* What SyncReconciles asks of one step.                                       *)
ReconcileStep ==
  \A k \in Callers :
    calls[k].op = "sync" /\ calls[k].quiet /\ calls'[k].op = "idle" =>
      \A c \in calls[k].live : \E p \in Derived(items') :
        items'[p].criterion = c /\ Agrees(items'[p].status, gate[c])

(* However many criteria the PRD has and whatever other calls are answered in  *)
(* between: a sync that nothing disturbed ends with an item for every open     *)
(* criterion that says what the gate says (todo/derive.ts).                    *)
THEOREM SyncsReconcileTheList == Spec => SyncReconciles
<1>1. Init => SyncsReconcile
  BY DEF Init, SyncsReconcile, Reconciling, Idle
<1>2. TodoInv /\ SyncsReconcile /\ [Next]_vars => [ReconcileStep]_vars
  BY SyncEnds, ApplyReconciles DEF ReconcileStep, Reconciled
<1>3. Spec => []SyncsReconcile
  BY <1>1, ReconcilesStep, InvHolds, PTL DEF Spec
<1> QED BY <1>2, <1>3, InvHolds, PTL DEF Spec, SyncReconciles, ReconcileStep

-------------------------------------------------------------------------------
(* Writing a status leaves the array an array of items.                        *)
LEMMA SetIsTyped ==
  ASSUME NEW top, NEW list, Typed(list, top), NEW p \in DOMAIN list, NEW s \in Statuses
  PROVE  Typed(Set(list, p, s), top)
<1> DEFINE new == Set(list, p, s)
<1>1. DOMAIN new = DOMAIN list /\ new = [q \in DOMAIN new |-> new[q]]
  BY DEF Set
<1>2. \A q \in DOMAIN list : new[q] \in Item
  BY DEF Typed, Set, Item
<1> QED BY <1>1, <1>2 DEF Typed

(* Only a completion and a sync finish, and both end with a promotion.         *)
LEMMA FinishPromotes ==
  ASSUME TodoInv, [Next]_vars, NEW k \in Callers, Finishes(k)
  PROVE  \E p \in DOMAIN items, s \in Statuses : items' = PromoteNext(Set(items, p, s))
<1> DEFINE p == calls[k].place
<1>1. Waiting(k) /\ calls[k].op \in {"sync", "complete"}
  BY CallEnds DEF Finishes
<1>2. p \in DOMAIN items
  BY <1>1 DEF TodoInv, CallsWait, WaitsFor, Derived
<1>3. CASE Complete(k)
  BY <1>2, <1>3 DEF Complete, Statuses
<1>4. CASE ApplyVerdict(k)
  <2> DEFINE s == Judged(items[p].status, calls[k].verdict)
  <2>1. s \in Statuses
    <3>1. Judged(items[p].status, calls[k].verdict) \in {"done", "blocked", "in_progress", "pending"}
      BY DEF Judged
    <3> QED BY <3>1 DEF Statuses
  <2>2. calls'[k].op = "idle" /\ Disturbed \in [Callers -> Call]
    <3>1. Keeps(items, items)
      BY DEF Keeps
    <3> QED BY <3>1, CallsStay DEF Finishes
  <2>3. Walk(k, Set(items, p, s), calls[k].live, calls[k].at, calls[k].quiet)
    BY <1>4 DEF ApplyVerdict
  <2> HIDE DEF p, s
  <2> DEFINE list == Set(items, p, s)
  <2>4. ASSUME NEW q,
               calls' = [Disturbed EXCEPT
                 ![k] = [op |-> "sync", place |-> q, verdict |-> gate[list[q].criterion],
                         live |-> calls[k].live, at |-> Index(list, q),
                         quiet |-> calls[k].quiet]]
        PROVE  FALSE
    <3>1. calls'[k].op = "sync"
      BY <2>2, <2>4
    <3> QED BY <2>2, <3>1
  <2>5. items' = PromoteNext(list)
    BY <2>3, <2>4 DEF Walk
  <2> QED BY <1>2, <2>1, <2>5
<1>5. CASE RefuseCompletion(k)
  BY <1>5 DEF RefuseCompletion, Finishes
<1> QED BY <1>1, <1>3, <1>4, <1>5 DEF Waiting

(* What WorkGoesOn asks of one step.                                           *)
GoOnStep ==
  (\E k \in Callers : Finishes(k)) /\ In(items', "pending") # {} =>
    In(items', "in_progress") # {}

(* For any list: a completion or a sync leaves no pending work without an      *)
(* active item (todo/state.ts, promoteNext).                                   *)
THEOREM WorkAlwaysGoesOn == Spec => WorkGoesOn
<1>1. TodoInv /\ [Next]_vars => [GoOnStep]_vars
  <2> SUFFICES ASSUME TodoInv, [Next]_vars, NEW k \in Callers, Finishes(k),
                      In(items', "pending") # {}
               PROVE  In(items', "in_progress") # {}
    BY DEF GoOnStep
  <2>1. PICK p \in DOMAIN items, s \in Statuses : items' = PromoteNext(Set(items, p, s))
    BY FinishPromotes
  <2>2. pushed \in Nat /\ Typed(Set(items, p, s), pushed)
    BY SetIsTyped DEF TodoInv, TypeOK, Fine
  <2> QED BY <2>1, <2>2, PromoteResult
<1> QED BY <1>1, InvHolds, PTL DEF Spec, WorkGoesOn, GoOnStep

===============================================================================
