------------------------------- MODULE TodoList -------------------------------
(* The session's todo list: the transitions of todo/state.ts, the sync from    *)
(* the active PRD of todo/derive.ts, and the snapshot of the proof gate that   *)
(* the session keeps for both (index.ts).                                      *)
(*                                                                             *)
(* The list has two kinds of users that run concurrently: /todo, typed by the  *)
(* user, and todo_update, called by the model, possibly several times in one   *)
(* message.  A transition is one step, except where the code awaits the gate:  *)
(* between the question and the answer any other call may run, a turn may end  *)
(* and replace the gate, and the PRD's criteria may be verified or reopened.   *)
(*                                                                             *)
(* The array is a function from places to items.  A place is the moment its    *)
(* item was pushed, so the array's order is the order of the places and an     *)
(* item keeps its place, as it keeps its identity, when /todo clear shifts     *)
(* the indices.  Places need not be consecutive.  The slug a user types for an *)
(* item is left out: nextItemId gives a new item one no other item has, so a   *)
(* slug names one item, and here the item is named directly.                   *)
EXTENDS Integers, FiniteSets

CONSTANTS Criteria,        \* the acceptance criteria of the active PRD
          Rank,            \* their position in the PRD's document, from 1
          NoCriterion,     \* the criterion of an item written by hand
          NoPlace,         \* no item
          Callers,         \* the calls that can be under way at once
          Users,           \* those of them typed as /todo: the tool has no sync
          Lanes,           \* the lanes a turn is compiled for
          NamedBy,         \* the criteria a turn's contract names, by lane
          MaxManual,       \* bound on the items added by hand
          MaxEvents        \* bound on the turns that end with a proof and the
                           \* changes of the PRD's open criteria, together

ASSUME TodoAssumption ==
  /\ IsFiniteSet(Criteria)
  /\ Rank \in [Criteria -> 1 .. Cardinality(Criteria)]
  /\ \A a, b \in Criteria : Rank[a] = Rank[b] => a = b
  /\ NoCriterion \notin Criteria
  /\ NoPlace \notin Nat
  /\ Users \subseteq Callers
  /\ NamedBy \in [Lanes -> SUBSET Criteria]
  /\ {MaxManual, MaxEvents} \subseteq Nat

VARIABLES
  items,        \* the array on the working state
  pushed,       \* no place after this one was given out
  manual,       \* how many items were added by hand
  gate,         \* todoGate: the verdict the last proof gave each criterion
  remaining,    \* deriveGoal of the PRD on disk: the criteria not VERIFIED
  calls,        \* what each caller is waiting for
  events,       \* how often the list's environment has changed
  passes        \* history: <<criterion, lane>> of every PASS a turn reported

vars == <<items, pushed, manual, gate, remaining, calls, events, passes>>
added == <<pushed, manual>>
environment == <<gate, remaining, events, passes>>

Statuses == {"pending", "in_progress", "done", "blocked", "dropped"}

(* MISSING_PROOF, FAILED and no verdict at all are one value: neither the list *)
(* nor the sync tells them apart except in what they print.                    *)
Verdicts == {"PASS", "BLOCKED", "unproven"}

Places == Nat
Item == [criterion : Criteria \cup {NoCriterion}, status : Statuses]

(* A call under way.  "place" is the item whose verdict was asked for, "at"    *)
(* the number of elements the sync's iterator has consumed, "live" the         *)
(* criteria that were open when it started, and "quiet" whether nothing else   *)
(* has touched the list or the gate since (history, read by properties only).  *)
Call == [op : {"idle", "complete", "sync"}, place : Places \cup {NoPlace},
         verdict : Verdicts, live : SUBSET Criteria, at : Nat, quiet : BOOLEAN]

Idle == [op |-> "idle", place |-> NoPlace, verdict |-> "unproven",
         live |-> {}, at |-> 0, quiet |-> TRUE]

TypeOK ==
  /\ pushed \in Nat /\ manual \in Nat
  /\ items = [p \in DOMAIN items |-> items[p]]
  /\ \A p \in DOMAIN items : p \in 1 .. pushed /\ items[p] \in Item
  /\ gate \in [Criteria -> Verdicts]
  /\ remaining \in SUBSET Criteria
  /\ calls \in [Callers -> Call]
  /\ events \in Nat
  /\ passes \in SUBSET (Criteria \X Lanes)

-------------------------------------------------------------------------------
(* Reading and writing the array.                                              *)

In(list, status) == {p \in DOMAIN list : list[p].status = status}
First(places) == CHOOSE p \in places : \A q \in places : p <= q

Derived(list) == {p \in DOMAIN list : list[p].criterion # NoCriterion}
Set(list, p, status) == [list EXCEPT ![p].status = status]

(* addItem: "new" gives the criterion of the item at each new place. *)
Push(list, new) ==
  [p \in DOMAIN list \cup DOMAIN new |->
     IF p \in DOMAIN new THEN [criterion |-> new[p], status |-> "pending"]
     ELSE list[p]]

\* Mutant: looks at the first item only.
PromoteFirst(list) ==
  IF In(list, "in_progress") # {} \/ In(list, "pending") = {}
     \/ First(DOMAIN list) \notin In(list, "pending")
  THEN list
  ELSE Set(list, First(DOMAIN list), "in_progress")

(* The first pending item becomes active when nothing else is. *)
PromoteNext(list) ==
  IF In(list, "in_progress") # {} \/ In(list, "pending") = {} THEN list
  ELSE Set(list, First(In(list, "pending")), "in_progress")

(* Whatever changes the list or the gate ends the quiet of the calls under     *)
(* way; the caller that does it gets its own new state.                        *)
Disturbed == [k \in Callers |-> [calls[k] EXCEPT !.quiet = FALSE]]

-------------------------------------------------------------------------------
(* The transitions that do not ask the gate: /todo add|start|block|unblock|    *)
(* drop|clear and todo_add, todo_update with any status but done.  A call that *)
(* the code refuses changes nothing and is no step.                            *)

Change(list) ==
  /\ items' = list
  /\ calls' = Disturbed
  /\ UNCHANGED environment

Add ==
  /\ manual < MaxManual
  /\ manual' = manual + 1 /\ pushed' = pushed + 1
  /\ Change(Push(items, [p \in {pushed + 1} |-> NoCriterion]))

StartItem(p) ==
  /\ In(items, "in_progress") \subseteq {p}
  /\ items[p].status \in {"pending", "in_progress"}
  /\ Change(Set(items, p, "in_progress"))
  /\ UNCHANGED added

BlockItem(p) ==
  /\ items[p].status \notin {"done", "dropped"}
  /\ Change(Set(items, p, "blocked"))
  /\ UNCHANGED added

UnblockItem(p) ==
  /\ items[p].status = "blocked"
  /\ Change(Set(items, p, "pending"))
  /\ UNCHANGED added

DropItem(p) ==
  /\ items[p].status # "dropped"
  /\ Change(Set(items, p, "dropped"))
  /\ UNCHANGED added

ClearItems ==
  /\ Change([p \in Derived(items) |-> items[p]])
  /\ UNCHANGED added

-------------------------------------------------------------------------------
(* completeItem: an item written by hand is done at once; a derived one asks   *)
(* the gate after its status was checked, and is written after the answer.     *)

MayComplete(p) == items[p].status \notin {"done", "dropped"}

CompleteManual(p) ==
  /\ p \notin Derived(items) /\ MayComplete(p)
  /\ Change(PromoteNext(Set(items, p, "done")))
  /\ UNCHANGED added

AskToComplete(k, p) ==
  /\ calls[k].op = "idle"
  /\ p \in Derived(items) /\ MayComplete(p)
  /\ calls' = [calls EXCEPT ![k] = [Idle EXCEPT !.op = "complete", !.place = p,
                                      !.verdict = gate[items[p].criterion]]]
  /\ UNCHANGED <<items, added, environment>>

RefuseCompletion(k) ==
  /\ calls[k].op = "complete" /\ calls[k].verdict # "PASS"
  /\ calls' = [calls EXCEPT ![k] = Idle]
  /\ UNCHANGED <<items, added, environment>>

\* Mutant: the answer is awaited but not looked at.
CompleteOnAnswer(k) ==
  /\ calls[k].op = "complete"
  /\ items' = PromoteNext(Set(items, calls[k].place, "done"))
  /\ calls' = [Disturbed EXCEPT ![k] = Idle]
  /\ UNCHANGED <<added, environment>>

Complete(k) ==
  /\ calls[k].op = "complete" /\ calls[k].verdict = "PASS"
  /\ items' = PromoteNext(Set(items, calls[k].place, "done"))
  /\ calls' = [Disturbed EXCEPT ![k] = Idle]
  /\ UNCHANGED <<added, environment>>

-------------------------------------------------------------------------------
(* syncFromPrd: the missing criteria are appended in the document's order,     *)
(* then the live array is walked, waiting for the gate at each open criterion. *)

Missing == {c \in remaining : \A p \in DOMAIN items : items[p].criterion # c}

PlaceFor(c) == pushed + Rank[c]

WithMissing ==
  Push(items, [p \in {PlaceFor(c) : c \in Missing} |->
                 CHOOSE c \in Missing : PlaceFor(c) = p])

Index(list, p) == Cardinality({q \in DOMAIN list : q <= p})

(* What the iterator still has to judge after it consumed n elements. *)
Ahead(list, live, n) ==
  {p \in Derived(list) : list[p].criterion \in live /\ Index(list, p) > n}

(* The walk goes on to the next open criterion and reads its verdict, or ends  *)
(* with a promotion.                                                           *)
Walk(k, list, live, n, quiet) ==
  \/ /\ Ahead(list, live, n) = {}
     /\ items' = PromoteNext(list)
     /\ calls' = [Disturbed EXCEPT ![k] = Idle]
  \/ \E p \in Ahead(list, live, n) :
       /\ \A q \in Ahead(list, live, n) : p <= q
       /\ items' = list
       /\ calls' = [Disturbed EXCEPT
            ![k] = [op |-> "sync", place |-> p, verdict |-> gate[list[p].criterion],
                    live |-> live, at |-> Index(list, p), quiet |-> quiet]]

StartSync(k) ==
  /\ k \in Users /\ calls[k].op = "idle"
  /\ pushed' = IF Missing = {} THEN pushed ELSE pushed + Cardinality(Criteria)
  /\ Walk(k, WithMissing, remaining, 0, TRUE)
  /\ UNCHANGED <<manual, environment>>

\* Mutant: a blocked item stays blocked.
JudgedKeepingBlocked(status, verdict) ==
  IF verdict = "PASS" THEN "done"
  ELSE IF verdict = "BLOCKED" THEN "blocked"
  ELSE IF status \in {"in_progress", "blocked"} THEN status ELSE "pending"

(* The active item stays active unless the gate decided otherwise. *)
Judged(status, verdict) ==
  IF verdict = "PASS" THEN "done"
  ELSE IF verdict = "BLOCKED" THEN "blocked"
  ELSE IF status = "in_progress" THEN status ELSE "pending"

ApplyVerdict(k) ==
  LET c == calls[k]
  IN  /\ c.op = "sync"
      /\ Walk(k, Set(items, c.place, Judged(items[c.place].status, c.verdict)),
              c.live, c.at, c.quiet)
      /\ UNCHANGED <<added, environment>>

-------------------------------------------------------------------------------
(* What happens around the list.                                               *)

(* A turn ends with a proof, which replaces the gate's snapshot: a criterion   *)
(* its contract does not name has no verdict any more.                         *)
TurnEnds(lane, proof) ==
  /\ events < MaxEvents
  /\ events' = events + 1
  /\ gate' = [c \in Criteria |-> IF c \in NamedBy[lane] THEN proof[c] ELSE "unproven"]
  /\ passes' = passes \cup {<<c, lane>> : c \in {d \in NamedBy[lane] : proof[d] = "PASS"}}
  /\ calls' = Disturbed
  /\ UNCHANGED <<items, added, remaining>>

(* The PRD lane verifies or reopens criteria, or another PRD is created. *)
PrdMoves(open) ==
  /\ events < MaxEvents /\ open # remaining
  /\ events' = events + 1
  /\ remaining' = open
  /\ UNCHANGED <<items, added, gate, calls, passes>>

-------------------------------------------------------------------------------
Init ==
  /\ items = [p \in {} |-> NoPlace] /\ pushed = 0 /\ manual = 0
  /\ gate = [c \in Criteria |-> "unproven"]
  /\ remaining = Criteria
  /\ calls = [k \in Callers |-> Idle]
  /\ events = 0 /\ passes = {}

OnItem(p) ==
  \/ StartItem(p) \/ BlockItem(p) \/ UnblockItem(p) \/ DropItem(p)
  \/ CompleteManual(p)

Waiting(k) == RefuseCompletion(k) \/ Complete(k) \/ ApplyVerdict(k)

Next ==
  \/ Add
  \/ ClearItems
  \/ \E p \in DOMAIN items : OnItem(p)
  \/ \E k \in Callers : Waiting(k) \/ StartSync(k)
                        \/ \E p \in DOMAIN items : AskToComplete(k, p)
  \/ \E lane \in Lanes, proof \in [Criteria -> Verdicts] : TurnEnds(lane, proof)
  \/ \E open \in SUBSET Criteria : PrdMoves(open)

Spec == Init /\ [][Next]_vars

-------------------------------------------------------------------------------
(* Properties.                                                                 *)

(* At most one item is in progress, whatever order the answers of the gate     *)
(* come in: each of start, the promotion after a completion and the one after  *)
(* a sync looks at the list as it is then (state.ts, "structural").            *)
OneActive == \A p, q \in In(items, "in_progress") : p = q

(* Two syncs under way together, or a sync around a clear, never list one      *)
(* criterion twice (derive.ts, "idempotent and never duplicates an item").     *)
OneItemPerCriterion ==
  \A p, q \in Derived(items) : items[p].criterion = items[q].criterion => p = q

(* A derived item is done only if some turn's proof has passed its criterion,  *)
(* through whichever call, and however late the answer was written.            *)
DoneWasProven ==
  \A p \in Derived(items) :
    items[p].status = "done" => \E lane \in Lanes : <<items[p].criterion, lane>> \in passes

(* The list is one a reader can act on (src/todo/state.ts, src/todo/derive.ts). *)
ListIsSound == TypeOK /\ OneActive /\ OneItemPerCriterion /\ DoneWasProven

Agrees(status, verdict) ==
  /\ (status = "done") <=> (verdict = "PASS")
  /\ (status = "blocked") <=> (verdict = "BLOCKED")

(* When a sync that nothing else disturbed ends, every criterion that was open *)
(* when it began has an item, and the item says what the gate says.            *)
SyncReconciles ==
  [][\A k \in Callers :
       calls[k].op = "sync" /\ calls[k].quiet /\ calls'[k].op = "idle" =>
         \A c \in calls[k].live : \E p \in Derived(items') :
           items'[p].criterion = c /\ Agrees(items'[p].status, gate[c])]_vars

(* A completion or a sync never leaves pending work with nothing active: the   *)
(* boundary of the goal loop and the prompt read the active item.              *)
Finishes(k) ==
  /\ \/ calls[k].op = "sync"
     \/ calls[k].op = "complete" /\ calls[k].verdict = "PASS"
  /\ calls'[k].op = "idle"

WorkGoesOn ==
  [][(\E k \in Callers : Finishes(k)) /\ In(items', "pending") # {} =>
       In(items', "in_progress") # {}]_vars
===============================================================================
