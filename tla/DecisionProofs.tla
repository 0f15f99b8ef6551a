---------------------------- MODULE DecisionProofs ----------------------------
(* Proofs about what is decided of a turn: the decision sites (ControlPlane),  *)
(* for any number of asks, launches and switches, and what is made of their    *)
(* answers (Planning), for every request, configuration and document.          *)
(*                                                                             *)
(* Asks and servers are treated apart.  What holds of an ask is a predicate of *)
(* its record and of the client's counter: lemmas say which transitions of a   *)
(* record keep it, and the steps of the specification compose these.  What     *)
(* holds of the servers never looks at an ask.                                 *)
(*                                                                             *)
(* A plan is treated the same way: what holds of it is a predicate, PlanOK,    *)
(* each of the manager's transitions keeps it, and a plan that keeps it does   *)
(* not stall.  A turn's contract and route are operators of a few arguments:   *)
(* lemmas say what each returns of arguments of their kind, and RoutingInv     *)
(* says which phase of a turn holds what.                                      *)
(*                                                                             *)
(* A benchmark is a run of the suite.  Lemmas about sums say what the records  *)
(* and the payments of its attempts amount to, and BenchInv which of them are  *)
(* there, and joined, at each point of the run.                                *)
EXTENDS ControlPlane, Planning, FiniteSetTheorems, WellFoundedInduction, SequenceTheorems, TLAPS

-------------------------------------------------- (* the decision sites *)

(* Nothing has failed before the first launch, and the timer is set only while *)
(* another one is allowed; a fallback raised the counter after the site had    *)
(* read it.                                                                    *)
Fine(ask, count) ==
  /\ ask \in AskState
  /\ ask.hedge => ask.at = "sending" /\ ask.launched < Attempts
  /\ ask.at \in {"idle", "resolving"} => ask.failed = 0
  /\ ask.at = "sending" => ask.failed < ask.launched
  /\ ask.at = "settled" <=> ask.outcome # "none"
  /\ ask.before <= count
  /\ ask.outcome = "fallback" => ask.before < count
  /\ ask.taken # "none" => ask.at = "settled"
  /\ ask.taken = "answer" => ask.outcome = "answer"

AsksFine ==
  /\ fallbackCount \in Nat
  /\ asks = [a \in Asks |-> asks[a]]
  /\ \A a \in Asks : Fine(asks[a], fallbackCount)

ProvidersTyped ==
  /\ mode \in Modes
  /\ provider \in Index
  /\ providers \in [Index -> Provider]
  /\ disposals \in [Disposers -> Disposal]
  /\ crossed \in BOOLEAN

LEMMA TypeSplits == TypeOK <=> ProvidersTyped /\ fallbackCount \in Nat /\ asks \in [Asks -> AskState]
BY DEF TypeOK, ProvidersTyped

LEMMA FineIsTyped == ProvidersTyped /\ AsksFine => TypeOK
BY TypeSplits DEF AsksFine, Fine

-------------------------------------------------------------------------------
(* Transitions of one ask.                                                     *)

(* Other asks' fallbacks do no harm. *)
LEMMA FineLater ==
  ASSUME NEW c \in Nat, NEW d \in Nat, c <= d, NEW ask, Fine(ask, c)
  PROVE  Fine(ask, d)
BY DEF Fine, AskState

LEMMA FineBegun ==
  ASSUME AsksFine, NEW a \in Asks, asks[a].at = "idle"
  PROVE  Fine(Begun(a), fallbackCount) /\ Begun(a).at = "idle"
<1>1. Fine(asks[a], fallbackCount) /\ fallbackCount \in Nat
  BY DEF AsksFine
<1> QED BY <1>1 DEF Begun, Fine, AskState

LEMMA FineSent ==
  ASSUME NEW c \in Nat, NEW ask, Fine(ask, c), ask.at \in {"idle", "resolving"}
  PROVE  Fine(Sent(ask), c)
<1> DEFINE hedge == providers[provider].name # "laya" /\ Rearms(1)
<1> DEFINE new == Sent(ask)
<1>1. hedge \in BOOLEAN /\ (hedge => 1 < Attempts)
  BY DEF Rearms
<1>2. new = [ask EXCEPT !.at = "sending", !.launched = 1, !.hedge = hedge]
  BY DEF Sent
<1>3. /\ ask \in AskState /\ ask.failed = 0 /\ ask.before <= c
      /\ ask.outcome = "none" /\ ask.taken = "none"
  BY DEF Fine, AskState
<1> HIDE DEF hedge, new
<1>4. 1 \in 0 .. Attempts
  BY ControlPlaneAssumption DEF ControlPlaneAssumption
<1>5. /\ new \in AskState /\ new.at = "sending" /\ new.launched = 1
      /\ new.failed = 0 /\ new.before = ask.before
      /\ new.outcome = "none" /\ new.taken = "none"
  BY <1>1, <1>2, <1>3, <1>4 DEF AskState
<1>6. new.hedge = hedge
  BY <1>2, <1>3 DEF AskState
<1>7. new.hedge => 1 < Attempts
  BY <1>1, <1>6
<1>8. Fine(new, c)
  BY <1>3, <1>5, <1>7 DEF Fine
<1> QED BY <1>8 DEF new

LEMMA FineSettled ==
  ASSUME NEW c \in Nat, NEW d \in Nat, c <= d, NEW ask, Fine(ask, c),
         ask.at # "settled", NEW outcome \in {"answer", "fallback"},
         outcome = "fallback" => c < d
  PROVE  Fine(Settled(ask, outcome), d)
<1> DEFINE new == Settled(ask, outcome)
<1>1. ask \in AskState /\ ask.taken = "none" /\ ask.before <= c
  BY DEF Fine, AskState
<1>2. /\ new \in AskState /\ new.at = "settled" /\ ~new.hedge
      /\ new.outcome = outcome /\ new.before = ask.before /\ new.taken = "none"
  BY <1>1 DEF Settled, AskState
<1>3. new.before <= d /\ (outcome = "fallback" => new.before < d)
  BY <1>1, <1>2 DEF AskState
<1> HIDE DEF new
<1>4. Fine(new, d)
  BY <1>2, <1>3 DEF Fine
<1> QED BY <1>4 DEF new

LEMMA AskStepsKeepAsks ==
  ASSUME ProvidersTyped, AsksFine, NEW a \in Asks, OfAsk(a) PROVE AsksFine'
<1>0. /\ Fine(asks[a], fallbackCount) /\ fallbackCount \in Nat /\ asks[a] \in AskState
      /\ asks[a].at = "idle" => Fine(Begun(a), fallbackCount) /\ Begun(a).at = "idle"
  BY FineBegun DEF AsksFine, Fine
(* It is enough to show that the counter does not fall and that this ask stays *)
(* fine; the others are not touched.                                           *)
<1>a. ASSUME NEW new, asks' = [asks EXCEPT ![a] = new],
             fallbackCount' \in Nat, fallbackCount <= fallbackCount',
             Fine(new, fallbackCount')
      PROVE  AsksFine'
  <2>1. \A b \in Asks : Fine(asks[b], fallbackCount')
    BY <1>0, <1>a, FineLater DEF AsksFine
  <2>2. \A b \in Asks : asks'[b] = IF b = a THEN new ELSE asks[b]
    BY <1>a DEF AsksFine
  <2>3. asks' = [b \in Asks |-> asks'[b]]
    BY <1>a DEF AsksFine
  <2> QED BY <1>a, <2>1, <2>2, <2>3 DEF AsksFine
<1>b. fallbackCount' = fallbackCount => fallbackCount' \in Nat /\ fallbackCount <= fallbackCount'
  BY <1>0
<1>1. CASE AskInVain(a)
  <2>1. Fine(FellBack(Begun(a)), fallbackCount + 1)
    BY <1>0, <1>1, FineSettled DEF AskInVain, FellBack
  <2>2. /\ asks' = [asks EXCEPT ![a] = FellBack(Begun(a))]
        /\ fallbackCount' = fallbackCount + 1
    BY <1>1 DEF AskInVain
  <2>3. fallbackCount' \in Nat /\ fallbackCount <= fallbackCount'
    BY <1>0, <2>2
  <2>4. Fine(FellBack(Begun(a)), fallbackCount')
    BY <2>1, <2>2
  <2> QED BY <1>a, <2>2, <2>3, <2>4
<1>2. CASE AskAndSend(a)
  <2>1. Fine(Sent(Begun(a)), fallbackCount)
    BY <1>0, <1>2, FineSent DEF AskAndSend
  <2>2. /\ asks' = [asks EXCEPT ![a] = Sent(Begun(a))]
        /\ fallbackCount' = fallbackCount
    BY <1>2 DEF AskAndSend
  <2> QED BY <1>a, <1>b, <2>1, <2>2
<1>3. CASE AskAndWait(a)
  <2>1. Fine([Begun(a) EXCEPT !.at = "resolving"], fallbackCount)
    BY <1>0, <1>3 DEF AskAndWait, Fine, AskState
  <2>2. /\ asks' = [asks EXCEPT ![a] = [Begun(a) EXCEPT !.at = "resolving"]]
        /\ fallbackCount' = fallbackCount
    BY <1>3 DEF AskAndWait
  <2> QED BY <1>a, <1>b, <2>1, <2>2
<1>4. CASE LaunchAgain(a)
  <2> DEFINE new == [asks[a] EXCEPT !.launched = @ + 1, !.hedge = Rearms(asks[a].launched + 1)]
  <2>1. /\ asks[a].at = "sending" /\ asks[a].launched < Attempts
        /\ asks[a].failed < asks[a].launched
    BY <1>0, <1>4 DEF LaunchAgain, Fine
  <2>2. Rearms(asks[a].launched + 1) \in BOOLEAN
    BY DEF Rearms
  <2>3. asks[a].launched + 1 \in 0 .. Attempts
    BY <1>0, <2>1, ControlPlaneAssumption DEF ControlPlaneAssumption, AskState
  <2>4. /\ new \in AskState /\ new.at = "sending" /\ new.launched = asks[a].launched + 1
        /\ new.failed = asks[a].failed /\ new.before = asks[a].before
        /\ new.outcome = asks[a].outcome /\ new.taken = asks[a].taken
    BY <1>0, <2>1, <2>2, <2>3 DEF AskState
  <2>5. new.hedge => new.launched < Attempts
    BY <1>0, <2>4 DEF Rearms, AskState
  <2>6. new.failed < new.launched
    BY <1>0, <2>1, <2>4 DEF AskState
  <2>7. asks' = [asks EXCEPT ![a] = new] /\ fallbackCount' = fallbackCount
    BY <1>4 DEF LaunchAgain
  <2> HIDE DEF new
  <2>8. Fine(new, fallbackCount)
    BY <1>0, <2>1, <2>4, <2>5, <2>6 DEF Fine
  <2> QED BY <1>a, <1>b, <2>7, <2>8
<1>5. CASE RequestFails(a)
  <2> DEFINE ask == [asks[a] EXCEPT !.failed = @ + 1]
  <2>1. asks[a].at = "sending" /\ asks[a].failed < asks[a].launched
    BY <1>5 DEF RequestFails
  <2>2. asks[a].failed + 1 \in 0 .. Attempts
    BY <1>0, <2>1, ControlPlaneAssumption DEF ControlPlaneAssumption, AskState
  <2>3. /\ ask \in AskState /\ ask.at = "sending" /\ ask.failed = asks[a].failed + 1
        /\ ask.launched = asks[a].launched /\ ask.before = asks[a].before
        /\ ask.outcome = asks[a].outcome /\ ask.taken = asks[a].taken
    BY <1>0, <2>1, <2>2 DEF AskState
  <2>4. ask.hedge => asks[a].hedge
    BY <1>0 DEF AskState
  <2>5. /\ ask.outcome = "none" /\ ask.taken = "none" /\ ask.before <= fallbackCount
        /\ ask.hedge => ask.launched < Attempts
    BY <1>0, <2>1, <2>3, <2>4 DEF Fine, AskState
  <2>6. asks' = [asks EXCEPT ![a] = IF GivesUp(ask) THEN FellBack(ask) ELSE ask]
    BY <1>5 DEF RequestFails
  <2>7. fallbackCount' = fallbackCount + IF GivesUp(ask) THEN 1 ELSE 0
    BY <1>5 DEF RequestFails
  <2> HIDE DEF ask
  <2>8. CASE GivesUp(ask)
    <3> DEFINE new == FellBack(ask)
    <3>1. /\ new \in AskState /\ new.at = "settled" /\ ~new.hedge
          /\ new.outcome = "fallback" /\ new.before = ask.before /\ new.taken = "none"
      BY <2>3, <2>5 DEF FellBack, Settled, AskState
    <3>2. new.before < fallbackCount + 1
      BY <1>0, <2>3, <2>5, <3>1 DEF AskState
    <3>3. asks' = [asks EXCEPT ![a] = new] /\ fallbackCount' = fallbackCount + 1
      BY <2>6, <2>7, <2>8
    <3> HIDE DEF new
    <3>4. Fine(new, fallbackCount + 1)
      BY <1>0, <3>1, <3>2 DEF Fine, AskState
    <3>5. fallbackCount' \in Nat /\ fallbackCount <= fallbackCount'
      BY <1>0, <3>3
    <3>6. Fine(new, fallbackCount')
      BY <3>3, <3>4
    <3> QED BY <1>a, <3>3, <3>5, <3>6
  <2>9. CASE ~GivesUp(ask)
    <3>1. ask.failed < ask.launched
      BY <1>0, <2>1, <2>3, <2>9 DEF GivesUp, AskState
    <3>2. Fine(ask, fallbackCount)
      BY <2>3, <2>5, <3>1 DEF Fine
    <3>3. asks' = [asks EXCEPT ![a] = ask] /\ fallbackCount' = fallbackCount
      BY <1>0, <2>6, <2>7, <2>9
    <3> QED BY <1>a, <1>b, <3>2, <3>3
  <2> QED BY <2>8, <2>9
<1>6. CASE \E response \in Responses : Answer(a, response)
  <2>1. PICK response \in Responses : Answer(a, response)
    BY <1>6
  <2> DEFINE outcome == IF response = "accepted" THEN "answer" ELSE "fallback"
             count == fallbackCount + Counts(response)
  <2>2. /\ count \in Nat /\ fallbackCount <= count
        /\ outcome = "fallback" => fallbackCount < count
    BY <1>0 DEF Counts
  <2>3. Fine(Settled(asks[a], outcome), count)
    BY <1>0, <2>1, <2>2, FineSettled DEF Answer
  <2>4. asks' = [asks EXCEPT ![a] = Settled(asks[a], outcome)] /\ fallbackCount' = count
    BY <2>1 DEF Answer
  <2> HIDE DEF outcome, count
  <2>5. fallbackCount' \in Nat /\ fallbackCount <= fallbackCount'
    BY <2>2, <2>4
  <2>6. Fine(Settled(asks[a], outcome), fallbackCount')
    BY <2>3, <2>4
  <2> QED BY <1>a, <2>4, <2>5, <2>6
<1>7. CASE ReadResult(a)
  <2> DEFINE taken == IF fallbackCount > asks[a].before THEN "conservative" ELSE "answer"
             new == [asks[a] EXCEPT !.taken = taken]
  <2>1. asks[a].at = "settled" /\ asks[a].outcome # "none"
    BY <1>0, <1>7 DEF ReadResult, Fine
  <2>2. taken = "answer" => asks[a].outcome = "answer"
    BY <1>0, <2>1 DEF Fine, AskState
  <2>3. taken \in {"answer", "conservative"}
    OBVIOUS
  <2>4. asks' = [asks EXCEPT ![a] = new] /\ fallbackCount' = fallbackCount
    BY <1>7 DEF ReadResult
  <2> HIDE DEF taken
  <2>5. Fine(new, fallbackCount)
    BY <1>0, <2>1, <2>2, <2>3 DEF Fine, AskState
  <2> HIDE DEF new
  <2> QED BY <1>a, <1>b, <2>4, <2>5
<1> QED BY <1>1, <1>2, <1>3, <1>4, <1>5, <1>6, <1>7 DEF OfAsk, RequestEnds

LEMMA WaitingCounted == Cardinality(Waiting) \in Nat /\ (Waiting # {} => Cardinality(Waiting) > 0)
<1>1. IsFiniteSet(Waiting)
  <2>1. Waiting \subseteq Asks
    BY DEF Waiting
  <2> QED BY <2>1, ControlPlaneAssumption, FS_Subset DEF ControlPlaneAssumption
<1>2. Cardinality(Waiting) \in Nat
  BY <1>1, FS_CardinalityType
<1>3. Waiting # {} => Cardinality(Waiting) # 0
  BY <1>1, FS_EmptySet
<1> QED BY <1>2, <1>3

LEMMA FailedStartKeepsAsks ==
  ASSUME AsksFine, NEW p, StartFails(p) PROVE AsksFine'
<1> DEFINE count == fallbackCount + Cardinality(Waiting)
<1>1. /\ fallbackCount \in Nat /\ count \in Nat /\ fallbackCount <= count
      /\ Waiting # {} => fallbackCount < count
  BY WaitingCounted DEF AsksFine
<1>2. asks' = [a \in Asks |-> IF a \in Waiting THEN FellBack(asks[a]) ELSE asks[a]]
  BY DEF StartFails
<1>3. fallbackCount' = count
  BY DEF StartFails
<1> HIDE DEF count
<1>4. ASSUME NEW a \in Asks PROVE Fine(asks'[a], count)
  <2>1. Fine(asks[a], fallbackCount)
    BY DEF AsksFine
  <2>2. CASE a \in Waiting
    BY <1>1, <1>2, <2>1, <2>2, FineSettled DEF Waiting, FellBack
  <2>3. CASE a \notin Waiting
    BY <1>1, <1>2, <2>1, <2>3, FineLater
  <2> QED BY <2>2, <2>3
<1>5. asks' = [a \in Asks |-> asks'[a]]
  BY <1>2
<1> QED BY <1>1, <1>3, <1>4, <1>5 DEF AsksFine

LEMMA ReadyStartKeepsAsks ==
  ASSUME AsksFine, NEW p, Listens(p) PROVE AsksFine'
<1>1. asks' = [a \in Asks |-> IF a \in Waiting THEN Sent(asks[a]) ELSE asks[a]]
  BY DEF Listens
<1>2. fallbackCount' = fallbackCount /\ fallbackCount \in Nat
  BY DEF Listens, AsksFine
<1>3. ASSUME NEW a \in Asks PROVE Fine(asks'[a], fallbackCount)
  <2>1. Fine(asks[a], fallbackCount)
    BY DEF AsksFine
  <2>2. a \in Waiting => Fine(Sent(asks[a]), fallbackCount)
    BY <1>2, <2>1, FineSent DEF Waiting
  <2> QED BY <1>1, <2>1, <2>2
<1>4. asks' = [a \in Asks |-> asks'[a]]
  BY <1>1
<1> QED BY <1>2, <1>3, <1>4 DEF AsksFine

LEMMA AsksStayFine ==
  ASSUME ProvidersTyped, AsksFine, [Next]_vars PROVE AsksFine'
<1>1. ASSUME NEW a \in Asks, OfAsk(a) PROVE AsksFine'
  BY <1>1, AskStepsKeepAsks
<1>2. ASSUME NEW p \in Index, StartMoves(p) PROVE AsksFine'
  BY <1>2, FailedStartKeepsAsks, ReadyStartKeepsAsks
  DEF StartMoves, Install, Installed, Spawn, InstallFails, ExitsEarly, StartTimesOut, AsksFine
<1>3. ASSUME UNCHANGED <<asks, fallbackCount>> PROVE AsksFine'
  BY <1>3 DEF AsksFine
<1>4. ASSUME NEW p \in Index, ServerExits(p) PROVE AsksFine'
  BY <1>3, <1>4 DEF ServerExits
<1>5. ASSUME NEW d \in Disposers, NEW next \in Names, Dispose(d, next) PROVE AsksFine'
  BY <1>3, <1>5 DEF Dispose
<1>6. ASSUME NEW d \in Disposers, DisposalMoves(d) PROVE AsksFine'
  BY <1>3, <1>6 DEF DisposalMoves, Stop, Stopped
<1>7. CASE WarmUp
  BY <1>3, <1>7 DEF WarmUp
<1>8. ASSUME NEW m \in Modes, SetMode(m) PROVE AsksFine'
  BY <1>3, <1>8 DEF SetMode
<1>9. CASE UNCHANGED vars
  BY <1>3, <1>9 DEF vars
<1> QED BY <1>1, <1>2, <1>4, <1>5, <1>6, <1>7, <1>8, <1>9 DEF Next, Disposers, Names

-------------------------------------------------------------------------------
(* The servers.                                                                *)

(* Only the provider in use has a start that is remembered, and a server that  *)
(* was not told to stop has one.                                               *)
ServersOwned ==
  \A p \in Index :
    /\ providers[p].start # "none" => p = provider /\ providers[p].name = "laya"
    /\ Runs(p) /\ ~providers[p].told => providers[p].start # "none"
    /\ Runs(p) /\ ~providers[p].told => providers[p].start # "failed"
    /\ p > provider => providers[p].server = "none"

(* A disposal under way has sealed its provider; a switch holds the provider   *)
(* in use until it returns.                                                    *)
DisposalsSeal ==
  /\ disposals["swap"].at # "done"
  /\ disposals["swap"].at # "idle" => disposals["swap"].of = provider /\ provider < MaxSwaps
  /\ \A d \in Disposers : disposals[d].at \in {"waiting", "stopping"} =>
       /\ disposals[d].of <= provider /\ providers[disposals[d].of].disposed
       /\ disposals[d].at = "stopping" => providers[disposals[d].of].told

(* Once the shutdown has begun, and no switch overlaps it, the provider in use *)
(* stays the one it has sealed, and cannot be started any more.                *)
ShutdownSeals ==
  disposals["shutdown"].at # "idle" /\ ~crossed =>
    /\ disposals["swap"].at = "idle"
    /\ providers[provider].name = "laya" => providers[provider].disposed
    /\ disposals["shutdown"].at # "done" => disposals["shutdown"].of = provider
    /\ disposals["shutdown"].at = "done" => providers[provider].start = "none"

ServersInv == ProvidersTyped /\ ServersOwned /\ DisposalsSeal /\ ShutdownSeals

LEMMA InitServers == Init => ServersInv /\ AsksFine
<1> SUFFICES ASSUME Init PROVE ServersInv /\ AsksFine
  OBVIOUS
<1>1. 0 \in Index /\ Returned("idle") \in Disposal
  BY ControlPlaneAssumption DEF ControlPlaneAssumption, Index, Returned, Disposal, Names
<1>2. \A name \in Names : Fresh(name) \in Provider
  BY DEF Fresh, Provider
<1>a. PICK name \in Names :
        providers = [p \in Index |-> Fresh(IF p = 0 THEN name ELSE "typesafe")]
  BY DEF Init
<1>3. /\ providers \in [Index -> Provider]
      /\ \A p \in Index : providers[p].start = "none" /\ providers[p].server = "none"
  BY <1>2, <1>a DEF Names, Fresh
<1>4. /\ disposals \in [Disposers -> Disposal]
      /\ \A d \in Disposers : disposals[d].at = "idle"
  BY <1>1 DEF Init, Returned
<1>5. ProvidersTyped
  BY <1>1, <1>3, <1>4 DEF Init, ProvidersTyped
<1>6. ServersOwned
  BY <1>3 DEF ServersOwned, Runs
<1>7. DisposalsSeal /\ ShutdownSeals
  BY <1>4 DEF DisposalsSeal, ShutdownSeals, Disposers
<1>8. Fine(Unasked, 0)
  BY ControlPlaneAssumption DEF ControlPlaneAssumption, Fine, Unasked, AskState
<1>9. AsksFine
  BY <1>8 DEF Init, AsksFine
<1> QED BY <1>5, <1>6, <1>7, <1>9 DEF ServersInv

(* Starting the provider in use. *)
LEMMA StartingKeepsServers ==
  ASSUME ServersInv, Waits(providers[provider]), providers' = Starting,
         UNCHANGED <<mode, switching>>
  PROVE  ServersInv'
<1>1. provider \in Index /\ providers \in [Index -> Provider]
  BY DEF ServersInv, ProvidersTyped
<1>2. /\ providers[provider] \in Provider
      /\ providers[provider].name = "laya" /\ ~providers[provider].disposed
  BY <1>1 DEF Waits
<1>3. \A p \in Index : p # provider => providers'[p] = providers[p]
  BY <1>1 DEF Starting
<1>4. providers'[provider] = [providers[provider] EXCEPT !.start = "starting"]
  BY <1>1 DEF Starting
<1>5. ProvidersTyped'
  BY DEF ServersInv, ProvidersTyped, switching, Starting, Provider
<1>6. ServersOwned'
  BY <1>1, <1>2, <1>3, <1>4 DEF ServersInv, ServersOwned, Runs, Provider, switching
<1>7. DisposalsSeal'
  BY <1>1, <1>2, <1>3, <1>4
  DEF ServersInv, ProvidersTyped, DisposalsSeal, Provider, Disposal, switching
<1>8. ShutdownSeals'
  BY <1>1, <1>2, <1>4 DEF ServersInv, ShutdownSeals, Provider, switching
<1> QED BY <1>5, <1>6, <1>7, <1>8 DEF ServersInv

(* What happens to a server while nobody switches: its start settles, it dies. *)
LEMMA ServerStepsKeepServers ==
  ASSUME ServersInv, NEW p \in Index, StartMoves(p) \/ ServerExits(p)
  PROVE  ServersInv'
<1>1. /\ providers \in [Index -> Provider] /\ providers[p] \in Provider
      /\ UNCHANGED <<mode, switching>>
  BY DEF ServersInv, ProvidersTyped, StartMoves, Install, Installed, Spawn, InstallFails,
         ExitsEarly, StartTimesOut, Listens, StartFails, ServerExits
<1>2. PICK new \in Provider :
        /\ providers' = [providers EXCEPT ![p] = new]
        /\ new.name = providers[p].name /\ new.disposed = providers[p].disposed
        /\ providers[p].told => new.told
        /\ providers[p].start = "none" => new.start = "none"
        /\ new.start = "none" => providers[p].start = "none"
        /\ new.start = "failed" /\ ~new.told /\ new.server \in {"booting", "up"} =>
             providers[p].start = "failed" /\ providers[p].server \in {"booting", "up"}
        /\ new.start = "none" /\ ~new.told /\ new.server \in {"booting", "up"} =>
             providers[p].server \in {"booting", "up"}
        /\ providers[p].start = "none" /\ providers[p].server = "none" => new.server = "none"
  <2>1. CASE Spawn(p)
    <3>1. [providers[p] EXCEPT !.server = "booting"] \in Provider
      BY <1>1 DEF Provider
    <3> QED BY <1>1, <2>1, <3>1 DEF Spawn, Probing, SettingUp, Provider
  <2>2. CASE InstallFails(p)
    <3>1. [providers[p] EXCEPT !.start = "failed", !.server = "none"] \in Provider
      BY <1>1 DEF Provider
    <3> QED BY <1>1, <2>2, <3>1 DEF InstallFails, SettingUp, Provider
  <2>3. CASE ExitsEarly(p)
    <3>1. [providers[p] EXCEPT !.start = "failed", !.server = "gone"] \in Provider
      BY <1>1 DEF Provider
    <3> QED BY <1>1, <2>3, <3>1 DEF ExitsEarly, Provider
  <2>4. CASE StartTimesOut(p)
    <3>1. [providers[p] EXCEPT !.start = "failed", !.told = TRUE] \in Provider
      BY <1>1 DEF Provider
    <3> QED BY <1>1, <2>4, <3>1 DEF StartTimesOut, Provider
  <2>5. CASE Listens(p)
    <3>1. [providers[p] EXCEPT !.start = "ready", !.server = "up"] \in Provider
      BY <1>1 DEF Provider
    <3> QED BY <1>1, <2>5, <3>1 DEF Listens, Provider
  <2>6. CASE ServerExits(p)
    <3>1. [providers[p] EXCEPT !.server = "gone"] \in Provider
      BY <1>1 DEF Provider
    <3> QED BY <1>1, <2>6, <3>1 DEF ServerExits, Provider
  <2>7. CASE Install(p) \/ Installed(p)
    <3>1. PICK stage \in {"installing", "installed"} :
            providers' = [providers EXCEPT ![p].server = stage]
      BY <2>7 DEF Install, Installed
    <3>2. [providers[p] EXCEPT !.server = stage] \in Provider
      BY <1>1, <3>1 DEF Provider
    <3> QED BY <1>1, <2>7, <3>1, <3>2 DEF Install, Installed, Probing, SettingUp, Provider
  <2> QED BY <2>1, <2>2, <2>3, <2>4, <2>5, <2>6, <2>7 DEF StartMoves
<1>3. ProvidersTyped'
  BY <1>1, <1>2 DEF ServersInv, ProvidersTyped, switching
<1>4. \A q \in Index : providers'[q] = IF q = p THEN new ELSE providers[q]
  BY <1>1, <1>2
<1>5. ServersOwned'
  <2> SUFFICES
               /\ new.start # "none" => p = provider /\ new.name = "laya"
               /\ new.server \in {"booting", "up"} /\ ~new.told =>
                    new.start # "none" /\ new.start # "failed"
               /\ p > provider => new.server = "none"
    BY <1>1, <1>4 DEF ServersInv, ServersOwned, Runs, switching
  <2>1. new.start # "none" => p = provider /\ new.name = "laya"
    BY <1>2 DEF ServersInv, ServersOwned
  <2>2. new.server \in {"booting", "up"} /\ ~new.told => new.start # "none"
    BY <1>2 DEF ServersInv, ServersOwned, Runs
  <2>3. new.server \in {"booting", "up"} /\ ~new.told => new.start # "failed"
    BY <1>2 DEF ServersInv, ServersOwned, Runs
  <2>4. p > provider => new.server = "none"
    BY <1>2 DEF ServersInv, ServersOwned, ProvidersTyped, Index
  <2> QED BY <2>1, <2>2, <2>3, <2>4
<1>6. DisposalsSeal'
  BY <1>1, <1>2, <1>4 DEF ServersInv, ProvidersTyped, DisposalsSeal, Disposal, switching
<1>7. ShutdownSeals'
  BY <1>1, <1>2, <1>4 DEF ServersInv, ProvidersTyped, ShutdownSeals, switching
<1> QED BY <1>3, <1>5, <1>6, <1>7 DEF ServersInv

(* A disposal returns with a provider that has no start left, and whose server *)
(* is gone or told to go: a switch then replaces it.                           *)
Released(ps) ==
  /\ ps \in [Index -> Provider]
  /\ \A p \in Index :
       /\ ps[p].start # "none" => p = provider /\ ps[p].name = "laya"
       /\ ps[p].server \in {"booting", "up"} /\ ~ps[p].told =>
            ps[p].start # "none" /\ ps[p].start # "failed"
       /\ p > provider => ps[p].server = "none"
       /\ providers[p].told => ps[p].told
       /\ providers[p].disposed => ps[p].disposed
       /\ ps[p].name = providers[p].name

LEMMA DisposedReleases ==
  ASSUME ServersInv
  PROVE  LET ps == Disposed(providers, provider) IN
         /\ Released(ps)
         /\ ps[provider].name = "laya" => ps[provider].disposed
         /\ ps[provider].start = providers[provider].start
<1> DEFINE ps == Disposed(providers, provider)
<1>1. providers \in [Index -> Provider] /\ provider \in Index
  BY DEF ServersInv, ProvidersTyped
<1>2. CASE providers[provider].name # "laya"
  <2>1. ps = providers
    BY <1>2 DEF Disposed
  <2> QED BY <1>1, <1>2, <2>1 DEF Released, ServersInv, ServersOwned, Runs
<1>3. CASE providers[provider].name = "laya"
  <2> DEFINE new == [providers[provider] EXCEPT !.disposed = TRUE]
  <2>1. ps = [providers EXCEPT ![provider] = new]
    BY <1>1, <1>3 DEF Disposed
  <2>2. /\ new \in Provider /\ new.disposed /\ new.start = providers[provider].start
        /\ new.server = providers[provider].server /\ new.name = providers[provider].name
        /\ new.told = providers[provider].told
    BY <1>1 DEF Provider
  <2> HIDE DEF new, ps
  <2>3. ps \in [Index -> Provider]
    BY <1>1, <2>1, <2>2
  <2>4. \A p \in Index : ps[p] = IF p = provider THEN new ELSE providers[p]
    BY <1>1, <2>1
  <2>5. Released(ps)
    BY <1>1, <2>2, <2>3, <2>4 DEF Released, ServersInv, ServersOwned, Runs
  <2> QED BY <1>1, <2>2, <2>4, <2>5 DEF ps
<1> QED BY <1>2, <1>3

LEMMA ForgottenReleases ==
  ASSUME ServersInv, NEW p \in Index,
         providers[p].start \in {"starting", "ready"} => providers[p].told
  PROVE  LET ps == Forgotten(p) IN Released(ps) /\ ps[p].start = "none"
<1> DEFINE ps == Forgotten(p)
           new == [providers[p] EXCEPT !.start = "none"]
<1>1. /\ providers \in [Index -> Provider] /\ providers[p] \in Provider
      /\ provider \in Index
  BY DEF ServersInv, ProvidersTyped
<1>2. /\ new \in Provider /\ new.disposed = providers[p].disposed /\ new.start = "none"
      /\ new.server = providers[p].server /\ new.name = providers[p].name
      /\ new.told = providers[p].told
  BY <1>1 DEF Provider
<1>3. ps = [providers EXCEPT ![p] = new]
  BY <1>1 DEF Forgotten
<1>4. providers[p].server \in {"booting", "up"} => providers[p].told
  BY <1>1 DEF ServersInv, ServersOwned, Runs, Provider
<1> HIDE DEF new, ps
<1>5. ps \in [Index -> Provider]
  BY <1>1, <1>2, <1>3
<1>6. \A q \in Index : ps[q] = IF q = p THEN new ELSE providers[q]
  BY <1>1, <1>3
<1>7. Released(ps)
  BY <1>1, <1>2, <1>4, <1>5, <1>6 DEF Released, ServersInv, ServersOwned, Runs
<1> QED BY <1>2, <1>6, <1>7 DEF ps

(* The next provider is fresh, so the old one needs to be released entirely. *)
LEMMA SwapReturnKeepsServers ==
  ASSUME ServersInv, NEW next \in Names, NEW ps, Released(ps),
         ps[provider].start = "none", provider < MaxSwaps,
         Return("swap", next, ps), UNCHANGED mode,
         crossed' \in BOOLEAN, crossed => crossed',
         disposals["shutdown"].at # "idle" => crossed'
  PROVE  ServersInv'
<1>1. /\ provider' = provider + 1
      /\ providers' = [ps EXCEPT ![provider + 1] = Fresh(next)]
      /\ disposals' = [disposals EXCEPT !["swap"] = Returned("idle")]
  BY DEF Return
<1>2. /\ provider \in Index /\ provider' \in Index /\ provider' > provider
      /\ \A p \in Index : p < provider' => p <= provider
      /\ \A p \in Index : p > provider' => p > provider /\ p # provider'
  BY <1>1, ControlPlaneAssumption
  DEF ControlPlaneAssumption, ServersInv, ProvidersTyped, Index
<1>3. /\ Fresh(next) \in Provider /\ Fresh(next).start = "none"
      /\ Fresh(next).server = "none"
  BY DEF Fresh, Provider
<1>4. /\ providers' \in [Index -> Provider]
      /\ \A p \in Index : providers'[p] = IF p = provider' THEN Fresh(next) ELSE ps[p]
  BY <1>1, <1>2, <1>3 DEF Released
<1>5. /\ disposals \in [Disposers -> Disposal] /\ disposals' \in [Disposers -> Disposal]
      /\ disposals'["swap"].at = "idle"
      /\ disposals'["shutdown"] = disposals["shutdown"]
  BY <1>1, ControlPlaneAssumption
  DEF ControlPlaneAssumption, ServersInv, ProvidersTyped, Disposers, Returned, Disposal, Names, Index
<1>6. ProvidersTyped'
  BY <1>2, <1>4, <1>5 DEF ServersInv, ProvidersTyped
<1>7. ServersOwned'
  BY <1>2, <1>3, <1>4 DEF ServersOwned, Runs, Released
<1>8. DisposalsSeal'
  <2> DEFINE of == disposals["shutdown"].of
  <2>1. of \in Index
    BY <1>5 DEF Disposers, Disposal
  <2>2. of <= provider => of # provider' /\ of <= provider'
    BY <1>1, <1>2, <2>1 DEF Index
  <2>3. of # provider' =>
          /\ providers[of].disposed => providers'[of].disposed
          /\ providers[of].told => providers'[of].told
    BY <1>4, <2>1 DEF Released
  <2> QED BY <1>5, <2>2, <2>3 DEF ServersInv, DisposalsSeal, Disposers
<1>9. ShutdownSeals'
  BY <1>5 DEF ShutdownSeals
<1> QED BY <1>6, <1>7, <1>8, <1>9 DEF ServersInv

LEMMA ShutdownReturnKeepsServers ==
  ASSUME ServersInv, NEW next, NEW ps, Released(ps),
         Return("shutdown", next, ps), UNCHANGED mode,
         crossed' \in BOOLEAN, crossed => crossed',
         ~crossed' => /\ disposals["swap"].at = "idle"
                      /\ ps[provider].name = "laya" => ps[provider].disposed
                      /\ ps[provider].start = "none"
  PROVE  ServersInv'
<1>1. /\ provider' = provider /\ providers' = ps
      /\ disposals' = [disposals EXCEPT !["shutdown"] = Returned("done")]
  BY DEF Return
<1>2. /\ disposals \in [Disposers -> Disposal] /\ disposals' \in [Disposers -> Disposal]
      /\ disposals'["shutdown"].at = "done"
      /\ disposals'["swap"] = disposals["swap"]
      /\ provider \in Index
  BY <1>1, ControlPlaneAssumption
  DEF ControlPlaneAssumption, ServersInv, ProvidersTyped, Disposers, Returned, Disposal, Names, Index
<1>3. ProvidersTyped'
  BY <1>1, <1>2 DEF ServersInv, ProvidersTyped, Released
<1>4. ServersOwned'
  BY <1>1 DEF ServersOwned, Runs, Released
<1>5. DisposalsSeal'
  BY <1>1, <1>2 DEF ServersInv, DisposalsSeal, Disposers, Disposal, Released
<1>6. ShutdownSeals'
  BY <1>1, <1>2 DEF ShutdownSeals
<1> QED BY <1>3, <1>4, <1>5, <1>6 DEF ServersInv

LEMMA DisposeKeepsServers ==
  ASSUME ServersInv, NEW d \in Disposers, NEW next \in Names, Dispose(d, next)
  PROVE  ServersInv'
<1> DEFINE ps == Disposed(providers, provider)
<1>1. /\ Released(ps) /\ ps[provider].start = providers[provider].start
      /\ ps[provider].name = "laya" => ps[provider].disposed
  BY DisposedReleases
<1>2. /\ provider \in Index /\ MaxSwaps \in Nat
      /\ disposals \in [Disposers -> Disposal] /\ crossed \in BOOLEAN
  BY ControlPlaneAssumption DEF ControlPlaneAssumption, ServersInv, ProvidersTyped
<1>3. /\ crossed' \in BOOLEAN /\ (crossed => crossed') /\ mode' = mode
      /\ disposals[d].at = "idle" /\ (d = "swap" => provider < MaxSwaps)
      /\ \A e \in Disposers : e # d /\ disposals[e].at # "idle" => crossed'
  BY <1>2 DEF Dispose
<1>4. CASE providers[provider].start = "none"
  <2>1. Return(d, next, ps)
    BY <1>4 DEF Dispose
  <2>2. CASE d = "swap"
    BY <1>1, <1>3, <1>4, <2>1, <2>2, SwapReturnKeepsServers DEF Disposers
  <2>3. CASE d = "shutdown"
    BY <1>1, <1>3, <1>4, <2>1, <2>3, ShutdownReturnKeepsServers DEF Disposers
  <2> QED BY <2>2, <2>3 DEF Disposers
<1>5. CASE providers[provider].start # "none"
  <2> DEFINE wait == [at |-> "waiting", of |-> provider, next |-> next]
  <2>1. /\ disposals' = [disposals EXCEPT ![d] = wait]
        /\ providers' = ps /\ provider' = provider
    BY <1>5 DEF Dispose
  <2>2. wait \in Disposal /\ wait.at = "waiting" /\ wait.of = provider
    BY <1>2 DEF Disposal
  <2> HIDE DEF wait, ps
  <2>3. /\ disposals' \in [Disposers -> Disposal]
        /\ \A e \in Disposers : disposals'[e] = IF e = d THEN wait ELSE disposals[e]
    BY <1>2, <2>1, <2>2
  <2>4. providers[provider].name = "laya" /\ providers'[provider].disposed
    BY <1>1, <1>2, <1>5, <2>1 DEF ServersInv, ServersOwned, Released
  <2>5. ProvidersTyped'
    BY <1>1, <1>2, <1>3, <2>1, <2>3 DEF ServersInv, ProvidersTyped, Released
  <2>6. ServersOwned'
    BY <1>1, <2>1 DEF ServersOwned, Runs, Released
  <2>7. DisposalsSeal'
    <3>1. disposals'["swap"].at # "done"
      BY <1>3, <2>2, <2>3 DEF ServersInv, DisposalsSeal, Disposers
    <3>2. disposals'["swap"].at # "idle" =>
            disposals'["swap"].of = provider' /\ provider' < MaxSwaps
      BY <1>3, <2>1, <2>2, <2>3 DEF ServersInv, DisposalsSeal, Disposers
    <3>3. ASSUME NEW e \in Disposers, disposals'[e].at \in {"waiting", "stopping"}
          PROVE  /\ disposals'[e].of <= provider' /\ providers'[disposals'[e].of].disposed
                 /\ disposals'[e].at = "stopping" => providers'[disposals'[e].of].told
      <4>1. CASE e = d
        BY <1>2, <2>1, <2>2, <2>3, <2>4, <4>1 DEF Index
      <4>2. CASE e # d
        <5>1. disposals'[e] = disposals[e] /\ disposals[e].of \in Index
          BY <1>2, <2>3, <4>2 DEF Disposal
        <5> QED BY <1>1, <2>1, <3>3, <5>1 DEF ServersInv, DisposalsSeal, Released
      <4> QED BY <4>1, <4>2
    <3> QED BY <3>1, <3>2, <3>3 DEF DisposalsSeal
  <2>8. ShutdownSeals'
    BY <1>1, <1>3, <2>1, <2>2, <2>3, <2>4 DEF ServersInv, ShutdownSeals, Disposers
  <2> QED BY <2>5, <2>6, <2>7, <2>8 DEF ServersInv
<1> QED BY <1>4, <1>5

LEMMA DisposalStepsKeepServers ==
  ASSUME ServersInv, NEW d \in Disposers, DisposalMoves(d) PROVE ServersInv'
<1> DEFINE p == disposals[d].of
<1>1. /\ disposals \in [Disposers -> Disposal] /\ disposals[d] \in Disposal
      /\ p \in Index /\ provider \in Index /\ crossed \in BOOLEAN
      /\ providers \in [Index -> Provider] /\ providers[p] \in Provider
      /\ disposals[d].next \in Names
  BY DEF ServersInv, ProvidersTyped, Disposal
<1>2. /\ disposals[d].at \in {"waiting", "stopping"}
      /\ mode' = mode /\ crossed' = crossed
  BY DEF DisposalMoves, Stop, Stopped
(* When the start and the server need no more waiting, dispose returns.        *)
<1>3. ASSUME Return(d, disposals[d].next, Forgotten(p)),
             providers[p].start \in {"starting", "ready"} => providers[p].told
      PROVE  ServersInv'
  <2>1. Released(Forgotten(p)) /\ Forgotten(p)[p].start = "none"
    BY <1>1, <1>3, ForgottenReleases
  <2>2. CASE d = "swap"
    <3>1. p = provider /\ provider < MaxSwaps
      BY <1>2, <2>2 DEF ServersInv, DisposalsSeal
    <3>2. disposals["shutdown"].at # "idle" => crossed
      BY <1>2, <2>2 DEF ServersInv, ShutdownSeals
    <3> QED BY <1>1, <1>2, <1>3, <2>1, <2>2, <3>1, <3>2, SwapReturnKeepsServers
  <2>3. CASE d = "shutdown"
    <3>1. ~crossed => p = provider /\ disposals["swap"].at = "idle" /\ providers[p].disposed
      BY <1>2, <2>3 DEF ServersInv, ShutdownSeals, DisposalsSeal
    <3>2. ~crossed => Forgotten(p)[provider].start = "none" /\ Forgotten(p)[provider].disposed
      BY <1>1, <2>1, <3>1 DEF Released
    <3> QED BY <1>1, <1>2, <1>3, <2>1, <2>3, <3>1, <3>2, ShutdownReturnKeepsServers
  <2> QED BY <2>2, <2>3 DEF Disposers
<1>4. CASE Stopped(d)
  <2>1. disposals[d].at = "stopping" /\ Return(d, disposals[d].next, Forgotten(p))
    BY <1>4 DEF Stopped
  <2>2. providers[p].told
    BY <2>1 DEF ServersInv, DisposalsSeal
  <2> QED BY <1>3, <2>1, <2>2
<1>5. CASE Stop(d) /\ (providers[p].start # "ready" \/ providers[p].told)
  BY <1>3, <1>5 DEF Stop
<1>6. CASE Stop(d) /\ providers[p].start = "ready" /\ ~providers[p].told
  <2> DEFINE new == [providers[p] EXCEPT !.told = TRUE]
             stop == [disposals[d] EXCEPT !.at = "stopping"]
  <2>1. /\ providers' = [providers EXCEPT ![p] = new] /\ provider' = provider
        /\ disposals' = [disposals EXCEPT ![d] = stop]
    BY <1>1, <1>6 DEF Stop
  <2>2. /\ new \in Provider /\ new.told /\ new.disposed = providers[p].disposed
        /\ new.start = providers[p].start /\ new.server = providers[p].server
        /\ new.name = providers[p].name
        /\ stop \in Disposal /\ stop.at = "stopping" /\ stop.of = p
    BY <1>1 DEF Provider, Disposal
  <2> HIDE DEF new, stop
  <2>3. /\ \A q \in Index : providers'[q] = IF q = p THEN new ELSE providers[q]
        /\ \A e \in Disposers : disposals'[e] = IF e = d THEN stop ELSE disposals[e]
        /\ providers' \in [Index -> Provider] /\ disposals' \in [Disposers -> Disposal]
    BY <1>1, <2>1, <2>2
  <2>4. ProvidersTyped'
    BY <1>2, <2>1, <2>3 DEF ServersInv, ProvidersTyped
  <2>5. ServersOwned'
    BY <1>1, <2>1, <2>2, <2>3 DEF ServersInv, ServersOwned, Runs
  <2>6. DisposalsSeal'
    <3>1. /\ disposals'["swap"].at # "done"
          /\ disposals'["swap"].at # "idle" =>
               disposals'["swap"].of = provider' /\ provider' < MaxSwaps
      BY <1>2, <2>1, <2>2, <2>3 DEF ServersInv, DisposalsSeal, Disposers
    <3>2. ASSUME NEW e \in Disposers, disposals'[e].at \in {"waiting", "stopping"}
          PROVE  /\ disposals'[e].of <= provider' /\ providers'[disposals'[e].of].disposed
                 /\ disposals'[e].at = "stopping" => providers'[disposals'[e].of].told
      <4>1. CASE e = d
        BY <1>1, <1>2, <2>1, <2>2, <2>3, <4>1 DEF ServersInv, DisposalsSeal
      <4>2. CASE e # d
        <5>1. disposals'[e] = disposals[e] /\ disposals[e].of \in Index
          BY <1>1, <2>3, <4>2 DEF Disposal
        <5> QED BY <1>1, <2>1, <2>2, <2>3, <3>2, <5>1 DEF ServersInv, DisposalsSeal
      <4> QED BY <4>1, <4>2
    <3> QED BY <3>1, <3>2 DEF DisposalsSeal
  <2>7. ShutdownSeals'
    BY <1>1, <1>2, <2>1, <2>2, <2>3 DEF ServersInv, ShutdownSeals, Disposers
  <2> QED BY <2>4, <2>5, <2>6, <2>7 DEF ServersInv
<1> QED BY <1>4, <1>5, <1>6 DEF DisposalMoves

LEMMA ServersStayOwned ==
  ASSUME ServersInv, [Next]_vars PROVE ServersInv'
<1>1. ASSUME UNCHANGED <<providers, provider, disposals, crossed>>, mode' \in Modes
      PROVE  ServersInv'
  BY <1>1 DEF ServersInv, ProvidersTyped, ServersOwned, Runs, DisposalsSeal, ShutdownSeals
<1>2. mode \in Modes
  BY DEF ServersInv, ProvidersTyped
<1>3. ASSUME NEW a \in Asks, OfAsk(a) PROVE ServersInv'
  <2>1. CASE AskAndWait(a)
    BY <2>1, StartingKeepsServers DEF AskAndWait
  <2>2. CASE ~AskAndWait(a)
    BY <1>1, <1>2, <1>3, <2>2
    DEF OfAsk, AskInVain, AskAndSend, LaunchAgain, RequestEnds, RequestFails, Answer,
        ReadResult, switching
  <2> QED BY <2>1, <2>2
<1>4. ASSUME NEW p \in Index, StartMoves(p) \/ ServerExits(p) PROVE ServersInv'
  BY <1>4, ServerStepsKeepServers
<1>5. ASSUME NEW next \in Names, Dispose("swap", next) PROVE ServersInv'
  BY <1>5, DisposeKeepsServers DEF Disposers
<1>6. CASE Dispose("shutdown", "typesafe")
  BY <1>6, DisposeKeepsServers DEF Disposers, Names
<1>7. ASSUME NEW d \in Disposers, DisposalMoves(d) PROVE ServersInv'
  BY <1>7, DisposalStepsKeepServers
<1>8. CASE WarmUp
  BY <1>8, StartingKeepsServers DEF WarmUp
<1>9. ASSUME NEW m \in Modes, SetMode(m) PROVE ServersInv'
  BY <1>1, <1>9 DEF SetMode, switching
<1>10. CASE UNCHANGED vars
  BY <1>1, <1>2, <1>10 DEF vars
<1> QED BY <1>3, <1>4, <1>5, <1>6, <1>7, <1>8, <1>9, <1>10 DEF Next

-------------------------------------------------------------------------------
(* The theorems.                                                               *)

LEMMA Invariants == Spec => [](ServersInv /\ AsksFine)
<1>1. Init => ServersInv /\ AsksFine
  BY InitServers
<1>2. ServersInv /\ AsksFine /\ [Next]_vars => (ServersInv /\ AsksFine)'
  BY ServersStayOwned, AsksStayFine DEF ServersInv
<1> QED BY <1>1, <1>2, PTL DEF Spec

(* Every variable of the control plane keeps its type; in particular no ask is *)
(* launched more often than the limit allows.                                  *)
THEOREM TypeCorrect == Spec => []TypeOK
<1>1. ServersInv /\ AsksFine => TypeOK
  BY FineIsTyped DEF ServersInv
<1> QED BY <1>1, Invariants, PTL

(* The hedging of client.ts:148-174, for any number of launches. *)
THEOREM HedgesAreAccounted == Spec => []HedgeIsAccounted
<1>1. AsksFine => HedgeIsAccounted
  BY DEF AsksFine, Fine, HedgeIsAccounted
<1> QED BY <1>1, Invariants, PTL

(* The shared counter never lets a site use its fallback as an answer. *)
THEOREM FallbacksAreSeen == Spec => []FallbackIsNeverTaken
<1>1. AsksFine => FallbackIsNeverTaken
  BY DEF AsksFine, Fine, FallbackIsNeverTaken
<1> QED BY <1>1, Invariants, PTL

(* Every local server has an owner who will stop it. *)
THEOREM ServersAreOwned == Spec => []NoServerIsOrphaned
<1>1. ServersInv => NoServerIsOrphaned
  BY DEF ServersInv, ServersOwned, ShutdownSeals, NoServerIsOrphaned, Runs
<1> QED BY <1>1, Invariants, PTL

(* What an ask launched and took is accounted for (client.ts:120-405). *)
THEOREM AsksStayAccounted == Spec => []AsksAreAccounted
BY TypeCorrect, HedgesAreAccounted, FallbacksAreSeen, PTL DEF AsksAreAccounted

--------------------------------------------------- (* sets of numbers *)

\* A set of numbers has a least.
LEMMA HasLeast ==
  ASSUME NEW S \in SUBSET Nat, S # {}
  PROVE  \E m \in S : \A n \in S : m <= n
<1>1. PICK m \in S : \A n \in S : ~(<<n, m>> \in OpToRel(<, Nat))
  BY NatLessThanWellFounded, WFMin
<1>2. \A n \in S : ~(n < m)
  BY <1>1 DEF OpToRel
<1> QED
  BY <1>2

\* A set of numbers up to n has a greatest.
LEMMA HasGreatest ==
  ASSUME NEW n \in Nat, NEW S \in SUBSET (0 .. n), S # {}
  PROVE  \E m \in S : \A x \in S : x <= m
<1> DEFINE D == {d \in Nat : n - d \in S}
<1>1. D \subseteq Nat /\ D # {}
  <2>1. PICK x \in S : TRUE
    OBVIOUS
  <2>2. n - x \in Nat /\ n - (n - x) = x
    OBVIOUS
  <2> QED
    BY <2>1, <2>2
<1> HIDE DEF D
<1>2. PICK d \in D : \A e \in D : d <= e
  BY <1>1, HasLeast
<1>3. d \in Nat /\ n - d \in S
  BY <1>2 DEF D
<1>4. ASSUME NEW x \in S PROVE x <= n - d
  <2>1. x \in Int /\ n - x \in Nat /\ n - (n - x) = x
    OBVIOUS
  <2>2. n - x \in D
    BY <2>1 DEF D
  <2> QED
    BY <1>2, <1>3, <2>1, <2>2
<1> QED
  BY <1>3, <1>4

LEMMA FirstIsLeast ==
  ASSUME NEW S \in SUBSET Nat, S # {}
  PROVE  Prd!First(S) \in S /\ \A j \in S : Prd!First(S) <= j
BY HasLeast DEF Prd!First

-------------------------------------------------------------- (* the plans *)

Statuses == {"PENDING", "VERIFIED", "REOPENED"}

Numbers(units) == {units[i].number : i \in DOMAIN units}

Units == [number : Nat, deps : SUBSET Nat, level : Capabilities \union {"quick"}, criteria : SUBSET Nat]

\* What units are of their criteria: each refers to what exists, and each
\* criterion is one of some unit.
UnitsOK(units, ids) ==
  /\ DOMAIN units \subseteq Nat /\ units \in [DOMAIN units -> Units]
  /\ \A i \in DOMAIN units : units[i].criteria \subseteq ids /\ units[i].deps \subseteq Numbers(units)
  /\ \A id \in ids : \E i \in DOMAIN units : id \in units[i].criteria

CriteriaOK(criteria) ==
  DOMAIN criteria \subseteq Nat /\ criteria \in [DOMAIN criteria -> [id : Nat, status : Statuses]]

PlanOK(p) ==
  /\ p \in [id : 1 .. MaxId, closed : BOOLEAN, routed : {p.routed}, criteria : {p.criteria}, units : {p.units}]
  /\ CriteriaOK(p.criteria) /\ UnitsOK(p.units, Prd!Ids(p.criteria))

\* Some unit can be worked on as long as a criterion is open: the units that are
\* not complete would wait for each other in a circle.
LEMMA OpenPlansGoOn ==
  ASSUME NEW plan, PlanOK(plan), ~Prd!Circular(plan),
         \A i, j \in DOMAIN plan.criteria : plan.criteria[i].id = plan.criteria[j].id => i = j
  PROVE  Prd!NextUnit(plan) = {} <=> Prd!DeriveGoal(plan) = {}
<1> DEFINE criteria == plan.criteria
           units == plan.units
           open == {i \in DOMAIN units : ~Prd!IsComplete(plan, units[i])}
<1>1. ASSUME NEW id \in Prd!Ids(criteria)
      PROVE  Prd!CriterionOf(plan, id) \in DOMAIN criteria /\ criteria[Prd!CriterionOf(plan, id)].id = id
  <2> DEFINE mine == {i \in DOMAIN criteria : criteria[i].id = id}
  <2>1. mine \in SUBSET Nat /\ mine # {}
    BY DEF PlanOK, CriteriaOK, Prd!Ids
  <2>2. Prd!CriterionOf(plan, id) = Prd!First(mine)
    BY DEF Prd!CriterionOf
  <2> HIDE DEF mine
  <2>3. Prd!First(mine) \in mine
    BY <2>1, FirstIsLeast
  <2> QED
    BY <2>2, <2>3 DEF mine
<1>2. \A i \in DOMAIN criteria : criteria[i].id \in Prd!Ids(criteria) /\ Prd!StatusOf(plan, criteria[i].id) = criteria[i].status
  <2> TAKE i \in DOMAIN criteria
  <2>1. criteria[i].id \in Prd!Ids(criteria)
    BY DEF Prd!Ids
  <2>2. Prd!CriterionOf(plan, criteria[i].id) = i
    BY <1>1, <2>1
  <2> QED
    BY <2>1, <2>2 DEF Prd!StatusOf
<1>3. \A i \in DOMAIN units : units[i].criteria \subseteq Prd!Ids(criteria) /\ units[i].deps \subseteq Numbers(units)
  BY DEF PlanOK, UnitsOK
<1>4. CASE Prd!DeriveGoal(plan) = {}
  <2>1. \A i \in DOMAIN criteria : criteria[i].status = "VERIFIED"
    BY <1>4 DEF Prd!DeriveGoal
  <2>2. \A i \in DOMAIN units : Prd!IsComplete(plan, units[i])
    BY <1>1, <1>3, <2>1 DEF Prd!IsComplete, Prd!StatusOf
  <2>3. Prd!Dispatchable(plan) = {}
    BY <2>2 DEF Prd!Dispatchable
  <2> QED
    BY <1>4, <2>3 DEF Prd!NextUnit, Prd!Requeued
<1>5. CASE Prd!DeriveGoal(plan) # {}
  <2>1. PICK c \in DOMAIN criteria : criteria[c].status # "VERIFIED"
    BY <1>5 DEF Prd!DeriveGoal
  <2>2. PICK u \in DOMAIN units : criteria[c].id \in units[u].criteria
    BY <1>2 DEF PlanOK, UnitsOK
  <2>3. u \in open
    BY <1>2, <2>1, <2>2 DEF Prd!IsComplete
  <2>4. ASSUME Prd!Dispatchable(plan) = {} PROVE FALSE
    <3>1. ASSUME NEW i \in open PROVE \E j \in open : units[j].number \in units[i].deps
      <4>1. ~Prd!IsReady(plan, units[i])
        BY <2>4 DEF Prd!Dispatchable
      <4>2. PICK n \in units[i].deps :
              LET named == {k \in DOMAIN units : units[k].number = n} IN
              ~(named # {} /\ Prd!IsComplete(plan, units[Prd!First(named)]))
        BY <4>1 DEF Prd!IsReady
      <4> DEFINE named == {k \in DOMAIN units : units[k].number = n}
      <4>3. named \in SUBSET Nat /\ named # {}
        BY <1>3 DEF Numbers, PlanOK, UnitsOK
      <4>4. Prd!First(named) \in named
        BY <4>3, FirstIsLeast
      <4>5. ~Prd!IsComplete(plan, units[Prd!First(named)])
        BY <4>2, <4>3
      <4> QED
        BY <4>4, <4>5
    <3> HIDE DEF open
    <3>2. open \in SUBSET DOMAIN units /\ open # {}
      BY <2>3 DEF open
    <3> QED
      BY <3>1, <3>2 DEF Prd!Circular
  <2>5. Prd!NextUnit(plan) # {}
    BY <2>4 DEF Prd!NextUnit
  <2> QED
    BY <1>5, <2>5
<1> QED
  BY <1>4, <1>5

\* What a unit is declared with.
DeclaredOK(units, ids) ==
  /\ DOMAIN units \subseteq Nat /\ 1 \in DOMAIN units /\ units \in [DOMAIN units -> Units]
  /\ \A i \in DOMAIN units : units[i].criteria \subseteq ids

LEMMA DeclaredFits ==
  ASSUME NEW draft \in Drafts, NEW criteria, CriteriaOK(criteria)
  PROVE  DeclaredOK(Prd!DeclaredUnits(draft, criteria), Prd!Ids(criteria))
<1> DEFINE units == Prd!DeclaredUnits(draft, criteria)
           ids == Prd!Ids(criteria)
<1>1. draft.phases \in Seq([number : Nat, acs : SUBSET Nat, deps : SUBSET Nat])
  BY PrdAssumption
<1>2. ids \subseteq Nat
  BY DEF CriteriaOK, Prd!Ids
<1> HIDE DEF ids
<1>3. CASE draft.phases = <<>>
  <2> DEFINE all == [number |-> 1, deps |-> {}, level |-> "quick", criteria |-> ids]
  <2>1. units = <<all>>
    BY <1>3 DEF Prd!DeclaredUnits, ids
  <2>2. all \in Units /\ all.criteria = ids
    BY <1>2 DEF Units
  <2> HIDE DEF units, all
  <2>3. DOMAIN units = {1} /\ units[1] = all
    BY <2>1
  <2>4. units = [i \in DOMAIN units |-> units[i]]
    BY <2>1
  <2> QED
    BY <2>2, <2>3, <2>4 DEF DeclaredOK, ids, units
<1>4. CASE draft.phases # <<>>
  <2>1. units = [i \in DOMAIN draft.phases |-> Prd!UnitOf(draft.phases[i], criteria)]
    BY <1>4 DEF Prd!DeclaredUnits
  <2>2. DOMAIN draft.phases = 1 .. Len(draft.phases) /\ Len(draft.phases) \in Nat /\ Len(draft.phases) # 0
    BY <1>1, <1>4
  <2>3. ASSUME NEW i \in DOMAIN draft.phases PROVE units[i] \in Units /\ units[i].criteria \subseteq ids
    <3>1. draft.phases[i] \in [number : Nat, acs : SUBSET Nat, deps : SUBSET Nat]
      <4> DEFINE Phases == [number : Nat, acs : SUBSET Nat, deps : SUBSET Nat]
      <4>1. draft.phases \in Seq(Phases)
        BY <1>1
      <4> HIDE DEF Phases
      <4>2. draft.phases[i] \in Phases
        BY <4>1, <2>2
      <4> QED
        BY <4>2 DEF Phases
    <3>2. units[i] = Prd!UnitOf(draft.phases[i], criteria)
      BY <2>1
    <3> HIDE DEF units
    <3> QED
      BY <1>2, <3>1, <3>2 DEF Prd!UnitOf, Units, ids
  <2> HIDE DEF units
  <2>4. DOMAIN units = DOMAIN draft.phases /\ units = [i \in DOMAIN units |-> units[i]]
    BY <2>1
  <2> QED
    BY <2>2, <2>3, <2>4 DEF DeclaredOK, ids, units
<1> QED
  BY <1>3, <1>4

\* What is declared is completed: no criterion is left out, no wait is in vain.
LEMMA CompletedFits ==
  ASSUME NEW units, NEW criteria, CriteriaOK(criteria), DeclaredOK(units, Prd!Ids(criteria))
  PROVE  UnitsOK(Prd!Completed(units, criteria), Prd!Ids(criteria))
<1> DEFINE ids == Prd!Ids(criteria)
           unclaimed == ids \ UNION {units[i].criteria : i \in DOMAIN units}
           numbers == {units[i].number : i \in DOMAIN units}
           all == Prd!Completed(units, criteria)
           Rides(i) == IF i = 1 THEN unclaimed ELSE {}
<1>1. all = [i \in DOMAIN units |-> [units[i] EXCEPT !.criteria = @ \union Rides(i), !.deps = @ \intersect numbers]]
  BY DEF Prd!Completed
<1>2. DOMAIN all = DOMAIN units /\ all = [i \in DOMAIN units |-> all[i]]
  BY <1>1
<1>3. \A i \in DOMAIN units : all[i] = [units[i] EXCEPT !.criteria = @ \union Rides(i), !.deps = @ \intersect numbers]
  BY <1>1
<1>4. \A i \in DOMAIN units : Rides(i) \subseteq ids /\ units[i].criteria \subseteq ids
  BY DEF DeclaredOK
<1>5. ids \subseteq Nat
  BY DEF CriteriaOK, Prd!Ids
<1>6. Rides(1) = unclaimed
  OBVIOUS
<1>7. \A id \in ids \ unclaimed : \E i \in DOMAIN units : id \in units[i].criteria
  OBVIOUS
<1> HIDE DEF all, ids, Rides, unclaimed, numbers
<1>8. ASSUME NEW i \in DOMAIN units
      PROVE  /\ all[i] \in Units /\ all[i].criteria = units[i].criteria \union Rides(i)
             /\ all[i].deps = units[i].deps \intersect numbers /\ all[i].number = units[i].number
  <2>1. units[i] \in Units
    BY DEF DeclaredOK
  <2>2. Rides(i) \in SUBSET Nat
    BY <1>4, <1>5
  <2>3. all[i] = [units[i] EXCEPT !.criteria = @ \union Rides(i), !.deps = @ \intersect numbers]
    BY <1>3
  <2>4. units[i].criteria \union Rides(i) \in SUBSET Nat /\ units[i].deps \intersect numbers \in SUBSET Nat
    BY <2>1, <2>2 DEF Units
  <2> QED
    BY <2>1, <2>3, <2>4 DEF Units
<1>9. Numbers(all) = numbers
  BY <1>2, <1>8 DEF Numbers, numbers
<1>10. ASSUME NEW id \in ids PROVE \E i \in DOMAIN all : id \in all[i].criteria
  <2>1. CASE id \in unclaimed
    <3>1. 1 \in DOMAIN units
      BY DEF DeclaredOK
    <3> QED
      BY <1>2, <1>6, <1>8, <2>1, <3>1
  <2>2. CASE id \notin unclaimed
    BY <1>2, <1>7, <1>8, <2>2
  <2> QED
    BY <2>1, <2>2
<1>11. DOMAIN all \subseteq Nat /\ all \in [DOMAIN all -> Units]
  BY <1>2, <1>8 DEF DeclaredOK
<1>12. \A i \in DOMAIN all : all[i].criteria \subseteq ids /\ all[i].deps \subseteq Numbers(all)
  BY <1>2, <1>4, <1>8, <1>9
<1> QED
  BY <1>10, <1>11, <1>12 DEF UnitsOK, all, ids

LEMMA NewPlanFits ==
  ASSUME NEW id \in 1 .. MaxId, NEW draft \in Drafts
  PROVE  PlanOK(Prd!CreatePrdState(id, draft)) /\ Prd!CreatePrdState(id, draft).id = id
<1> DEFINE criteria == [i \in Prd!Named(draft, TRUE) |-> [id |-> draft.criteria[i].id, status |-> "PENDING"]]
           plan == Prd!CreatePrdState(id, draft)
<1>1. plan = [id |-> id, closed |-> FALSE, routed |-> {}, criteria |-> criteria, units |-> Prd!ParseWorkUnits(draft, criteria)]
  BY DEF Prd!CreatePrdState
<1>2. draft.criteria \in Seq([id : Nat, command : BOOLEAN])
  BY PrdAssumption
<1>3. Prd!Named(draft, TRUE) \subseteq Nat /\ \A i \in Prd!Named(draft, TRUE) : draft.criteria[i].id \in Nat
  <2> DEFINE Criteria == [id : Nat, command : BOOLEAN]
  <2>1. draft.criteria \in Seq(Criteria)
    BY <1>2
  <2>2. \A c \in Criteria : c.id \in Nat
    OBVIOUS
  <2> HIDE DEF Criteria
  <2>3. DOMAIN draft.criteria \subseteq Nat /\ \A i \in DOMAIN draft.criteria : draft.criteria[i] \in Criteria
    BY <2>1
  <2> QED
    BY <2>2, <2>3 DEF Prd!Named
<1>4. CriteriaOK(criteria)
  BY <1>3 DEF CriteriaOK, Statuses
<1> HIDE DEF criteria
<1>5. UnitsOK(Prd!ParseWorkUnits(draft, criteria), Prd!Ids(criteria))
  BY <1>4, DeclaredFits, CompletedFits DEF Prd!ParseWorkUnits
<1> HIDE DEF plan
<1>6. plan.id = id /\ plan.criteria = criteria /\ plan.units = Prd!ParseWorkUnits(draft, criteria)
  BY <1>1
<1>7. plan \in [id : 1 .. MaxId, closed : BOOLEAN, routed : {plan.routed}, criteria : {plan.criteria}, units : {plan.units}]
  BY <1>1
<1> QED
  BY <1>4, <1>5, <1>6, <1>7 DEF PlanOK, plan

\* What the manager and the commands do to a plan keeps it one.
LEMMA RoutedFits ==
  ASSUME NEW plan, PlanOK(plan), NEW unit
  PROVE  PlanOK(Prd!Route(plan, unit)) /\ Prd!Route(plan, unit).id = plan.id
BY DEF PlanOK, Prd!Route

LEMMA CapabilityFits ==
  ASSUME NEW plan, PlanOK(plan), NEW level \in Capabilities
  PROVE  PlanOK(Prd!SetRequiredCapability(plan, level)) /\ Prd!SetRequiredCapability(plan, level).id = plan.id
<1> DEFINE units == [i \in DOMAIN plan.units |-> [plan.units[i] EXCEPT !.level = level]]
           next == Prd!SetRequiredCapability(plan, level)
<1>1. next = [plan EXCEPT !.units = units]
  BY DEF Prd!SetRequiredCapability
<1>2. /\ DOMAIN units = DOMAIN plan.units /\ units \in [DOMAIN units -> Units]
      /\ \A i \in DOMAIN units : /\ units[i].criteria = plan.units[i].criteria /\ units[i].deps = plan.units[i].deps
                                 /\ units[i].number = plan.units[i].number
  BY DEF PlanOK, UnitsOK, Units
<1> HIDE DEF units
<1>3. UnitsOK(units, Prd!Ids(plan.criteria))
  BY <1>2 DEF PlanOK, UnitsOK, Numbers
<1> HIDE DEF next
<1> QED
  BY <1>1, <1>3 DEF PlanOK, next

LEMMA TransitionFits ==
  ASSUME NEW plan, PlanOK(plan), NEW id, NEW status \in Statuses
  PROVE  /\ PlanOK(Prd!TransitionCriterion(plan, id, status))
         /\ Prd!TransitionCriterion(plan, id, status).id = plan.id
<1> DEFINE k == Prd!CriterionOf(plan, id)
           criteria == [plan.criteria EXCEPT ![k].status = status]
           next == Prd!TransitionCriterion(plan, id, status)
<1>1. next = [plan EXCEPT !.criteria = criteria]
  BY DEF Prd!TransitionCriterion, PlanOK
<1> HIDE DEF k
<1>2. /\ DOMAIN criteria = DOMAIN plan.criteria /\ criteria \in [DOMAIN criteria -> [id : Nat, status : Statuses]]
      /\ \A i \in DOMAIN criteria : criteria[i].id = plan.criteria[i].id
  BY DEF PlanOK, CriteriaOK
<1> HIDE DEF criteria
<1>3. CriteriaOK(criteria) /\ Prd!Ids(criteria) = Prd!Ids(plan.criteria)
  BY <1>2 DEF PlanOK, CriteriaOK, Prd!Ids
<1> HIDE DEF next
<1> QED
  BY <1>1, <1>3 DEF PlanOK, next

LEMMA ClosedFits ==
  ASSUME NEW plan, PlanOK(plan)
  PROVE  PlanOK([plan EXCEPT !.closed = TRUE]) /\ [plan EXCEPT !.closed = TRUE].id = plan.id
BY DEF PlanOK

\* Every plan is active or archived, what the file holds is the manager's copy
\* but for the closure, and a question is about the copy.
PrdInv ==
  /\ active \subseteq 1 .. MaxId /\ done \subseteq 1 .. MaxId /\ active \intersect done = {}
  /\ \A p, q \in stored : p = q
  /\ \A p, q \in memory : p = q
  /\ \A p, q \in asked : p = q
  /\ \A p \in stored \union memory : PlanOK(p) /\ p.id \in active \union done
  /\ \A p \in memory, s \in stored : p.id = s.id => [p EXCEPT !.closed = s.closed] = s
  /\ asked # {} => memory # {}

LEMMA PrdStarts == PlanningInit => PrdInv
BY PrdAssumption DEF PlanningInit, Prd!Init, PrdInv

LEMMA AllocatedIsNew ==
  ASSUME active \subseteq 1 .. MaxId, done \subseteq 1 .. MaxId, Prd!AllocatePrdId(active, done) <= MaxId
  PROVE  Prd!AllocatePrdId(active, done) \in 1 .. MaxId \ (active \union done)
<1> DEFINE numbers == active \union done
           greatest == Prd!Greatest(numbers)
<1>1. Prd!AllocatePrdId(active, done) = greatest + 1
  BY DEF Prd!AllocatePrdId
<1>2. MaxId \in Nat
  BY PrdAssumption
<1>3. numbers \in SUBSET (0 .. MaxId)
  BY <1>2
<1> HIDE DEF numbers
<1>4. CASE numbers = {}
  <2>1. greatest = 0
    BY <1>4 DEF Prd!Greatest
  <2> QED
    BY <1>1, <1>2, <1>4, <2>1 DEF numbers
<1>5. CASE numbers # {}
  <2>1. \E n \in numbers : \A m \in numbers : m <= n
    BY <1>2, <1>3, <1>5, HasGreatest
  <2>2. greatest = CHOOSE n \in numbers : \A m \in numbers : m <= n
    BY <1>5 DEF Prd!Greatest
  <2> HIDE DEF greatest
  <2>3. greatest \in numbers /\ \A m \in numbers : m <= greatest
    BY <2>1, <2>2
  <2>4. greatest \in Nat /\ greatest + 1 \notin numbers
    BY <1>3, <2>3
  <2> QED
    BY <1>1, <1>2, <2>4 DEF numbers
<1> QED
  BY <1>4, <1>5

\* A change of the manager's copy, written whole.
LEMMA SavedKeeps ==
  ASSUME PrdInv, NEW plan, PlanOK(plan), plan.id \in active \union done, Prd!Saved(plan),
         asked' = {}, UNCHANGED <<active, done>>
  PROVE  PrdInv'
<1>1. [plan EXCEPT !.closed = plan.closed] = plan
  BY DEF PlanOK
<1>2. stored' = {plan} /\ memory' = {plan}
  BY DEF Prd!Saved
<1>3. PlanOK(plan)'
  BY DEF PlanOK, CriteriaOK, UnitsOK, Statuses, Units, Numbers, Prd!Ids
<1> QED
  BY <1>1, <1>2, <1>3 DEF PrdInv

\* The three steps that move plans: the number is new, and a closed one is moved
\* as a whole.
PlansMove ==
  /\ active \union done \subseteq active' \union done'
  /\ active' \intersect done' = {}
  /\ \A n \in active' \ active : n \notin done

LEMMA CreateKeeps == PrdInv /\ Prd!Create => PrdInv' /\ PlansMove
<1> SUFFICES ASSUME PrdInv, Prd!Create PROVE PrdInv' /\ PlansMove
  OBVIOUS
<1> DEFINE id == Prd!AllocatePrdId(active, done)
<1>1. PICK first \in Drafts, second \in Drafts :
        LET draft == Prd!Authored(first, second) IN
        active' = active \union {id} /\ stored' = {Prd!CreatePrdState(id, draft)}
  BY DEF Prd!Create
<1> DEFINE draft == Prd!Authored(first, second)
           plan == Prd!CreatePrdState(id, draft)
<1>2. draft \in Drafts
  BY DEF Prd!Authored
<1>3. id \in 1 .. MaxId \ (active \union done)
  BY AllocatedIsNew DEF PrdInv, Prd!Create
<1>4. PlanOK(plan) /\ plan.id = id
  BY <1>2, <1>3, NewPlanFits
<1>5. active' = active \union {id} /\ stored' = {plan} /\ UNCHANGED <<done, memory, asked>>
  BY <1>1 DEF Prd!Create
<1> HIDE DEF plan, id, draft
<1> QED
  BY <1>3, <1>4, <1>5 DEF PrdInv, PlansMove

\* Both ways of /prd close.
LEMMA ClosesKeeps ==
  ASSUME PrdInv, NEW plan \in stored, plan.id \in active => plan.id \notin done,
         active' = active \ {plan.id}, done' = (IF plan.id \in active THEN done \union {plan.id} ELSE done),
         stored' = {[plan EXCEPT !.closed = TRUE]}, UNCHANGED <<memory, asked>>
  PROVE  PrdInv' /\ PlansMove
<1> DEFINE closed == [plan EXCEPT !.closed = TRUE]
<1>1. PlanOK(plan) /\ plan.id \in active \union done
  BY DEF PrdInv
<1>2. PlanOK(closed) /\ closed.id = plan.id /\ closed.closed = TRUE
  BY <1>1, ClosedFits DEF PlanOK
<1>3. ASSUME NEW p \in memory, p.id = plan.id PROVE [p EXCEPT !.closed = TRUE] = closed
  <2>1. [p EXCEPT !.closed = plan.closed] = plan /\ PlanOK(p)
    BY <1>3 DEF PrdInv
  <2> QED
    BY <1>1, <2>1 DEF PlanOK
<1> HIDE DEF closed
<1>4. active' \union done' = active \union done /\ active' \intersect done' = {} /\ active' \subseteq active
  BY <1>1 DEF PrdInv
<1>5. active' \subseteq 1 .. MaxId /\ done' \subseteq 1 .. MaxId
  BY <1>4 DEF PrdInv
<1>6. stored' = {closed} /\ memory' = memory /\ asked' = asked
  BY DEF closed
<1>7. \A p \in stored' \union memory' : PlanOK(p) /\ p.id \in active' \union done'
  BY <1>1, <1>2, <1>4, <1>6 DEF PrdInv
<1>8. \A p \in memory', s \in stored' : p.id = s.id => [p EXCEPT !.closed = s.closed] = s
  BY <1>2, <1>3, <1>6
<1> QED
  BY <1>4, <1>5, <1>6, <1>7, <1>8 DEF PrdInv, PlansMove

\* What the prover is told of the others: they move no plan.
LEMMA PrdSteps == PrdInv /\ Prd!Next => PrdInv' /\ PlansMove
<1> SUFFICES ASSUME PrdInv, Prd!Next PROVE PrdInv' /\ PlansMove
  OBVIOUS
<1>0. UNCHANGED <<active, done>> => PlansMove
  BY DEF PlansMove, PrdInv
<1>1. CASE Prd!Create
  BY <1>1, CreateKeeps
<1>2. CASE Prd!Close
  BY <1>2, ClosesKeeps DEF Prd!Close
<1>3. CASE Prd!CloseByHelper
  BY <1>3, ClosesKeeps DEF Prd!CloseByHelper
<1>4. CASE Prd!Crash
  BY <1>0, <1>4 DEF Prd!Crash, PrdInv
<1>5. CASE Prd!OpenLane
  <2>1. \A p \in stored : [p EXCEPT !.closed = p.closed] = p
    BY DEF PrdInv, PlanOK
  <2> QED
    BY <1>0, <1>5, <2>1 DEF Prd!OpenLane, PrdInv
<1>6. CASE Prd!Dispatch
  <2>1. PICK plan \in memory : \E unit \in Prd!NextUnit(plan) : Prd!Saved(Prd!Route(plan, unit))
    BY <1>6 DEF Prd!Dispatch
  <2>2. PICK unit \in Prd!NextUnit(plan) : Prd!Saved(Prd!Route(plan, unit))
    BY <2>1
  <2>3. PlanOK(plan) /\ plan.id \in active \union done
    BY DEF PrdInv
  <2> QED
    BY <1>0, <1>6, <2>2, <2>3, RoutedFits, SavedKeeps DEF Prd!Dispatch
<1>7. CASE Prd!SetCapability
  <2>1. PICK plan \in memory, level \in Capabilities : Prd!Saved(Prd!SetRequiredCapability(plan, level))
    BY <1>7 DEF Prd!SetCapability
  <2>2. PlanOK(plan) /\ plan.id \in active \union done
    BY DEF PrdInv
  <2> QED
    BY <1>0, <1>7, <2>1, <2>2, CapabilityFits, SavedKeeps DEF Prd!SetCapability
<1>8. CASE Prd!Reopen
  <2>1. PICK plan \in memory : \E id \in Prd!Ids(plan.criteria) : Prd!Saved(Prd!TransitionCriterion(plan, id, "REOPENED"))
    BY <1>8 DEF Prd!Reopen
  <2>2. PICK id \in Prd!Ids(plan.criteria) : Prd!Saved(Prd!TransitionCriterion(plan, id, "REOPENED"))
    BY <2>1
  <2>3. PlanOK(plan) /\ plan.id \in active \union done /\ "REOPENED" \in Statuses
    BY DEF PrdInv, Statuses
  <2> QED
    BY <1>0, <1>8, <2>2, <2>3, TransitionFits, SavedKeeps DEF Prd!Reopen
<1>9. CASE Prd!Ask
  <2>1. memory # {} /\ \A p, q \in asked' : p = q
    BY <1>9 DEF Prd!Ask
  <2> QED
    BY <1>0, <1>9, <2>1 DEF Prd!Ask, PrdInv
<1>10. CASE Prd!Decide
  <2>1. PICK q \in asked, plan \in memory :
          \E verdict \in {q.rule, "SATISFIED", "NOT_SATISFIED", "INSUFFICIENT_EVIDENCE"} :
            Prd!Saved(Prd!TransitionCriterion(plan, q.id, Prd!StatusFor(verdict)))
    BY <1>10 DEF Prd!Decide
  <2>2. PICK verdict : Prd!Saved(Prd!TransitionCriterion(plan, q.id, Prd!StatusFor(verdict)))
    BY <2>1
  <2>3. PlanOK(plan) /\ plan.id \in active \union done /\ Prd!StatusFor(verdict) \in Statuses
    BY DEF PrdInv, Statuses, Prd!StatusFor
  <2> QED
    BY <1>0, <1>10, <2>2, <2>3, TransitionFits, SavedKeeps DEF Prd!Decide
<1> QED
  BY <1>1, <1>2, <1>3, <1>4, <1>5, <1>6, <1>7, <1>8, <1>9, <1>10 DEF Prd!Next

LEMMA PrdKeeps == PrdInv /\ [PlanningNext]_planningVars => PrdInv' /\ (PlansMove \/ UNCHANGED Prd!vars)
<1> SUFFICES ASSUME PrdInv, [PlanningNext]_planningVars PROVE PrdInv' /\ (PlansMove \/ UNCHANGED Prd!vars)
  OBVIOUS
<1>1. CASE Prd!Next
  BY <1>1, PrdSteps
<1>2. CASE UNCHANGED prdVars
  BY <1>2 DEF prdVars, PrdInv, Prd!vars
<1> QED
  BY <1>1, <1>2 DEF PlanningNext, planningVars

LEMMA PrdAlways == PlanningSpec => []PrdInv
BY PrdStarts, PrdKeeps, PTL DEF PlanningSpec

\* For every set of documents: over creates, closes and crashes no plan is lost,
\* is in two places, or is given the number of another (src/prd/creator.ts:
\* allocatePrdId; src/prd/commands.ts: close).
THEOREM PlansStayKept == PlanningSpec => PlansAreKept
<1>1. PrdInv /\ [PlanningNext]_planningVars => [PlansMove]_Prd!vars
  BY PrdKeeps
<1>2. PlanningSpec => [][PlansMove]_Prd!vars
  BY <1>1, PrdAlways, PTL DEF PlanningSpec
<1> QED
  BY <1>2, PTL DEF PlansAreKept, Prd!PlansAreKept, PlansMove

\* For every set of documents whatever their phases name: while a criterion is
\* open some unit can be worked on, unless units wait in a circle or two criteria
\* share an id; and the file agrees with the manager (src/prd/state.ts,
\* src/prd/manager.ts: nextUnit, save).
THEOREM PlansStaySound == PlanningSpec => []PlansAreSound
<1>1. PrdInv => PlansAreSound
  <2> SUFFICES ASSUME PrdInv PROVE Prd!NothingStalls /\ Prd!StatusIsOnDisk
    BY DEF PlansAreSound
  <2>1. Prd!NothingStalls
    BY OpenPlansGoOn DEF PrdInv, Prd!NothingStalls
  <2>2. ASSUME NEW p \in stored \union memory PROVE Prd!Plan(p)
    <3>1. PlanOK(p)
      BY DEF PrdInv
    <3> QED
      BY <3>1 DEF PlanOK, CriteriaOK, UnitsOK, Statuses, Prd!Plan
  <2>3. \A held \in {stored, memory, asked} : \A p, q \in held : p = q
    BY DEF PrdInv
  <2>4. Prd!TypeOK
    BY <2>2, <2>3 DEF PrdInv, Prd!TypeOK
  <2> QED
    BY <2>1, <2>4 DEF PrdInv, Prd!StatusIsOnDisk
<1> QED
  BY <1>1, PrdAlways, PTL

-------------------------------------------------------- (* the contract *)

Gates == [prd : BOOLEAN, elevate : BOOLEAN, confident : BOOLEAN, asked : BOOLEAN]

\* A gate that was unsure and let the task through asks for more review.
UnsureElevates(gate) == gate.asked /\ ~gate.confident /\ ~gate.prd => gate.elevate

LEMMA GateFits ==
  ASSUME NEW packet, NEW planned, NEW gate \in GateOutcomes(packet, planned)
  PROVE  gate \in Gates /\ UnsureElevates(gate)
<1>1. PlannedGate \in Gates /\ UnsureElevates(PlannedGate)
  BY DEF PlannedGate, Gates, UnsureElevates
<1>2. ASSUME NEW reply PROVE RunGate(packet, reply) \in Gates /\ UnsureElevates(RunGate(packet, reply))
  <2>1. HeuristicGate(packet) \in Gates /\ UnsureElevates(HeuristicGate(packet))
    BY DEF HeuristicGate, Gates, UnsureElevates
  <2>2. ConfidentGate(reply) \in Gates /\ UnsureElevates(ConfidentGate(reply))
    BY DEF ConfidentGate, Gates, UnsureElevates
  <2>3. UnsureGate(packet, reply) \in Gates /\ UnsureElevates(UnsureGate(packet, reply))
    BY DEF UnsureGate, Gates, UnsureElevates
  <2> QED
    BY <2>1, <2>2, <2>3 DEF RunGate
<1> QED
  BY <1>1, <1>2 DEF GateOutcomes

\* The risk is one of four levels, above the lowest when the gate elevates.
LEMMA RiskFits ==
  ASSUME NEW packet, NEW elevate \in BOOLEAN, NEW risk \in RiskOutcomes(packet, elevate)
  PROVE  risk \in 0 .. 3 /\ (elevate => risk > 0)
<1>1. ASSUME NEW signals
      PROVE  Cardinality(signals \intersect {"alters_visible", "wide_blast"}) \in 0 .. 2
  <2>1. IsFiniteSet({"alters_visible", "wide_blast"}) /\ Cardinality({"alters_visible", "wide_blast"}) = 2
    <3>1. IsFiniteSet({"alters_visible"}) /\ Cardinality({"alters_visible"}) = 1
      BY FS_Singleton
    <3>2. "wide_blast" \notin {"alters_visible"}
      OBVIOUS
    <3>3. {"alters_visible"} \union {"wide_blast"} = {"alters_visible", "wide_blast"}
      OBVIOUS
    <3> QED
      BY <3>1, <3>2, <3>3, FS_AddElement
  <2>2. signals \intersect {"alters_visible", "wide_blast"} \subseteq {"alters_visible", "wide_blast"}
    OBVIOUS
  <2> QED
    BY <2>1, <2>2, FS_Subset, FS_CardinalityType
<1>2. ASSUME NEW signals, NEW secure
      PROVE  /\ RiskFromSignals(signals, secure, elevate) \in 0 .. 3
             /\ elevate => RiskFromSignals(signals, secure, elevate) > 0
  <2> DEFINE marked == Cardinality(signals \intersect {"alters_visible", "wide_blast"})
  <2>1. marked \in 0 .. 2
    BY <1>1
  <2>2. RiskFromSignals(signals, secure, elevate)
          = LET count == marked + (IF "deterministic_sufficient" \in signals THEN 0 ELSE 1)
                level == IF secure THEN 3 ELSE count
            IN  IF elevate /\ level < 3 THEN level + 1 ELSE level
    BY DEF RiskFromSignals
  <2> HIDE DEF marked
  <2> QED
    BY <2>1, <2>2
<1> QED
  BY <1>2 DEF RiskOutcomes, ClassifyReviewRisk

Bands == {"E0", "E1", "E2", "E3"}

Indexes == {30, 45, 55, 65, 75, 88, 92}

LEMMA BandFits ==
  ASSUME NEW packet, NEW band \in BandOutcomes(packet)
  PROVE  band \in Bands
BY DEF BandOutcomes, ClassifyExecution, HeuristicBand, PartialAnswerBand, AnsweredBand, Bands

LEMMA IndexFits ==
  ASSUME NEW band \in Bands, NEW index \in IndexOutcomes(band)
  PROVE  index \in Indexes
BY TurnRoutingAssumption DEF IndexOutcomes, RequiredIndex, IndexByLevel, IndexByBand, Bands, Indexes

Pins == [executor : Classes \union {Unset}, reviewer : Reviewers \union {Unset},
         prd : {Unset, "force", "skip"}, floor : Classes \union {Unset}]

Complexities == {"LOW", "MEDIUM", "HIGH"}

LEMMA HigherOfBoth ==
  ASSUME NEW class \in Classes, NEW floor \in Classes \union {Unset}
  PROVE  /\ HigherClass(class, floor) \in Classes
         /\ Rank[HigherClass(class, floor)] >= Rank[class]
         /\ floor # Unset => Rank[HigherClass(class, floor)] >= Rank[floor]
         /\ HigherClass(class, floor) \in {class, floor}
BY DEF HigherClass, Classes, Rank, Unset

\* What the contract promises of its request: a class for its difficulty, or
\* above, unless the operator pinned one, and review of what the gate was unsure of.
LEMMA ContractFits ==
  ASSUME NEW packet, NEW gate \in Gates, NEW risk \in 0 .. 3, NEW band \in Bands, NEW index \in Indexes,
         NEW pinned \in Pins, NEW out, NEW free,
         NEW contract, contract = CompileTask(packet, gate, risk, band, index, pinned, out, free)
  PROVE  /\ contract.executor \in Classes /\ contract.classed \in Classes
         /\ contract.reviewer \in Reviewers
         /\ contract.complexity \in Complexities
         /\ contract.risk = risk /\ contract.index = index
         /\ pinned.executor = Unset => Rank[contract.classed] >= Rank[ClassOf(contract.complexity)]
         /\ risk > 0 /\ pinned.reviewer = Unset => contract.reviewer # "none"
<1> DEFINE complexity == ComplexityByBand[band]
           prd        == PinnedDecision(gate.prd, pinned)
           default    == MatrixDefault(prd, complexity, risk)
           classed    == ApplyExecutorFloor(default, pinned)
           deviated   == ApplyDeviations(classed, out)
           routing    == ApplyRoutePins(deviated, pinned)
<1>1. complexity \in Complexities
  BY DEF ComplexityByBand, Bands, Complexities
<1>2. /\ default \in [executor : Classes, reviewer : Reviewers]
      /\ default.executor = ClassOf(complexity)
      /\ risk > 0 => default.reviewer # "none"
  <2> HIDE DEF complexity, prd
  <2> QED
    BY <1>1 DEF MatrixDefault, Complexities, Classes, Reviewers, ReviewerByRisk, ClassOf
<1> HIDE DEF default
<1>3. /\ classed \in [executor : Classes, reviewer : Reviewers]
      /\ classed.executor = HigherClass(default.executor, pinned.floor)
      /\ classed.reviewer = default.reviewer
  <2>1. pinned.floor \in Classes \union {Unset}
    BY DEF Pins
  <2>2. HigherClass(default.executor, pinned.floor) \in Classes
    BY <1>2, <2>1, HigherOfBoth
  <2> QED
    BY <1>2, <2>2 DEF ApplyExecutorFloor
<1>4. Rank[classed.executor] >= Rank[ClassOf(complexity)]
  <2>1. pinned.floor \in Classes \union {Unset}
    BY DEF Pins
  <2> QED
    BY <1>2, <1>3, <2>1, HigherOfBoth
<1> HIDE DEF classed
<1>5. /\ deviated \in [executor : Classes, reviewer : Reviewers]
      /\ deviated.reviewer = default.reviewer
  <2> DEFINE ladder == Ladder[classed.executor]
             usable == {i \in DOMAIN ladder : ladder[i] \notin out}
  <2>1. ladder \in [1 .. 3 -> Classes]
    BY <1>3 DEF Ladder, Classes
  <2>2. CASE classed.executor \notin out \/ usable = {}
    BY <1>3, <2>2 DEF ApplyDeviations
  <2>3. CASE ~(classed.executor \notin out \/ usable = {})
    <3>1. usable \in SUBSET Nat /\ usable # {} /\ usable \subseteq 1 .. 3
      BY <2>1, <2>3
    <3>2. Min(usable) \in usable
      BY <3>1, HasLeast DEF Min
    <3>3. ladder[Min(usable)] \in Classes
      BY <2>1, <3>1, <3>2
    <3>4. deviated = [classed EXCEPT !.executor = ladder[Min(usable)]]
      BY <2>3 DEF ApplyDeviations
    <3> HIDE DEF ladder, usable, deviated
    <3> QED
      BY <1>3, <3>3, <3>4
  <2> QED
    BY <2>2, <2>3
<1> HIDE DEF deviated
<1>6. /\ routing.executor \in Classes /\ routing.reviewer \in Reviewers
      /\ pinned.executor = Unset => routing.executor = deviated.executor
      /\ pinned.reviewer = Unset => routing.reviewer = default.reviewer
  BY <1>5 DEF ApplyRoutePins, Pins
<1> HIDE DEF routing, complexity, prd
<1>7. /\ contract.executor = routing.executor /\ contract.reviewer = routing.reviewer
      /\ contract.complexity = complexity /\ contract.risk = risk /\ contract.index = index
      /\ contract.classed = IF deviated = classed THEN routing.executor ELSE classed.executor
  BY DEF CompileTask, routing, complexity, prd, deviated, classed, default
<1>8. /\ contract.classed \in Classes
      /\ pinned.executor = Unset => contract.classed = classed.executor
  BY <1>3, <1>6, <1>7
<1> QED
  BY <1>1, <1>2, <1>4, <1>6, <1>7, <1>8

---------------------------------------------------------- (* the prices *)

\* In a finite set some member comes before no other of an order's.
LEMMA HasMinimal ==
  ASSUME NEW S, IsFiniteSet(S), S # {}, NEW R \in SUBSET (S \X S),
         \A c, d, e \in S : <<c, d>> \in R /\ <<d, e>> \in R => <<c, e>> \in R,
         \A c \in S : <<c, c>> \notin R
  PROVE  \E c \in S : \A d \in S : <<d, c>> \notin R
<1> DEFINE before(c) == {d \in S : <<d, c>> \in R}
           size == [c \in S |-> Cardinality(before(c))]
           sizes == {size[c] : c \in S}
<1>1. \A c \in S : IsFiniteSet(before(c)) /\ Cardinality(before(c)) \in Nat
  BY FS_Subset, FS_CardinalityType
<1>2. size \in [S -> Nat] /\ \A c \in S : size[c] = Cardinality(before(c))
  <2> HIDE DEF before
  <2> QED
    BY <1>1
<1>3. \A c, d \in S : <<d, c>> \in R => size[d] < size[c]
  <2> SUFFICES ASSUME NEW c \in S, NEW d \in S, <<d, c>> \in R PROVE size[d] < size[c]
    OBVIOUS
  <2>1. before(d) \subseteq before(c) /\ d \in before(c) /\ d \notin before(d)
    OBVIOUS
  <2> HIDE DEF before, size
  <2> QED
    BY <1>1, <1>2, <2>1, FS_Subset
<1> HIDE DEF size
<1>4. sizes \in SUBSET Nat /\ sizes # {}
  BY <1>2
<1>5. PICK m \in sizes : \A n \in sizes : m <= n
  <2> HIDE DEF sizes
  <2> QED
    BY <1>4, HasLeast
<1>6. PICK c \in S : m = size[c]
  OBVIOUS
<1>7. \A d \in S : size[c] <= size[d]
  BY <1>5, <1>6
<1> QED
  BY <1>2, <1>3, <1>7

\* What a run of the history tells of itself.
CompletedRuns == [complexity : STRING, role : STRING, backend : Backends, retries : Nat,
         tokens : Nat, latency : Nat, gpu : Nat]

Buckets == [retried : Nat, of : Nat \ {0}, tokens : Nat, latency : Nat, gpu : Nat]

LEMMA NthFits ==
  ASSUME NEW D, IsFiniteSet(D), NEW values \in [D -> Nat], NEW k \in Nat, k <= Cardinality(D), D # {}
  PROVE  Nth(values, k) \in Nat
<1> DEFINE R == {p \in D \X D : values[p[1]] > values[p[2]]}
           upto(j) == {m \in DOMAIN values : values[m] <= values[j]}
           reached == {values[i] : i \in {j \in DOMAIN values : Cardinality(upto(j)) >= k}}
<1>1. \E j \in D : \A m \in D : <<m, j>> \notin R
  <2>1. R \in SUBSET (D \X D)
    OBVIOUS
  <2>2. \A c, d \in D : <<c, d>> \in R <=> values[c] > values[d]
    OBVIOUS
  <2>3. \A c \in D : values[c] \in Nat
    OBVIOUS
  <2> HIDE DEF R
  <2>4. \A c, d, e \in D : <<c, d>> \in R /\ <<d, e>> \in R => <<c, e>> \in R
    BY <2>2, <2>3
  <2>5. \A c \in D : <<c, c>> \notin R
    BY <2>2, <2>3
  <2> QED
    BY <2>1, <2>4, <2>5, HasMinimal
<1>2. PICK j \in D : \A m \in D : values[m] <= values[j]
  <2>1. PICK j \in D : \A m \in D : <<m, j>> \notin R
    BY <1>1
  <2>2. \A m \in D : ~(values[m] > values[j])
    BY <2>1
  <2>3. \A m \in D : values[m] \in Nat
    OBVIOUS
  <2> QED
    BY <2>2, <2>3
<1>3. upto(j) = D
  BY <1>2
<1>4. values[j] \in reached
  BY <1>3
<1>5. reached \in SUBSET Nat
  OBVIOUS
<1>6. Nth(values, k) = Min(reached)
  BY DEF Nth
<1> HIDE DEF reached
<1> QED
  BY <1>4, <1>5, <1>6, HasLeast DEF Min

LEMMA MedianFits ==
  ASSUME NEW D, IsFiniteSet(D), NEW values \in [D -> Nat], NEW fallback \in Nat
  PROVE  Median(values, fallback) \in Nat
<1> DEFINE n == Cardinality(DOMAIN values)
<1>1. n \in Nat /\ n = Cardinality(D) /\ (n = 0 <=> D = {})
  BY FS_CardinalityType, FS_EmptySet
<1>2. Median(values, fallback)
        = IF n = 0 THEN fallback
          ELSE IF n % 2 = 1 THEN Nth(values, (n + 1) \div 2)
          ELSE (Nth(values, n \div 2) + Nth(values, n \div 2 + 1)) \div 2
  BY DEF Median
<1> HIDE DEF n
<1>3. CASE n = 0
  BY <1>2, <1>3
<1>4. CASE n # 0 /\ n % 2 = 1
  <2>1. (n + 1) \div 2 \in Nat /\ (n + 1) \div 2 <= n
    BY <1>1, <1>4
  <2> QED
    BY <1>1, <1>2, <1>4, <2>1, NthFits
<1>5. CASE n # 0 /\ n % 2 # 1
  <2>1. n \div 2 \in Nat /\ n \div 2 + 1 \in Nat /\ n \div 2 + 1 <= n
    BY <1>1, <1>5
  <2>2. Nth(values, n \div 2) \in Nat /\ Nth(values, n \div 2 + 1) \in Nat
    BY <1>1, <1>5, <2>1, NthFits
  <2> QED
    BY <1>2, <1>5, <2>2
<1> QED
  BY <1>3, <1>4, <1>5

LEMMA BucketFits ==
  ASSUME NEW history \in Seq(CompletedRuns), NEW key
  PROVE  BucketStats(history, key) \in Buckets
<1> DEFINE runs == {i \in DOMAIN history : InBucket(history[i], key)}
           again == {i \in runs : history[i].retries > 0}
<1>1. IsFiniteSet(runs)
  <2>1. DOMAIN history = 1 .. Len(history) /\ Len(history) \in Nat
    OBVIOUS
  <2>2. IsFiniteSet(1 .. Len(history))
    BY <2>1, FS_Interval
  <2> QED
    BY <2>1, <2>2, FS_Subset
<1>2. runs \subseteq DOMAIN history
  OBVIOUS
<1>3. \A i \in DOMAIN history : history[i] \in CompletedRuns
  OBVIOUS
<1>4. Defaults \in Buckets /\ MinBucketRuns \in Nat \ {0}
  BY RoutingAssumption DEF Buckets
<1>5. BucketStats(history, key)
        = IF Cardinality(runs) < MinBucketRuns THEN Defaults
          ELSE [retried |-> Cardinality(again), of |-> Cardinality(runs),
                tokens  |-> Median(Measures(history, runs, "tokens"), Defaults.tokens),
                latency |-> Median(Measures(history, runs, "latency"), Defaults.latency),
                gpu     |-> Median(Measures(history, runs, "gpu"), Defaults.gpu)]
  BY DEF BucketStats
<1> HIDE DEF runs
<1>6. Cardinality(runs) \in Nat /\ Cardinality(again) \in Nat
  BY <1>1, FS_Subset, FS_CardinalityType
<1>7. ASSUME NEW field \in {"tokens", "latency", "gpu"}
      PROVE  Median(Measures(history, runs, field), Defaults[field]) \in Nat
  <2> DEFINE measured == {j \in runs : history[j][field] > 0}
  <2>1. IsFiniteSet(measured)
    BY <1>1, FS_Subset
  <2>2. Measures(history, runs, field) \in [measured -> Nat]
    BY <1>2, <1>3 DEF Measures, CompletedRuns
  <2>3. Defaults[field] \in Nat
    BY <1>4 DEF Buckets
  <2> QED
    BY <2>1, <2>2, <2>3, MedianFits
<1>8. /\ Median(Measures(history, runs, "tokens"), Defaults.tokens) \in Nat
      /\ Median(Measures(history, runs, "latency"), Defaults.latency) \in Nat
      /\ Median(Measures(history, runs, "gpu"), Defaults.gpu) \in Nat
  BY <1>7
<1> HIDE DEF again
<1> QED
  BY <1>4, <1>5, <1>6, <1>8 DEF Buckets

LEMMA RaisedFits ==
  ASSUME NEW effort \in EffortLevels
  PROVE  RaisedEffort(effort) \in EffortLevels
<1> DEFINE place == CHOOSE i \in 1 .. 4 : Efforts[i] = effort
<1>1. \E i \in 1 .. 4 : Efforts[i] = effort
  <2>1. effort = Efforts[1] \/ effort = Efforts[2] \/ effort = Efforts[3] \/ effort = Efforts[4]
    BY DEF EffortLevels, Efforts
  <2> QED
    BY <2>1
<1>2. place \in 1 .. 4
  BY <1>1
<1>3. RaisedEffort(effort) = Efforts[IF place = 4 THEN 4 ELSE place + 1]
  BY DEF RaisedEffort
<1> HIDE DEF place
<1>4. \A i \in 1 .. 4 : Efforts[i] \in EffortLevels
  BY DEF Efforts, EffortLevels
<1> QED
  BY <1>2, <1>3, <1>4

LEMMA EffortFits ==
  ASSUME NEW need, need.complexity \in Complexities, NEW ranking, NEW history, NEW answer
  PROVE  RouteEffort(need, ranking, history, answer) \in EffortLevels
<1>1. EffortByComplexity[need.complexity] \in EffortLevels
  BY DEF EffortByComplexity, Complexities, EffortLevels
<1>2. RaisedEffort(EffortByComplexity[need.complexity]) \in EffortLevels
  BY <1>1, RaisedFits
<1>3. ASSUME NEW bucket PROVE AdjustedEffort(EffortByComplexity[need.complexity], bucket) \in EffortLevels
  BY <1>1, <1>2 DEF AdjustedEffort
<1> QED
  BY <1>3 DEF RouteEffort, Accepted

\* What can be dispatched: a scored record on a declared backend.
Dispatchable == [id : Nat, score : Nat, price : Nat \union {Null}, backend : Backends]

LEMMA PriceFits ==
  ASSUME NEW w, NEW candidate \in Dispatchable, NEW routed, NEW effort \in EffortLevels, NEW history \in Seq(CompletedRuns)
  PROVE  Price(w, candidate, routed, effort, history) \in Int
<1>1. ASSUME NEW bucket \in Buckets PROVE PredictRouteCost(candidate, bucket, effort) \in Int
  <2> DEFINE money  == IF Billing[candidate.backend] = "metered"
                         THEN bucket.tokens * Multiplier[effort] * RateOf(candidate) ELSE 0
             local  == IF Billing[candidate.backend] = "local" THEN bucket.gpu * LocalRate ELSE 0
             scarce == money + Shadow[candidate.backend] + local
  <2>1. bucket.tokens \in Nat /\ bucket.gpu \in Nat /\ bucket.latency \in Nat /\ bucket.retried \in Nat
        /\ bucket.of \in Nat \ {0}
    BY DEF Buckets
  <2>2. candidate.backend \in Backends /\ candidate.price \in Nat \union {Null}
    BY DEF Dispatchable
  <2>3. RateOf(candidate) \in Nat
    BY <2>2, RoutingAssumption DEF RateOf, Known
  <2>4. Multiplier[effort] \in Nat /\ Shadow[candidate.backend] \in Nat /\ LocalRate \in Nat /\ LatencyRate \in Nat
    BY <2>2, RoutingAssumption
  <2>5. money \in Nat
    <3>1. bucket.tokens * Multiplier[effort] \in Nat
      BY <2>1, <2>4
    <3> QED
      BY <2>3, <3>1
  <2>6. local \in Nat
    BY <2>1, <2>4
  <2>7. scarce \in Nat
    BY <2>4, <2>5, <2>6
  <2>8. PredictRouteCost(candidate, bucket, effort)
          = scarce + bucket.latency * LatencyRate + (bucket.retried * scarce) \div bucket.of
    BY DEF PredictRouteCost
  <2> HIDE DEF scarce
  <2>9. bucket.latency * LatencyRate \in Int /\ bucket.retried * scarce \in Int
    BY <2>1, <2>4, <2>7
  <2>10. (bucket.retried * scarce) \div bucket.of \in Int
    BY <2>1, <2>9
  <2> QED
    BY <2>7, <2>8, <2>9, <2>10
<1> QED
  BY <1>1, BucketFits DEF Price

---------------------------------------------------------- (* the choice *)

\* Among priced candidates one is better than all others.
LEMMA HasBest ==
  ASSUME NEW S \in SUBSET Dispatchable, IsFiniteSet(S), S # {}, \A c, d \in S : c.id = d.id => c = d,
         NEW T, S \subseteq T, NEW price \in [T -> Int]
  PROVE  BestOf(S, price) \in S
<1> DEFINE R == {p \in S \X S : Better(p[1], p[2], price)}
<1>1. \A c \in S : /\ c.id \in Nat /\ Preference[c.backend] \in Nat /\ price[c] \in Int
  BY RoutingAssumption DEF Dispatchable
<1>2. \A c, d \in S : <<c, d>> \in R <=> Better(c, d, price)
  OBVIOUS
<1>3. R \in SUBSET (S \X S)
  OBVIOUS
<1> HIDE DEF R
<1>4. \A c, d, e \in S : <<c, d>> \in R /\ <<d, e>> \in R => <<c, e>> \in R
  BY <1>1, <1>2 DEF Better
<1>5. \A c \in S : <<c, c>> \notin R
  BY <1>1, <1>2 DEF Better
<1>6. PICK c \in S : \A d \in S : <<d, c>> \notin R
  BY <1>3, <1>4, <1>5, HasMinimal
<1>7. \A d \in S \ {c} : Better(c, d, price)
  <2> TAKE d \in S \ {c}
  <2>1. c.id # d.id
    OBVIOUS
  <2>2. ~Better(d, c, price)
    BY <1>2, <1>6
  <2> QED
    BY <1>1, <2>1, <2>2 DEF Better
<1> QED
  BY <1>7 DEF BestOf

\* The winner is one of the candidates, whatever the sites answered and
\* whichever model the role prefers.
LEMMA WinnerClears ==
  ASSUME NEW S \in SUBSET Dispatchable, IsFiniteSet(S), S # {}, \A c, d \in S : c.id = d.id => c = d,
         NEW price \in [S -> Int], NEW ref, NEW answer
  PROVE  Winner(Band(S, price), price, ref, answer) \in S
<1> DEFINE band == Band(S, price)
<1>1. BestOf(S, price) \in S
  BY HasBest
<1>2. TieBand \in Nat /\ price[BestOf(S, price)] \in Int
  BY <1>1, RoutingAssumption
<1>3. band \subseteq S /\ BestOf(S, price) \in band
  BY <1>1, <1>2 DEF Band
<1>4. \A X \in SUBSET band : X # {} => BestOf(X, price) \in S
  <2> TAKE X \in SUBSET band
  <2> HAVE X # {}
  <2> HIDE DEF band
  <2>1. X \in SUBSET Dispatchable /\ X \subseteq S /\ \A c, d \in X : c.id = d.id => c = d
    BY <1>3
  <2>2. IsFiniteSet(X)
    BY <2>1, FS_Subset
  <2> QED
    BY <2>1, <2>2, HasBest
<1> HIDE DEF band
<1>5. FirstOfBand(band, price, ref) \in S
  BY <1>3, <1>4 DEF FirstOfBand
<1> QED
  BY <1>3, <1>5 DEF Winner, band

\* What a record is bound to is one of the enabled backends, or none.
LEMMA BindingFits ==
  ASSUME NEW file, NEW config, NEW record, DOMAIN config.models \subseteq Nat
  PROVE  BindingOf(file, config, record) \in config.enabled \union {NoBackend}
<1> DEFINE offers == Offers(file, config, record)
           hinted == {i \in offers : config.models[i].backend = record.hint}
<1>1. offers \in SUBSET Nat /\ \A i \in offers : config.models[i].backend \in config.enabled
  BY DEF Offers
<1>2. hinted \subseteq offers
  OBVIOUS
<1>3. hinted # {} => Min(hinted) \in hinted
  <2> HIDE DEF hinted, offers
  <2> QED
    BY <1>1, <1>2, HasLeast DEF Min
<1>4. offers # {} => Min(offers) \in offers
  <2> HIDE DEF hinted, offers
  <2> QED
    BY <1>1, HasLeast DEF Min
<1>5. BindingOf(file, config, record)
        = IF hinted # {} THEN config.models[Min(hinted)].backend
          ELSE IF offers # {} THEN config.models[Min(offers)].backend ELSE NoBackend
  BY DEF BindingOf
<1> HIDE DEF hinted, offers
<1> QED
  BY <1>1, <1>2, <1>3, <1>4, <1>5

\* The bindings are made from what the key names of the configuration.
LEMMA KeyDecides ==
  ASSUME NEW v, NEW w, KeyOf(v) = KeyOf(w)
  PROVE  LoadRanking(v) = LoadRanking(w)
<1>1. v.file = w.file /\ v.config.models = w.config.models /\ v.config.enabled = w.config.enabled
  BY DEF KeyOf
<1>2. ASSUME NEW r PROVE BindingOf(v.file, v.config, r) = BindingOf(w.file, w.config, r)
  <2>1. Offers(v.file, v.config, r) = Offers(w.file, w.config, r)
    BY <1>1 DEF Offers
  <2>2. {i \in Offers(v.file, v.config, r) : v.config.models[i].backend = r.hint}
          = {i \in Offers(w.file, w.config, r) : w.config.models[i].backend = r.hint}
    BY <1>1, <2>1
  <2> QED
    BY <1>1, <2>1, <2>2 DEF BindingOf
<1> QED
  BY <1>1, <1>2 DEF LoadRanking, Bind

\* The records of a world's file as they are dispatched.
LEMMA WorldBinds ==
  ASSUME NEW w \in Worlds, ValidFile(w.file), NEW floor \in Nat
  PROVE  LET clearing == ClearingSet(LoadRanking(w), floor) IN
         /\ clearing \in SUBSET Dispatchable
         /\ IsFiniteSet(clearing)
         /\ \A c, d \in clearing : c.id = d.id => c = d
         /\ \A c \in clearing : \E r \in w.file :
              /\ r.id = c.id /\ Known(r.score) /\ r.score >= floor
              /\ BindingOf(w.file, w.config, r) = c.backend /\ c.backend \in w.config.enabled
         /\ \A r \in w.file :
              Known(r.score) /\ r.score >= floor /\ BindingOf(w.file, w.config, r) \in w.config.enabled
                => clearing # {}
<1> DEFINE bound(r) == [id |-> r.id, score |-> r.score, price |-> r.price,
                        backend |-> BindingOf(w.file, w.config, r)]
           ranking == LoadRanking(w)
           clearing == ClearingSet(ranking, floor)
<1>1. /\ IsFiniteSet(w.file) /\ w.config.enabled \subseteq Backends
      /\ \A r \in w.file : r.id \in Nat /\ r.score \in Nat \union {Null} /\ r.price \in Nat \union {Null}
      /\ DOMAIN w.config.models \subseteq Nat
  BY TurnRoutingAssumption
<1>2. NoBackend \notin w.config.enabled
  BY <1>1, RoutingAssumption
<1>3. \A r \in w.file : BindingOf(w.file, w.config, r) \in w.config.enabled \union {NoBackend}
  BY <1>1, BindingFits
<1>4. \A x : x \in ranking <=> \E r \in w.file : x = bound(r)
  BY DEF LoadRanking, Bind
<1>5. \A c : c \in clearing <=> \E r \in w.file : /\ c = bound(r) /\ Known(r.score) /\ r.score >= floor
                                                   /\ BindingOf(w.file, w.config, r) \in w.config.enabled
  <2>1. \A c : c \in clearing <=> c \in ranking /\ c.backend # NoBackend /\ Known(c.score) /\ c.score >= floor
    BY DEF ClearingSet, BoundCandidates, BoundRecords
  <2> HIDE DEF ranking, clearing
  <2> QED
    BY <1>2, <1>3, <1>4, <2>1
<1> HIDE DEF clearing, ranking
<1>6. clearing \in SUBSET Dispatchable
  BY <1>1, <1>5 DEF Dispatchable, Known
<1>7. IsFiniteSet(clearing)
  <2> DEFINE f == [r \in w.file |-> bound(r)]
             image == {f[r] : r \in w.file}
  <2>1. f \in Surjection(w.file, image)
    BY DEF Surjection
  <2>2. IsFiniteSet(image)
    BY <1>1, <2>1, FS_Surjection
  <2>3. clearing \subseteq image
    BY <1>5
  <2> QED
    BY <2>2, <2>3, FS_Subset
<1>8. \A c, d \in clearing : c.id = d.id => c = d
  <2> TAKE c, d \in clearing
  <2> HAVE c.id = d.id
  <2>1. PICK r \in w.file : c = bound(r)
    BY <1>5
  <2>2. PICK s \in w.file : d = bound(s)
    BY <1>5
  <2>3. r.id = s.id
    BY <2>1, <2>2
  <2> QED
    BY <2>1, <2>2, <2>3 DEF ValidFile
<1>9. \A c \in clearing : \E r \in w.file :
        /\ r.id = c.id /\ Known(r.score) /\ r.score >= floor
        /\ BindingOf(w.file, w.config, r) = c.backend /\ c.backend \in w.config.enabled
  <2> TAKE c \in clearing
  <2>1. PICK r \in w.file : /\ c = bound(r) /\ Known(r.score) /\ r.score >= floor
                            /\ BindingOf(w.file, w.config, r) \in w.config.enabled
    BY <1>5
  <2> QED
    BY <2>1
<1>10. \A r \in w.file : Known(r.score) /\ r.score >= floor /\ BindingOf(w.file, w.config, r) \in w.config.enabled
         => clearing # {}
  <2> TAKE r \in w.file
  <2> HAVE Known(r.score) /\ r.score >= floor /\ BindingOf(w.file, w.config, r) \in w.config.enabled
  <2>1. bound(r) \in clearing
    BY <1>5
  <2> QED
    BY <2>1
<1> QED
  BY <1>6, <1>7, <1>8, <1>9, <1>10 DEF clearing, ranking

\* The route is one of the models that clear the contract's floor on an enabled
\* backend; it goes to the user only when there is none.
LEMMA RouteClears ==
  ASSUME NEW w \in Worlds, ValidFile(w.file), NEW held, NEW need, need.index \in Nat, need.complexity \in Complexities,
         NEW history \in Histories, NEW answers
  PROVE  LET route == SelectRoute(w, held, need, history, answers)
             able  == {r \in w.file : Known(r.score) /\ r.score >= need.index
                                        /\ BindingOf(w.file, w.config, r) \in w.config.enabled}
         IN  IF route.escalation = "USER_INPUT" THEN able = {} /\ route.selected = Null
             ELSE \E r \in able : /\ r.id = route.selected
                                  /\ BindingOf(w.file, w.config, r) = route.backend
<1> DEFINE ranking  == LoadRanking(w)
           clearing == ClearingSet(ranking, need.index)
           effort   == RouteEffort(need, ranking, history, answers.effort)
           price    == [c \in clearing |-> Price(w, c, need, effort, history)]
           ref      == ResolveRole(w, held, need.role)
           winner   == Winner(Band(clearing, price), price, ref, answers.model)
           route    == SelectRoute(w, held, need, history, answers)
<1>1. /\ clearing \in SUBSET Dispatchable /\ IsFiniteSet(clearing)
      /\ \A c, d \in clearing : c.id = d.id => c = d
      /\ \A c \in clearing : \E r \in w.file :
           /\ r.id = c.id /\ Known(r.score) /\ r.score >= need.index
           /\ BindingOf(w.file, w.config, r) = c.backend /\ c.backend \in w.config.enabled
      /\ \A r \in w.file :
           Known(r.score) /\ r.score >= need.index /\ BindingOf(w.file, w.config, r) \in w.config.enabled
             => clearing # {}
  BY WorldBinds
<1>2. route = IF SelectCheapestClearing(ranking, need.index).gap THEN GapRoute(need)
              ELSE [selected |-> winner.id, backend |-> winner.backend, price |-> price[winner],
                    score |-> winner.score, effort |-> effort, escalation |-> "none"]
  BY DEF SelectRoute
<1>3. SelectCheapestClearing(ranking, need.index).gap <=> clearing = {}
  BY DEF SelectCheapestClearing, Selected, Escalated, NoSelection
<1>4. history \in Seq(CompletedRuns)
  BY TurnRoutingAssumption DEF CompletedRuns
<1>5. effort \in EffortLevels
  BY EffortFits
<1> HIDE DEF ranking, effort, ref, route
<1>6. CASE clearing = {}
  <2>1. route.escalation = "USER_INPUT" /\ route.selected = Null
    BY <1>2, <1>3, <1>6 DEF GapRoute
  <2> HIDE DEF clearing
  <2> QED
    BY <1>1, <1>6, <2>1 DEF route
<1>7. CASE clearing # {}
  <2>1. price \in [clearing -> Int]
    <3> HIDE DEF clearing
    <3> QED
      BY <1>1, <1>4, <1>5, PriceFits
  <2> HIDE DEF clearing, price
  <2>2. winner \in clearing
    BY <1>1, <1>7, <2>1, WinnerClears
  <2> HIDE DEF winner
  <2>3. route.escalation = "none" /\ route.selected = winner.id /\ route.backend = winner.backend
    BY <1>2, <1>3, <1>7
  <2>4. PICK r \in w.file :
           /\ r.id = winner.id /\ Known(r.score) /\ r.score >= need.index
           /\ BindingOf(w.file, w.config, r) = winner.backend /\ winner.backend \in w.config.enabled
    BY <1>1, <2>2
  <2> QED
    BY <2>3, <2>4 DEF route
<1> QED
  BY <1>6, <1>7

------------------------------------------------------ (* the invariant *)

\* A chain of the compile that came in holds what its sites could answer.
ChainsFit ==
  turn.phase = "compiling" =>
    /\ DOMAIN turn = {"phase", "packet", "planned", "out", "planning", "sizing"}
    /\ turn.planning.done => /\ turn.planning.gate \in Gates /\ UnsureElevates(turn.planning.gate)
                             /\ turn.planning.risk \in 0 .. 3
                             /\ turn.planning.gate.elevate => turn.planning.risk > 0
    /\ turn.sizing.done => turn.sizing.band \in Bands /\ turn.sizing.index \in Indexes

\* A contract keeps its promises until it is routed.
ContractHolds ==
  Compiled =>
    /\ DOMAIN turn = {"phase", "pinned", "unsure", "contract"}
    /\ turn.contract.executor \in Classes /\ turn.contract.classed \in Classes
    /\ turn.contract.reviewer \in Reviewers /\ turn.contract.complexity \in Complexities
    /\ turn.contract.risk \in 0 .. 3 /\ turn.contract.index \in Indexes
    /\ turn.pinned.executor = Unset => Rank[turn.contract.classed] >= Rank[ClassOf(turn.contract.complexity)]
    /\ turn.unsure => /\ turn.contract.risk > 0
                      /\ turn.pinned.reviewer = Unset => turn.contract.reviewer # "none"

\* The session's floor is no lower than what a turn of it asked for.
FloorIsRaised == peak # Unset => pins.floor # Unset /\ Rank[pins.floor] >= Rank[peak]

\* The hook's copy is what some configuration's file was loaded as.
CopyIsALoad ==
  /\ \A c, d \in cache : c = d
  /\ \A c \in cache : \E w \in Worlds : c = Loaded(w)

RoutingInv ==
  /\ pins \in Pins /\ world \in Worlds /\ peak \in Classes \union {Unset}
  /\ turn.phase \in {"idle", "compiling", "compiled", "recorded", "routed"}
  /\ ChainsFit /\ ContractHolds /\ FloorIsRaised /\ CopyIsALoad /\ NoneBelowTheBar

LEMMA RefreshKeeps ==
  ASSUME world \in Worlds, CopyIsALoad
  PROVE  /\ \A c, d \in Refreshed(cache, world) : c = d
         /\ \A c \in Refreshed(cache, world) : \E w \in Worlds : c = Loaded(w)
BY DEF Refreshed, CopyIsALoad

LEMMA RoutingStarts == PlanningInit => RoutingInv
BY DEF PlanningInit, RoutingInit, RoutingInv, Pins, NoPins, NoCache, Idle, ChainsFit, ContractHolds, FloorIsRaised,
       CopyIsALoad, NoneBelowTheBar, Compiled, Unset, Classes

\* The turn is as it was, and so is the file it was routed by.
LEMMA TurnStays ==
  ASSUME RoutingInv, UNCHANGED turn, world' = world \/ turn.phase = "idle"
  PROVE  /\ turn'.phase \in {"idle", "compiling", "compiled", "recorded", "routed"}
         /\ ChainsFit' /\ ContractHolds' /\ NoneBelowTheBar'
BY DEF RoutingInv, ChainsFit, ContractHolds, Compiled, NoneBelowTheBar

\* No turn is under way.
LEMMA IdleFits ==
  ASSUME turn'.phase = "idle"
  PROVE  /\ turn'.phase \in {"idle", "compiling", "compiled", "recorded", "routed"}
         /\ ChainsFit' /\ ContractHolds' /\ NoneBelowTheBar'
BY DEF ChainsFit, ContractHolds, Compiled, NoneBelowTheBar

LEMMA RoutingSteps == RoutingInv /\ RoutingNext => RoutingInv'
<1> SUFFICES ASSUME RoutingInv, RoutingNext PROVE RoutingInv'
  OBVIOUS
<1>1. CASE Prompt
  <2>1. /\ turn'.phase = "compiling"
        /\ DOMAIN turn' = {"phase", "packet", "planned", "out", "planning", "sizing"}
        /\ turn'.planning = Pending /\ turn'.sizing = Pending
    BY <1>1 DEF Prompt
  <2>2. ChainsFit' /\ ContractHolds' /\ NoneBelowTheBar'
    BY <2>1 DEF ChainsFit, ContractHolds, NoneBelowTheBar, Compiled, Pending
  <2>3. CopyIsALoad'
    BY <1>1, RefreshKeeps DEF Prompt, RoutingInv, CopyIsALoad
  <2> QED
    BY <1>1, <2>1, <2>2, <2>3 DEF Prompt, RoutingInv, FloorIsRaised
<1>2. CASE PlanningChain
  <2>1. PICK gate \in GateOutcomes(turn.packet, turn.planned) :
        \E risk \in RiskOutcomes(turn.packet, gate.elevate) :
          turn' = [turn EXCEPT !.planning = [done |-> TRUE, gate |-> gate, risk |-> risk]]
    BY <1>2 DEF PlanningChain
  <2>2. PICK risk \in RiskOutcomes(turn.packet, gate.elevate) :
          turn' = [turn EXCEPT !.planning = [done |-> TRUE, gate |-> gate, risk |-> risk]]
    BY <2>1
  <2>3. gate \in Gates /\ UnsureElevates(gate)
    BY GateFits
  <2>4. risk \in 0 .. 3 /\ (gate.elevate => risk > 0)
    BY <2>3, RiskFits DEF Gates
  <2>5. turn.phase = "compiling" /\ DOMAIN turn = {"phase", "packet", "planned", "out", "planning", "sizing"}
    BY <1>2 DEF PlanningChain, RoutingInv, ChainsFit
  <2>6. /\ turn'.phase = "compiling" /\ DOMAIN turn' = DOMAIN turn
        /\ turn'.planning = [done |-> TRUE, gate |-> gate, risk |-> risk] /\ turn'.sizing = turn.sizing
    BY <2>2, <2>5
  <2>7. turn'.planning.gate = gate /\ turn'.planning.risk = risk
    BY <2>6
  <2>8. ChainsFit'
    BY <2>3, <2>4, <2>5, <2>6, <2>7 DEF RoutingInv, ChainsFit
  <2>9. ContractHolds' /\ NoneBelowTheBar'
    BY <2>6 DEF ContractHolds, NoneBelowTheBar, Compiled
  <2> QED
    BY <1>2, <2>6, <2>8, <2>9 DEF PlanningChain, RoutingInv, FloorIsRaised, CopyIsALoad
<1>3. CASE SizingChain
  <2>1. PICK band \in BandOutcomes(turn.packet) : \E index \in IndexOutcomes(band) :
          turn' = [turn EXCEPT !.sizing = [done |-> TRUE, band |-> band, index |-> index]]
    BY <1>3 DEF SizingChain
  <2>2. PICK index \in IndexOutcomes(band) :
          turn' = [turn EXCEPT !.sizing = [done |-> TRUE, band |-> band, index |-> index]]
    BY <2>1
  <2>3. band \in Bands /\ index \in Indexes
    BY BandFits, IndexFits
  <2>4. turn.phase = "compiling" /\ DOMAIN turn = {"phase", "packet", "planned", "out", "planning", "sizing"}
    BY <1>3 DEF SizingChain, RoutingInv, ChainsFit
  <2>5. /\ turn'.phase = "compiling" /\ DOMAIN turn' = DOMAIN turn
        /\ turn'.sizing = [done |-> TRUE, band |-> band, index |-> index] /\ turn'.planning = turn.planning
    BY <2>2, <2>4
  <2>6. ChainsFit'
    BY <2>3, <2>4, <2>5 DEF RoutingInv, ChainsFit
  <2>7. ContractHolds' /\ NoneBelowTheBar'
    BY <2>5 DEF ContractHolds, NoneBelowTheBar, Compiled
  <2> QED
    BY <1>3, <2>5, <2>6, <2>7 DEF SizingChain, RoutingInv, FloorIsRaised, CopyIsALoad
<1>4. CASE Assemble
  <2> DEFINE gate == turn.planning.gate
             contract == CompileTask(turn.packet, gate, turn.planning.risk, turn.sizing.band,
                                     turn.sizing.index, pins, turn.out, ScopeFree)
  <2>1. /\ gate \in Gates /\ UnsureElevates(gate) /\ turn.planning.risk \in 0 .. 3
        /\ gate.elevate => turn.planning.risk > 0
        /\ turn.sizing.band \in Bands /\ turn.sizing.index \in Indexes
        /\ pins \in Pins
    BY <1>4 DEF Assemble, RoutingInv, ChainsFit
  <2>2. /\ contract.executor \in Classes /\ contract.classed \in Classes
        /\ contract.reviewer \in Reviewers
        /\ contract.complexity \in Complexities
        /\ contract.risk = turn.planning.risk /\ contract.index = turn.sizing.index
        /\ pins.executor = Unset => Rank[contract.classed] >= Rank[ClassOf(contract.complexity)]
        /\ turn.planning.risk > 0 /\ pins.reviewer = Unset => contract.reviewer # "none"
    <3> DEFINE packet == turn.packet
               risk   == turn.planning.risk
               band   == turn.sizing.band
               index  == turn.sizing.index
               out    == turn.out
    <3>1. gate \in Gates /\ risk \in 0 .. 3 /\ band \in Bands /\ index \in Indexes /\ pins \in Pins
      BY <2>1
    <3>2. contract = CompileTask(packet, gate, risk, band, index, pins, out, ScopeFree)
      OBVIOUS
    <3> HIDE DEF packet, risk, band, index, out, contract, gate
    <3>3. /\ contract.executor \in Classes /\ contract.classed \in Classes
          /\ contract.reviewer \in Reviewers
          /\ contract.complexity \in Complexities
          /\ contract.risk = risk /\ contract.index = index
          /\ pins.executor = Unset => Rank[contract.classed] >= Rank[ClassOf(contract.complexity)]
          /\ risk > 0 /\ pins.reviewer = Unset => contract.reviewer # "none"
      BY <3>1, <3>2, ContractFits
    <3> QED
      BY <3>3 DEF risk, index
  <2>3. turn' = [phase |-> "compiled", pinned |-> pins,
                 unsure |-> gate.asked /\ ~gate.confident /\ ~gate.prd, contract |-> contract]
    BY <1>4 DEF Assemble
  <2> HIDE DEF contract
  <2>4. /\ turn'.phase = "compiled" /\ DOMAIN turn' = {"phase", "pinned", "unsure", "contract"}
        /\ turn'.pinned = pins /\ turn'.contract = contract
        /\ turn'.unsure = (gate.asked /\ ~gate.confident /\ ~gate.prd)
    BY <2>3
  <2>5. turn'.unsure => turn.planning.risk > 0
    BY <2>1, <2>4 DEF UnsureElevates
  <2>6. ContractHolds'
    BY <2>1, <2>2, <2>4, <2>5 DEF ContractHolds
  <2>7. ChainsFit' /\ NoneBelowTheBar'
    BY <2>4 DEF ChainsFit, NoneBelowTheBar
  <2> QED
    BY <1>4, <2>4, <2>6, <2>7 DEF Assemble, RoutingInv, FloorIsRaised, CopyIsALoad
<1>5. CASE Record
  <2>1. /\ turn.phase = "compiled" /\ turn' = [turn EXCEPT !.phase = "recorded"]
        /\ DOMAIN turn = {"phase", "pinned", "unsure", "contract"}
        /\ turn.contract.classed \in Classes /\ turn.contract.complexity \in Complexities
        /\ turn.pinned.executor = Unset => Rank[turn.contract.classed] >= Rank[ClassOf(turn.contract.complexity)]
    BY <1>5 DEF Record, RoutingInv, ContractHolds, Compiled
  <2>2. /\ turn'.phase = "recorded" /\ DOMAIN turn' = DOMAIN turn /\ turn'.pinned = turn.pinned
        /\ turn'.unsure = turn.unsure /\ turn'.contract = turn.contract
    BY <2>1
  <2>3. ContractHolds'
    BY <2>1, <2>2 DEF RoutingInv, ContractHolds, Compiled
  <2>4. ChainsFit' /\ NoneBelowTheBar'
    BY <2>2 DEF ChainsFit, NoneBelowTheBar
  <2>5. /\ pins \in Pins /\ peak \in Classes \union {Unset} /\ FloorIsRaised
        /\ pins.floor \in Classes \union {Unset}
    BY DEF RoutingInv, Pins
  <2> DEFINE class == ClassOf(turn.contract.complexity)
             raised == HigherClass(turn.contract.classed, pins.floor)
  <2>6. class \in Classes
    BY <2>1 DEF ClassOf, Complexities, Classes
  <2>7. /\ raised \in Classes /\ Rank[raised] >= Rank[turn.contract.classed]
        /\ pins.floor # Unset => Rank[raised] >= Rank[pins.floor]
    BY <2>1, <2>5, HigherOfBoth
  <2>8. Unset \notin Classes /\ Rank \in [Classes -> 0 .. 2]
    BY DEF Unset, Classes, Rank
  <2>9. CASE pins.executor # Unset
    <3>1. pins' = pins /\ peak' = peak
      BY <1>5, <2>9 DEF Record, RecordExecutorFloor
    <3> QED
      BY <1>5, <2>2, <2>3, <2>4, <2>5, <3>1 DEF Record, RoutingInv, FloorIsRaised, CopyIsALoad
  <2>10. CASE pins.executor = Unset
    <3>1. pins' = [pins EXCEPT !.floor = raised]
      BY <1>5, <2>10 DEF Record, RecordExecutorFloor
    <3> HIDE DEF raised
    <3>2. pins' \in Pins /\ pins'.floor = raised
      BY <2>5, <2>7, <3>1 DEF Pins
    <3>3. peak' \in Classes \union {Unset} /\ FloorIsRaised'
      <4>1. CASE turn.pinned.executor # Unset
        <5>1. peak' = peak
          BY <1>5, <4>1 DEF Record
        <5>2. peak # Unset => Rank[pins.floor] \in 0 .. 2 /\ Rank[peak] \in 0 .. 2 /\ Rank[raised] \in 0 .. 2
          BY <2>5, <2>7, <2>8 DEF FloorIsRaised
        <5> QED
          BY <2>5, <2>7, <2>8, <3>2, <5>1, <5>2 DEF FloorIsRaised
      <4>2. CASE turn.pinned.executor = Unset
        <5>1. peak' = HigherClass(class, peak)
          BY <1>5, <2>10, <4>2 DEF Record
        <5> HIDE DEF class
        <5>2. peak' \in Classes /\ peak' \in {class, peak}
          BY <2>5, <2>6, <5>1, HigherOfBoth
        <5>3. Rank[raised] >= Rank[class]
          <6>1. Rank[turn.contract.classed] >= Rank[class]
            BY <2>1, <4>2 DEF class
          <6> QED
            BY <2>1, <2>6, <2>7, <2>8, <6>1
        <5>4. peak # Unset => Rank[raised] >= Rank[peak]
          <6> SUFFICES ASSUME peak # Unset PROVE Rank[raised] >= Rank[peak]
            OBVIOUS
          <6>1. pins.floor # Unset /\ Rank[pins.floor] >= Rank[peak]
            BY <2>5 DEF FloorIsRaised
          <6>2. Rank[pins.floor] \in 0 .. 2 /\ Rank[peak] \in 0 .. 2 /\ Rank[raised] \in 0 .. 2
            BY <2>5, <2>7, <2>8, <6>1
          <6> QED
            BY <2>7, <6>1, <6>2
        <5>5. Rank[raised] >= Rank[peak']
          BY <2>8, <5>2, <5>3, <5>4
        <5> QED
          BY <2>7, <2>8, <3>2, <5>2, <5>5 DEF FloorIsRaised
      <4> QED
        BY <4>1, <4>2
    <3> QED
      BY <1>5, <2>2, <2>3, <2>4, <3>2, <3>3 DEF Record, RoutingInv, CopyIsALoad
  <2> QED
    BY <2>9, <2>10
<1>6. CASE Route
  <2>1. turn.contract.index \in Indexes /\ turn.contract.complexity \in Complexities /\ world \in Worlds
    BY <1>6 DEF Route, RoutingInv, ContractHolds, Compiled
  <2> DEFINE need == RoutedTask(turn.contract)
  <2>2. need.index \in Nat /\ need.complexity \in Complexities /\ need.index = turn.contract.index
    BY <2>1 DEF RoutedTask, Indexes
  <2>3. PICK h \in Histories, a \in SiteAnswers :
          turn' = [phase |-> "routed", index |-> turn.contract.index, route |-> SelectRoute(world, cache, need, h, a)]
    BY <1>6 DEF Route
  <2> HIDE DEF need
  <2>4. /\ turn'.phase = "routed" /\ turn'.index = need.index
        /\ turn'.route = SelectRoute(world, cache, need, h, a)
    BY <2>2, <2>3
  <2>5. world' = world /\ ValidFile(world.file)
    BY <1>6 DEF Route
  <2>6. NoneBelowTheBar'
    BY <2>1, <2>2, <2>4, <2>5, RouteClears DEF NoneBelowTheBar
  <2>7. ChainsFit' /\ ContractHolds'
    BY <2>4 DEF ChainsFit, ContractHolds, Compiled
  <2>8. CopyIsALoad'
    BY <1>6, RefreshKeeps DEF Route, RoutingInv, CopyIsALoad
  <2> QED
    BY <1>6, <2>4, <2>6, <2>7, <2>8 DEF Route, RoutingInv, FloorIsRaised
<1>7. CASE RouteFails
  BY <1>7, IdleFits DEF RouteFails, Idle, RoutingInv, FloorIsRaised, CopyIsALoad
<1>8. CASE TurnEnds
  BY <1>8, IdleFits DEF TurnEnds, Idle, RoutingInv, FloorIsRaised, CopyIsALoad
<1>9. CASE PinRoute
  <2>1. PICK c \in PinCommands : pins' = [pins EXCEPT ![c[1]] = c[2]]
    BY <1>9 DEF PinRoute
  <2>2. c \in ({"executor"} \X Classes) \union ({"reviewer"} \X Reviewers) \union ({"prd"} \X {"force", "skip"})
    BY TurnRoutingAssumption
  <2>3. pins' \in Pins /\ pins'.floor = pins.floor
    BY <2>1, <2>2 DEF RoutingInv, Pins
  <2>4. UNCHANGED <<world, cache, turn, peak>>
    BY <1>9 DEF PinRoute
  <2> QED
    BY <2>3, <2>4, TurnStays DEF RoutingInv, FloorIsRaised, CopyIsALoad
<1>10. CASE ResetRoute
  BY <1>10, TurnStays DEF ResetRoute, RoutingInv, FloorIsRaised, CopyIsALoad, NoPins, Pins
<1>11. CASE SwitchSession
  BY <1>11, TurnStays DEF SwitchSession, RoutingInv, FloorIsRaised, CopyIsALoad, NoPins, Pins
<1>12. CASE ShowStatus
  <2>1. CopyIsALoad'
    BY <1>12, RefreshKeeps DEF ShowStatus, RoutingInv, CopyIsALoad
  <2> QED
    BY <1>12, <2>1, TurnStays DEF ShowStatus, RoutingInv, FloorIsRaised
<1>13. CASE Edit
  <2>1. world' \in Worlds /\ turn.phase = "idle"
    BY <1>13 DEF Edit
  <2> QED
    BY <1>13, <2>1, TurnStays DEF Edit, RoutingInv, FloorIsRaised, CopyIsALoad
<1> QED
  BY <1>1, <1>2, <1>3, <1>4, <1>5, <1>6, <1>7, <1>8, <1>9, <1>10, <1>11, <1>12, <1>13 DEF RoutingNext

LEMMA RoutingKeeps == RoutingInv /\ [PlanningNext]_planningVars => RoutingInv'
<1> SUFFICES ASSUME RoutingInv, UNCHANGED routingVars PROVE RoutingInv'
  BY RoutingSteps DEF PlanningNext, planningVars
<1>1. UNCHANGED <<pins, world, cache, turn, peak>>
  BY DEF routingVars
<1> QED
  BY <1>1, TurnStays DEF RoutingInv, FloorIsRaised, CopyIsALoad

LEMMA RoutingAlways == PlanningSpec => []RoutingInv
BY RoutingStarts, RoutingKeeps, PTL DEF PlanningSpec

\* For every set of configurations, histories and pins: until a reset no turn is
\* classed below what an earlier one of its session asked for, and work the gate
\* was unsure of is reviewed unless the operator pinned that away
\* (src/compiler/pins.ts:115-131, src/compiler/gate.ts:137).
THEOREM ClassesStayKept == PlanningSpec => []ClassesAreKept
<1>1. RoutingInv => ClassesAreKept
  <2> SUFFICES ASSUME RoutingInv PROVE FloorHolds /\ UnsureWorkIsWatched
    BY DEF ClassesAreKept
  <2>1. FloorHolds
    BY DEF RoutingInv, FloorIsRaised, FloorHolds, ApplyExecutorFloor, MatrixDefault, HigherClass, Rank, Classes,
           Pins, Unset
  <2> QED
    BY <2>1 DEF RoutingInv, ContractHolds, UnsureWorkIsWatched, Compiled
<1> QED
  BY <1>1, RoutingAlways, PTL

\* The role hook's copy resolves every role as the file on disk does.
LEMMA CopyDecidesNothing == RoutingInv => CacheIsCurrent
<1> SUFFICES ASSUME RoutingInv PROVE CacheIsCurrent
  OBVIOUS
<1>1. ASSUME NEW role PROVE ResolveRole(world, cache, role) = ResolveRole(world, NoCache, role)
  <2>1. CASE ~ValidFile(world.file)
    BY <2>1 DEF ResolveRole
  <2>2. CASE ValidFile(world.file)
    <3> DEFINE of(copies) == {SelectRoleModel(world.config, role, c.ranking) : c \in copies}
    <3>1. of(Refreshed(NoCache, world)) = {SelectRoleModel(world.config, role, LoadRanking(world))}
      BY <2>2 DEF Refreshed, NoCache, Loaded
    <3>2. of(Refreshed(cache, world)) = {SelectRoleModel(world.config, role, LoadRanking(world))}
      <4>1. CASE \E c \in cache : c.key = KeyOf(world)
        <5>1. PICK c \in cache : c.key = KeyOf(world)
          BY <4>1
        <5>2. Refreshed(cache, world) = {c}
          BY <4>1 DEF Refreshed, RoutingInv, CopyIsALoad
        <5>3. PICK w \in Worlds : c = Loaded(w)
          BY DEF RoutingInv, CopyIsALoad
        <5>4. KeyOf(w) = KeyOf(world) /\ c.ranking = LoadRanking(w)
          BY <5>1, <5>3 DEF Loaded
        <5>5. c.ranking = LoadRanking(world)
          BY <5>4, KeyDecides
        <5> QED
          BY <5>2, <5>5
      <4>2. CASE ~\E c \in cache : c.key = KeyOf(world)
        BY <2>2, <4>2 DEF Refreshed, Loaded
      <4> QED
        BY <4>1, <4>2
    <3>3. of(Refreshed(cache, world)) = of(Refreshed(NoCache, world))
      BY <3>1, <3>2
    <3> QED
      BY <3>3 DEF ResolveRole
  <2> QED
    BY <2>1, <2>2
<1>2. RoutingTypeOK
  BY DEF RoutingInv, RoutingTypeOK, Pins, CopyIsALoad, ContractHolds, Indexes
<1> QED
  BY <1>1, <1>2 DEF CacheIsCurrent

\* For every set of configurations, histories and answers of the sites: what is
\* dispatched clears the contract's floor on an enabled backend, the task goes to
\* the user only when nothing does, and the role hook's copy never decides
\* (src/routing/router.ts, src/capability/index.ts:160).
THEOREM RoutesStayCurrent == PlanningSpec => []RoutesAreCurrent
<1>1. RoutingInv => RoutesAreCurrent
  BY CopyDecidesNothing DEF RoutesAreCurrent, RoutingInv
<1> QED
  BY <1>1, RoutingAlways, PTL

-------------------------------------------------------------------- (* sums *)

\* Induction over the numbers up to n, with a set for the predicate.
LEMMA UpTo ==
  ASSUME NEW n \in Nat, NEW S, 0 \in S, \A j \in 1..n : j - 1 \in S => j \in S
  PROVE  \A j \in 0..n : j \in S
<1> DEFINE missing == {j \in Nat : j <= n /\ j \notin S}
<1>1. SUFFICES ASSUME missing # {} PROVE FALSE
  OBVIOUS
<1>2. PICK m \in missing : \A k \in missing : m <= k
  BY <1>1, HasLeast
<1>3. m # 0 /\ m \in 1..n /\ m - 1 \in Nat /\ m - 1 \notin missing
  BY <1>2
<1> QED
  BY <1>2, <1>3

\* The greatest of some numbers, where one of them is.
LEMMA MaxIs ==
  ASSUME NEW S \in SUBSET Nat, NEW m \in S, \A y \in S : m >= y
  PROVE  Bench!Max(S) = m
<1>1. Bench!Max(S) \in S /\ \A y \in S : Bench!Max(S) >= y
  BY DEF Bench!Max
<1>2. Bench!Max(S) \in Nat /\ m \in Nat /\ Bench!Max(S) >= m /\ m >= Bench!Max(S)
  BY <1>1
<1> QED
  BY <1>2

\* What a sum of the numbers at some positions unfolds to: the greatest is taken
\* out first.
Unfolds(it, k, s) ==
  /\ it \in [SUBSET (1..k) -> Nat] /\ it[{}] = 0
  /\ \A p \in SUBSET (1..k) : p # {} => it[p] = it[p \ {Bench!Max(p)}] + s[Bench!Max(p)]

LEMMA UnfoldsMore ==
  ASSUME NEW k \in Nat, k # 0, NEW s, s[k] \in Nat, NEW it, Unfolds(it, k - 1, s)
  PROVE  \E next : Unfolds(next, k, s)
<1> DEFINE next == [p \in SUBSET (1..k) |-> IF k \in p THEN it[p \ {k}] + s[k] ELSE it[p]]
<1>1. it \in [SUBSET (1..(k - 1)) -> Nat] /\ it[{}] = 0
  BY DEF Unfolds
<1>2. \A p \in SUBSET (1..k) : /\ p \ {k} \in SUBSET (1..(k - 1))
                               /\ k \notin p => p \in SUBSET (1..(k - 1))
  OBVIOUS
<1>3. next \in [SUBSET (1..k) -> Nat] /\ next[{}] = 0
  BY <1>1, <1>2
<1>4. ASSUME NEW p \in SUBSET (1..k), p # {} PROVE next[p] = next[p \ {Bench!Max(p)}] + s[Bench!Max(p)]
  <2>1. CASE k \in p
    <3>1. Bench!Max(p) = k
      <4>1. p \in SUBSET Nat /\ \A y \in p : k >= y
        OBVIOUS
      <4> QED
        BY <2>1, <4>1, MaxIs
    <3>2. next[p] = it[p \ {k}] + s[k] /\ next[p \ {k}] = it[p \ {k}]
      BY <2>1
    <3> QED
      BY <3>1, <3>2
  <2>2. CASE k \notin p
    <3>1. p \in SUBSET (1..(k - 1)) /\ it[p] = it[p \ {Bench!Max(p)}] + s[Bench!Max(p)]
      BY <1>2, <1>4, <2>2 DEF Unfolds
    <3>2. next[p] = it[p] /\ next[p \ {Bench!Max(p)}] = it[p \ {Bench!Max(p)}]
      BY <2>2
    <3> QED
      BY <3>1, <3>2
  <2> QED
    BY <2>1, <2>2
<1> HIDE DEF next
<1>5. Unfolds(next, k, s)
  BY <1>3, <1>4 DEF Unfolds
<1> QED
  BY <1>5

\* The partial sums of a sequence.
Sums(acc, s) ==
  /\ acc \in [0..Len(s) -> Nat] /\ acc[0] = 0 /\ Bench!Sum(s) = acc[Len(s)]
  /\ \A j \in 1..Len(s) : acc[j] = acc[j - 1] + s[j]

\* A sum has its partial sums.
LEMMA SumRuns ==
  ASSUME NEW s \in Seq(Nat)
  PROVE  \E acc : Sums(acc, s)
<1> DEFINE n == Len(s)
           Adds(it) == it = [p \in SUBSET (1..n) |-> IF p = {} THEN 0 ELSE it[p \ {Bench!Max(p)}] + s[Bench!Max(p)]]
           f == CHOOSE it : Adds(it)
           Good == {k \in 0..n : \E it : Unfolds(it, k, s)}
<1>1. n \in Nat /\ DOMAIN s = 1..n /\ \A i \in 1..n : s[i] \in Nat
  OBVIOUS
<1>2. Bench!Sum(s) = f[1..n]
  BY <1>1 DEF Bench!Sum, Bench!FoldLeft, Bench!MapThenFoldSet
<1> HIDE DEF n
<1>3. 0 \in Good
  <2> DEFINE it == [p \in SUBSET (1..0) |-> 0]
  <2>1. 1..0 = {}
    OBVIOUS
  <2>2. it \in [SUBSET (1..0) -> Nat] /\ it[{}] = 0 /\ \A p \in SUBSET (1..0) : p = {}
    BY <2>1
  <2> HIDE DEF it
  <2>3. Unfolds(it, 0, s)
    BY <2>2 DEF Unfolds
  <2> QED
    BY <1>1, <2>3
<1>4. ASSUME NEW k \in 1..n, k - 1 \in Good PROVE k \in Good
  <2>1. PICK it : Unfolds(it, k - 1, s)
    BY <1>4
  <2>2. k \in Nat /\ k # 0 /\ s[k] \in Nat /\ k \in 0..n
    BY <1>1
  <2>3. \E next : Unfolds(next, k, s)
    BY <2>1, <2>2, UnfoldsMore
  <2> QED
    BY <2>2, <2>3
<1>5. n \in Good
  <2> HIDE DEF Good
  <2>1. \A j \in 0..n : j \in Good
    BY <1>1, <1>3, <1>4, UpTo
  <2> QED
    BY <1>1, <2>1
<1>6. PICK it : Unfolds(it, n, s)
  BY <1>5
<1>7. Adds(it)
  <2>1. it = [p \in SUBSET (1..n) |-> it[p]]
    BY <1>6 DEF Unfolds
  <2>2. \A p \in SUBSET (1..n) : it[p] = IF p = {} THEN 0 ELSE it[p \ {Bench!Max(p)}] + s[Bench!Max(p)]
    BY <1>6 DEF Unfolds
  <2> QED
    BY <2>1, <2>2
<1>8. Adds(f)
  <2> HIDE DEF Adds
  <2> QED
    BY <1>7
<1> HIDE DEF f
<1>9. \A p \in SUBSET (1..n) : f[p] = IF p = {} THEN 0 ELSE f[p \ {Bench!Max(p)}] + s[Bench!Max(p)]
  BY <1>8
<1> DEFINE acc == [j \in 0..n |-> f[1..j]]
<1>10. acc[0] = 0
  <2>1. 1..0 = {} /\ {} \in SUBSET (1..n) /\ 0 \in 0..n
    BY <1>1
  <2>2. acc[0] = f[{}]
    BY <2>1
  <2>3. f[{}] = 0
    BY <1>9, <2>1
  <2> QED
    BY <2>2, <2>3
<1>11. ASSUME NEW j \in 1..n PROVE acc[j] = acc[j - 1] + s[j]
  <2>1. 1..j \in SUBSET (1..n) /\ 1..j # {} /\ (1..j) \ {j} = 1..(j - 1) /\ j - 1 \in 0..n /\ j \in 0..n
    <3>1. j \in Nat /\ j >= 1 /\ j =< n /\ j - 1 \in 0..n /\ j \in 0..n
      BY <1>1
    <3>2. 1..j \in SUBSET (1..n) /\ j \in 1..j
      BY <1>1, <3>1
    <3>3. (1..j) \ {j} = 1..(j - 1)
      BY <3>1
    <3> QED
      BY <3>1, <3>2, <3>3
  <2>2. Bench!Max(1..j) = j
    <3>1. 1..j \in SUBSET Nat /\ j \in 1..j /\ \A y \in 1..j : j >= y
      BY <1>1
    <3> QED
      BY <3>1, MaxIs
  <2>3. f[1..j] = f[(1..j) \ {Bench!Max(1..j)}] + s[Bench!Max(1..j)]
    BY <1>9, <2>1
  <2> QED
    BY <2>1, <2>2, <2>3
<1>12. n \in 0..n /\ acc[n] = f[1..n]
  BY <1>1
<1>13. acc = [j \in 0..n |-> acc[j]]
  OBVIOUS
<1> HIDE DEF acc
<1>14. \A j \in 0..n : acc[j] \in Nat
  <2> DEFINE fine == {j \in 0..n : acc[j] \in Nat}
  <2>1. 0 \in fine
    BY <1>1, <1>10
  <2>2. \A j \in 1..n : j - 1 \in fine => j \in fine
    BY <1>1, <1>11
  <2> HIDE DEF fine
  <2>3. \A j \in 0..n : j \in fine
    BY <1>1, <2>1, <2>2, UpTo
  <2> QED
    BY <2>3 DEF fine
<1>15. acc \in [0..n -> Nat]
  BY <1>13, <1>14
<1>16. Sums(acc, s)
  BY <1>2, <1>10, <1>11, <1>12, <1>15 DEF Sums, n
<1> QED
  BY <1>16

\* A sum is a number, and nothing sums to nothing.
LEMMA SumIsNat ==
  ASSUME NEW s \in Seq(Nat)
  PROVE  Bench!Sum(s) \in Nat /\ (s = <<>> => Bench!Sum(s) = 0)
<1>1. PICK acc : Sums(acc, s)
  BY SumRuns
<1> QED
  BY <1>1 DEF Sums

\* What does not count, put before a sequence, leaves its sum.
LEMMA SumShifts ==
  ASSUME NEW s \in Seq(Nat), NEW t \in Seq(Nat), NEW b \in Nat, Len(t) = b + Len(s),
         \A i \in 1..b : t[i] = 0, \A j \in 1..Len(s) : t[b + j] = s[j]
  PROVE  Bench!Sum(t) = Bench!Sum(s)
<1>1. PICK a : Sums(a, s)
  BY SumRuns
<1>2. PICK c : Sums(c, t)
  BY SumRuns
<1> DEFINE n == Len(s)
<1>3. /\ n \in Nat /\ Len(t) = b + n /\ a[0] = 0 /\ c[0] = 0 /\ Bench!Sum(s) = a[n] /\ Bench!Sum(t) = c[b + n]
      /\ \A j \in 1..n : a[j] = a[j - 1] + s[j]
      /\ \A j \in 1..(b + n) : c[j] = c[j - 1] + t[j]
  BY <1>1, <1>2 DEF Sums
<1>4. \A i \in 1..b : t[i] = 0
  OBVIOUS
<1>5. \A j \in 1..n : t[b + j] = s[j]
  OBVIOUS
<1> HIDE DEF n
<1>6. \A j \in 0..b : j \in {i \in 0..b : c[i] = 0}
  <2> DEFINE same == {i \in 0..b : c[i] = 0}
  <2>1. 0 \in same
    BY <1>3
  <2>2. ASSUME NEW j \in 1..b, j - 1 \in same PROVE j \in same
    <3>1. j \in 1..(b + n) /\ j \in 0..b
      BY <1>3
    <3> QED
      BY <1>3, <1>4, <2>2, <3>1
  <2> HIDE DEF same
  <2>3. \A j \in 0..b : j \in same
    BY <2>1, <2>2, UpTo
  <2> QED
    BY <2>3 DEF same
<1>7. c[b] = 0
  BY <1>6
<1> DEFINE same == {j \in 0..n : c[b + j] = a[j]}
<1>8. 0 \in same
  BY <1>3, <1>7
<1>9. ASSUME NEW j \in 1..n, j - 1 \in same PROVE j \in same
  <2>1. b + j \in 1..(b + n) /\ (b + j) - 1 = b + (j - 1) /\ j \in 0..n
    BY <1>3
  <2>2. c[b + j] = c[(b + j) - 1] + t[b + j]
    BY <1>3, <2>1
  <2>3. c[b + (j - 1)] = a[j - 1]
    BY <1>9
  <2> QED
    BY <1>3, <1>5, <2>1, <2>2, <2>3
<1> HIDE DEF same
<1>10. n \in same
  <2>1. \A j \in 0..n : j \in same
    BY <1>3, <1>8, <1>9, UpTo
  <2> QED
    BY <1>3, <2>1
<1> QED
  BY <1>3, <1>10 DEF same

\* What is added at the end is added to the sum.
LEMMA SumGrows ==
  ASSUME NEW s \in Seq(Nat), NEW t \in Seq(Nat), Len(t) = Len(s) + 1, \A i \in 1..Len(s) : t[i] = s[i]
  PROVE  Bench!Sum(t) = Bench!Sum(s) + t[Len(t)]
<1>1. PICK a : Sums(a, s)
  BY SumRuns
<1>2. PICK c : Sums(c, t)
  BY SumRuns
<1> DEFINE n == Len(s)
<1>3. /\ n \in Nat /\ Len(t) = n + 1 /\ a[0] = 0 /\ c[0] = 0 /\ Bench!Sum(s) = a[n] /\ Bench!Sum(t) = c[n + 1]
      /\ \A j \in 1..n : a[j] = a[j - 1] + s[j]
      /\ \A j \in 1..(n + 1) : c[j] = c[j - 1] + t[j]
  BY <1>1, <1>2 DEF Sums
<1>4. \A i \in 1..n : t[i] = s[i]
  OBVIOUS
<1> HIDE DEF n
<1> DEFINE same == {j \in 0..n : c[j] = a[j]}
<1>5. 0 \in same
  BY <1>3
<1>6. ASSUME NEW j \in 1..n, j - 1 \in same PROVE j \in same
  <2>1. j \in 1..(n + 1) /\ j \in 0..n
    BY <1>3
  <2> QED
    BY <1>3, <1>4, <1>6, <2>1
<1> HIDE DEF same
<1>7. n \in same
  <2>1. \A j \in 0..n : j \in same
    BY <1>3, <1>5, <1>6, UpTo
  <2> QED
    BY <1>3, <2>1
<1>8. c[n] = a[n]
  BY <1>7 DEF same
<1>9. c[n + 1] = c[n] + t[n + 1]
  <2>1. n + 1 \in 1..(n + 1) /\ (n + 1) - 1 = n
    BY <1>3
  <2>2. c[n + 1] = c[(n + 1) - 1] + t[n + 1]
    BY <1>3, <2>1
  <2> QED
    BY <2>1, <2>2
<1>10. Bench!Sum(t) = c[n + 1] /\ Bench!Sum(s) = c[n] /\ t[Len(t)] = t[n + 1]
  BY <1>3, <1>8
<1> QED
  BY <1>9, <1>10

\* Where each number is at most one, the sum counts those that are.
LEMMA SumCounts ==
  ASSUME NEW s \in Seq(0..1)
  PROVE  Bench!Sum(s) = Cardinality({i \in DOMAIN s : s[i] > 0})
<1> DEFINE n == Len(s)
           upto(j) == {i \in 1..j : s[i] > 0}
<1>1. s \in Seq(Nat) /\ n \in Nat /\ DOMAIN s = 1..n /\ \A i \in 1..n : s[i] \in {0, 1}
  OBVIOUS
<1>2. PICK a : Sums(a, s)
  BY <1>1, SumRuns
<1>3. a[0] = 0 /\ Bench!Sum(s) = a[n] /\ \A j \in 1..n : a[j] = a[j - 1] + s[j]
  BY <1>2 DEF Sums
<1> HIDE DEF n
<1> DEFINE same == {j \in 0..n : IsFiniteSet(upto(j)) /\ a[j] = Cardinality(upto(j))}
<1>4. 0 \in same
  <2>1. upto(0) = {}
    OBVIOUS
  <2> QED
    BY <1>1, <1>3, <2>1, FS_EmptySet
<1>5. ASSUME NEW j \in 1..n, j - 1 \in same PROVE j \in same
  <2> DEFINE u == upto(j - 1)
             v == upto(j)
  <2>1. j \notin u /\ j \in 0..n
    BY <1>1
  <2>2. IsFiniteSet(u) /\ a[j - 1] = Cardinality(u)
    BY <1>5
  <2>3. s[j] = 0 => v = u
    BY <1>1
  <2>4. s[j] = 1 => v = u \union {j}
    BY <1>1
  <2>5. a[j] = a[j - 1] + s[j] /\ s[j] \in {0, 1}
    BY <1>1, <1>3
  <2>6. j \in same <=> IsFiniteSet(v) /\ a[j] = Cardinality(v)
    BY <2>1
  <2> HIDE DEF u, v, same
  <2>7. Cardinality(u) \in Nat /\ Cardinality(u \union {j}) = Cardinality(u) + 1 /\ IsFiniteSet(u \union {j})
    BY <2>1, <2>2, FS_CardinalityType, FS_AddElement
  <2>8. CASE s[j] = 0
    <3>1. v = u /\ a[j] = a[j - 1] + 0
      BY <2>3, <2>5, <2>8
    <3>2. a[j] = Cardinality(v)
      BY <2>2, <2>7, <3>1
    <3> QED
      BY <2>2, <2>6, <3>1, <3>2
  <2>9. CASE s[j] = 1
    <3>1. v = u \union {j} /\ a[j] = a[j - 1] + 1
      BY <2>4, <2>5, <2>9
    <3>2. a[j] = Cardinality(v) /\ IsFiniteSet(v)
      BY <2>2, <2>7, <3>1
    <3> QED
      BY <2>6, <3>2
  <2> QED
    BY <2>5, <2>8, <2>9
<1> HIDE DEF same
<1>6. n \in same
  <2>1. \A j \in 0..n : j \in same
    BY <1>1, <1>4, <1>5, UpTo
  <2> QED
    BY <1>1, <2>1
<1> QED
  BY <1>1, <1>3, <1>6 DEF same

(* The numbers at some positions, the others made zero; and that two such sums  *)
(* are of the same numbers so far.                                             *)
IsMask(m, S, s) ==
  /\ m \in Seq(Nat) /\ Len(m) = Len(s) /\ Bench!Sum(m) = Bench!SumAt(S, s) /\ Bench!SumAt(S, s) \in Nat
  /\ \A i \in 1..Len(s) : m[i] = IF i \in S THEN s[i] ELSE 0

SameUpTo(n, S, s, T, t) == \A i \in 1..n : (i \in S <=> i \in T) /\ (i \in S => t[i] = s[i])

BehindBy(b, S, s, T, t) ==
  /\ \A i \in 1..b : i \notin T
  /\ \A j \in 1..Len(s) : (j \in S <=> b + j \in T) /\ (j \in S => t[b + j] = s[j])

LEMMA HasMask ==
  ASSUME NEW s \in Seq(Nat), NEW S
  PROVE  \E m : IsMask(m, S, s)
<1> DEFINE m == [i \in DOMAIN s |-> IF i \in S THEN s[i] ELSE 0]
<1>1. DOMAIN s = 1..Len(s) /\ Len(s) \in Nat /\ \A i \in 1..Len(s) : s[i] \in Nat
  OBVIOUS
<1>2. m \in [1..Len(s) -> Nat]
  BY <1>1
<1>3. m \in Seq(Nat) /\ Len(m) = Len(s)
  BY <1>1, <1>2
<1>4. Bench!Sum(m) = Bench!SumAt(S, s)
  BY DEF Bench!SumAt
<1>5. Bench!Sum(m) \in Nat
  BY <1>3, SumIsNat
<1>6. IsMask(m, S, s)
  BY <1>1, <1>3, <1>4, <1>5 DEF IsMask
<1> QED
  BY <1>6

LEMMA SumAtGrows ==
  ASSUME NEW s \in Seq(Nat), NEW t \in Seq(Nat), NEW S, NEW T, Len(t) = Len(s) + 1, SameUpTo(Len(s), S, s, T, t)
  PROVE  Bench!SumAt(T, t) = Bench!SumAt(S, s) + (IF Len(t) \in T THEN t[Len(t)] ELSE 0)
<1>1. PICK a : IsMask(a, S, s)
  BY HasMask
<1>2. PICK c : IsMask(c, T, t)
  BY HasMask
<1>3. /\ a \in Seq(Nat) /\ Len(a) = Len(s) /\ Bench!Sum(a) = Bench!SumAt(S, s)
      /\ \A i \in 1..Len(s) : a[i] = IF i \in S THEN s[i] ELSE 0
  BY <1>1 DEF IsMask
<1>4. /\ c \in Seq(Nat) /\ Len(c) = Len(t) /\ Bench!Sum(c) = Bench!SumAt(T, t)
      /\ \A i \in 1..Len(t) : c[i] = IF i \in T THEN t[i] ELSE 0
  BY <1>2 DEF IsMask
<1>5. \A i \in 1..Len(s) : c[i] = a[i]
  <2>1. \A i \in 1..Len(s) : i \in 1..Len(t)
    OBVIOUS
  <2> QED
    BY <1>3, <1>4, <2>1 DEF SameUpTo
<1>6. Bench!Sum(c) = Bench!Sum(a) + c[Len(c)]
  BY <1>3, <1>4, <1>5, SumGrows
<1>7. Len(t) \in 1..Len(t)
  OBVIOUS
<1> QED
  BY <1>3, <1>4, <1>6, <1>7

LEMMA SumAtLast ==
  ASSUME NEW s \in Seq(Nat), NEW t \in Seq(Nat), NEW S, NEW T, Len(t) = Len(s), Len(s) > 0, Len(s) \notin S,
         SameUpTo(Len(s) - 1, S, s, T, t)
  PROVE  Bench!SumAt(T, t) = Bench!SumAt(S, s) + (IF Len(t) \in T THEN t[Len(t)] ELSE 0)
<1> DEFINE n == Len(s) - 1
           front == [i \in 1..n |-> s[i]]
<1>1. n \in Nat /\ Len(s) = n + 1
  OBVIOUS
<1>2. front \in Seq(Nat) /\ Len(front) = n /\ \A i \in 1..n : front[i] = s[i]
  <2>1. front \in [1..n -> Nat]
    BY <1>1
  <2> QED
    BY <1>1, <2>1
<1>3. SameUpTo(n, S, s, T, t)
  OBVIOUS
<1> HIDE DEF n, front
<1>4. Bench!SumAt(S, s) = Bench!SumAt(S, front) + 0
  <2>1. SameUpTo(Len(front), S, front, S, s)
    BY <1>2 DEF SameUpTo
  <2>2. Bench!SumAt(S, s) = Bench!SumAt(S, front) + (IF Len(s) \in S THEN s[Len(s)] ELSE 0)
    BY <1>1, <1>2, <2>1, SumAtGrows
  <2> QED
    BY <2>2
<1>5. Bench!SumAt(T, t) = Bench!SumAt(S, front) + (IF Len(t) \in T THEN t[Len(t)] ELSE 0)
  <2>1. SameUpTo(Len(front), S, front, T, t)
    BY <1>2, <1>3 DEF SameUpTo
  <2>2. Len(t) = Len(front) + 1
    BY <1>1, <1>2
  <2> QED
    BY <1>2, <2>1, <2>2, SumAtGrows
<1>6. Bench!SumAt(S, front) \in Nat
  <2>1. \E m : IsMask(m, S, front)
    BY <1>2, HasMask
  <2> QED
    BY <2>1 DEF IsMask
<1> QED
  BY <1>4, <1>5, <1>6

LEMMA SumAtSame ==
  ASSUME NEW s \in Seq(Nat), NEW t \in Seq(Nat), NEW S, NEW T, Len(t) = Len(s), SameUpTo(Len(s), S, s, T, t)
  PROVE  Bench!SumAt(T, t) = Bench!SumAt(S, s)
<1>1. [i \in DOMAIN s |-> IF i \in S THEN s[i] ELSE 0] = [i \in DOMAIN t |-> IF i \in T THEN t[i] ELSE 0]
  BY DEF SameUpTo
<1> QED
  BY <1>1 DEF Bench!SumAt

LEMMA SumAtNone ==
  ASSUME NEW s \in Seq(Nat), NEW S, \A i \in 1..Len(s) : i \notin S
  PROVE  Bench!SumAt(S, s) = 0
<1>1. PICK a : IsMask(a, S, s)
  BY HasMask
<1>2. a \in Seq(Nat) /\ Len(a) = Len(s) /\ Bench!Sum(a) = Bench!SumAt(S, s) /\ \A i \in 1..Len(s) : a[i] = 0
  BY <1>1 DEF IsMask
<1>3. << >> \in Seq(Nat) /\ Len(<< >>) = 0
  OBVIOUS
<1>4. Bench!Sum(<< >>) = 0
  BY <1>3, SumIsNat
<1>5. Len(a) \in Nat /\ Len(a) = Len(a) + Len(<< >>) /\ \A j \in 1..Len(<< >>) : a[Len(a) + j] = << >>[j]
  BY <1>2, <1>3
<1>6. Bench!Sum(a) = Bench!Sum(<< >>)
  BY <1>2, <1>3, <1>5, SumShifts
<1> QED
  BY <1>2, <1>4, <1>6

\* The sum at some positions behind b others is that of the tail.
LEMMA SumAtShifts ==
  ASSUME NEW s \in Seq(Nat), NEW t \in Seq(Nat), NEW S, NEW T, NEW b \in Nat, Len(t) = b + Len(s),
         BehindBy(b, S, s, T, t)
  PROVE  Bench!SumAt(T, t) = Bench!SumAt(S, s)
<1>1. PICK a : IsMask(a, S, s)
  BY HasMask
<1>2. PICK c : IsMask(c, T, t)
  BY HasMask
<1>3. /\ a \in Seq(Nat) /\ Len(a) = Len(s) /\ Bench!Sum(a) = Bench!SumAt(S, s)
      /\ \A i \in 1..Len(s) : a[i] = IF i \in S THEN s[i] ELSE 0
  BY <1>1 DEF IsMask
<1>4. /\ c \in Seq(Nat) /\ Len(c) = Len(t) /\ Bench!Sum(c) = Bench!SumAt(T, t)
      /\ \A i \in 1..Len(t) : c[i] = IF i \in T THEN t[i] ELSE 0
  BY <1>2 DEF IsMask
<1>5. ASSUME NEW i \in 1..b PROVE c[i] = 0
  <2>1. i \in 1..Len(t)
    OBVIOUS
  <2> QED
    BY <1>4, <2>1 DEF BehindBy
<1>6. ASSUME NEW j \in 1..Len(a) PROVE c[b + j] = a[j]
  <2>1. j \in 1..Len(s) /\ b + j \in 1..Len(t)
    BY <1>3
  <2> QED
    BY <1>3, <1>4, <2>1 DEF BehindBy
<1> QED
  BY <1>3, <1>4, <1>5, <1>6, SumShifts

-------------------------------------------------------- (* the benchmark *)

(* A run may start on its suite and its rows; its attempts have keys of their  *)
(* own, since its rows differ and a directory holds a name once.               *)
SuiteSound == Bench!LoadSuite(Bench!Tasks) /\ Bench!LoadConfigRows(invoked.roster) /\ Bench!KnownIds(invoked.roster, Bench!Ids)

AttemptKey(r, t) == <<Bench!Ids[r], Bench!Tasks[t].id>>

AttemptKeys == {AttemptKey(r, t) : r \in DOMAIN Bench!Ids, t \in DOMAIN Bench!Tasks}

RowNamed(id) == CHOOSE r \in Bench!ToSet(invoked.roster) : r.id = id

\* The attempts before the one under way.
PastKey(key) ==
  \E r \in DOMAIN Bench!Ids, t \in DOMAIN Bench!Tasks : key = AttemptKey(r, t) /\ (r < row \/ (r = row /\ t < task))

(* The types of a run's state. *)
MeteredCall == [billing : {"metered"}, used : 0..1, rated : BOOLEAN, model : {r.model : r \in Bench!ToSet(invoked.roster)}]

BilledCall == [billing : {"metered"}, used : 0..1, cost : Nat, pricing : {"missing", "declared"}]

RunRecord == [key : AttemptKeys, of : Nat, cost : Nat, success : BOOLEAN, reviewer : {"none"}, rows : Seq(BilledCall)]

RunLine == [whole : BOOLEAN, record : RunRecord]

Judgement == [key : AttemptKeys, verdict : {"complete", "incomplete", "error"}, reported : BOOLEAN]

Payment == [key : AttemptKeys, of : Nat, dollars : Nat]

RunPhases == {"idle", "between", "booting", "running", "proving", "adjudicating",
              "done", "refused", "aborted", "interrupted", "crashed"}

RunTypes ==
  /\ invoked \in Invocations /\ at \in RunPhases /\ row \in Nat \ {0} /\ task \in Nat \ {0}
  /\ spent \in Nat /\ life \in Nat \ {0} /\ flush \in BOOLEAN /\ calls \in Seq(MeteredCall)
  /\ store \in Seq(RunLine) /\ (telemetry = store \/ telemetry = <<>>) /\ drained = Len(telemetry)
  /\ ledger \in Seq(Judgement) /\ paid \in Seq(Payment)

(* The lives of a run id follow each other in the store, and an attempt has a  *)
(* line of it at most.                                                         *)
StoreInOrder ==
  /\ \A i \in DOMAIN store : store[i].record.of <= life
  /\ \A i, j \in DOMAIN store : i <= j => store[i].record.of <= store[j].record.of
  /\ \A i, j \in DOMAIN store :
       store[i].record.key = store[j].record.key /\ store[i].record.of = store[j].record.of => i = j
  /\ \A w \in written : \E i \in Bench!RecordsOf(store, w[2]) : store[i].record.of = w[1]
  /\ telemetry # store => \A i \in DOMAIN store : store[i].record.of < life

(* A record says what its attempt spent, or names the calls it has no price for. *)
PricedAs(record, dollars) ==
  /\ record.cost = IF RowNamed(record.key[1]).rated THEN dollars ELSE 0
  /\ record.rows # <<>> => record.cost + Cardinality(Bench!UnpricedCalls(record.rows)) = dollars

RecordsPriced ==
  /\ \A k \in DOMAIN paid : paid[k].of <= life
  /\ \A i \in DOMAIN store, k \in DOMAIN paid :
       store[i].record.of = paid[k].of /\ store[i].record.key = paid[k].key => PricedAs(store[i].record, paid[k].dollars)

LedgerOnce == \A i, j \in DOMAIN ledger : ledger[i].key = ledger[j].key => i = j

(* The ledger's rows are this life's attempts, in order, behind the earlier ones. *)
InStep(base) ==
  /\ base \in Nat
  /\ \A k \in DOMAIN paid : paid[k].of = life <=> k > base
  /\ \A k \in DOMAIN ledger : base + k \in DOMAIN paid /\ paid[base + k].key = ledger[k].key

Attempting == at \in {"booting", "running", "proving", "adjudicating"}

Working == Attempting \/ at = "between"

Before == Len(paid) - (IF Attempting THEN 1 ELSE 0)

Used(cs) == Bench!Sum([i \in DOMAIN cs |-> cs[i].used])

(* Nothing of the attempt under way is recorded before its turn returned, and  *)
(* nothing of the later ones.                                                  *)
OnlyThePast ==
  Working =>
    /\ row \in DOMAIN Bench!Ids /\ task \in DOMAIN Bench!Tasks
    /\ \A i \in DOMAIN store : store[i].record.of = life =>
         PastKey(store[i].record.key) \/ (at = "adjudicating" /\ store[i].record.key = Bench!Key)
    /\ \A k \in DOMAIN ledger : PastKey(ledger[k].key)
    /\ \A base \in {Before - Len(ledger)} : InStep(base)

RowsJoin ==
  Working =>
    /\ Bench!Joins(ledger, store)
    /\ at = "adjudicating" => Bench!RecordsOf(store, Bench!Key) # {}

(* The attempt under way spent what its calls used. *)
Metering ==
  Attempting =>
    /\ Len(paid) > 0 /\ paid[Len(paid)] = [key |-> Bench!Key, of |-> life, dollars |-> Used(calls)]
    /\ \A i \in DOMAIN calls : calls[i].rated = Bench!Row.rated
    /\ Bench!Row.adapter = "external" => calls = <<>>
    /\ flush => at = "running"

(* The row's budget is not used up, and what the run counts of it was spent. *)
Counting ==
  Working =>
    /\ Bench!Row.budget > 0 => spent < Bench!Row.budget
    /\ \A id \in {Bench!Row.id}, n \in {Before} : Bench!Row.rated /\ Bench!Kept(id) => spent = Bench!Dollars(id, n)

(* Once the run is over the report is of the two files. *)
Reporting ==
  IF at \in {"done", "interrupted"}
  THEN report = {Bench!FoldReport(ledger, store)} /\ Bench!Joins(ledger, store) /\ \A base \in {Len(paid) - Len(ledger)} : InStep(base)
  ELSE report = {}

(* What was read piece by piece is all there is once something was judged. *)
Reading == at \in {"adjudicating", "interrupted"} \/ (at \in {"between", "done"} /\ ledger # <<>>) => telemetry = store

NotBegun ==
  at = "idle" =>
    /\ row = 1 /\ task = 1 /\ spent = 0 /\ telemetry = <<>>
    /\ \A i \in DOMAIN store : store[i].record.of < life
    /\ \A k \in DOMAIN paid : paid[k].of < life

(* No attempt of a row starts once the earlier ones spent its budget. *)
BudgetStands ==
  \A i \in DOMAIN Bench!rows : \A id \in {Bench!rows[i].id} : Bench!rows[i].budget > 0 /\ Bench!rows[i].rated /\ Bench!Kept(id) =>
    \A k \in DOMAIN paid : paid[k].of = life /\ paid[k].key[1] = id => Bench!Dollars(id, k - 1) < Bench!rows[i].budget

RunInv ==
  /\ RunTypes /\ StoreInOrder /\ RecordsPriced /\ LedgerOnce /\ OnlyThePast /\ RowsJoin /\ Metering /\ Counting
  /\ Reporting /\ Reading /\ NotBegun /\ Bench!NamesEveryDollar(store) /\ Bench!GoldenIsHeldOut
  /\ at \notin {"idle", "refused"} => SuiteSound /\ BudgetStands

BenchInv == Bench!Distinct => RunInv

-------------------------------------------------------------- (* the matrix *)

\* The runner counts as the library does.
LEMMA SameCount == \A S : Bench!Cardinality(S) = Cardinality(S)
BY Zenon DEF Bench!Cardinality, Cardinality

(* What a run's rows and tasks are. *)
MatrixFits ==
  /\ Len(Bench!rows) \in Nat /\ DOMAIN Bench!rows = 1..Len(Bench!rows) /\ DOMAIN Bench!Ids = 1..Len(Bench!rows)
  /\ Len(Bench!Tasks) \in Nat \ {0} /\ DOMAIN Bench!Tasks = 1..Len(Bench!Tasks)
  /\ \A r \in 1..Len(Bench!rows) : /\ Bench!rows[r] = RowNamed(Bench!Ids[r]) /\ Bench!rows[r].id = Bench!Ids[r]
                                /\ Bench!rows[r] \in Bench!ToSet(invoked.roster)
                                /\ Bench!rows[r].budget \in Int /\ Bench!rows[r].rated \in BOOLEAN

KeysDiffer ==
  \A r, s \in DOMAIN Bench!Ids, t, u \in DOMAIN Bench!Tasks : AttemptKey(r, t) = AttemptKey(s, u) => r = s /\ t = u

LEMMA IdsFit ==
  ASSUME invoked \in Invocations
  PROVE  \E n \in Nat : DOMAIN Bench!Ids = 1..n
<1> DEFINE open == {i \in DOMAIN invoked.roster : ~invoked.roster[i].gated \/ invoked.enabled}
<1>1. invoked.ids \in Seq(Bench!ToSet(invoked.ids)) /\ invoked.roster \in Seq(Bench!ToSet(invoked.roster))
  BY RunAssumption DEF Bench!ToSet, ToSet
<1>2. CASE invoked.ids = << >>
  <2>1. DOMAIN invoked.roster = 1..Len(invoked.roster) /\ Len(invoked.roster) \in Nat
    BY <1>1
  <2>2. IsFiniteSet(1..Len(invoked.roster))
    BY <2>1, FS_Interval
  <2>3. open \subseteq 1..Len(invoked.roster)
    BY <2>1
  <2>4. Cardinality(open) \in Nat
    BY <2>2, <2>3, FS_Subset, FS_CardinalityType
  <2>5. Bench!Ids = Bench!DefaultIds(invoked.roster, invoked.enabled)
    BY <1>2 DEF Bench!Ids
  <2>6. DOMAIN Bench!DefaultIds(invoked.roster, invoked.enabled) = 1..Cardinality(open)
    BY SameCount DEF Bench!DefaultIds
  <2> QED
    BY <2>4, <2>5, <2>6
<1>3. CASE invoked.ids # << >>
  <2>1. Bench!Ids = invoked.ids
    BY <1>3 DEF Bench!Ids
  <2> QED
    BY <1>1, <2>1
<1> QED
  BY <1>2, <1>3

LEMMA MatrixIs ==
  ASSUME invoked \in Invocations, SuiteSound
  PROVE  MatrixFits
<1>1. PICK n \in Nat : DOMAIN Bench!Ids = 1..n
  BY IdsFit
<1>2. Bench!rows = [i \in 1..n |-> RowNamed(Bench!Ids[i])]
  BY <1>1 DEF Bench!rows, Bench!SelectConfigRows, RowNamed
<1>3. \A i \in 1..n : \E r \in Bench!ToSet(invoked.roster) : r.id = Bench!Ids[i]
  BY <1>1 DEF SuiteSound, Bench!KnownIds
<1>4. ASSUME NEW i \in 1..n
      PROVE  RowNamed(Bench!Ids[i]) \in Bench!ToSet(invoked.roster) /\ RowNamed(Bench!Ids[i]).id = Bench!Ids[i]
  BY <1>3 DEF RowNamed
<1>5. \A i \in 1..n : Bench!rows[i] = RowNamed(Bench!Ids[i])
  BY <1>2
<1>6. Bench!rows \in Seq(Bench!ToSet(invoked.roster)) /\ Len(Bench!rows) = n
  <2>1. Bench!rows \in [1..n -> Bench!ToSet(invoked.roster)]
    BY <1>2, <1>4
  <2> QED
    BY <2>1
<1>7. \A r \in Bench!ToSet(invoked.roster) : r.budget \in Int /\ r.rated \in BOOLEAN
  BY RunAssumption DEF Bench!ToSet
<1>8. Len(Bench!Tasks) \in Nat \ {0} /\ DOMAIN Bench!Tasks = 1..Len(Bench!Tasks)
  <2>1. Bench!Tasks \in Seq(Bench!ToSet(Bench!Tasks))
    BY RunAssumption DEF Bench!Tasks, Bench!ToSet, ToSet
  <2>2. Bench!Tasks # << >>
    BY DEF SuiteSound, Bench!LoadSuite
  <2>3. Len(Bench!Tasks) # 0
    BY <2>1, <2>2, EmptySeq
  <2> QED
    BY <2>1, <2>3
<1>9. DOMAIN Bench!rows = 1..n
  BY <1>2
<1> QED
  BY <1>1, <1>4, <1>5, <1>6, <1>7, <1>8, <1>9 DEF MatrixFits

LEMMA KeysAreDifferent ==
  ASSUME invoked \in Invocations, SuiteSound, Bench!Distinct
  PROVE  KeysDiffer
<1> SUFFICES ASSUME NEW r \in DOMAIN Bench!Ids, NEW s \in DOMAIN Bench!Ids, NEW t \in DOMAIN Bench!Tasks, NEW u \in DOMAIN Bench!Tasks,
                    AttemptKey(r, t) = AttemptKey(s, u)
             PROVE  r = s /\ t = u
  BY DEF KeysDiffer
<1>1. Bench!Ids[r] = Bench!Ids[s] /\ Bench!Tasks[t].id = Bench!Tasks[u].id
  BY DEF AttemptKey
<1>2. Bench!Tasks[t].dir = Bench!Tasks[u].dir
  BY <1>1 DEF SuiteSound, Bench!LoadSuite
<1>3. t = u
  BY <1>2, RunAssumption DEF Bench!Tasks
<1> QED
  BY <1>1, <1>3 DEF Bench!Distinct

(* A run's rows and tasks are asked for once. *)
RunIsStill ==
  /\ Bench!Ids' = Bench!Ids /\ Bench!rows' = Bench!rows /\ Bench!Tasks' = Bench!Tasks /\ (SuiteSound' <=> SuiteSound) /\ (Bench!Distinct' <=> Bench!Distinct)
  /\ AttemptKeys' = AttemptKeys /\ RunRecord' = RunRecord /\ RunLine' = RunLine /\ Judgement' = Judgement
  /\ Payment' = Payment /\ MeteredCall' = MeteredCall

LEMMA RunStays == UNCHANGED invoked => RunIsStill
BY DEF RunIsStill, Bench!Ids, Bench!rows, Bench!Tasks, SuiteSound, Bench!Distinct, AttemptKeys, AttemptKey, RunRecord, RunLine, Judgement,
       Payment, MeteredCall

------------------------------------------------------------- (* the records *)

LEMMA SumOfOne ==
  ASSUME NEW s \in Seq(Nat), Len(s) = 1
  PROVE  Bench!Sum(s) = s[1]
<1>1. << >> \in Seq(Nat) /\ Len(<< >>) = 0 /\ Len(s) = Len(<< >>) + 1 /\ \A i \in 1..Len(<< >>) : s[i] = << >>[i]
  OBVIOUS
<1>2. Bench!Sum(<< >>) = 0
  BY <1>1, SumIsNat
<1>3. Bench!Sum(s) = Bench!Sum(<< >>) + s[Len(s)]
  BY <1>1, SumGrows
<1>4. s[1] \in Nat
  <2>1. 1 \in 1..Len(s)
    OBVIOUS
  <2> QED
    BY <2>1, ElementOfSeq
<1> QED
  BY <1>2, <1>3, <1>4

LEMMA SumOfZeros ==
  ASSUME NEW s \in Seq(Nat), \A i \in 1..Len(s) : s[i] = 0
  PROVE  Bench!Sum(s) = 0
<1>1. << >> \in Seq(Nat) /\ Len(<< >>) = 0
  OBVIOUS
<1>2. Len(s) \in Nat /\ Len(s) = Len(s) + Len(<< >>) /\ \A j \in 1..Len(<< >>) : s[Len(s) + j] = << >>[j]
  BY <1>1
<1>3. Bench!Sum(s) = Bench!Sum(<< >>)
  BY <1>1, <1>2, SumShifts
<1> QED
  BY <1>1, <1>3, SumIsNat

(* What the calls of an attempt used, one number each. *)
Uses(cs) == [i \in DOMAIN cs |-> cs[i].used]

LEMMA UsesFit ==
  ASSUME NEW cs \in Seq(MeteredCall)
  PROVE  /\ Uses(cs) \in Seq(0..1) /\ Uses(cs) \in Seq(Nat) /\ Len(Uses(cs)) = Len(cs)
         /\ \A i \in 1..Len(cs) : Uses(cs)[i] = cs[i].used
         /\ Used(cs) = Bench!Sum(Uses(cs)) /\ Used(cs) \in Nat /\ (cs = << >> => Used(cs) = 0)
<1>1. Len(cs) \in Nat /\ DOMAIN cs = 1..Len(cs) /\ \A i \in 1..Len(cs) : cs[i].used \in 0..1
  <2>1. Len(cs) \in Nat /\ DOMAIN cs = 1..Len(cs) /\ \A i \in 1..Len(cs) : cs[i] \in MeteredCall
    OBVIOUS
  <2> QED
    BY <2>1 DEF MeteredCall
<1>2. Uses(cs) \in [1..Len(cs) -> 0..1] /\ Uses(cs) \in [1..Len(cs) -> Nat]
  BY <1>1 DEF Uses
<1>3. Uses(cs) \in Seq(0..1) /\ Uses(cs) \in Seq(Nat) /\ Len(Uses(cs)) = Len(cs)
  BY <1>1, <1>2
<1>4. \A i \in 1..Len(cs) : Uses(cs)[i] = cs[i].used
  BY <1>1 DEF Uses
<1>5. Used(cs) = Bench!Sum(Uses(cs))
  BY DEF Used, Uses
<1>6. cs = << >> => Uses(cs) = << >>
  BY <1>3, EmptySeq
<1>7. Used(cs) \in Nat /\ (cs = << >> => Used(cs) = 0)
  BY <1>3, <1>5, <1>6, SumIsNat
<1> QED
  BY <1>3, <1>4, <1>5, <1>7

LEMMA UseGrows ==
  ASSUME NEW cs \in Seq(MeteredCall), NEW call \in MeteredCall
  PROVE  Used(Append(cs, call)) = Used(cs) + call.used
<1> DEFINE more == Append(cs, call)
<1>1. more \in Seq(MeteredCall) /\ Len(more) = Len(cs) + 1 /\ more[Len(more)] = call
      /\ \A i \in 1..Len(cs) : more[i] = cs[i]
  OBVIOUS
<1> HIDE DEF more
<1>2. /\ Uses(cs) \in Seq(Nat) /\ Len(Uses(cs)) = Len(cs) /\ Used(cs) = Bench!Sum(Uses(cs))
      /\ \A i \in 1..Len(cs) : Uses(cs)[i] = cs[i].used
  BY UsesFit
<1>3. /\ Uses(more) \in Seq(Nat) /\ Len(Uses(more)) = Len(more) /\ Used(more) = Bench!Sum(Uses(more))
      /\ \A i \in 1..Len(more) : Uses(more)[i] = more[i].used
  BY <1>1, UsesFit
<1>4. \A i \in 1..Len(Uses(cs)) : Uses(more)[i] = Uses(cs)[i]
  <2>1. \A i \in 1..Len(cs) : i \in 1..Len(more)
    BY <1>1
  <2> QED
    BY <1>1, <1>2, <1>3, <2>1
<1>5. Len(Uses(more)) = Len(Uses(cs)) + 1
  BY <1>1, <1>2, <1>3
<1>6. Bench!Sum(Uses(more)) = Bench!Sum(Uses(cs)) + Uses(more)[Len(Uses(more))]
  BY <1>2, <1>3, <1>4, <1>5, SumGrows
<1>7. Uses(more)[Len(Uses(more))] = call.used
  <2>1. Len(more) \in 1..Len(more)
    BY <1>1
  <2> QED
    BY <1>1, <1>3, <2>1
<1> QED
  BY <1>2, <1>3, <1>6, <1>7 DEF more

(* What an attempt's record must say, whichever adapter wrote it. *)
RecordFits(record) ==
  record \in RunRecord /\ record.key = Bench!Key /\ record.of = life /\ PricedAs(record, Used(calls))

RecordMayBeMade ==
  /\ calls \in Seq(MeteredCall) /\ life \in Nat /\ Bench!Key \in AttemptKeys
  /\ Bench!Row = RowNamed(Bench!Row.id) /\ Bench!Row.rated \in BOOLEAN /\ \A i \in DOMAIN calls : calls[i].rated = Bench!Row.rated

LEMMA RoleIsBalanced ==
  ASSUME NEW cs, \A i \in DOMAIN cs : cs[i].role = "balanced"
  PROVE  Bench!BilledReviewer(cs) = "none"
BY DEF Bench!BilledReviewer

\* A session's counters, and a vendor's subscription.
LEMMA SessionPriced ==
  ASSUME RecordMayBeMade, NEW success \in BOOLEAN
  PROVE  RecordFits(Bench!AppendedRecord(Bench!SpentNumbers(calls), success))
<1> DEFINE cs == Bench!SpentNumbers(calls)
           used == Used(calls)
           prices == [i \in DOMAIN cs |-> Bench!PriceCall(cs[i])]
           record == Bench!AppendedRecord(cs, success)
<1>1. used \in Nat /\ used = Bench!Sum([i \in DOMAIN calls |-> calls[i].used])
  BY UsesFit DEF RecordMayBeMade, Used
<1>2. Bench!PriceRun(cs) = IF Bench!Row.rated THEN used ELSE 0
  <2>1. CASE used = 0
    <3>1. cs = << >>
      BY <1>1, <2>1 DEF Bench!SpentNumbers
    <3>2. prices = << >>
      BY <3>1
    <3>3. << >> \in Seq(Nat)
      OBVIOUS
    <3>4. Bench!Sum(prices) = 0
      BY <3>2, <3>3, SumIsNat
    <3> QED
      BY <2>1, <3>4 DEF Bench!PriceRun
  <2>2. CASE used # 0
    <3> DEFINE call == [billing |-> "metered", used |-> used, rated |-> Bench!Row.rated, model |-> Bench!Row.model, role |-> "balanced"]
    <3>1. cs = <<call>>
      BY <1>1, <2>2 DEF Bench!SpentNumbers
    <3>2. Bench!PriceCall(call) = IF Bench!Row.rated THEN used ELSE 0
      BY DEF Bench!PriceCall, Bench!Metered, RecordMayBeMade
    <3>3. DOMAIN cs = 1..1 /\ cs[1] = call
      BY <3>1
    <3>4. prices = [i \in 1..1 |-> Bench!PriceCall(call)]
      BY <3>3
    <3> HIDE DEF call, cs
    <3>5. Bench!PriceCall(call) \in Nat
      BY <1>1, <3>2
    <3>6. prices \in [1..1 -> Nat] /\ prices[1] = Bench!PriceCall(call)
      BY <3>4, <3>5
    <3>7. prices \in Seq(Nat) /\ Len(prices) = 1
      BY <3>6
    <3>8. Bench!Sum(prices) = Bench!PriceCall(call)
      BY <3>6, <3>7, SumOfOne
    <3>9. Bench!PriceRun(cs) = Bench!Sum(prices)
      BY DEF Bench!PriceRun
    <3> QED
      BY <3>2, <3>8, <3>9 DEF cs
  <2> QED
    BY <2>1, <2>2
<1>3. Bench!PriceRun(cs) \in Nat
  BY <1>1, <1>2
<1>4. << >> \in Seq(BilledCall)
  OBVIOUS
<1> HIDE DEF cs, used
<1>5. record = [key |-> Bench!Key, of |-> life, cost |-> Bench!PriceRun(cs), success |-> success, reviewer |-> "none", rows |-> << >>]
  BY DEF Bench!AppendedRecord
<1>6. record \in RunRecord
  BY <1>3, <1>4, <1>5 DEF RecordMayBeMade, RunRecord
<1>7. Bench!Key[1] = Bench!Row.id
  BY DEF Bench!Key
<1>8. PricedAs(record, used)
  BY <1>2, <1>5, <1>7 DEF PricedAs, RecordMayBeMade
<1>9. RecordFits(record)
  BY <1>5, <1>6, <1>8 DEF RecordFits, used
<1> QED
  BY <1>9 DEF cs

LEMMA SubscriptionPriced ==
  ASSUME RecordMayBeMade, NEW success \in BOOLEAN, calls = << >>, NEW call, call.billing = "subscription"
  PROVE  RecordFits(Bench!AppendedRecord(<<call>>, success))
<1> DEFINE cs == <<call>>
           prices == [i \in DOMAIN cs |-> Bench!PriceCall(cs[i])]
           record == Bench!AppendedRecord(cs, success)
<1>1. Used(calls) = 0
  BY UsesFit DEF RecordMayBeMade
<1>2. Bench!PriceCall(call) = 0
  BY DEF Bench!PriceCall, Bench!Metered
<1>3. DOMAIN cs = 1..1 /\ cs[1] = call
  OBVIOUS
<1> HIDE DEF cs
<1>4. prices \in [1..1 -> Nat] /\ prices[1] = 0
  BY <1>2, <1>3
<1>5. prices \in Seq(Nat) /\ Len(prices) = 1
  BY <1>4
<1>6. Bench!PriceRun(cs) = 0
  BY <1>4, <1>5, SumOfOne DEF Bench!PriceRun
<1>7. << >> \in Seq(BilledCall)
  OBVIOUS
<1>8. record = [key |-> Bench!Key, of |-> life, cost |-> 0, success |-> success, reviewer |-> "none", rows |-> << >>]
  BY <1>6 DEF Bench!AppendedRecord
<1>9. record \in RunRecord
  BY <1>7, <1>8 DEF RecordMayBeMade, RunRecord
<1>10. PricedAs(record, 0)
  BY <1>8 DEF PricedAs
<1>11. RecordFits(record)
  BY <1>1, <1>8, <1>9, <1>10 DEF RecordFits
<1> QED
  BY <1>11 DEF cs

\* A compiled turn's record names each call of the session.
LEMMA TurnPriced ==
  ASSUME RecordMayBeMade, NEW success \in BOOLEAN
  PROVE  RecordFits(Bench!Emitted(Bench!CallsFromMessages(calls), success))
<1> DEFINE cs == Bench!CallsFromMessages(calls)
           used == Used(calls)
           prices == [i \in DOMAIN cs |-> Bench!PriceCall(cs[i])]
           bill == [i \in DOMAIN cs |-> Bench!CallRow(cs[i])]
           record == Bench!Emitted(cs, success)
<1>1. /\ Len(calls) \in Nat /\ DOMAIN calls = 1..Len(calls)
      /\ \A i \in 1..Len(calls) : calls[i] \in MeteredCall /\ calls[i].rated = Bench!Row.rated
  BY DEF RecordMayBeMade
<1>2. /\ DOMAIN cs = 1..Len(calls)
      /\ \A i \in 1..Len(calls) : /\ cs[i].billing = "metered" /\ cs[i].used = calls[i].used /\ cs[i].rated = Bench!Row.rated
                                  /\ cs[i].role = "balanced"
  BY <1>1 DEF Bench!CallsFromMessages, MeteredCall
<1>3. \A i \in 1..Len(calls) : calls[i].used \in 0..1
  BY <1>1 DEF MeteredCall
<1>4. /\ Uses(calls) \in Seq(0..1) /\ Uses(calls) \in Seq(Nat) /\ Len(Uses(calls)) = Len(calls)
      /\ \A i \in 1..Len(calls) : Uses(calls)[i] = calls[i].used
      /\ used = Bench!Sum(Uses(calls)) /\ used \in Nat
  BY UsesFit DEF RecordMayBeMade
<1> HIDE DEF cs, used
<1>5. /\ DOMAIN prices = 1..Len(calls)
      /\ \A i \in 1..Len(calls) : prices[i] = IF Bench!Row.rated THEN calls[i].used ELSE 0
  BY <1>2, <1>3 DEF Bench!PriceCall, Bench!Metered
<1>6. prices \in Seq(Nat) /\ Len(prices) = Len(calls)
  <2>1. prices \in [1..Len(calls) -> Nat]
    BY <1>3, <1>5
  <2> QED
    BY <1>1, <2>1
<1>7. Bench!PriceRun(cs) = Bench!Sum(prices)
  BY DEF Bench!PriceRun
<1> HIDE DEF prices
<1>8. Bench!PriceRun(cs) = IF Bench!Row.rated THEN used ELSE 0
  <2>1. CASE Bench!Row.rated
    <3>2. prices = Uses(calls)
      BY <1>1, <1>4, <1>5, <1>6, <2>1, SeqEqual
    <3> QED
      BY <1>4, <1>7, <2>1, <3>2
  <2>2. CASE ~Bench!Row.rated
    <3>1. Bench!Sum(prices) = 0
      BY <1>5, <1>6, <2>2, SumOfZeros
    <3> QED
      BY <1>7, <2>2, <3>1
  <2> QED
    BY <2>1, <2>2
<1>9. /\ DOMAIN bill = 1..Len(calls)
      /\ \A i \in 1..Len(calls) : bill[i] = Bench!CallRow(cs[i])
  BY <1>2
<1>10. ASSUME NEW i \in 1..Len(calls)
       PROVE  /\ bill[i] \in BilledCall /\ bill[i].billing = "metered" /\ bill[i].used = calls[i].used
              /\ bill[i].pricing = IF calls[i].used > 0 /\ ~Bench!Row.rated THEN "missing" ELSE "declared"
  BY <1>2, <1>3, <1>9 DEF Bench!CallRow, Bench!PriceCall, Bench!Metered, Bench!HasMissingRates, BilledCall
<1> HIDE DEF bill
<1>11. bill \in Seq(BilledCall)
  <2>1. bill \in [1..Len(calls) -> BilledCall]
    <3>1. bill = [i \in 1..Len(calls) |-> bill[i]]
      BY <1>2 DEF bill
    <3> QED
      BY <1>10, <3>1
  <2> QED
    BY <1>1, <2>1
<1>12. Cardinality(Bench!UnpricedCalls(bill)) = IF Bench!Row.rated THEN 0 ELSE used
  <2>1. CASE Bench!Row.rated
    <3>1. Bench!UnpricedCalls(bill) = {}
      BY <1>9, <1>10, <2>1 DEF Bench!UnpricedCalls
    <3> QED
      BY <2>1, <3>1, FS_EmptySet
  <2>2. CASE ~Bench!Row.rated
    <3>1. Bench!UnpricedCalls(bill) = {i \in 1..Len(calls) : calls[i].used > 0}
      BY <1>9, <1>10, <2>2 DEF Bench!UnpricedCalls
    <3>2. {i \in 1..Len(calls) : calls[i].used > 0} = {i \in DOMAIN Uses(calls) : Uses(calls)[i] > 0}
      BY <1>1, <1>4
    <3> QED
      BY <1>4, <2>2, <3>1, <3>2, SumCounts
  <2> QED
    BY <2>1, <2>2
<1>13. record = [key |-> Bench!Key, of |-> life, cost |-> Bench!PriceRun(cs), success |-> success, reviewer |-> "none", rows |-> bill]
  <2>1. Bench!BilledReviewer(cs) = "none"
    BY <1>2, RoleIsBalanced
  <2> QED
    BY <2>1 DEF Bench!Emitted, bill
<1>14. Bench!PriceRun(cs) \in Nat
  BY <1>4, <1>8
<1>15. record \in RunRecord
  BY <1>11, <1>13, <1>14 DEF RecordMayBeMade, RunRecord
<1>16. Bench!Key[1] = Bench!Row.id
  BY DEF Bench!Key
<1>17. PricedAs(record, used)
  <2>1. record.cost = Bench!PriceRun(cs) /\ record.rows = bill /\ record.key = Bench!Key
    BY <1>13
  <2>2. record.cost = IF RowNamed(record.key[1]).rated THEN used ELSE 0
    BY <1>8, <1>16, <2>1 DEF RecordMayBeMade
  <2>3. record.cost + Cardinality(Bench!UnpricedCalls(record.rows)) = used
    BY <1>4, <1>8, <1>12, <2>1 DEF RecordMayBeMade
  <2> QED
    BY <2>2, <2>3 DEF PricedAs
<1>18. record.key = Bench!Key /\ record.of = life
  BY <1>13
<1> HIDE DEF record
<1>19. RecordFits(record)
  BY <1>15, <1>17, <1>18 DEF RecordFits, used
<1> QED
  BY <1>19 DEF cs, record

------------------------------------------------------------ (* the attempts *)

(* What a run at work may rely on. *)
AtWork ==
  /\ MatrixFits /\ KeysDiffer /\ row \in 1..Len(Bench!rows) /\ task \in 1..Len(Bench!Tasks)
  /\ Bench!Row \in Bench!ToSet(invoked.roster) /\ Bench!Row.id = Bench!Ids[row] /\ Bench!Row = RowNamed(Bench!Row.id)
  /\ Bench!Row.budget \in Int /\ Bench!Row.rated \in BOOLEAN
  /\ Bench!Key = AttemptKey(row, task) /\ Bench!Key \in AttemptKeys /\ ~PastKey(Bench!Key)

LEMMA WorkIsKnown ==
  ASSUME RunInv, Bench!Distinct, Working
  PROVE  AtWork
<1>1. invoked \in Invocations /\ SuiteSound
  BY DEF RunInv, RunTypes, Working, Attempting
<1>2. MatrixFits /\ KeysDiffer
  BY <1>1, MatrixIs, KeysAreDifferent
<1>3. row \in 1..Len(Bench!rows) /\ task \in 1..Len(Bench!Tasks) /\ row \in DOMAIN Bench!Ids /\ task \in DOMAIN Bench!Tasks
  BY <1>2 DEF RunInv, OnlyThePast, MatrixFits
<1>4. Bench!Row = Bench!rows[row] /\ Bench!Task = Bench!Tasks[task]
  BY DEF Bench!Row, Bench!Task
<1>5. /\ Bench!Row \in Bench!ToSet(invoked.roster) /\ Bench!Row.id = Bench!Ids[row] /\ Bench!Row = RowNamed(Bench!Row.id)
      /\ Bench!Row.budget \in Int /\ Bench!Row.rated \in BOOLEAN
  BY <1>2, <1>3, <1>4 DEF MatrixFits
<1>6. Bench!Key = AttemptKey(row, task)
  BY <1>4, <1>5 DEF Bench!Key, AttemptKey
<1>7. Bench!Key \in AttemptKeys
  BY <1>3, <1>6 DEF AttemptKeys
<1>8. ~PastKey(Bench!Key)
  <2>1. SUFFICES ASSUME NEW r \in DOMAIN Bench!Ids, NEW t \in DOMAIN Bench!Tasks, AttemptKey(row, task) = AttemptKey(r, t),
                        r < row \/ (r = row /\ t < task)
                 PROVE  FALSE
    BY <1>6 DEF PastKey
  <2>2. r = row /\ t = task
    BY <1>2, <1>3, <2>1 DEF KeysDiffer
  <2> QED
    BY <1>3, <2>1, <2>2
<1> QED
  BY <1>2, <1>3, <1>5, <1>6, <1>7, <1>8 DEF AtWork

LEMMA RecordCanBeMade ==
  ASSUME RunInv, Bench!Distinct, Attempting
  PROVE  RecordMayBeMade
<1>1. AtWork
  BY WorkIsKnown DEF Working
<1> QED
  BY <1>1 DEF AtWork, RecordMayBeMade, RunInv, RunTypes, Metering

(* Of this life's attempts only the last is not judged yet. *)
PaidInTurn ==
  /\ Len(paid) \in Nat \ {0} /\ DOMAIN paid = 1..Len(paid)
  /\ paid[Len(paid)].key = Bench!Key /\ paid[Len(paid)].of = life
  /\ \A k \in 1..(Len(paid) - 1) : paid[k].of = life => PastKey(paid[k].key) /\ \E j \in DOMAIN ledger : paid[k].key = ledger[j].key
  /\ \A k \in 1..Len(paid) : paid[k].of = life /\ paid[k].key = Bench!Key => k = Len(paid)

LEMMA PaidIsInTurn ==
  ASSUME RunInv, Bench!Distinct, Attempting
  PROVE  PaidInTurn
<1>1. AtWork
  BY WorkIsKnown DEF Working
<1>2. /\ Len(paid) \in Nat \ {0} /\ DOMAIN paid = 1..Len(paid)
      /\ paid[Len(paid)].key = Bench!Key /\ paid[Len(paid)].of = life
  BY DEF RunInv, RunTypes, Metering
<1> DEFINE base == (Len(paid) - 1) - Len(ledger)
<1>3. /\ InStep(base) /\ \A k \in DOMAIN ledger : PastKey(ledger[k].key)
  BY DEF RunInv, OnlyThePast, Before, Working, Attempting
<1>4. Len(ledger) \in Nat /\ DOMAIN ledger = 1..Len(ledger)
  BY DEF RunInv, RunTypes
<1>5. ASSUME NEW k \in 1..(Len(paid) - 1), paid[k].of = life
      PROVE  PastKey(paid[k].key) /\ \E j \in DOMAIN ledger : paid[k].key = ledger[j].key
  <2>1. base \in Nat /\ k > base /\ k \in DOMAIN paid
    BY <1>2, <1>3, <1>5 DEF InStep
  <2>2. k - base \in DOMAIN ledger /\ base + (k - base) = k
    BY <1>2, <1>4, <2>1
  <2>3. paid[k].key = ledger[k - base].key
    BY <1>3, <2>2 DEF InStep
  <2> QED
    BY <1>3, <2>2, <2>3
<1>6. ASSUME NEW k \in 1..Len(paid), paid[k].of = life, paid[k].key = Bench!Key PROVE k = Len(paid)
  <2>1. CASE k \in 1..(Len(paid) - 1)
    BY <1>1, <1>5, <1>6, <2>1 DEF AtWork
  <2>2. Len(paid) \in Nat \ {0} /\ k \in 1..Len(paid)
    BY <1>2
  <2>3. k \in 1..(Len(paid) - 1) \/ k = Len(paid)
    BY <2>2
  <2> QED
    BY <2>1, <2>3
<1> QED
  BY <1>2, <1>5, <1>6 DEF PaidInTurn

LEMMA NothingRecordedYet ==
  ASSUME RunInv, Bench!Distinct, Attempting, at # "adjudicating", NEW i \in DOMAIN store, store[i].record.of = life
  PROVE  PastKey(store[i].record.key) /\ store[i].record.key # Bench!Key
<1>1. AtWork
  BY WorkIsKnown DEF Working
<1>2. PastKey(store[i].record.key)
  BY DEF RunInv, OnlyThePast, Working
<1> QED
  BY <1>1, <1>2 DEF AtWork

(* What the lines of a store cost and leave open, and what was paid. *)
Costs(lines) == [i \in DOMAIN lines |-> lines[i].record.cost]

Gaps(lines) == [i \in DOMAIN lines |-> Cardinality(Bench!UnpricedCalls(lines[i].record.rows))]

Payments == [k \in DOMAIN paid |-> paid[k].dollars]

LEMMA DollarsAreNamed ==
  ASSUME NEW lines
  PROVE  Bench!NamesEveryDollar(lines) <=>
           Bench!SumAt(Bench!Compiled(lines), Costs(lines)) + Bench!SumAt(Bench!Compiled(lines), Gaps(lines)) = Bench!SumAt(Bench!Theirs(lines), Payments)
BY SameCount DEF Bench!NamesEveryDollar, Bench!AggregateRuns, Costs, Gaps, Payments

LEMMA LinesFit ==
  ASSUME NEW lines \in Seq(RunLine)
  PROVE  /\ Costs(lines) \in Seq(Nat) /\ Len(Costs(lines)) = Len(lines)
         /\ Gaps(lines) \in Seq(Nat) /\ Len(Gaps(lines)) = Len(lines)
         /\ \A i \in 1..Len(lines) : /\ Costs(lines)[i] = lines[i].record.cost
                                     /\ Gaps(lines)[i] = Cardinality(Bench!UnpricedCalls(lines[i].record.rows))
<1>1. Len(lines) \in Nat /\ DOMAIN lines = 1..Len(lines) /\ \A i \in 1..Len(lines) : lines[i] \in RunLine
  OBVIOUS
<1>2. ASSUME NEW i \in 1..Len(lines)
      PROVE  lines[i].record.cost \in Nat /\ Cardinality(Bench!UnpricedCalls(lines[i].record.rows)) \in Nat
  <2> DEFINE bill == lines[i].record.rows
  <2>1. lines[i].record.cost \in Nat /\ bill \in Seq(BilledCall)
    BY <1>1 DEF RunLine, RunRecord
  <2> HIDE DEF bill
  <2>2. DOMAIN bill = 1..Len(bill) /\ Len(bill) \in Nat
    BY <2>1
  <2>3. Bench!UnpricedCalls(bill) \subseteq 1..Len(bill)
    BY <2>2 DEF Bench!UnpricedCalls
  <2>4. IsFiniteSet(1..Len(bill))
    BY <2>2, FS_Interval
  <2>5. IsFiniteSet(Bench!UnpricedCalls(bill))
    BY <2>3, <2>4, FS_Subset
  <2>6. Cardinality(Bench!UnpricedCalls(bill)) \in Nat
    BY <2>5, FS_CardinalityType
  <2> QED
    BY <2>1, <2>6 DEF bill
<1>3. Costs(lines) \in [1..Len(lines) -> Nat] /\ Gaps(lines) \in [1..Len(lines) -> Nat]
  BY <1>1, <1>2 DEF Costs, Gaps
<1>4. Costs(lines) \in Seq(Nat) /\ Len(Costs(lines)) = Len(lines)
  BY <1>1, <1>3
<1>5. Gaps(lines) \in Seq(Nat) /\ Len(Gaps(lines)) = Len(lines)
  BY <1>1, <1>3
<1> QED
  BY <1>1, <1>4, <1>5 DEF Costs, Gaps

LEMMA PaymentsFit ==
  ASSUME paid \in Seq(Payment)
  PROVE  Payments \in Seq(Nat) /\ Len(Payments) = Len(paid) /\ \A k \in 1..Len(paid) : Payments[k] = paid[k].dollars
<1>1. Len(paid) \in Nat /\ DOMAIN paid = 1..Len(paid) /\ \A i \in 1..Len(paid) : paid[i] \in Payment
  OBVIOUS
<1>2. \A i \in 1..Len(paid) : paid[i].dollars \in Nat
  BY <1>1 DEF Payment
<1>3. Payments \in [1..Len(paid) -> Nat]
  BY <1>1, <1>2 DEF Payments
<1>4. Payments \in Seq(Nat) /\ Len(Payments) = Len(paid)
  BY <1>1, <1>3
<1> QED
  BY <1>1, <1>4 DEF Payments

(* One more line in the store. *)
OneMore(lines, record) == lines = Append(store, Bench!Whole(record)) \/ lines = Append(store, Bench!Torn(record))

LEMMA OneMoreFits ==
  ASSUME store \in Seq(RunLine), NEW record \in RunRecord, NEW lines, OneMore(lines, record)
  PROVE  /\ lines \in Seq(RunLine) /\ Len(store) \in Nat /\ Len(lines) = Len(store) + 1 /\ lines[Len(lines)].record = record
         /\ DOMAIN lines = 1..Len(lines) /\ DOMAIN store = 1..Len(store)
         /\ \A i \in 1..Len(store) : lines[i] = store[i]
         /\ \A i \in 1..Len(lines) : i \in 1..Len(store) \/ i = Len(lines)
         /\ (lines = Append(store, Bench!Whole(record)) => lines[Len(lines)].whole)
<1>1. Bench!Whole(record) \in RunLine /\ Bench!Torn(record) \in RunLine
  BY DEF Bench!Whole, Bench!Torn, RunLine
<1>2. PICK line \in RunLine : /\ lines = Append(store, line) /\ line.record = record
                              /\ (lines = Append(store, Bench!Whole(record)) => line = Bench!Whole(record))
  <2>1. CASE lines = Append(store, Bench!Whole(record))
    BY <1>1, <2>1 DEF Bench!Whole
  <2>2. CASE lines # Append(store, Bench!Whole(record))
    BY <1>1, <2>2 DEF OneMore, Bench!Torn
  <2> QED
    BY <2>1, <2>2
<1>3. /\ lines \in Seq(RunLine) /\ Len(store) \in Nat /\ Len(lines) = Len(store) + 1 /\ lines[Len(lines)] = line
      /\ \A i \in 1..Len(store) : lines[i] = store[i]
  BY <1>2
<1> QED
  BY <1>2, <1>3 DEF Bench!Whole

LEMMA NamesOneMore ==
  ASSUME RunInv, Bench!Distinct, Attempting, at # "adjudicating", NEW record, RecordFits(record), NEW lines, OneMore(lines, record)
  PROVE  Bench!NamesEveryDollar(lines)
<1> DEFINE n == Len(lines)
           last == Len(paid)
<1>1. record \in RunRecord /\ record.key = Bench!Key /\ record.of = life /\ PricedAs(record, Used(calls))
  BY DEF RecordFits
<1>2. /\ lines \in Seq(RunLine) /\ Len(store) \in Nat /\ n = Len(store) + 1 /\ lines[n].record = record
      /\ DOMAIN lines = 1..n /\ DOMAIN store = 1..Len(store)
      /\ \A i \in 1..Len(store) : lines[i] = store[i]
      /\ \A i \in 1..n : i \in 1..Len(store) \/ i = n
  BY <1>1, OneMoreFits DEF RunInv, RunTypes
<1>3. store \in Seq(RunLine) /\ paid \in Seq(Payment)
  BY DEF RunInv, RunTypes
<1>4. /\ last \in Nat /\ last > 0 /\ last \in 1..last /\ DOMAIN paid = 1..last
      /\ paid[last].key = Bench!Key /\ paid[last].of = life
      /\ \A k \in 1..last : paid[k].of = life /\ paid[k].key = Bench!Key => k = last
  <2>1. PaidInTurn
    BY PaidIsInTurn
  <2>2. last \in Nat \ {0}
    BY <2>1 DEF PaidInTurn
  <2>3. last \in Nat /\ last > 0 /\ last \in 1..last
    BY <2>2
  <2> QED
    BY <2>1, <2>3 DEF PaidInTurn
<1>5. /\ Costs(store) \in Seq(Nat) /\ Len(Costs(store)) = Len(store) /\ Gaps(store) \in Seq(Nat)
      /\ Len(Gaps(store)) = Len(store)
      /\ \A i \in 1..Len(store) : /\ Costs(store)[i] = store[i].record.cost
                                  /\ Gaps(store)[i] = Cardinality(Bench!UnpricedCalls(store[i].record.rows))
  BY <1>3, LinesFit
<1>6. /\ Costs(lines) \in Seq(Nat) /\ Len(Costs(lines)) = n /\ Gaps(lines) \in Seq(Nat) /\ Len(Gaps(lines)) = n
      /\ \A i \in 1..n : /\ Costs(lines)[i] = lines[i].record.cost
                         /\ Gaps(lines)[i] = Cardinality(Bench!UnpricedCalls(lines[i].record.rows))
  BY <1>2, LinesFit
<1>7. Payments \in Seq(Nat) /\ Len(Payments) = last /\ \A k \in 1..last : Payments[k] = paid[k].dollars
  BY <1>3, PaymentsFit
<1> HIDE DEF n, last
<1>8. Bench!Compiled(lines) \subseteq 1..n /\ Bench!Compiled(store) \subseteq 1..Len(store)
  BY <1>2 DEF Bench!Compiled, Bench!ReadStore
<1>9. \A i \in 1..Len(store) : i \in Bench!Compiled(store) <=> i \in Bench!Compiled(lines)
  BY <1>2 DEF Bench!Compiled, Bench!ReadStore
<1>10. /\ SameUpTo(Len(Costs(store)), Bench!Compiled(store), Costs(store), Bench!Compiled(lines), Costs(lines))
       /\ SameUpTo(Len(Gaps(store)), Bench!Compiled(store), Gaps(store), Bench!Compiled(lines), Gaps(lines))
  <2>1. ASSUME NEW i \in 1..Len(store)
        PROVE  Costs(lines)[i] = Costs(store)[i] /\ Gaps(lines)[i] = Gaps(store)[i]
    <3>1. i \in 1..n /\ lines[i] = store[i]
      BY <1>2
    <3> QED
      BY <1>5, <1>6, <3>1
  <2> QED
    BY <1>5, <1>9, <2>1 DEF SameUpTo
<1>11. Bench!SumAt(Bench!Compiled(lines), Costs(lines)) = Bench!SumAt(Bench!Compiled(store), Costs(store)) + (IF n \in Bench!Compiled(lines) THEN Costs(lines)[n] ELSE 0)
  BY <1>2, <1>5, <1>6, <1>10, SumAtGrows
<1>12. Bench!SumAt(Bench!Compiled(lines), Gaps(lines)) = Bench!SumAt(Bench!Compiled(store), Gaps(store)) + (IF n \in Bench!Compiled(lines) THEN Gaps(lines)[n] ELSE 0)
  BY <1>2, <1>5, <1>6, <1>10, SumAtGrows
<1>13. /\ Bench!SumAt(Bench!Compiled(store), Costs(store)) \in Nat /\ Bench!SumAt(Bench!Compiled(store), Gaps(store)) \in Nat
       /\ Bench!SumAt(Bench!Theirs(store), Payments) \in Nat
  <2>1. /\ \E m : IsMask(m, Bench!Compiled(store), Costs(store))
        /\ \E m : IsMask(m, Bench!Compiled(store), Gaps(store))
        /\ \E m : IsMask(m, Bench!Theirs(store), Payments)
    BY <1>5, <1>7, HasMask
  <2> QED
    BY <2>1 DEF IsMask
<1>14. last \notin Bench!Theirs(store)
  <2>1. \A i \in DOMAIN store : store[i].record.of = life => store[i].record.key # Bench!Key
    BY NothingRecordedYet
  <2> QED
    BY <1>4, <2>1 DEF Bench!Theirs, Bench!Compiled, Bench!ReadStore
<1>15. ASSUME NEW k \in 1..(last - 1)
       PROVE  k \in Bench!Theirs(store) <=> k \in Bench!Theirs(lines)
  <2>1. k \in DOMAIN paid /\ k \in 1..last /\ k # last
    BY <1>4
  <2>2. paid[k].of = life => paid[k].key # Bench!Key
    BY <1>4, <2>1
  <2>3. k \in Bench!Theirs(store) => k \in Bench!Theirs(lines)
    BY <1>2, <1>8, <1>9, <2>1 DEF Bench!Theirs
  <2>4. k \in Bench!Theirs(lines) => k \in Bench!Theirs(store)
    <3>1. SUFFICES ASSUME paid[k].of = life, NEW i \in Bench!Compiled(lines), lines[i].record.key = paid[k].key
                   PROVE  \E j \in Bench!Compiled(store) : store[j].record.key = paid[k].key
      BY <2>1 DEF Bench!Theirs
    <3>2. i # n
      BY <1>1, <1>2, <2>2, <3>1
    <3>3. i \in 1..Len(store)
      BY <1>2, <1>8, <3>1, <3>2
    <3> QED
      BY <1>2, <1>9, <3>1, <3>3
  <2> QED
    BY <2>3, <2>4
<1>16. Bench!SumAt(Bench!Theirs(lines), Payments) = Bench!SumAt(Bench!Theirs(store), Payments) + (IF last \in Bench!Theirs(lines) THEN Payments[last] ELSE 0)
  <2>1. SameUpTo(Len(Payments) - 1, Bench!Theirs(store), Payments, Bench!Theirs(lines), Payments)
    BY <1>7, <1>15 DEF SameUpTo
  <2>2. Len(Payments) > 0 /\ Len(Payments) \notin Bench!Theirs(store)
    BY <1>4, <1>7, <1>14
  <2> QED
    BY <1>7, <2>1, <2>2, SumAtLast
<1>17. last \in Bench!Theirs(lines) <=> n \in Bench!Compiled(lines)
  <2>1. last \in DOMAIN paid /\ paid[last].of = life /\ paid[last].key = Bench!Key
    BY <1>4
  <2>2. n \in Bench!Compiled(lines) => last \in Bench!Theirs(lines)
    BY <1>1, <1>2, <2>1 DEF Bench!Theirs
  <2>3. ASSUME last \in Bench!Theirs(lines) PROVE n \in Bench!Compiled(lines)
    <3>1. PICK i \in Bench!Compiled(lines) : lines[i].record.key = Bench!Key
      BY <2>1, <2>3 DEF Bench!Theirs
    <3>2. lines[i].record.of = life
      BY DEF Bench!Compiled
    <3>3. i \in 1..Len(store) => store[i].record.of # life \/ store[i].record.key # Bench!Key
      BY <1>2, NothingRecordedYet
    <3>4. i \notin 1..Len(store)
      BY <1>2, <3>1, <3>2, <3>3
    <3> QED
      BY <1>2, <1>8, <3>1, <3>4
  <2> QED
    BY <2>2, <2>3
<1>18. n \in Bench!Compiled(lines) => Costs(lines)[n] + Gaps(lines)[n] = Payments[last]
  <2>1. SUFFICES ASSUME n \in Bench!Compiled(lines) PROVE Costs(lines)[n] + Gaps(lines)[n] = Payments[last]
    OBVIOUS
  <2>2. n \in 1..n /\ last \in 1..last
    BY <1>2, <1>4
  <2>3. record.rows # << >>
    BY <1>2, <2>1 DEF Bench!Compiled
  <2>4. Costs(lines)[n] = record.cost /\ Gaps(lines)[n] = Cardinality(Bench!UnpricedCalls(record.rows))
    BY <1>2, <1>6, <2>2
  <2>5. Payments[last] = Used(calls)
    <3>1. paid[last].dollars = Used(calls)
      BY DEF RunInv, Metering, last
    <3> QED
      BY <1>7, <2>2, <3>1
  <2>6. record.cost + Cardinality(Bench!UnpricedCalls(record.rows)) = Used(calls)
    BY <1>1, <2>3 DEF PricedAs
  <2> QED
    BY <2>4, <2>5, <2>6
<1>19. n \in Bench!Compiled(lines) => Costs(lines)[n] \in Nat /\ Gaps(lines)[n] \in Nat
  <2>1. n \in 1..n
    BY <1>2
  <2> QED
    BY <1>6, <2>1, ElementOfSeq
<1>20. Bench!SumAt(Bench!Compiled(store), Costs(store)) + Bench!SumAt(Bench!Compiled(store), Gaps(store)) = Bench!SumAt(Bench!Theirs(store), Payments)
  BY DollarsAreNamed DEF RunInv
<1>21. Bench!SumAt(Bench!Compiled(lines), Costs(lines)) + Bench!SumAt(Bench!Compiled(lines), Gaps(lines)) = Bench!SumAt(Bench!Theirs(lines), Payments)
  <2>1. CASE n \in Bench!Compiled(lines)
    BY <1>11, <1>12, <1>13, <1>16, <1>17, <1>18, <1>19, <1>20, <2>1
  <2>2. CASE n \notin Bench!Compiled(lines)
    BY <1>11, <1>12, <1>13, <1>16, <1>17, <1>20, <2>2
  <2> QED
    BY <2>1, <2>2
<1> QED
  BY <1>21, DollarsAreNamed

LEMMA PricesStand ==
  ASSUME RecordsPriced, UNCHANGED <<invoked, store, paid, life>>
  PROVE  RecordsPriced'
<1>1. ASSUME NEW i \in DOMAIN store', NEW k \in DOMAIN paid,
             store'[i].record.of = paid[k].of, store'[i].record.key = paid[k].key
      PROVE  PricedAs(store'[i].record, paid[k].dollars)
  BY <1>1 DEF RecordsPriced
<1>2. RecordsPriced /\ store' = store /\ paid' = paid /\ life' = life /\ invoked' = invoked
  OBVIOUS
<1>3. ASSUME NEW r, NEW d PROVE PricedAs(r, d)' <=> PricedAs(r, d)
  BY <1>2 DEF PricedAs, RowNamed, Bench!UnpricedCalls
<1> QED
  BY <1>1, <1>2, <1>3 DEF RecordsPriced

LEMMA ReadsOn ==
  ASSUME NEW S, NEW s \in Seq(S), NEW t \in Seq(S), Len(s) <= Len(t), \A i \in 1..Len(s) : t[i] = s[i]
  PROVE  s \o SubSeq(t, Len(s) + 1, Len(t)) = t
<1> DEFINE n == Len(s)
           m == Len(t)
           rest == SubSeq(t, n + 1, m)
<1>1. n \in Nat /\ m \in Nat /\ n <= m
  OBVIOUS
<1>2. rest \in Seq(S) /\ Len(rest) = m - n /\ \A i \in 1..(m - n) : rest[i] = t[n + i]
  <2>1. n + 1 \in Int /\ m \in Int
    BY <1>1
  <2> QED
    BY <1>1
<1> HIDE DEF rest
<1>3. /\ s \o rest \in Seq(S) /\ Len(s \o rest) = m
      /\ \A i \in 1..m : (s \o rest)[i] = IF i <= n THEN s[i] ELSE rest[i - n]
  BY <1>1, <1>2
<1>4. ASSUME NEW i \in 1..m PROVE (s \o rest)[i] = t[i]
  <2>1. CASE i <= n
    BY <1>1, <1>3, <2>1
  <2>2. CASE ~(i <= n)
    <3>1. i - n \in 1..(m - n) /\ n + (i - n) = i
      BY <1>1, <2>2
    <3> QED
      BY <1>2, <1>3, <2>2, <3>1
  <2> QED
    BY <2>1, <2>2
<1>5. s \o rest = t
  BY <1>3, <1>4, SeqEqual
<1> QED
  BY <1>5 DEF rest

LEMMA EmptyReadsOn ==
  ASSUME NEW S, NEW t \in Seq(S)
  PROVE  << >> \o SubSeq(t, 1, Len(t)) = t
<1>1. << >> \in Seq(S) /\ Len(<< >>) = 0 /\ Len(<< >>) <= Len(t) /\ \A i \in 1..Len(<< >>) : t[i] = << >>[i]
  OBVIOUS
<1>2. << >> \o SubSeq(t, Len(<< >>) + 1, Len(t)) = t
  BY <1>1, ReadsOn
<1> QED
  BY <1>1, <1>2

(* The file after an attempt's record was written, refused or torn: what the   *)
(* rest of the run may rely on.                                                *)
StoreGrew ==
  /\ store' \in Seq(RunLine) /\ DOMAIN store \subseteq DOMAIN store' /\ \A i \in DOMAIN store : store'[i] = store[i]
  /\ \A i \in DOMAIN store' : store'[i].record.of = life => PastKey(store'[i].record.key) \/ store'[i].record.key = Bench!Key
  /\ written \subseteq written' /\ written' \subseteq written \union {<<life, Bench!Key>>}

ReadItAll == telemetry' = store' /\ drained' = Len(store')

LEMMA DrainReadsAll ==
  ASSUME RunTypes, store' \in Seq(RunLine), DOMAIN store \subseteq DOMAIN store', \A i \in DOMAIN store : store'[i] = store[i],
         Bench!DrainStore
  PROVE  ReadItAll
<1>1. store \in Seq(RunLine) /\ (telemetry = store \/ telemetry = << >>) /\ drained = Len(telemetry)
  BY DEF RunTypes
<1>2. telemetry' = telemetry \o SubSeq(store', drained + 1, Len(store')) /\ drained' = Len(store')
  BY DEF Bench!DrainStore
<1>3. CASE telemetry = store
  <2>1. DOMAIN store = 1..Len(store) /\ DOMAIN store' = 1..Len(store') /\ Len(store) \in Nat /\ Len(store') \in Nat
    BY <1>1
  <2>2. Len(store) <= Len(store')
    BY <2>1
  <2>3. \A i \in 1..Len(store) : store'[i] = store[i]
    BY <2>1
  <2>4. store \o SubSeq(store', Len(store) + 1, Len(store')) = store'
    BY <1>1, <2>2, <2>3, ReadsOn
  <2> QED
    BY <1>1, <1>2, <1>3, <2>4 DEF ReadItAll
<1>4. CASE telemetry = << >>
  <2>1. << >> \o SubSeq(store', 1, Len(store')) = store'
    BY EmptyReadsOn
  <2>2. drained + 1 = 1
    BY <1>1, <1>4
  <2> QED
    BY <1>2, <1>4, <2>1, <2>2 DEF ReadItAll
<1> QED
  BY <1>1, <1>3, <1>4

\* Nothing was written.
LEMMA StoreUntouched ==
  ASSUME RunInv, Bench!Distinct, Attempting, UNCHANGED <<invoked, row, task, life, paid, store, written>>, Bench!DrainStore
  PROVE  StoreGrew /\ ReadItAll /\ StoreInOrder' /\ RecordsPriced' /\ Bench!NamesEveryDollar(store)'
<1>1. RunIsStill
  BY RunStays
<1>2. store \in Seq(RunLine)
  BY DEF RunInv, RunTypes
<1>3. StoreGrew
  BY <1>2 DEF StoreGrew, RunInv, OnlyThePast, Working
<1>4. ReadItAll
  BY <1>2, DrainReadsAll DEF RunInv
<1>5. StoreInOrder'
  BY <1>4 DEF StoreInOrder, ReadItAll, RunInv, Bench!RecordsOf, Bench!ReadStore
<1>6. RecordsPriced'
  BY PricesStand DEF RunInv
<1>7. Bench!NamesEveryDollar(store)'
  BY DEF RunInv, Bench!NamesEveryDollar, Bench!AggregateRuns, Bench!Compiled, Bench!Theirs, Bench!ReadStore, Bench!UnpricedCalls
<1> QED
  BY <1>3, <1>4, <1>5, <1>6, <1>7

LEMMA StoreAppended ==
  ASSUME RunInv, Bench!Distinct, Attempting, at # "adjudicating", NEW record, RecordFits(record), Bench!AppendRun(record),
         UNCHANGED <<invoked, row, task, life, paid>>, Bench!DrainStore
  PROVE  StoreGrew /\ ReadItAll /\ StoreInOrder' /\ RecordsPriced' /\ Bench!NamesEveryDollar(store)'
<1>1. CASE UNCHANGED <<store, written>>
  BY <1>1, StoreUntouched
<1>2. CASE /\ OneMore(store', record)
           /\ \/ UNCHANGED written
              \/ written' = written \union {<<life, Bench!Key>>} /\ store' = Append(store, Bench!Whole(record))
  <2> DEFINE n == Len(store')
  <2>1. record \in RunRecord /\ record.key = Bench!Key /\ record.of = life /\ PricedAs(record, Used(calls))
    BY DEF RecordFits
  <2>2. store \in Seq(RunLine) /\ life \in Nat
    BY DEF RunInv, RunTypes
  <2>3. /\ store' \in Seq(RunLine) /\ Len(store) \in Nat /\ n = Len(store) + 1 /\ store'[n].record = record
        /\ DOMAIN store' = 1..n /\ DOMAIN store = 1..Len(store)
        /\ \A i \in 1..Len(store) : store'[i] = store[i]
        /\ \A i \in 1..n : i \in 1..Len(store) \/ i = n
        /\ (store' = Append(store, Bench!Whole(record)) => store'[n].whole)
    BY <1>2, <2>1, <2>2, OneMoreFits
  <2> HIDE DEF n
  <2>4. \A i \in DOMAIN store : store[i].record.of = life => PastKey(store[i].record.key) /\ store[i].record.key # Bench!Key
    BY NothingRecordedYet
  <2>5. 1..Len(store) \subseteq 1..n
    BY <2>3
  <2>6. StoreGrew
    <3>1. \A i \in DOMAIN store' : store'[i].record.of = life => PastKey(store'[i].record.key) \/ store'[i].record.key = Bench!Key
      BY <2>1, <2>3, <2>4
    <3>2. written \subseteq written' /\ written' \subseteq written \union {<<life, Bench!Key>>}
      BY <1>2
    <3> QED
      BY <2>3, <2>5, <3>1, <3>2 DEF StoreGrew
  <2>7. ReadItAll
    BY <2>6, DrainReadsAll DEF RunInv, StoreGrew
  <2>8. StoreInOrder'
    <3>0. StoreInOrder /\ life' = life
      BY DEF RunInv
    <3>1. \A i \in DOMAIN store' : store'[i].record.of <= life
      BY <2>1, <2>2, <2>3, <3>0 DEF StoreInOrder
    <3>2. ASSUME NEW i \in DOMAIN store', NEW j \in DOMAIN store', i <= j
          PROVE  store'[i].record.of <= store'[j].record.of
      <4>1. CASE j = n
        BY <2>1, <2>3, <3>1, <4>1
      <4>2. CASE j \in 1..Len(store)
        <5>1. i \in 1..Len(store)
          BY <2>3, <3>2, <4>2
        <5> QED
          BY <2>3, <3>0, <3>2, <4>2, <5>1 DEF StoreInOrder
      <4> QED
        BY <2>3, <4>1, <4>2
    <3>3. ASSUME NEW i \in DOMAIN store', NEW j \in DOMAIN store',
                 store'[i].record.key = store'[j].record.key, store'[i].record.of = store'[j].record.of
          PROVE  i = j
      <4>1. CASE i \in 1..Len(store) /\ j \in 1..Len(store)
        BY <2>3, <3>0, <3>3, <4>1 DEF StoreInOrder
      <4>2. CASE i = n
        <5>1. j \notin 1..Len(store)
          BY <2>1, <2>3, <2>4, <3>3, <4>2
        <5> QED
          BY <2>3, <4>2, <5>1
      <4>3. CASE j = n
        <5>1. i \notin 1..Len(store)
          BY <2>1, <2>3, <2>4, <3>3, <4>3
        <5> QED
          BY <2>3, <4>3, <5>1
      <4> QED
        BY <2>3, <4>1, <4>2, <4>3
    <3>4. ASSUME NEW w \in written' PROVE \E i \in Bench!RecordsOf(store', w[2]) : store'[i].record.of = w[1]
      <4>1. CASE w \in written
        <5>1. PICK i \in Bench!RecordsOf(store, w[2]) : store[i].record.of = w[1]
          BY <3>0, <4>1 DEF StoreInOrder
        <5>2. i \in 1..Len(store) /\ i \in 1..n /\ store'[i] = store[i]
          BY <2>3, <2>5, <5>1 DEF Bench!RecordsOf, Bench!ReadStore
        <5> QED
          BY <2>3, <5>1, <5>2 DEF Bench!RecordsOf, Bench!ReadStore
      <4>2. CASE w \notin written
        <5>1. w = <<life, Bench!Key>> /\ store' = Append(store, Bench!Whole(record))
          BY <1>2, <3>4, <4>2
        <5>2. n \in DOMAIN store'
          BY <2>3
        <5>3. n \in Bench!RecordsOf(store', Bench!Key) /\ store'[n].record.of = life
          BY <2>1, <2>3, <5>1, <5>2 DEF Bench!RecordsOf, Bench!ReadStore
        <5> QED
          BY <5>1, <5>3
      <4> QED
        BY <4>1, <4>2
    <3>5. telemetry' = store'
      BY <2>7 DEF ReadItAll
    <3> QED
      BY <3>0, <3>1, <3>2, <3>3, <3>4, <3>5 DEF StoreInOrder
  <2>9. RecordsPriced'
    <3>1. PaidInTurn /\ RecordsPriced
      BY PaidIsInTurn DEF RunInv
    <3>2. ASSUME NEW i \in DOMAIN store', NEW k \in DOMAIN paid,
                 store'[i].record.of = paid[k].of, store'[i].record.key = paid[k].key
          PROVE  PricedAs(store'[i].record, paid[k].dollars)
      <4>1. CASE i \in 1..Len(store)
        BY <2>3, <3>1, <3>2, <4>1 DEF RecordsPriced
      <4>2. CASE i = n
        <5>1. paid[k].of = life /\ paid[k].key = Bench!Key /\ k \in 1..Len(paid)
          BY <2>1, <2>3, <3>1, <3>2, <4>2 DEF PaidInTurn
        <5>2. k = Len(paid)
          BY <3>1, <5>1 DEF PaidInTurn
        <5>3. paid[k].dollars = Used(calls)
          BY <5>2 DEF RunInv, Metering
        <5> QED
          BY <2>1, <2>3, <4>2, <5>3
      <4> QED
        BY <2>3, <4>1, <4>2
    <3> QED
      BY <3>1, <3>2 DEF RecordsPriced, PricedAs, RowNamed, Bench!UnpricedCalls
  <2>10. Bench!NamesEveryDollar(store)'
    <3>1. Bench!NamesEveryDollar(store')
      BY <1>2, NamesOneMore
    <3> QED
      BY <3>1 DEF Bench!NamesEveryDollar, Bench!AggregateRuns, Bench!Compiled, Bench!Theirs, Bench!ReadStore, Bench!UnpricedCalls
  <2> QED
    BY <2>6, <2>7, <2>8, <2>9, <2>10
<1>3. \/ UNCHANGED <<store, written>>
      \/ /\ OneMore(store', record)
         /\ \/ UNCHANGED written
            \/ written' = written \union {<<life, Bench!Key>>} /\ store' = Append(store, Bench!Whole(record))
  BY DEF Bench!AppendRun, Bench!Terminated, OneMore
<1> QED
  BY <1>1, <1>2, <1>3

------------------------------------------------------------- (* the dollars *)

(* What a row's attempts spent. *)
LEMMA DollarsAre ==
  ASSUME paid \in Seq(Payment), NEW id, NEW n \in 0..Len(paid)
  PROVE  /\ Bench!Dollars(id, n) = Bench!SumAt(Bench!OfThisRun(id, n), [k \in 1..n |-> paid[k].dollars])
         /\ [k \in 1..n |-> paid[k].dollars] \in Seq(Nat) /\ Len([k \in 1..n |-> paid[k].dollars]) = n
         /\ Bench!Dollars(id, n) \in Nat
<1>1. Len(paid) \in Nat /\ n \in Nat /\ \A k \in 1..n : paid[k] \in Payment
  OBVIOUS
<1>2. \A k \in 1..n : paid[k].dollars \in Nat
  BY <1>1 DEF Payment
<1> DEFINE s == [k \in 1..n |-> paid[k].dollars]
<1>3. s \in [1..n -> Nat]
  BY <1>2
<1>4. s \in Seq(Nat) /\ Len(s) = n
  BY <1>1, <1>3
<1>5. Bench!Dollars(id, n) = Bench!SumAt(Bench!OfThisRun(id, n), s)
  BY DEF Bench!Dollars
<1> HIDE DEF s
<1>6. \E m : IsMask(m, Bench!OfThisRun(id, n), s)
  BY <1>4, HasMask
<1>7. Bench!Dollars(id, n) \in Nat
  BY <1>5, <1>6 DEF IsMask
<1> QED
  BY <1>4, <1>5, <1>7 DEF s

LEMMA DollarsGrow ==
  ASSUME paid \in Seq(Payment), NEW id, NEW n \in 1..Len(paid)
  PROVE  Bench!Dollars(id, n) = Bench!Dollars(id, n - 1) + (IF paid[n].of = life /\ paid[n].key[1] = id THEN paid[n].dollars ELSE 0)
<1> DEFINE s == [k \in 1..(n - 1) |-> paid[k].dollars]
           t == [k \in 1..n |-> paid[k].dollars]
<1>1. n - 1 \in 0..Len(paid) /\ n \in 0..Len(paid) /\ n \in 1..n /\ 1..(n - 1) \subseteq 1..n
  OBVIOUS
<1>2. s \in Seq(Nat) /\ Len(s) = n - 1 /\ Bench!Dollars(id, n - 1) = Bench!SumAt(Bench!OfThisRun(id, n - 1), s)
  BY <1>1, DollarsAre
<1>3. t \in Seq(Nat) /\ Len(t) = n /\ Bench!Dollars(id, n) = Bench!SumAt(Bench!OfThisRun(id, n), t)
  BY <1>1, DollarsAre
<1>4. t[n] = paid[n].dollars
  BY <1>1
<1>5. SameUpTo(n - 1, Bench!OfThisRun(id, n - 1), s, Bench!OfThisRun(id, n), t)
  BY <1>1 DEF SameUpTo, Bench!OfThisRun
<1> HIDE DEF s, t
<1>6. Len(t) = Len(s) + 1
  BY <1>1, <1>2, <1>3
<1>7. Bench!SumAt(Bench!OfThisRun(id, n), t) = Bench!SumAt(Bench!OfThisRun(id, n - 1), s) + (IF n \in Bench!OfThisRun(id, n) THEN t[n] ELSE 0)
  <2>1. SameUpTo(Len(s), Bench!OfThisRun(id, n - 1), s, Bench!OfThisRun(id, n), t)
    BY <1>2, <1>5
  <2>2. Bench!SumAt(Bench!OfThisRun(id, n), t) = Bench!SumAt(Bench!OfThisRun(id, n - 1), s) + (IF Len(t) \in Bench!OfThisRun(id, n) THEN t[Len(t)] ELSE 0)
    <3>1. s \in Seq(Nat) /\ t \in Seq(Nat)
      BY <1>2, <1>3
    <3> QED
      BY <1>6, <2>1, <3>1, SumAtGrows
  <2> QED
    BY <1>3, <2>2
<1>8. n \in Bench!OfThisRun(id, n) <=> paid[n].of = life /\ paid[n].key[1] = id
  BY <1>1 DEF Bench!OfThisRun
<1> QED
  BY <1>2, <1>3, <1>4, <1>7, <1>8

LEMMA NothingSpent ==
  ASSUME paid \in Seq(Payment), NEW id, NEW n \in 0..Len(paid), \A k \in 1..n : ~(paid[k].of = life /\ paid[k].key[1] = id)
  PROVE  Bench!Dollars(id, n) = 0
<1> DEFINE s == [k \in 1..n |-> paid[k].dollars]
<1>1. s \in Seq(Nat) /\ Len(s) = n /\ Bench!Dollars(id, n) = Bench!SumAt(Bench!OfThisRun(id, n), s)
  BY DollarsAre
<1> HIDE DEF s
<1>2. \A i \in 1..Len(s) : i \notin Bench!OfThisRun(id, n)
  BY <1>1 DEF Bench!OfThisRun
<1> QED
  BY <1>1, <1>2, SumAtNone

(* What an attempt spends changes nothing of the earlier ones. *)
PaidKeeps(n) == \A k \in 1..n : paid'[k] = paid[k]

LEMMA DollarsStay ==
  ASSUME UNCHANGED life, NEW id, NEW n, PaidKeeps(n)
  PROVE  Bench!Dollars(id, n)' = Bench!Dollars(id, n)
<1>1. Bench!OfThisRun(id, n)' = Bench!OfThisRun(id, n)
  BY DEF Bench!OfThisRun, PaidKeeps
<1>2. [k \in 1..n |-> paid'[k].dollars] = [k \in 1..n |-> paid[k].dollars]
  BY DEF PaidKeeps
<1> QED
  BY <1>1, <1>2 DEF Bench!Dollars

(* A row judged is the attempt under way's. *)
LedgerGrew ==
  \/ ledger' = ledger
  \/ \E verdict \in {"complete", "incomplete", "error"}, reported \in BOOLEAN :
       ledger' = Append(ledger, Bench!LedgerRow(verdict, reported))

LEMMA KeptBefore ==
  ASSUME RunInv, Bench!Distinct, Working, UNCHANGED life, LedgerGrew, written' \subseteq written \union {<<life, Bench!Key>>},
         NEW id, Bench!Kept(id)'
  PROVE  Bench!Kept(id)
<1>1. AtWork /\ ledger \in Seq(Judgement) /\ \A i \in DOMAIN ledger : PastKey(ledger[i].key)
  BY WorkIsKnown DEF RunInv, RunTypes, OnlyThePast
<1>2. DOMAIN ledger \subseteq DOMAIN ledger' /\ \A i \in DOMAIN ledger : ledger'[i] = ledger[i]
  BY <1>1 DEF LedgerGrew
<1>3. SUFFICES ASSUME NEW i \in DOMAIN ledger, ledger[i].key[1] = id PROVE <<life, ledger[i].key>> \in written
  BY DEF Bench!Kept, Bench!AttemptsOf
<1>4. <<life, ledger[i].key>> \in written'
  BY <1>2, <1>3 DEF Bench!Kept, Bench!AttemptsOf
<1>5. ledger[i].key # Bench!Key
  BY <1>1 DEF AtWork
<1> QED
  BY <1>4, <1>5

------------------------------------------------------ (* the steps of a run *)

LEMMA BudgetKeeps ==
  ASSUME RunInv, Bench!Distinct, Working, UNCHANGED <<invoked, life>>, LedgerGrew, written' \subseteq written \union {<<life, Bench!Key>>},
         DOMAIN paid' = DOMAIN paid, \A k \in DOMAIN paid : paid'[k].of = paid[k].of /\ paid'[k].key = paid[k].key,
         PaidKeeps(Len(paid) - 1)
  PROVE  BudgetStands'
<1>1. RunIsStill
  BY RunStays
<1>2. BudgetStands /\ paid \in Seq(Payment)
  BY DEF RunInv, RunTypes, Working, Attempting
<1>3. SUFFICES ASSUME NEW i \in DOMAIN Bench!rows, NEW id \in {Bench!rows[i].id}, Bench!rows[i].budget > 0, Bench!rows[i].rated, Bench!Kept(id)',
                      NEW k \in DOMAIN paid, paid'[k].of = life, paid'[k].key[1] = id
               PROVE  Bench!Dollars(id, k - 1)' < Bench!rows[i].budget
  BY <1>1 DEF BudgetStands, RunIsStill
<1>4. Bench!Kept(id)
  BY <1>3, KeptBefore
<1>5. Bench!Dollars(id, k - 1) < Bench!rows[i].budget
  BY <1>2, <1>3, <1>4 DEF BudgetStands
<1>6. PaidKeeps(k - 1)
  <2>1. \A j \in 1..(k - 1) : j \in 1..(Len(paid) - 1)
    BY <1>2
  <2> QED
    BY <2>1 DEF PaidKeeps
<1>7. Bench!Dollars(id, k - 1)' = Bench!Dollars(id, k - 1)
  BY <1>6, DollarsStay
<1> QED
  BY <1>5, <1>7

\* The attempt goes on, or ends without a record.
LEMMA MovesKeep ==
  ASSUME RunInv, Bench!Distinct, Attempting,
         UNCHANGED <<invoked, row, task, spent, calls, store, drained, telemetry, ledger, report, golden, life, paid, written>>,
         at' \in {"running", "proving", "aborted", "crashed"}, flush' \in BOOLEAN, flush' => at' = "running",
         at' \in {"running", "proving"} => at # "adjudicating"
  PROVE  RunInv'
<1>1. RunIsStill
  BY RunStays
<1>2. RunTypes'
  BY <1>1 DEF RunInv, RunTypes, RunIsStill, RunPhases
<1>3. StoreInOrder' /\ LedgerOnce'
  BY DEF RunInv, StoreInOrder, LedgerOnce, Bench!RecordsOf, Bench!ReadStore
<1>4. RecordsPriced'
  BY PricesStand DEF RunInv
<1>5. OnlyThePast'
  BY <1>1 DEF RunInv, OnlyThePast, Working, Attempting, Before, InStep, PastKey, AttemptKey, RunIsStill
<1>6. RowsJoin'
  BY <1>1 DEF RunInv, RowsJoin, Working, Attempting, Bench!Joins, Bench!RecordsOf, Bench!ReadStore
<1>7. Metering'
  BY <1>1 DEF RunInv, Metering, Attempting, Bench!Key, Bench!Row, Bench!Task, RunIsStill, Used
<1>8. Counting'
  BY <1>1 DEF RunInv, Counting, Working, Attempting, Before, Bench!Row, RunIsStill, Bench!Kept, Bench!AttemptsOf, Bench!Dollars, Bench!OfThisRun
<1>9. Reporting' /\ Reading' /\ NotBegun'
  BY DEF RunInv, Reporting, Reading, NotBegun, Attempting
<1>10. Bench!NamesEveryDollar(store)'
  BY DEF RunInv, Bench!NamesEveryDollar, Bench!AggregateRuns, Bench!Compiled, Bench!Theirs, Bench!ReadStore, Bench!UnpricedCalls
<1>11. Bench!GoldenIsHeldOut'
  BY <1>1 DEF RunInv, Bench!GoldenIsHeldOut, Attempting, Bench!Task, RunIsStill
<1>12. BudgetStands'
  BY BudgetKeeps DEF LedgerGrew, PaidKeeps, Working
<1>13. SuiteSound'
  BY <1>1 DEF RunInv, RunIsStill, Attempting
<1> QED
  BY <1>2, <1>3, <1>4, <1>5, <1>6, <1>7, <1>8, <1>9, <1>10, <1>11, <1>12, <1>13 DEF RunInv

LEMMA RunBenchKeeps ==
  ASSUME RunInv, Bench!Distinct, Bench!RunBench
  PROVE  RunInv'
<1>1. RunIsStill /\ UNCHANGED <<invoked, row, task, spent, flush, calls, store, ledger, golden, life, paid, written>>
  BY RunStays DEF Bench!RunBench
<1>2. at = "idle" /\ at' = (IF ~Bench!Runnable THEN "refused" ELSE IF Bench!rows = << >> THEN "done" ELSE "between")
      /\ report' = IF at' = "done" THEN {Bench!FoldReport(ledger, telemetry')} ELSE report
  BY DEF Bench!RunBench
<1>3. /\ row = 1 /\ task = 1 /\ spent = 0 /\ telemetry = << >>
      /\ \A i \in DOMAIN store : store[i].record.of < life
      /\ \A k \in DOMAIN paid : paid[k].of < life
  BY <1>2 DEF RunInv, NotBegun
<1>4. report = {}
  BY <1>2 DEF RunInv, Reporting
<1>4a. (telemetry' = store' /\ drained' = Len(store')) \/ (at' # "done" /\ UNCHANGED <<telemetry, drained>>)
  <2>1. CASE at' = "done"
    <3>1. Bench!DrainStore /\ RunTypes /\ store' = store /\ store \in Seq(RunLine)
      BY <2>1 DEF Bench!RunBench, RunInv, RunTypes
    <3>2. ReadItAll
      BY <3>1, DrainReadsAll
    <3> QED
      BY <3>2 DEF ReadItAll
  <2>2. CASE at' # "done"
    BY <2>2 DEF Bench!RunBench
  <2> QED
    BY <2>1, <2>2
<1>5. RunTypes'
  BY <1>1, <1>2, <1>4a DEF RunInv, RunTypes, RunIsStill, RunPhases
<1>6. StoreInOrder' /\ LedgerOnce'
  BY <1>1, <1>4a DEF RunInv, StoreInOrder, LedgerOnce, Bench!RecordsOf, Bench!ReadStore
<1>7. RecordsPriced'
  BY <1>1, PricesStand DEF RunInv
<1>8. Bench!NamesEveryDollar(store)'
  BY <1>1 DEF RunInv, Bench!NamesEveryDollar, Bench!AggregateRuns, Bench!Compiled, Bench!Theirs, Bench!ReadStore, Bench!UnpricedCalls
<1>9. NotBegun' /\ Bench!GoldenIsHeldOut' /\ Metering'
  BY <1>2 DEF NotBegun, Bench!GoldenIsHeldOut, Metering, Attempting
<1>10. at' # "refused" => SuiteSound /\ MatrixFits /\ ledger = << >>
  BY <1>2, MatrixIs DEF Bench!Runnable, SuiteSound, RunInv, RunTypes
<1>11. paid \in Seq(Payment) /\ Len(paid) \in Nat /\ DOMAIN paid = 1..Len(paid)
  BY DEF RunInv, RunTypes
<1>12. \A id : Bench!Dollars(id, Len(paid)) = 0
  <2> TAKE id
  <2>1. Len(paid) \in 0..Len(paid)
    BY <1>11
  <2>2. ASSUME NEW k \in 1..Len(paid) PROVE paid[k].of # life
    <3>1. paid[k] \in Payment /\ paid[k].of < life /\ life \in Nat
      BY <1>3, <1>11 DEF RunInv, RunTypes
    <3> QED
      BY <3>1 DEF Payment
  <2> QED
    BY <1>11, <2>1, <2>2, NothingSpent
<1>13. ledger = << >> => InStep(Len(paid))' /\ Len(ledger) = 0
  <2>1. ASSUME NEW k \in DOMAIN paid PROVE ~(paid[k].of = life) /\ ~(k > Len(paid))
    BY <1>3, <1>11 DEF RunInv, RunTypes, Payment
  <2> QED
    BY <1>1, <1>11, <2>1 DEF InStep
<1>14. OnlyThePast' /\ RowsJoin'
  <2>1. SUFFICES ASSUME at' = "between" PROVE OnlyThePast' /\ RowsJoin'
    BY <1>2 DEF OnlyThePast, RowsJoin, Working, Attempting
  <2>2. Bench!rows # << >> /\ MatrixFits /\ ledger = << >> /\ ledger' = << >>
    BY <1>1, <1>2, <1>10, <2>1
  <2>3. 1 \in DOMAIN Bench!Ids /\ 1 \in DOMAIN Bench!Tasks
    <3>1. Bench!rows \in Seq(Bench!ToSet(invoked.roster))
      <4>1. Bench!rows \in [1..Len(Bench!rows) -> Bench!ToSet(invoked.roster)]
        <5>1. \A r \in 1..Len(Bench!rows) : Bench!rows[r] \in Bench!ToSet(invoked.roster)
          BY <2>2 DEF MatrixFits
        <5>2. Bench!rows = [r \in 1..Len(Bench!rows) |-> Bench!rows[r]]
          BY <2>2 DEF MatrixFits, Bench!rows, Bench!SelectConfigRows
        <5> QED
          BY <5>1, <5>2
      <4> QED
        BY <2>2, <4>1 DEF MatrixFits
    <3>2. Len(Bench!rows) # 0
      BY <2>2, <3>1, EmptySeq
    <3> QED
      BY <2>2, <3>2 DEF MatrixFits
  <2>4. OnlyThePast'
    <3>1. Before' = Len(paid) /\ Before' - Len(ledger') = Len(paid)
      BY <1>1, <1>11, <2>1, <2>2 DEF Before, Attempting
    <3>2. InStep(Len(paid))'
      BY <1>13, <2>2
    <3>3. \A base \in {Before' - Len(ledger')} : InStep(base)'
      BY <1>1, <3>1, <3>2 DEF InStep
    <3>4. row' \in DOMAIN Bench!Ids' /\ task' \in DOMAIN Bench!Tasks'
      BY <1>1, <1>3, <2>3 DEF RunIsStill
    <3>5. \A i \in DOMAIN store' : store'[i].record.of # life'
      BY <1>1, <1>3 DEF RunInv, RunTypes, RunLine, RunRecord
    <3>6. DOMAIN ledger' = {}
      BY <2>2
    <3> QED
      BY <3>3, <3>4, <3>5, <3>6 DEF OnlyThePast
  <2>5. RowsJoin'
    BY <2>1, <2>2 DEF RowsJoin, Bench!Joins
  <2> QED
    BY <2>4, <2>5
<1>15. Counting'
  <2>1. SUFFICES ASSUME at' = "between", NEW id, NEW n, n = Before'
                 PROVE  /\ Bench!Row'.budget > 0 => spent' < Bench!Row'.budget
                        /\ spent' = Bench!Dollars(id, n)'
    BY <1>2 DEF Counting, Working, Attempting
  <2>2. n = Len(paid)
    BY <1>1, <2>1 DEF Before, Attempting
  <2>3. Bench!Dollars(id, n)' = Bench!Dollars(id, n)
    BY <1>1, DollarsStay DEF PaidKeeps
  <2> QED
    BY <1>1, <1>3, <1>12, <2>2, <2>3
<1>16. Reporting'
  <2>1. CASE at' = "done"
    <3>1. ledger = << >> /\ Bench!rows = << >>
      BY <1>2, <1>10, <2>1
    <3>2. Bench!FoldReport(ledger, telemetry') = Bench!FoldReport(ledger, store)'
      BY <1>1, <3>1 DEF Bench!FoldReport, RunIsStill
    <3>3. Bench!Joins(ledger, store)'
      BY <1>1, <3>1 DEF Bench!Joins
    <3>4. \A base \in {Len(paid') - Len(ledger')} : InStep(base)'
      <4>1. InStep(Len(paid))' /\ Len(paid') - Len(ledger') = Len(paid)
        BY <1>1, <1>11, <1>13, <3>1
      <4> QED
        BY <1>1, <4>1 DEF InStep
    <3> QED
      BY <1>2, <2>1, <3>2, <3>3, <3>4 DEF Reporting
  <2>2. CASE at' # "done"
    BY <1>2, <1>4, <2>2 DEF Reporting
  <2> QED
    BY <2>1, <2>2
<1>17. Reading'
  BY <1>1, <1>2, <1>10 DEF Reading
<1>18. at' # "refused" => SuiteSound' /\ BudgetStands'
  <2>1. \A k \in DOMAIN paid' : paid'[k].of # life'
    BY <1>1, <1>3, <1>11 DEF RunInv, RunTypes, Payment
  <2>2. BudgetStands'
    BY <2>1 DEF BudgetStands
  <2> QED
    BY <1>1, <1>10, <2>2 DEF RunIsStill
<1> QED
  BY <1>2, <1>5, <1>6, <1>7, <1>8, <1>9, <1>14, <1>15, <1>16, <1>17, <1>18 DEF RunInv

LEMMA PreparesKeep ==
  ASSUME RunInv, Bench!Distinct, Bench!Prepares
  PROVE  RunInv'
<1> DEFINE n == Len(paid)
           new == [key |-> Bench!Key, of |-> life, dollars |-> 0]
<1>1. /\ RunIsStill /\ at = "between" /\ at' \in {"booting", "aborted"} /\ flush' = FALSE /\ calls' = << >>
      /\ golden' = golden \ {Bench!Task.id} /\ paid' = Append(paid, new)
      /\ UNCHANGED <<invoked, row, task, spent, store, drained, telemetry, ledger, report, life, written>>
  BY RunStays DEF Bench!Prepares, Bench!CloneWorkspace
<1>2. AtWork /\ OnlyThePast
  BY <1>1, WorkIsKnown DEF Working, RunInv
<1>3. paid \in Seq(Payment) /\ life \in Nat \ {0} /\ new \in Payment /\ ledger \in Seq(Judgement)
  BY <1>2 DEF RunInv, RunTypes, Payment, AtWork
<1>4. /\ n \in Nat /\ DOMAIN paid = 1..n /\ Len(paid') = n + 1 /\ DOMAIN paid' = 1..(n + 1)
      /\ paid' \in Seq(Payment) /\ \A k \in 1..n : paid'[k] = paid[k]
  BY <1>1, <1>3
<1>5. paid'[n + 1] = new
  BY <1>1, <1>3
<1>6. \A k \in 1..(n + 1) : k \in 1..n \/ k = n + 1
  BY <1>4
<1>7. \A i \in DOMAIN store : store[i].record.of = life => store[i].record.key # Bench!Key
  BY <1>1, <1>2 DEF OnlyThePast, Working, AtWork
<1>8. PaidKeeps(n)
  BY <1>4 DEF PaidKeeps
<1> HIDE DEF n, new
<1>9. new.key = Bench!Key /\ new.of = life /\ new.dollars = 0
  BY DEF new
<1>10. RunTypes'
  <2>1. calls' \in Seq(MeteredCall)
    BY <1>1
  <2> QED
    BY <1>1, <1>4, <2>1 DEF RunInv, RunTypes, RunIsStill, RunPhases
<1>11. StoreInOrder' /\ LedgerOnce'
  BY <1>1 DEF RunInv, StoreInOrder, LedgerOnce, Bench!RecordsOf, Bench!ReadStore
<1>12. RecordsPriced'
  <2>1. RecordsPriced
    BY DEF RunInv
  <2>2. \A k \in DOMAIN paid' : paid'[k].of <= life'
    BY <1>1, <1>3, <1>4, <1>5, <1>6, <1>9, <2>1 DEF RecordsPriced
  <2>3. ASSUME NEW i \in DOMAIN store, NEW k \in DOMAIN paid',
               store[i].record.of = paid'[k].of, store[i].record.key = paid'[k].key
        PROVE  PricedAs(store[i].record, paid'[k].dollars)
    <3>1. k # n + 1
      BY <1>5, <1>7, <1>9, <2>3
    <3>2. k \in DOMAIN paid /\ paid'[k] = paid[k]
      BY <1>4, <1>6, <3>1
    <3> QED
      BY <2>1, <2>3, <3>2 DEF RecordsPriced
  <2>4. ASSUME NEW r, NEW d PROVE PricedAs(r, d)' <=> PricedAs(r, d)
    BY <1>1 DEF PricedAs, RowNamed, Bench!UnpricedCalls
  <2> QED
    BY <1>1, <2>2, <2>3, <2>4 DEF RecordsPriced
<1>13. OnlyThePast'
  <2>1. SUFFICES ASSUME at' = "booting" PROVE OnlyThePast'
    BY <1>1 DEF OnlyThePast, Working, Attempting
  <2>2. /\ row \in DOMAIN Bench!Ids /\ task \in DOMAIN Bench!Tasks
        /\ \A i \in DOMAIN store : store[i].record.of = life => PastKey(store[i].record.key)
        /\ \A k \in DOMAIN ledger : PastKey(ledger[k].key)
    BY <1>1, <1>2 DEF OnlyThePast, Working
  <2>3. ASSUME NEW key PROVE PastKey(key)' <=> PastKey(key)
    BY <1>1 DEF PastKey, AttemptKey, RunIsStill
  <2>4. ASSUME NEW base \in {Before' - Len(ledger')} PROVE InStep(base)'
    <3>1. Before' = n /\ Before = n
      BY <1>1, <1>4, <2>1 DEF Before, Attempting, n
    <3>2. base = n - Len(ledger) /\ InStep(base)
      BY <1>1, <1>2, <3>1 DEF OnlyThePast, Working
    <3>3. Len(ledger) \in Nat
      BY <1>3
    <3>4. base \in Nat /\ n + 1 > base
      BY <1>4, <3>2, <3>3 DEF InStep
    <3>5. \A k \in DOMAIN paid' : paid'[k].of = life <=> k > base
      BY <1>4, <1>5, <1>6, <1>9, <3>2, <3>4 DEF InStep
    <3>6. \A k \in DOMAIN ledger : base + k \in DOMAIN paid' /\ paid'[base + k].key = ledger[k].key
      BY <1>4, <3>2 DEF InStep
    <3> QED
      BY <1>1, <3>4, <3>5, <3>6 DEF InStep
  <2> QED
    BY <1>1, <2>2, <2>3, <2>4 DEF OnlyThePast, RunIsStill
<1>14. RowsJoin'
  BY <1>1 DEF RunInv, RowsJoin, Working, Attempting, Bench!Joins, Bench!RecordsOf, Bench!ReadStore
<1>15. Metering'
  <2>1. SUFFICES ASSUME at' = "booting" PROVE Metering'
    BY <1>1 DEF Metering, Attempting
  <2>2. Bench!Key' = Bench!Key
    BY <1>1 DEF Bench!Key, Bench!Row, Bench!Task, RunIsStill
  <2>3. Used(<< >>) = 0
    <3>1. << >> \in Seq(MeteredCall)
      OBVIOUS
    <3> QED
      BY <3>1, UsesFit
  <2>4. Len(paid') > 0 /\ paid'[Len(paid')] = [key |-> Bench!Key, of |-> life, dollars |-> 0]
    BY <1>4, <1>5 DEF new
  <2>5. Used(calls)' = 0 /\ DOMAIN calls' = {}
    BY <1>1, <2>3 DEF Used
  <2> QED
    BY <1>1, <2>2, <2>4, <2>5 DEF Metering
<1>16. Counting'
  <2>1. SUFFICES ASSUME at' = "booting", NEW id, NEW m, id = Bench!Row'.id, m = Before', Bench!Kept(id)', Bench!Row'.rated
                 PROVE  spent' = Bench!Dollars(id, m)'
    BY <1>1 DEF Counting, RunInv, Bench!Row, RunIsStill, Working, Attempting
  <2>2. Bench!Row' = Bench!Row
    BY <1>1 DEF Bench!Row, RunIsStill
  <2>3. m = n /\ Before = n
    BY <1>1, <1>4, <2>1 DEF Before, Attempting, n
  <2>4. Bench!Kept(id)
    BY <1>1, <2>1 DEF Bench!Kept, Bench!AttemptsOf
  <2>5. spent = Bench!Dollars(id, m)
    BY <1>1, <2>1, <2>2, <2>3, <2>4 DEF RunInv, Counting, Working
  <2>6. Bench!Dollars(id, m)' = Bench!Dollars(id, m)
    BY <1>1, <1>8, <2>3, DollarsStay
  <2> QED
    BY <1>1, <2>5, <2>6
<1>17. Reporting' /\ Reading' /\ NotBegun'
  BY <1>1 DEF RunInv, Reporting, Reading, NotBegun
<1>18. Bench!NamesEveryDollar(store)'
  <2> DEFINE told == Bench!AggregateRuns(Bench!Compiled(store), store)
             q == [k \in DOMAIN paid' |-> paid'[k].dollars]
  <2>1. /\ Payments \in Seq(Nat) /\ Len(Payments) = n /\ \A k \in 1..n : Payments[k] = paid[k].dollars
    BY <1>3, PaymentsFit DEF n
  <2>2. q \in Seq(Nat) /\ Len(q) = n + 1 /\ \A k \in 1..(n + 1) : q[k] = paid'[k].dollars
    <3>1. \A k \in 1..(n + 1) : paid'[k].dollars \in Nat
      <4>1. \A k \in 1..(n + 1) : paid'[k] \in Payment
        BY <1>4
      <4> QED
        BY <4>1 DEF Payment
    <3>2. q \in [1..(n + 1) -> Nat]
      BY <1>4, <3>1
    <3> QED
      BY <1>4, <3>2
  <2>3. Bench!Compiled(store)' = Bench!Compiled(store)
    BY <1>1 DEF Bench!Compiled, Bench!ReadStore
  <2>4. Bench!Theirs(store)' = Bench!Theirs(store)
    <3>1. \A i \in Bench!Compiled(store) : i \in DOMAIN store /\ store[i].record.of = life
      BY DEF Bench!Compiled, Bench!ReadStore
    <3>2. \A i \in Bench!Compiled(store) : store[i].record.key # Bench!Key
      BY <1>7, <3>1
    <3>3. Bench!Theirs(store)' = {k \in DOMAIN paid' : paid'[k].of = life /\ \E i \in Bench!Compiled(store) : store[i].record.key = paid'[k].key}
      BY <1>1, <2>3 DEF Bench!Theirs
    <3> QED
      BY <1>4, <1>5, <1>6, <1>9, <3>2, <3>3 DEF Bench!Theirs
  <2> HIDE DEF q
  <2>5. Bench!SumAt(Bench!Theirs(store), q) = Bench!SumAt(Bench!Theirs(store), Payments) + 0
    <3>1. n + 1 \notin Bench!Theirs(store)
      BY <1>4 DEF Bench!Theirs
    <3>2. SameUpTo(Len(Payments), Bench!Theirs(store), Payments, Bench!Theirs(store), q)
      <4>1. \A k \in 1..n : q[k] = Payments[k]
        BY <1>4, <2>1, <2>2
      <4> QED
        BY <2>1, <4>1 DEF SameUpTo
    <3>3. Len(q) = Len(Payments) + 1
      BY <2>1, <2>2
    <3>4. Bench!SumAt(Bench!Theirs(store), q) = Bench!SumAt(Bench!Theirs(store), Payments) + (IF Len(q) \in Bench!Theirs(store) THEN q[Len(q)] ELSE 0)
      BY <2>1, <2>2, <3>2, <3>3, SumAtGrows
    <3> QED
      BY <2>2, <3>1, <3>4
  <2>6. Bench!SumAt(Bench!Theirs(store), Payments) \in Nat
    <3>1. \E m : IsMask(m, Bench!Theirs(store), Payments)
      BY <2>1, HasMask
    <3> QED
      BY <3>1 DEF IsMask
  <2>7. told.total + told.unpriced = Bench!SumAt(Bench!Theirs(store), Payments)
    BY DEF RunInv, Bench!NamesEveryDollar, Payments
  <2>8. Bench!AggregateRuns(Bench!Compiled(store), store)' = told
    BY <1>1, <2>3 DEF Bench!AggregateRuns, Bench!UnpricedCalls
  <2>9. Bench!SumAt(Bench!Theirs(store), q) = told.total + told.unpriced
    BY <2>5, <2>6, <2>7
  <2> QED
    BY <2>4, <2>8, <2>9 DEF Bench!NamesEveryDollar, q
<1>19. Bench!GoldenIsHeldOut'
  BY <1>1 DEF Bench!GoldenIsHeldOut, Bench!Task, RunIsStill
<1>20. BudgetStands'
  <2>1. SUFFICES ASSUME NEW i \in DOMAIN Bench!rows, NEW id \in {Bench!rows[i].id}, Bench!rows[i].budget > 0, Bench!rows[i].rated, Bench!Kept(id)',
                        NEW k \in DOMAIN paid', paid'[k].of = life, paid'[k].key[1] = id
                 PROVE  Bench!Dollars(id, k - 1)' < Bench!rows[i].budget
    BY <1>1 DEF BudgetStands, RunIsStill
  <2>2. Bench!Kept(id)
    BY <1>1, <2>1 DEF Bench!Kept, Bench!AttemptsOf
  <2>3. Bench!Dollars(id, k - 1)' = Bench!Dollars(id, k - 1)
    <3>1. \A j \in 1..(k - 1) : j \in 1..n
      BY <1>4
    <3>2. PaidKeeps(k - 1)
      BY <1>8, <3>1 DEF PaidKeeps
    <3> QED
      BY <1>1, <3>2, DollarsStay
  <2>4. CASE k \in 1..n
    <3>1. Bench!Dollars(id, k - 1) < Bench!rows[i].budget
      BY <1>1, <1>4, <2>1, <2>2, <2>4 DEF RunInv, BudgetStands
    <3> QED
      BY <2>3, <3>1
  <2>5. CASE k = n + 1
    <3>1. id = Bench!Row.id
      BY <1>5, <1>9, <2>1, <2>5 DEF Bench!Key
    <3>2. i = row
      BY <1>2, <2>1, <3>1 DEF AtWork, MatrixFits, Bench!Distinct
    <3>3. Bench!Row = Bench!rows[i]
      BY <3>2 DEF Bench!Row
    <3>4. Before = n /\ k - 1 = n
      BY <1>1, <1>4, <2>5 DEF Before, Attempting, n
    <3>5. spent = Bench!Dollars(id, n) /\ spent < Bench!rows[i].budget
      BY <1>1, <2>1, <2>2, <3>1, <3>3, <3>4 DEF RunInv, Counting, Working
    <3> QED
      BY <2>3, <3>4, <3>5
  <2> QED
    BY <1>4, <1>6, <2>4, <2>5
<1>21. SuiteSound'
  BY <1>1 DEF RunInv, RunIsStill
<1> QED
  BY <1>10, <1>11, <1>12, <1>13, <1>14, <1>15, <1>16, <1>17, <1>18, <1>19, <1>20, <1>21 DEF RunInv

LEMMA SpendsKeep ==
  ASSUME RunInv, Bench!Distinct, NEW used \in 0..1, Bench!Spends(used)
  PROVE  RunInv'
<1> DEFINE n == Len(paid)
           call == [billing |-> "metered", used |-> used, rated |-> Bench!Row.rated, model |-> Bench!Row.model]
<1>1. /\ RunIsStill /\ at = "running" /\ Bench!Row.adapter # "external" /\ calls' = Append(calls, call)
      /\ paid' = [paid EXCEPT ![n].dollars = @ + used]
      /\ UNCHANGED <<invoked, at, row, task, spent, flush, store, drained, telemetry, ledger, report, golden, life, written>>
  BY RunStays DEF Bench!Spends
<1>2. AtWork /\ PaidInTurn /\ Attempting
  BY <1>1, WorkIsKnown, PaidIsInTurn DEF Working, Attempting
<1>3. paid \in Seq(Payment) /\ calls \in Seq(MeteredCall) /\ life \in Nat \ {0}
  BY DEF RunInv, RunTypes
<1>4. call \in MeteredCall
  BY <1>2 DEF AtWork, MeteredCall
<1>5. n \in Nat \ {0} /\ n \in 1..n /\ DOMAIN paid = 1..n
  BY <1>2 DEF PaidInTurn
<1>5a. \A m \in Nat \ {0} : /\ \A k \in 1..(m - 1) : k \in 1..m /\ k # m
                           /\ \A k \in 1..m : k \in 1..(m - 1) \/ k = m
  OBVIOUS
<1>6. /\ paid' \in Seq(Payment) /\ Len(paid') = n /\ DOMAIN paid' = 1..n
      /\ \A k \in 1..n : paid'[k].of = paid[k].of /\ paid'[k].key = paid[k].key
      /\ \A k \in 1..(n - 1) : paid'[k] = paid[k]
      /\ paid'[n].dollars = paid[n].dollars + used
  <2>1. paid[n] \in Payment
    BY <1>3, <1>5
  <2>2. [paid[n] EXCEPT !.dollars = @ + used] \in Payment
    BY <2>1 DEF Payment
  <2>3. paid' = [paid EXCEPT ![n] = [paid[n] EXCEPT !.dollars = @ + used]]
    BY <1>1
  <2>4. paid' \in Seq(Payment) /\ Len(paid') = n
    BY <1>3, <1>5, <2>2, <2>3, ExceptSeq
  <2>5. DOMAIN paid' = 1..n
    BY <1>5, <2>3
  <2>6. paid'[n] = [paid[n] EXCEPT !.dollars = @ + used] /\ \A k \in 1..n : k # n => paid'[k] = paid[k]
    BY <1>5, <2>3
  <2>7. paid'[n].of = paid[n].of /\ paid'[n].key = paid[n].key /\ paid'[n].dollars = paid[n].dollars + used
    BY <2>1, <2>6 DEF Payment
  <2>8. \A k \in 1..(n - 1) : k \in 1..n /\ k # n
    BY <1>5, <1>5a
  <2> QED
    BY <2>4, <2>5, <2>6, <2>7, <2>8
<1>7. \A i \in DOMAIN store : store[i].record.of = life => store[i].record.key # Bench!Key
  BY <1>1, <1>2, NothingRecordedYet
<1>8. PaidKeeps(n - 1)
  BY <1>6 DEF PaidKeeps
<1>9. paid[n].of = life /\ paid[n].key = Bench!Key
  BY <1>2 DEF PaidInTurn
<1> HIDE DEF n, call
<1>11. RunTypes'
  <2>1. calls' \in Seq(MeteredCall)
    BY <1>1, <1>3, <1>4
  <2> QED
    BY <1>1, <1>6, <2>1 DEF RunInv, RunTypes, RunIsStill, RunPhases
<1>12. StoreInOrder' /\ LedgerOnce'
  BY <1>1 DEF RunInv, StoreInOrder, LedgerOnce, Bench!RecordsOf, Bench!ReadStore
<1>13. RecordsPriced'
  <2>1. RecordsPriced
    BY DEF RunInv
  <2>2. \A k \in DOMAIN paid' : paid'[k].of <= life'
    BY <1>1, <1>5, <1>6, <2>1 DEF RecordsPriced
  <2>3. ASSUME NEW i \in DOMAIN store, NEW k \in DOMAIN paid',
               store[i].record.of = paid'[k].of, store[i].record.key = paid'[k].key
        PROVE  PricedAs(store[i].record, paid'[k].dollars)
    <3>1. k # n
      BY <1>5, <1>6, <1>7, <1>9, <2>3
    <3>2. k \in DOMAIN paid /\ paid'[k] = paid[k]
      BY <1>5, <1>6, <3>1
    <3> QED
      BY <2>1, <2>3, <3>2 DEF RecordsPriced
  <2>4. ASSUME NEW r, NEW d PROVE PricedAs(r, d)' <=> PricedAs(r, d)
    BY <1>1 DEF PricedAs, RowNamed, Bench!UnpricedCalls
  <2> QED
    BY <1>1, <2>2, <2>3, <2>4 DEF RecordsPriced
<1>14. OnlyThePast'
  <2>1. ASSUME NEW key PROVE PastKey(key)' <=> PastKey(key)
    BY <1>1 DEF PastKey, AttemptKey, RunIsStill
  <2>2. Before' = Before /\ OnlyThePast /\ Working
    BY <1>1, <1>2, <1>6 DEF Before, Attempting, n, RunInv, Working
  <2>3. ASSUME NEW base \in {Before' - Len(ledger')} PROVE InStep(base)'
    <3>1. InStep(base)
      BY <1>1, <2>2 DEF OnlyThePast
    <3> QED
      BY <1>1, <1>5, <1>6, <3>1 DEF InStep
  <2> QED
    BY <1>1, <2>1, <2>2, <2>3 DEF OnlyThePast, RunIsStill
<1>15. RowsJoin'
  BY <1>1 DEF RunInv, RowsJoin, Working, Attempting, Bench!Joins, Bench!RecordsOf, Bench!ReadStore
<1>16. Metering'
  <2>1. Bench!Key' = Bench!Key /\ Bench!Row' = Bench!Row
    BY <1>1 DEF Bench!Key, Bench!Row, Bench!Task, RunIsStill
  <2>2. Used(calls)' = Used(calls) + used
    <3>1. Used(Append(calls, call)) = Used(calls) + call.used
      BY <1>3, <1>4, UseGrows
    <3>2. call.used = used
      BY DEF call
    <3>3. Used(calls)' = Used(Append(calls, call))
      BY <1>1 DEF Used
    <3> QED
      BY <3>1, <3>2, <3>3
  <2>3. paid[n].dollars = Used(calls) /\ \A i \in DOMAIN calls : calls[i].rated = Bench!Row.rated
    BY <1>2 DEF RunInv, Metering, n
  <2>4. paid'[n] \in Payment
    BY <1>5, <1>6
  <2>5. paid'[n] = [key |-> Bench!Key, of |-> life, dollars |-> Used(calls) + used]
    BY <1>5, <1>6, <1>9, <2>3, <2>4 DEF Payment
  <2>6. \A i \in DOMAIN calls' : calls'[i].rated = Bench!Row.rated
    BY <1>1, <1>3, <2>3 DEF call
  <2>7. Len(paid') > 0
    BY <1>5, <1>6
  <2> QED
    BY <1>1, <1>6, <2>1, <2>2, <2>5, <2>6, <2>7 DEF Metering
<1>17. Counting'
  <2>1. SUFFICES ASSUME NEW id, NEW m, id = Bench!Row'.id, m = Before', Bench!Kept(id)', Bench!Row'.rated
                 PROVE  spent' = Bench!Dollars(id, m)'
    BY <1>1, <1>2 DEF Counting, RunInv, Bench!Row, RunIsStill, Working, Attempting
  <2>2. Bench!Row' = Bench!Row
    BY <1>1 DEF Bench!Row, RunIsStill
  <2>3. m = n - 1 /\ Before = m
    BY <1>1, <1>2, <1>6, <2>1 DEF Before, Attempting, n
  <2>4. Bench!Kept(id)
    BY <1>1, <2>1 DEF Bench!Kept, Bench!AttemptsOf
  <2>5. spent = Bench!Dollars(id, m)
    BY <1>1, <1>2, <2>1, <2>2, <2>3, <2>4 DEF RunInv, Counting, Working
  <2>6. Bench!Dollars(id, m)' = Bench!Dollars(id, m)
    BY <1>1, <1>8, <2>3, DollarsStay
  <2> QED
    BY <1>1, <2>5, <2>6
<1>18. Reporting' /\ Reading' /\ NotBegun'
  BY <1>1 DEF RunInv, Reporting, Reading, NotBegun
<1>19. Bench!NamesEveryDollar(store)'
  <2> DEFINE told == Bench!AggregateRuns(Bench!Compiled(store), store)
             q == [k \in DOMAIN paid' |-> paid'[k].dollars]
  <2>1. Payments \in Seq(Nat) /\ Len(Payments) = n /\ \A k \in 1..n : Payments[k] = paid[k].dollars
    BY <1>3, PaymentsFit DEF n
  <2>2. q \in Seq(Nat) /\ Len(q) = n /\ \A k \in 1..n : q[k] = paid'[k].dollars
    <3>1. \A k \in 1..n : paid'[k].dollars \in Nat
      <4>1. \A k \in 1..n : paid'[k] \in Payment
        BY <1>6
      <4> QED
        BY <4>1 DEF Payment
    <3>2. q \in [1..n -> Nat]
      BY <1>6, <3>1
    <3> QED
      BY <1>5, <1>6, <3>2
  <2>3. Bench!Compiled(store)' = Bench!Compiled(store)
    BY <1>1 DEF Bench!Compiled, Bench!ReadStore
  <2>4. Bench!Theirs(store)' = Bench!Theirs(store)
    <3>1. Bench!Theirs(store)' = {k \in DOMAIN paid' : paid'[k].of = life /\ \E i \in Bench!Compiled(store) : store[i].record.key = paid'[k].key}
      BY <1>1, <2>3 DEF Bench!Theirs
    <3> QED
      BY <1>5, <1>6, <3>1 DEF Bench!Theirs
  <2>5. n \notin Bench!Theirs(store)
    <3>1. \A i \in Bench!Compiled(store) : i \in DOMAIN store /\ store[i].record.of = life
      BY DEF Bench!Compiled, Bench!ReadStore
    <3> QED
      BY <1>7, <1>9, <3>1 DEF Bench!Theirs
  <2> HIDE DEF q
  <2>6. Bench!SumAt(Bench!Theirs(store), q) = Bench!SumAt(Bench!Theirs(store), Payments)
    <3>1. ASSUME NEW k \in 1..n, k \in Bench!Theirs(store) PROVE q[k] = Payments[k]
      <4>1. k \in 1..(n - 1)
        BY <1>5, <1>5a, <2>5, <3>1
      <4> QED
        BY <1>6, <2>1, <2>2, <4>1
    <3>2. SameUpTo(Len(Payments), Bench!Theirs(store), Payments, Bench!Theirs(store), q)
      BY <2>1, <3>1 DEF SameUpTo
    <3>3. Len(q) = Len(Payments)
      BY <2>1, <2>2
    <3> QED
      BY <2>1, <2>2, <3>2, <3>3, SumAtSame
  <2>7. told.total + told.unpriced = Bench!SumAt(Bench!Theirs(store), Payments)
    BY DEF RunInv, Bench!NamesEveryDollar, Payments
  <2>8. Bench!AggregateRuns(Bench!Compiled(store), store)' = told
    BY <1>1, <2>3 DEF Bench!AggregateRuns, Bench!UnpricedCalls
  <2>9. Bench!SumAt(Bench!Theirs(store), q) = told.total + told.unpriced
    BY <2>6, <2>7
  <2> QED
    BY <2>4, <2>8, <2>9 DEF Bench!NamesEveryDollar, q
<1>20. Bench!GoldenIsHeldOut'
  BY <1>1 DEF RunInv, Bench!GoldenIsHeldOut, Bench!Task, RunIsStill
<1>21. BudgetStands'
  <2>1. DOMAIN paid' = DOMAIN paid /\ \A k \in DOMAIN paid : paid'[k].of = paid[k].of /\ paid'[k].key = paid[k].key
    BY <1>5, <1>6
  <2>2. PaidKeeps(Len(paid) - 1)
    BY <1>8 DEF n
  <2> QED
    BY <1>1, <1>2, <2>1, <2>2, BudgetKeeps DEF LedgerGrew, Working
<1>22. SuiteSound'
  BY <1>1 DEF RunInv, RunIsStill
<1> QED
  BY <1>11, <1>12, <1>13, <1>14, <1>15, <1>16, <1>17, <1>18, <1>19, <1>20, <1>21, <1>22 DEF RunInv

\* Nothing of another life counts.
LEMMA NoDollarsYet ==
  ASSUME store \in Seq(RunLine), paid \in Seq(Payment), NEW S, NEW T, \A i \in DOMAIN store : i \notin S, \A k \in DOMAIN paid : k \notin T
  PROVE  Bench!AggregateRuns(S, store).total + Bench!AggregateRuns(S, store).unpriced = Bench!SumAt(T, [k \in DOMAIN paid |-> paid[k].dollars])
<1>1. Costs(store) \in Seq(Nat) /\ Len(Costs(store)) = Len(store) /\ Gaps(store) \in Seq(Nat) /\ Len(Gaps(store)) = Len(store)
  BY LinesFit
<1>2. Payments \in Seq(Nat) /\ Len(Payments) = Len(paid)
  BY PaymentsFit
<1>3. DOMAIN store = 1..Len(store) /\ DOMAIN paid = 1..Len(paid)
  OBVIOUS
<1>4. /\ \A i \in 1..Len(Costs(store)) : i \notin S
      /\ \A i \in 1..Len(Gaps(store)) : i \notin S
      /\ \A k \in 1..Len(Payments) : k \notin T
  BY <1>1, <1>2, <1>3
<1>5. Bench!SumAt(S, Costs(store)) = 0 /\ Bench!SumAt(S, Gaps(store)) = 0 /\ Bench!SumAt(T, Payments) = 0
  BY <1>1, <1>2, <1>4, SumAtNone
<1>6. Bench!AggregateRuns(S, store).total = Bench!SumAt(S, Costs(store)) /\ Bench!AggregateRuns(S, store).unpriced = Bench!SumAt(S, Gaps(store))
  BY SameCount DEF Bench!AggregateRuns, Costs, Gaps
<1>7. Bench!SumAt(T, [k \in DOMAIN paid |-> paid[k].dollars]) = 0
  BY <1>5 DEF Payments
<1> QED
  BY <1>5, <1>6, <1>7

LEMMA RerunsKeep ==
  ASSUME RunInv, Bench!Distinct, Bench!Reruns
  PROVE  RunInv'
<1>1. /\ RunIsStill /\ Bench!Ended /\ at # "refused" /\ life' = life + 1 /\ at' = "idle" /\ row' = 1 /\ task' = 1 /\ spent' = 0
      /\ flush' = FALSE /\ calls' = << >> /\ drained' = 0 /\ telemetry' = << >> /\ report' = {}
      /\ UNCHANGED <<invoked, store, ledger, golden, paid, written>>
  BY RunStays DEF Bench!Reruns
<1>2. store \in Seq(RunLine) /\ paid \in Seq(Payment) /\ life \in Nat \ {0}
  BY DEF RunInv, RunTypes
<1>3. /\ \A i \in DOMAIN store : store[i].record.of \in Nat /\ store[i].record.of <= life
      /\ \A k \in DOMAIN paid : paid[k].of \in Nat /\ paid[k].of <= life
  <2>1. /\ \A i \in DOMAIN store : store[i] \in RunLine
        /\ \A k \in DOMAIN paid : paid[k] \in Payment
    BY <1>2
  <2> QED
    BY <2>1 DEF RunInv, StoreInOrder, RecordsPriced, RunLine, RunRecord, Payment
<1>4. /\ \A i \in DOMAIN store : store[i].record.of < life + 1 /\ store[i].record.of # life + 1
      /\ \A k \in DOMAIN paid : paid[k].of < life + 1 /\ paid[k].of # life + 1
  BY <1>2, <1>3
<1>5. RunTypes'
  <2>1. calls' \in Seq(MeteredCall) /\ Len(<< >>) = 0
    BY <1>1
  <2> QED
    <3>1. life + 1 \in Nat \ {0}
      BY <1>2
    <3>2. at' \in RunPhases /\ flush' \in BOOLEAN
      BY <1>1 DEF RunPhases
    <3>4. row' \in Nat \ {0} /\ task' \in Nat \ {0} /\ spent' \in Nat
      BY <1>1
    <3>3. drained' = Len(telemetry')
      BY <1>1, <2>1
    <3> QED
      BY <1>1, <2>1, <3>1, <3>2, <3>3, <3>4 DEF RunInv, RunTypes, RunIsStill
<1>6. StoreInOrder'
  BY <1>1, <1>4, <1>2, <1>3 DEF RunInv, StoreInOrder, Bench!RecordsOf, Bench!ReadStore
<1>7. RecordsPriced'
  <2>1. \A i \in DOMAIN store, k \in DOMAIN paid :
          store[i].record.of = paid[k].of /\ store[i].record.key = paid[k].key => PricedAs(store[i].record, paid[k].dollars)
    BY DEF RunInv, RecordsPriced
  <2>2. ASSUME NEW r, NEW d PROVE PricedAs(r, d)' <=> PricedAs(r, d)
    BY <1>1 DEF PricedAs, RowNamed, Bench!UnpricedCalls
  <2>3. \A k \in DOMAIN paid : paid[k].of <= life + 1
    BY <1>2, <1>3
  <2> QED
    BY <1>1, <2>1, <2>2, <2>3 DEF RecordsPriced
<1>8. LedgerOnce'
  BY <1>1 DEF RunInv, LedgerOnce
<1>9. OnlyThePast' /\ RowsJoin' /\ Metering' /\ Counting' /\ Reporting' /\ Reading' /\ Bench!GoldenIsHeldOut'
  BY <1>1 DEF OnlyThePast, RowsJoin, Metering, Counting, Reporting, Reading, Bench!GoldenIsHeldOut, Working, Attempting
<1>10. NotBegun'
  BY <1>1, <1>4 DEF NotBegun
<1>11. Bench!NamesEveryDollar(store)'
  <2>1. \A i \in DOMAIN store : i \notin Bench!Compiled(store)'
    BY <1>1, <1>4 DEF Bench!Compiled
  <2>2. \A k \in DOMAIN paid : k \notin Bench!Theirs(store)'
    BY <1>1, <1>4 DEF Bench!Theirs
  <2>3. /\ Bench!NamesEveryDollar(store)' <=> Bench!AggregateRuns(Bench!Compiled(store)', store).total + Bench!AggregateRuns(Bench!Compiled(store)', store).unpriced =
                                          Bench!SumAt(Bench!Theirs(store)', [k \in DOMAIN paid |-> paid[k].dollars])
    BY <1>1 DEF Bench!NamesEveryDollar, Bench!AggregateRuns, Bench!UnpricedCalls
  <2> QED
    BY <1>2, <2>1, <2>2, <2>3, NoDollarsYet
<1> QED
  BY <1>1, <1>5, <1>6, <1>7, <1>8, <1>9, <1>10, <1>11 DEF RunInv

LEMMA ExitedKeeps ==
  ASSUME RunInv, UNCHANGED Bench!benchVars
  PROVE  RunInv'
<1>1. /\ RunIsStill
      /\ UNCHANGED <<invoked, at, row, task, spent, flush, calls, store, drained, telemetry, ledger, report, golden, life, paid, written>>
  BY RunStays DEF Bench!benchVars
<1>2. RunTypes'
  BY <1>1 DEF RunInv, RunTypes, RunIsStill
<1>3. StoreInOrder' /\ LedgerOnce'
  BY <1>1 DEF RunInv, StoreInOrder, LedgerOnce, Bench!RecordsOf, Bench!ReadStore
<1>4. RecordsPriced'
  BY <1>1, PricesStand DEF RunInv
<1>5. OnlyThePast'
  BY <1>1 DEF RunInv, OnlyThePast, Working, Attempting, Before, InStep, PastKey, AttemptKey, RunIsStill, Bench!Key, Bench!Row, Bench!Task
<1>6. RowsJoin'
  BY <1>1 DEF RunInv, RowsJoin, Working, Attempting, Bench!Joins, Bench!RecordsOf, Bench!ReadStore, Bench!Key, Bench!Row, Bench!Task, RunIsStill
<1>7. Metering'
  BY <1>1 DEF RunInv, Metering, Attempting, Bench!Key, Bench!Row, Bench!Task, RunIsStill, Used
<1>8. Counting'
  BY <1>1 DEF RunInv, Counting, Working, Attempting, Before, Bench!Row, RunIsStill, Bench!Kept, Bench!AttemptsOf, Bench!Dollars, Bench!OfThisRun
<1>9. Reporting'
  BY <1>1 DEF RunInv, Reporting, Bench!FoldReport, RunIsStill, Bench!Joins, Bench!RecordsOf, Bench!ReadStore, InStep
<1>10. Reading' /\ NotBegun'
  BY <1>1 DEF RunInv, Reading, NotBegun
<1>11. Bench!NamesEveryDollar(store)'
  BY <1>1 DEF RunInv, Bench!NamesEveryDollar, Bench!AggregateRuns, Bench!Compiled, Bench!Theirs, Bench!ReadStore, Bench!UnpricedCalls
<1>12. Bench!GoldenIsHeldOut'
  BY <1>1 DEF RunInv, Bench!GoldenIsHeldOut, Bench!Task, RunIsStill
<1>13. at \notin {"idle", "refused"} => SuiteSound' /\ BudgetStands'
  BY <1>1 DEF RunInv, RunIsStill, BudgetStands, Bench!Kept, Bench!AttemptsOf, Bench!Dollars, Bench!OfThisRun
<1> QED
  BY <1>1, <1>2, <1>3, <1>4, <1>5, <1>6, <1>7, <1>8, <1>9, <1>10, <1>11, <1>12, <1>13 DEF RunInv

\* What an attempt is joined to is its last record.
LEMMA JoinedIsThere ==
  ASSUME NEW lines, NEW n \in Nat, DOMAIN lines = 1..n, NEW key, Bench!RecordsOf(lines, key) # {}
  PROVE  \E m \in Bench!RecordsOf(lines, key) : /\ Bench!JoinTelemetry(key, lines) = lines[m].record
                                          /\ \A x \in Bench!RecordsOf(lines, key) : x <= m
<1> DEFINE S == Bench!RecordsOf(lines, key)
<1>1. S \in SUBSET (0..n) /\ S \in SUBSET Nat /\ S # {}
  BY DEF Bench!RecordsOf, Bench!ReadStore
<1> HIDE DEF S
<1>2. PICK m \in S : \A x \in S : x <= m
  BY <1>1, HasGreatest
<1>3. \A y \in S : m >= y
  BY <1>1, <1>2
<1>4. Bench!Max(S) = m
  BY <1>1, <1>3, MaxIs
<1> QED
  BY <1>2, <1>4 DEF S, Bench!JoinTelemetry

\* A record the disk took is the one its attempt is joined to, whatever an
\* earlier run of the id left.
LEMMA LastIsThisLife ==
  ASSUME store \in Seq(RunLine), life \in Nat, StoreInOrder, NEW key, <<life, key>> \in written
  PROVE  \E m \in DOMAIN store : Bench!JoinTelemetry(key, store) = store[m].record /\ store[m].record.of = life /\ store[m].record.key = key
<1>1. PICK i \in Bench!RecordsOf(store, key) : store[i].record.of = life
  BY DEF StoreInOrder
<1>2. Len(store) \in Nat /\ DOMAIN store = 1..Len(store) /\ \A j \in DOMAIN store : store[j] \in RunLine
  OBVIOUS
<1>3. PICK m \in Bench!RecordsOf(store, key) : /\ Bench!JoinTelemetry(key, store) = store[m].record
                                         /\ \A x \in Bench!RecordsOf(store, key) : x <= m
  BY <1>1, <1>2, JoinedIsThere
<1>4. i \in DOMAIN store /\ m \in DOMAIN store /\ i <= m /\ store[m].record.key = key
  BY <1>1, <1>3 DEF Bench!RecordsOf, Bench!ReadStore
<1>5. store[i].record.of <= store[m].record.of /\ store[m].record.of <= life
  BY <1>4 DEF StoreInOrder
<1>6. store[m].record.of \in Nat
  BY <1>2, <1>4 DEF RunLine, RunRecord
<1> QED
  BY <1>1, <1>3, <1>4, <1>5, <1>6

LEMMA JoinedFits ==
  ASSUME NEW lines \in Seq(RunLine), NEW key, Bench!RecordsOf(lines, key) # {}
  PROVE  Bench!JoinTelemetry(key, lines) \in RunRecord
<1>1. Len(lines) \in Nat /\ DOMAIN lines = 1..Len(lines) /\ \A j \in DOMAIN lines : lines[j] \in RunLine
  OBVIOUS
<1>2. PICK m \in Bench!RecordsOf(lines, key) : Bench!JoinTelemetry(key, lines) = lines[m].record
  BY <1>1, JoinedIsThere
<1>3. m \in DOMAIN lines
  BY DEF Bench!RecordsOf, Bench!ReadStore
<1> QED
  BY <1>1, <1>2, <1>3 DEF RunLine

(* The ledger after the attempt under way was judged. *)
Judged == \E verdict \in {"complete", "incomplete", "error"}, reported \in BOOLEAN :
            ledger' = Append(ledger, Bench!LedgerRow(verdict, reported))

LEMMA LedgerGrows ==
  ASSUME RunInv, Bench!Distinct, Attempting, Judged, UNCHANGED <<invoked, life, paid>>
  PROVE  /\ ledger' \in Seq(Judgement) /\ LedgerOnce' /\ LedgerGrew /\ Len(ledger) \in Nat /\ Len(ledger') = Len(ledger) + 1
         /\ DOMAIN ledger' = 1..(Len(ledger) + 1) /\ DOMAIN ledger = 1..Len(ledger)
         /\ \A i \in DOMAIN ledger : ledger'[i] = ledger[i]
         /\ ledger'[Len(ledger) + 1].key = Bench!Key
         /\ \A base \in {Len(paid') - Len(ledger')} : InStep(base)'
<1> DEFINE m == Len(ledger)
<1>1. AtWork /\ PaidInTurn
  BY WorkIsKnown, PaidIsInTurn DEF Working
<1>2. /\ ledger \in Seq(Judgement) /\ m \in Nat /\ DOMAIN ledger = 1..m
      /\ \A i \in DOMAIN ledger : PastKey(ledger[i].key) /\ ledger[i].key # Bench!Key
      /\ \A base \in {Before - m} : InStep(base)
  BY <1>1 DEF RunInv, RunTypes, OnlyThePast, Working, AtWork
<1>3. PICK verdict \in {"complete", "incomplete", "error"}, reported \in BOOLEAN :
        ledger' = Append(ledger, Bench!LedgerRow(verdict, reported))
  BY DEF Judged
<1>4. Bench!LedgerRow(verdict, reported) \in Judgement /\ Bench!LedgerRow(verdict, reported).key = Bench!Key
  BY <1>1 DEF Bench!LedgerRow, Judgement, AtWork
<1>5. /\ ledger' \in Seq(Judgement) /\ Len(ledger') = m + 1 /\ DOMAIN ledger' = 1..(m + 1)
      /\ \A i \in DOMAIN ledger : ledger'[i] = ledger[i]
      /\ ledger'[m + 1].key = Bench!Key
  BY <1>2, <1>3, <1>4
<1>6. \A i \in 1..(m + 1) : i \in 1..m \/ i = m + 1
  BY <1>2
<1> HIDE DEF m
<1>7. LedgerOnce'
  <2>1. LedgerOnce
    BY DEF RunInv
  <2> QED
    BY <1>2, <1>5, <1>6, <2>1 DEF LedgerOnce
<1>8. ASSUME NEW base \in {Len(paid') - Len(ledger')} PROVE InStep(base)'
  <2>1. Len(paid) \in Nat \ {0} /\ DOMAIN paid = 1..Len(paid) /\ paid[Len(paid)].key = Bench!Key
    BY <1>1 DEF PaidInTurn
  <2>2. base = Before - m /\ Before = Len(paid) - 1
    <3>1. Before = Len(paid) - 1
      BY DEF Before
    <3> QED
      BY <1>2, <1>5, <1>8, <2>1, <3>1
  <2>3. InStep(base)
    BY <1>2, <2>2
  <2>4. base + (m + 1) = Len(paid)
    BY <1>2, <2>1, <2>2
  <2>5. ASSUME NEW k \in DOMAIN ledger' PROVE base + k \in DOMAIN paid /\ paid[base + k].key = ledger'[k].key
    <3>1. CASE k \in 1..m
      BY <1>2, <1>5, <2>3, <3>1 DEF InStep
    <3>2. CASE k = m + 1
      <4>1. Len(paid) \in 1..Len(paid)
        BY <2>1
      <4> QED
        BY <1>5, <2>1, <2>4, <3>2, <4>1
    <3> QED
      BY <1>5, <1>6, <3>1, <3>2
  <2> QED
    BY <2>3, <2>5 DEF InStep
<1>9. LedgerGrew
  BY <1>3 DEF LedgerGrew
<1> QED
  BY <1>2, <1>5, <1>7, <1>8, <1>9 DEF m

\* The attempt's turn returned and its record was written, or should have been.
LEMMA RecordsKeep ==
  ASSUME RunInv, Bench!Distinct, at \in {"running", "proving"}, NEW record, RecordFits(record), Bench!Records(record)
  PROVE  RunInv'
<1>1. /\ RunIsStill /\ flush' = FALSE /\ Bench!AppendRun(record) /\ Bench!DrainStore /\ Bench!Joined
      /\ UNCHANGED <<invoked, row, task, spent, calls, ledger, report, golden, life, paid>>
  BY RunStays DEF Bench!Records
<1>2. Attempting /\ Working /\ AtWork /\ OnlyThePast
  <2>1. Attempting /\ Working
    BY DEF Attempting, Working
  <2> QED
    BY <2>1, WorkIsKnown DEF RunInv
<1>3. StoreGrew /\ ReadItAll /\ StoreInOrder' /\ RecordsPriced' /\ Bench!NamesEveryDollar(store)'
  BY <1>1, <1>2, StoreAppended
<1>4. telemetry' = store' /\ drained' = Len(store')
  BY <1>3 DEF ReadItAll
<1>5. at' = IF Bench!RecordsOf(store', Bench!Key) = {} THEN "aborted" ELSE "adjudicating"
  BY <1>1, <1>4 DEF Bench!Joined
<1>6. RunTypes'
  BY <1>1, <1>3, <1>4, <1>5 DEF RunInv, RunTypes, RunIsStill, RunPhases, StoreGrew
<1>7. LedgerOnce'
  BY <1>1 DEF RunInv, LedgerOnce
<1>8. Bench!Key' = Bench!Key /\ Bench!Row' = Bench!Row
  BY <1>1 DEF Bench!Key, Bench!Row, Bench!Task, RunIsStill
<1>9. OnlyThePast'
  <2>1. SUFFICES ASSUME at' = "adjudicating" PROVE OnlyThePast'
    BY <1>5 DEF OnlyThePast, Working, Attempting
  <2>2. ASSUME NEW key PROVE PastKey(key)' <=> PastKey(key)
    BY <1>1 DEF PastKey, AttemptKey, RunIsStill
  <2>3. Before' = Before
    BY <1>1, <1>2, <2>1 DEF Before, Attempting
  <2>4. ASSUME NEW base \in {Before' - Len(ledger')} PROVE InStep(base)'
    <3>1. InStep(base)
      BY <1>1, <1>2, <2>3 DEF OnlyThePast
    <3> QED
      BY <1>1, <3>1 DEF InStep
  <2>5. \A i \in DOMAIN store' : store'[i].record.of = life => PastKey(store'[i].record.key) \/ store'[i].record.key = Bench!Key
    BY <1>3 DEF StoreGrew
  <2> QED
    BY <1>1, <1>2, <1>8, <2>1, <2>2, <2>4, <2>5 DEF OnlyThePast, RunIsStill
<1>10. RowsJoin'
  <2>1. SUFFICES ASSUME at' = "adjudicating" PROVE RowsJoin'
    BY <1>5 DEF RowsJoin, Working, Attempting
  <2>2. Bench!RecordsOf(store', Bench!Key) # {}
    BY <1>5, <2>1
  <2>3. \A key : Bench!RecordsOf(store, key) # {} => Bench!RecordsOf(store', key) # {}
    BY <1>3 DEF StoreGrew, Bench!RecordsOf, Bench!ReadStore
  <2>4. Bench!Joins(ledger, store')
    BY <1>2, <2>3 DEF RunInv, RowsJoin, Bench!Joins
  <2> QED
    BY <1>1, <1>8, <2>2, <2>4 DEF RowsJoin, Bench!Joins, Bench!RecordsOf, Bench!ReadStore
<1>11. Metering'
  BY <1>1, <1>2, <1>8 DEF RunInv, Metering, Used
<1>12. Counting'
  <2>1. SUFFICES ASSUME at' = "adjudicating", NEW id \in {Bench!Row.id}, NEW n \in {Before'}, Bench!Row.rated, Bench!Kept(id)'
                 PROVE  spent = Bench!Dollars(id, n)'
    BY <1>1, <1>2, <1>5, <1>8 DEF Counting, RunInv, Working, Attempting
  <2>2. Before' = Before
    BY <1>1, <1>2, <2>1 DEF Before, Attempting
  <2>3. Bench!Kept(id)
    BY <1>1, <1>2, <1>3, <2>1, KeptBefore DEF LedgerGrew, StoreGrew
  <2>4. spent = Bench!Dollars(id, n)
    BY <1>2, <2>1, <2>2, <2>3 DEF RunInv, Counting
  <2>5. Bench!Dollars(id, n)' = Bench!Dollars(id, n)
    BY <1>1, DollarsStay DEF PaidKeeps
  <2> QED
    BY <2>4, <2>5
<1>13. Reporting'
  BY <1>1, <1>5 DEF RunInv, Reporting
<1>14. Reading' /\ NotBegun' /\ Bench!GoldenIsHeldOut'
  BY <1>4, <1>5 DEF Reading, NotBegun, Bench!GoldenIsHeldOut
<1>15. BudgetStands'
  BY <1>1, <1>2, <1>3, BudgetKeeps DEF LedgerGrew, PaidKeeps, StoreGrew
<1>16. SuiteSound'
  BY <1>1 DEF RunInv, RunIsStill
<1> QED
  BY <1>3, <1>6, <1>7, <1>9, <1>10, <1>11, <1>12, <1>13, <1>14, <1>15, <1>16 DEF RunInv

\* The operator interrupts.
LEMMA OnSignalKeeps ==
  ASSUME RunInv, Bench!Distinct, Bench!OnSignal
  PROVE  RunInv'
<1>1. /\ RunIsStill /\ Bench!Yields /\ Bench!DrainStore
      /\ IF flush THEN Bench!AppendRun(Bench!AppendedRecord(Bench!SpentNumbers(calls), FALSE)) ELSE UNCHANGED <<store, faults, written>>
      /\ ledger' = Append(ledger, Bench!LedgerRow("error", Bench!RecordsOf(telemetry', Bench!Key) # {} /\ Bench!JoinTelemetry(Bench!Key, telemetry').success))
      /\ IF Bench!Joins(ledger', telemetry')
         THEN at' = "interrupted" /\ report' = {Bench!FoldReport(ledger', telemetry')}
         ELSE at' = "crashed" /\ UNCHANGED report
      /\ UNCHANGED <<invoked, row, task, spent, flush, calls, golden, life, paid>>
  BY RunStays DEF Bench!OnSignal
<1>2. Attempting /\ Working
  BY <1>1 DEF Bench!Yields, Attempting, Working
<1>3. StoreGrew /\ ReadItAll /\ StoreInOrder' /\ RecordsPriced' /\ Bench!NamesEveryDollar(store)'
  <2>1. CASE flush
    <3>1. at # "adjudicating"
      BY <1>2, <2>1 DEF RunInv, Metering
    <3>2. RecordFits(Bench!AppendedRecord(Bench!SpentNumbers(calls), FALSE))
      BY <1>2, RecordCanBeMade, SessionPriced
    <3> QED
      BY <1>1, <1>2, <2>1, <3>1, <3>2, StoreAppended
  <2>2. CASE ~flush
    BY <1>1, <1>2, <2>2, StoreUntouched
  <2> QED
    BY <2>1, <2>2
<1>4. telemetry' = store' /\ drained' = Len(store') /\ store' \in Seq(RunLine)
  BY <1>3 DEF ReadItAll, StoreGrew
<1>5. Judged
  <2> DEFINE reported == Bench!RecordsOf(telemetry', Bench!Key) # {} /\ Bench!JoinTelemetry(Bench!Key, telemetry').success
  <2>1. reported \in BOOLEAN
    <3>1. CASE Bench!RecordsOf(store', Bench!Key) = {}
      BY <1>4, <3>1
    <3>2. CASE Bench!RecordsOf(store', Bench!Key) # {}
      <4>1. Bench!JoinTelemetry(Bench!Key, store') \in RunRecord
        BY <1>4, <3>2, JoinedFits
      <4>2. Bench!JoinTelemetry(Bench!Key, store').success \in BOOLEAN
        BY <4>1 DEF RunRecord
      <4> QED
        BY <1>4, <3>2, <4>2
    <3> QED
      BY <3>1, <3>2
  <2>2. ledger' = Append(ledger, Bench!LedgerRow("error", reported))
    BY <1>1
  <2> QED
    BY <2>1, <2>2 DEF Judged
<1>6. /\ ledger' \in Seq(Judgement) /\ LedgerOnce' /\ LedgerGrew
      /\ \A base \in {Len(paid') - Len(ledger')} : InStep(base)'
  BY <1>1, <1>2, <1>5, LedgerGrows
<1>7. at' \in {"interrupted", "crashed"}
  BY <1>1
<1>8. RunTypes'
  BY <1>1, <1>3, <1>4, <1>6, <1>7 DEF RunInv, RunTypes, RunIsStill, RunPhases, StoreGrew
<1>9. OnlyThePast' /\ RowsJoin' /\ Metering' /\ Counting' /\ NotBegun' /\ Bench!GoldenIsHeldOut'
  BY <1>7 DEF OnlyThePast, RowsJoin, Metering, Counting, NotBegun, Bench!GoldenIsHeldOut, Working, Attempting
<1>10. Reading'
  BY <1>4 DEF Reading
<1>11. Reporting'
  <2>1. report = {}
    BY <1>2 DEF RunInv, Reporting, Attempting
  <2>2. Bench!FoldReport(ledger, store)' = Bench!FoldReport(ledger', telemetry')
    BY <1>1, <1>4 DEF Bench!FoldReport, RunIsStill
  <2>3. Bench!Joins(ledger, store)' <=> Bench!Joins(ledger', telemetry')
    BY <1>4 DEF Bench!Joins
  <2> QED
    BY <1>1, <1>6, <2>1, <2>2, <2>3 DEF Reporting
<1>12. BudgetStands'
  BY <1>1, <1>2, <1>3, <1>6, BudgetKeeps DEF PaidKeeps, StoreGrew
<1>13. SuiteSound'
  BY <1>1, <1>2 DEF RunInv, RunIsStill, Attempting
<1> QED
  BY <1>3, <1>6, <1>8, <1>9, <1>10, <1>11, <1>12, <1>13 DEF RunInv

\* An attempt is judged, and the run goes on to the next one or reports.
LEMMA AdjudicateKeeps ==
  ASSUME RunInv, Bench!Distinct, Bench!AdjudicateAttempt
  PROVE  RunInv'
<1> DEFINE record == Bench!JoinTelemetry(Bench!Key, telemetry)
           dollars == spent + record.cost
           over == Bench!RowsEnd(dollars) /\ row = Len(Bench!rows)
           n == Len(paid)
<1>1. /\ RunIsStill /\ at = "adjudicating"
      /\ \E verdict \in Bench!Verdicts(record) : ledger' = Append(ledger, Bench!LedgerRow(verdict, record.success))
      /\ Bench!Advances(dollars)
      /\ at' = (IF over THEN "done" ELSE "between")
      /\ report' = (IF over THEN {Bench!FoldReport(ledger', telemetry)} ELSE {})
      /\ UNCHANGED <<invoked, flush, calls, store, drained, telemetry, faults, life, paid, written>>
  BY RunStays DEF Bench!AdjudicateAttempt
<1>2. Attempting /\ Working
  BY <1>1 DEF Attempting, Working
<1>3. AtWork /\ PaidInTurn
  BY <1>2, WorkIsKnown, PaidIsInTurn
<1>4. /\ telemetry = store /\ Bench!RecordsOf(store, Bench!Key) # {} /\ store \in Seq(RunLine) /\ paid \in Seq(Payment) /\ life \in Nat
      /\ Bench!Joins(ledger, store) /\ spent \in Nat
  BY <1>1, <1>2 DEF RunInv, RunTypes, Reading, RowsJoin
<1>5. record \in RunRecord
  BY <1>4, JoinedFits
<1>6. record.cost \in Nat /\ record.success \in BOOLEAN /\ dollars \in Nat
  BY <1>4, <1>5 DEF RunRecord
<1>7. Judged
  BY <1>1, <1>6 DEF Judged, Bench!Verdicts
<1>8. /\ ledger' \in Seq(Judgement) /\ LedgerOnce' /\ LedgerGrew /\ Len(ledger) \in Nat /\ Len(ledger') = Len(ledger) + 1
      /\ DOMAIN ledger' = 1..(Len(ledger) + 1) /\ DOMAIN ledger = 1..Len(ledger)
      /\ \A i \in DOMAIN ledger : ledger'[i] = ledger[i]
      /\ ledger'[Len(ledger) + 1].key = Bench!Key
      /\ \A base \in {Len(paid') - Len(ledger')} : InStep(base)'
  BY <1>1, <1>2, <1>7, LedgerGrows
<1>9. /\ n \in Nat \ {0} /\ n \in 1..n /\ DOMAIN paid = 1..n /\ n - 1 \in Nat
      /\ paid[n].of = life /\ paid[n].key = Bench!Key
      /\ \A k \in 1..n : paid[k].of = life => PastKey(paid[k].key) \/ paid[k].key = Bench!Key
  <2>1. n \in Nat \ {0} /\ DOMAIN paid = 1..n /\ paid[n].of = life /\ paid[n].key = Bench!Key
    BY <1>3 DEF PaidInTurn
  <2>2. \A m \in Nat \ {0} : m \in 1..m /\ m - 1 \in Nat /\ \A k \in 1..m : k \in 1..(m - 1) \/ k = m
    OBVIOUS
  <2> QED
    BY <1>3, <2>1, <2>2 DEF PaidInTurn
<1>10. /\ Len(Bench!rows) \in Nat /\ DOMAIN Bench!Ids = 1..Len(Bench!rows) /\ DOMAIN Bench!rows = 1..Len(Bench!rows) /\ Len(Bench!Tasks) \in Nat \ {0}
       /\ DOMAIN Bench!Tasks = 1..Len(Bench!Tasks) /\ row \in 1..Len(Bench!rows) /\ task \in 1..Len(Bench!Tasks)
       /\ \A r \in 1..Len(Bench!rows) : Bench!rows[r].id = Bench!Ids[r]
       /\ Bench!Key = AttemptKey(row, task) /\ Bench!Row.id = Bench!Ids[row] /\ Bench!Row = RowNamed(Bench!Row.id) /\ Bench!Row.budget \in Int
  BY <1>3 DEF AtWork, MatrixFits
<1> HIDE DEF n, record, dollars
<1>11. IF Bench!RowsEnd(dollars) THEN row' = row + 1 /\ task' = 1 /\ spent' = 0
                            ELSE row' = row /\ task' = task + 1 /\ spent' = dollars
  BY <1>1 DEF Bench!Advances
<1>20. RunTypes'
  <2>1. row' \in Nat \ {0} /\ task' \in Nat \ {0} /\ spent' \in Nat
    BY <1>6, <1>10, <1>11
  <2>2. at' \in RunPhases
    BY <1>1 DEF RunPhases
  <2> QED
    BY <1>1, <1>4, <1>8, <2>1, <2>2 DEF RunInv, RunTypes, RunIsStill
<1>21. StoreInOrder'
  BY <1>1 DEF RunInv, StoreInOrder, Bench!RecordsOf, Bench!ReadStore
<1>22. RecordsPriced'
  BY <1>1, PricesStand DEF RunInv
<1> DEFINE StillPast(key) == \E r \in DOMAIN Bench!Ids, t \in DOMAIN Bench!Tasks : key = AttemptKey(r, t) /\ (r < row' \/ (r = row' /\ t < task'))
<1>23. ASSUME NEW key, PastKey(key) \/ key = Bench!Key
       PROVE  StillPast(key)
  <2>1. PICK r \in DOMAIN Bench!Ids, t \in DOMAIN Bench!Tasks : key = AttemptKey(r, t) /\ (r < row \/ (r = row /\ t <= task))
    BY <1>10, <1>23 DEF PastKey
  <2>2. r \in Nat /\ t \in Nat /\ row \in Nat /\ task \in Nat
    BY <1>10
  <2>3. r < row' \/ (r = row' /\ t < task')
    BY <1>11, <2>1, <2>2
  <2> QED
    BY <2>1, <2>3
<1>24. OnlyThePast'
  <2>1. SUFFICES ASSUME ~over PROVE OnlyThePast'
    BY <1>1 DEF OnlyThePast, Working, Attempting
  <2>2. row' \in DOMAIN Bench!Ids /\ task' \in DOMAIN Bench!Tasks
    <3>0. Len(Bench!rows) \in Nat /\ Len(Bench!Tasks) \in Nat \ {0} /\ row \in 1..Len(Bench!rows) /\ task \in 1..Len(Bench!Tasks)
      BY <1>10
    <3>1. CASE Bench!RowsEnd(dollars)
      <4>1. row' = row + 1 /\ task' = 1 /\ row # Len(Bench!rows)
        BY <1>11, <2>1, <3>1 DEF over
      <4>2. row' \in 1..Len(Bench!rows) /\ task' \in 1..Len(Bench!Tasks)
        BY <3>0, <4>1
      <4> QED
        BY <1>10, <4>2
    <3>2. CASE ~Bench!RowsEnd(dollars)
      <4>1. row' = row /\ task' = task + 1 /\ task # Len(Bench!Tasks)
        BY <1>11, <2>1, <3>2 DEF Bench!RowsEnd
      <4>2. row' \in 1..Len(Bench!rows) /\ task' \in 1..Len(Bench!Tasks)
        BY <3>0, <4>1
      <4> QED
        BY <1>10, <4>2
    <3> QED
      BY <3>1, <3>2
  <2>3. \A i \in DOMAIN store : store[i].record.of = life => StillPast(store[i].record.key)
    BY <1>1, <1>2, <1>23 DEF RunInv, OnlyThePast
  <2>4. \A k \in DOMAIN ledger' : StillPast(ledger'[k].key)
    <3>1. \A k \in DOMAIN ledger' : PastKey(ledger'[k].key) \/ ledger'[k].key = Bench!Key
      <4>1. \A k \in DOMAIN ledger : PastKey(ledger[k].key)
        BY <1>2 DEF RunInv, OnlyThePast
      <4>2. \A k \in DOMAIN ledger' : k \in DOMAIN ledger \/ k = Len(ledger) + 1
        BY <1>8
      <4> QED
        BY <1>8, <4>1, <4>2
    <3> QED
      BY <1>23, <3>1
  <2>5. Before' = Len(paid')
    BY <1>1, <1>9, <2>1 DEF Before, Attempting, n
  <2>6. ASSUME NEW key, StillPast(key) PROVE PastKey(key)'
    <3>1. \A r \in DOMAIN Bench!Ids, t \in DOMAIN Bench!Tasks : AttemptKey(r, t)' = AttemptKey(r, t)
      BY <1>1 DEF AttemptKey, RunIsStill
    <3> QED
      BY <1>1, <2>6, <3>1 DEF PastKey, RunIsStill
  <2> HIDE DEF StillPast
  <2>7. /\ \A i \in DOMAIN store' : store'[i].record.of = life' => PastKey(store[i].record.key)'
        /\ \A k \in DOMAIN ledger' : PastKey(ledger[k].key)'
    BY <1>1, <2>3, <2>4, <2>6
  <2> QED
    BY <1>1, <1>8, <2>2, <2>5, <2>7 DEF OnlyThePast, RunIsStill
<1> HIDE DEF over
<1>25. Bench!Joins(ledger', store) /\ (at' = "between" \/ at' = "done")
  <2>1. \A i \in DOMAIN ledger' : i \in DOMAIN ledger \/ i = Len(ledger) + 1
    BY <1>8
  <2> QED
    BY <1>1, <1>4, <1>8, <2>1 DEF Bench!Joins
<1>26. RowsJoin'
  BY <1>1, <1>25 DEF RowsJoin, Bench!Joins, Bench!RecordsOf, Bench!ReadStore
<1>27. Metering' /\ NotBegun' /\ Bench!GoldenIsHeldOut'
  BY <1>25 DEF Metering, NotBegun, Bench!GoldenIsHeldOut, Attempting
<1>28. Counting'
  <2>1. SUFFICES ASSUME at' = "between", NEW id \in {Bench!Row'.id}, NEW m \in {Before'}
                 PROVE  /\ Bench!Row'.budget > 0 => spent' < Bench!Row'.budget
                        /\ Bench!Row'.rated /\ Bench!Kept(id)' => spent' = Bench!Dollars(id, m)'
    BY <1>25 DEF Counting, Working, Attempting
  <2>2. m = n /\ Before = n - 1 /\ Bench!Dollars(id, m)' = Bench!Dollars(id, n)
    <3>1. m = n
      BY <1>1, <2>1 DEF Before, Attempting, n
    <3>2. Before = n - 1
      BY <1>2 DEF Before, n
    <3>3. Bench!Dollars(id, m)' = Bench!Dollars(id, m)
      BY <1>1, DollarsStay DEF PaidKeeps
    <3> QED
      BY <3>1, <3>2, <3>3
  <2>3. CASE Bench!RowsEnd(dollars)
    <3>1. row' = row + 1 /\ spent' = 0 /\ row # Len(Bench!rows)
      BY <1>1, <1>11, <2>1, <2>3 DEF over
    <3>2. row + 1 \in 1..Len(Bench!rows)
      <4>1. Len(Bench!rows) \in Nat /\ row \in 1..Len(Bench!rows)
        BY <1>10
      <4> QED
        BY <3>1, <4>1
    <3>3. id = Bench!Ids[row + 1]
      BY <1>1, <1>10, <2>1, <3>1, <3>2 DEF Bench!Row, RunIsStill
    <3>4. ASSUME NEW k \in 1..n, paid[k].of = life, paid[k].key[1] = id PROVE FALSE
      <4>1. PICK r \in DOMAIN Bench!Ids, t \in DOMAIN Bench!Tasks : paid[k].key = AttemptKey(r, t) /\ r <= row
        BY <1>9, <1>10, <3>4 DEF PastKey
      <4>2. Bench!Ids[r] = Bench!Ids[row + 1]
        BY <3>3, <3>4, <4>1 DEF AttemptKey
      <4>3. r = row + 1
        BY <1>10, <3>2, <4>2 DEF Bench!Distinct
      <4> QED
        BY <1>10, <4>1, <4>3
    <3>5. n \in 0..Len(paid)
      BY <1>9 DEF n
    <3>6. Bench!Dollars(id, n) = 0
      BY <1>4, <3>4, <3>5, NothingSpent
    <3> QED
      BY <2>2, <3>1, <3>6
  <2>4. CASE ~Bench!RowsEnd(dollars)
    <3>1. row' = row /\ task' = task + 1 /\ spent' = dollars /\ task # Len(Bench!Tasks) /\ ~Bench!Stops(dollars)
      BY <1>11, <2>4 DEF Bench!RowsEnd
    <3>2. Bench!Row' = Bench!Row /\ id = Bench!Row.id
      BY <1>1, <2>1, <3>1 DEF Bench!Row, RunIsStill
    <3>3. Bench!Row.budget > 0 => dollars < Bench!Row.budget
      <4>1. Len(Bench!Tasks) \in Nat \ {0} /\ task \in 1..Len(Bench!Tasks)
        BY <1>10
      <4>2. task < Len(Bench!Tasks)
        BY <3>1, <4>1
      <4>3. dollars \in Int /\ Bench!Row.budget \in Int
        BY <1>6, <1>10
      <4>4. ~(Bench!Row.budget > 0 /\ dollars >= Bench!Row.budget)
        BY <3>1, <4>2 DEF Bench!Stops
      <4> QED
        BY <4>3, <4>4
    <3>4. ASSUME Bench!Row.rated, Bench!Kept(id)' PROVE dollars = Bench!Dollars(id, n)
      <4>1. Bench!Kept(id)
        BY <1>1, <1>2, <1>8, <3>4, KeptBefore
      <4>2. spent = Bench!Dollars(id, n - 1)
        BY <1>2, <2>2, <3>2, <3>4, <4>1 DEF RunInv, Counting
      <4>3. <<life, Bench!Key>> \in written
        <5>1. Len(ledger) + 1 \in DOMAIN ledger'
          BY <1>8
        <5>2. ledger'[Len(ledger) + 1].key[1] = id
          BY <1>8, <3>2 DEF Bench!Key
        <5> QED
          BY <1>1, <1>8, <3>4, <5>1, <5>2 DEF Bench!Kept, Bench!AttemptsOf
      <4>4. PICK i \in DOMAIN store : record = store[i].record /\ store[i].record.of = life /\ store[i].record.key = Bench!Key
        BY <1>4, <4>3, LastIsThisLife DEF RunInv, record
      <4>5. PricedAs(record, paid[n].dollars)
        BY <1>9, <4>4 DEF RunInv, RecordsPriced
      <4>6. record.cost = paid[n].dollars
        <5>1. record.key[1] = Bench!Row.id
          BY <4>4 DEF Bench!Key
        <5> QED
          BY <1>10, <3>4, <4>5, <5>1 DEF PricedAs
      <4>7. n \in 1..Len(paid) /\ paid[n].key[1] = id
        BY <1>9, <3>2 DEF n, Bench!Key
      <4>8. Bench!Dollars(id, n) = Bench!Dollars(id, n - 1) + paid[n].dollars
        BY <1>4, <1>9, <4>7, DollarsGrow
      <4> QED
        BY <4>2, <4>6, <4>8 DEF dollars
    <3> QED
      BY <2>2, <3>1, <3>2, <3>3, <3>4
  <2> QED
    BY <2>3, <2>4
<1>29. Reporting'
  <2>1. CASE over
    <3>1. Bench!FoldReport(ledger, store)' = Bench!FoldReport(ledger', telemetry)
      BY <1>1, <1>4 DEF Bench!FoldReport, RunIsStill
    <3>2. Bench!Joins(ledger, store)' = Bench!Joins(ledger', store)
      BY <1>1 DEF Bench!Joins, Bench!RecordsOf, Bench!ReadStore
    <3> QED
      BY <1>1, <1>8, <1>25, <2>1, <3>1, <3>2 DEF Reporting
  <2>2. CASE ~over
    BY <1>1, <2>2 DEF Reporting
  <2> QED
    BY <2>1, <2>2
<1>30. Reading'
  BY <1>1, <1>4 DEF Reading
<1>31. Bench!NamesEveryDollar(store)'
  BY <1>1 DEF RunInv, Bench!NamesEveryDollar, Bench!AggregateRuns, Bench!Compiled, Bench!Theirs, Bench!ReadStore, Bench!UnpricedCalls
<1>32. BudgetStands'
  BY <1>1, <1>2, <1>8, BudgetKeeps DEF PaidKeeps
<1>33. SuiteSound'
  BY <1>1 DEF RunInv, RunIsStill
<1> QED
  BY <1>8, <1>20, <1>21, <1>22, <1>24, <1>26, <1>27, <1>28, <1>29, <1>30, <1>31, <1>32, <1>33 DEF RunInv

LEMMA BenchStarts == Bench!BenchInit => BenchInv
<1> SUFFICES ASSUME Bench!BenchInit PROVE RunInv
  BY DEF BenchInv
<1>1. /\ invoked \in Invocations /\ at = "idle" /\ row = 1 /\ task = 1 /\ spent = 0
      /\ flush = FALSE /\ calls = << >> /\ store = << >> /\ drained = 0 /\ telemetry = << >>
      /\ ledger = << >> /\ report = {} /\ golden = {} /\ life = 1 /\ paid = << >> /\ written = {}
  BY DEF Bench!BenchInit
<1>2. /\ << >> \in Seq(MeteredCall) /\ << >> \in Seq(RunLine) /\ << >> \in Seq(Judgement) /\ << >> \in Seq(Payment)
      /\ Len(<< >>) = 0 /\ DOMAIN << >> = {}
  OBVIOUS
<1>3. RunTypes
  <2>1. calls \in Seq(MeteredCall) /\ store \in Seq(RunLine) /\ ledger \in Seq(Judgement) /\ paid \in Seq(Payment)
    BY <1>1, <1>2
  <2>2. drained = Len(telemetry) /\ telemetry = store
    BY <1>1, <1>2
  <2>3. row \in Nat \ {0} /\ task \in Nat \ {0} /\ spent \in Nat /\ life \in Nat \ {0}
    BY <1>1
  <2>4. at \in RunPhases
    BY <1>1 DEF RunPhases
  <2>5. flush \in BOOLEAN
    BY <1>1
  <2> QED
    BY <1>1, <2>1, <2>2, <2>3, <2>4, <2>5 DEF RunTypes
<1>4. StoreInOrder /\ RecordsPriced /\ LedgerOnce
  BY <1>1, <1>2 DEF StoreInOrder, RecordsPriced, LedgerOnce
<1>5. OnlyThePast /\ RowsJoin /\ Metering /\ Counting /\ Reporting /\ Reading /\ Bench!GoldenIsHeldOut
  BY <1>1 DEF OnlyThePast, RowsJoin, Metering, Counting, Reporting, Reading, Bench!GoldenIsHeldOut, Working, Attempting
<1>6. NotBegun
  BY <1>1, <1>2 DEF NotBegun
<1>7. Bench!NamesEveryDollar(store)
  <2>1. Bench!Compiled(store) = {} /\ Bench!Theirs(store) = {}
    BY <1>1, <1>2 DEF Bench!Compiled, Bench!Theirs, Bench!ReadStore
  <2>2. store \in Seq(RunLine) /\ paid \in Seq(Payment)
    BY <1>3 DEF RunTypes
  <2>3. Bench!AggregateRuns({}, store).total + Bench!AggregateRuns({}, store).unpriced = Bench!SumAt({}, [k \in DOMAIN paid |-> paid[k].dollars])
    BY <2>2, NoDollarsYet
  <2> QED
    BY <2>1, <2>3 DEF Bench!NamesEveryDollar
<1> QED
  BY <1>1, <1>3, <1>4, <1>5, <1>6, <1>7 DEF RunInv

\* An adapter's turn returned.
LEMMA TurnsKeep ==
  ASSUME RunInv, Bench!Distinct, Bench!LeanPiReturns \/ Bench!Verified \/ Bench!StockPiReturns \/ Bench!OmpReturns \/ Bench!ExternalReturns
  PROVE  RunInv'
<1>1. at \in {"running", "proving"}
  BY DEF Bench!LeanPiReturns, Bench!Verified, Bench!StockPiReturns, Bench!OmpReturns, Bench!ExternalReturns
<1>2. Attempting
  BY <1>1 DEF Attempting
<1>3. RecordMayBeMade
  BY <1>2, RecordCanBeMade
<1>4. ASSUME NEW success \in BOOLEAN, Bench!Records(Bench!AppendedRecord(Bench!SpentNumbers(calls), success)) PROVE RunInv'
  BY <1>1, <1>3, <1>4, SessionPriced, RecordsKeep
<1>5. CASE Bench!LeanPiReturns
  <2>1. CASE Bench!Records(Bench!AppendedRecord(Bench!SpentNumbers(calls), FALSE))
    BY <1>4, <2>1
  <2>2. CASE ~Bench!Records(Bench!AppendedRecord(Bench!SpentNumbers(calls), FALSE))
    <3>1. /\ at' = "proving" /\ flush' = FALSE /\ at = "running"
          /\ UNCHANGED <<invoked, row, task, spent, calls, store, drained, telemetry, ledger, report, golden, life, paid, written>>
      BY <1>5, <2>2 DEF Bench!LeanPiReturns
    <3> QED
      BY <1>2, <3>1, MovesKeep
  <2> QED
    BY <2>1, <2>2
<1>6. CASE Bench!Verified
  <2>1. RecordFits(Bench!Emitted(Bench!CallsFromMessages(calls), FALSE))
    BY <1>3, TurnPriced
  <2> QED
    BY <1>1, <1>6, <2>1, RecordsKeep DEF Bench!Verified
<1>7. CASE Bench!StockPiReturns
  BY <1>4, <1>7 DEF Bench!StockPiReturns
<1>8. CASE Bench!OmpReturns
  <2>1. PICK terminal \in BOOLEAN, failed \in BOOLEAN : Bench!Records(Bench!AppendedRecord(Bench!SpentNumbers(calls), terminal /\ ~failed))
    BY <1>8 DEF Bench!OmpReturns, Bench!ParseOmpStream
  <2> DEFINE success == terminal /\ ~failed
  <2>2. success \in BOOLEAN
    OBVIOUS
  <2> HIDE DEF success
  <2>3. Bench!Records(Bench!AppendedRecord(Bench!SpentNumbers(calls), success))
    BY <2>1 DEF success
  <2> QED
    BY <1>4, <2>2, <2>3
<1>9. CASE Bench!ExternalReturns
  <2> DEFINE call == [billing |-> "subscription", used |-> 0, rated |-> FALSE, model |-> Bench!Row.model, role |-> "balanced"]
  <2>1. PICK returned \in BOOLEAN : Bench!Records(Bench!AppendedRecord(<<call>>, returned))
    BY <1>9 DEF Bench!ExternalReturns
  <2>2. calls = << >>
    BY <1>2, <1>9 DEF Bench!ExternalReturns, RunInv, Metering
  <2>3. call.billing = "subscription"
    OBVIOUS
  <2> HIDE DEF call
  <2>4. RecordFits(Bench!AppendedRecord(<<call>>, returned))
    BY <1>3, <2>2, <2>3, SubscriptionPriced
  <2> QED
    BY <1>1, <2>1, <2>4, RecordsKeep
<1> QED
  BY <1>5, <1>6, <1>7, <1>8, <1>9

\* An attempt starts, is given up, or its process is killed.
LEMMA StepsKeep ==
  ASSUME RunInv, Bench!Distinct, Bench!Boots \/ Bench!Throws \/ Bench!Dies
  PROVE  RunInv'
<1>1. Attempting
  BY DEF Attempting, Bench!Boots, Bench!Throws, Bench!Dies
<1>2. /\ UNCHANGED <<invoked, row, task, spent, calls, store, drained, telemetry, ledger, report, golden, life, paid, written>>
      /\ at' \in {"running", "aborted", "crashed"} /\ flush' \in BOOLEAN /\ (flush' => at' = "running")
      /\ (at' = "running" => at = "booting")
  BY DEF Bench!Boots, Bench!Throws, Bench!Dies
<1>3. at' \in {"running", "proving"} => at # "adjudicating"
  BY <1>2
<1> QED
  BY <1>1, <1>2, <1>3, MovesKeep

LEMMA BenchGoesOn ==
  ASSUME BenchInv, Bench!BenchNext
  PROVE  BenchInv'
<1>1. UNCHANGED invoked
  BY DEF Bench!BenchNext, Bench!RunBench, Bench!Prepares, Bench!Boots, Bench!Spends, Bench!LeanPiReturns, Bench!Verified, Bench!StockPiReturns, Bench!OmpReturns, Bench!ExternalReturns,
         Bench!Records, Bench!Throws, Bench!AdjudicateAttempt, Bench!OnSignal, Bench!Dies, Bench!Reruns, Bench!Exited, Bench!benchVars
<1>2. Bench!Distinct' <=> Bench!Distinct
  BY <1>1, RunStays DEF RunIsStill
<1>3. SUFFICES ASSUME Bench!Distinct PROVE RunInv'
  BY <1>2 DEF BenchInv
<1>4. RunInv
  BY <1>3 DEF BenchInv
<1>5. ASSUME NEW used \in 0..1, Bench!Spends(used) PROVE RunInv'
  BY <1>3, <1>4, <1>5, SpendsKeep
<1>6. Bench!Exited => UNCHANGED Bench!benchVars
  BY DEF Bench!Exited
<1>7. \/ Bench!RunBench \/ Bench!Prepares \/ (\E used \in 0..1 : Bench!Spends(used))
      \/ (Bench!LeanPiReturns \/ Bench!Verified \/ Bench!StockPiReturns \/ Bench!OmpReturns \/ Bench!ExternalReturns)
      \/ (Bench!Boots \/ Bench!Throws \/ Bench!Dies) \/ Bench!AdjudicateAttempt \/ Bench!OnSignal \/ Bench!Reruns \/ Bench!Exited
  BY DEF Bench!BenchNext
<1> QED
  BY <1>3, <1>4, <1>5, <1>6, <1>7, RunBenchKeeps, PreparesKeep, TurnsKeep, StepsKeep, AdjudicateKeeps, OnSignalKeeps,
     RerunsKeep, ExitedKeeps

-------------------------------------------------------------- (* the report *)

(* What a report is made from: once it is written, the ledger's rows are       *)
(* joined, and are the attempts behind those of earlier lives.                 *)
Reported == \A base \in {Len(paid) - Len(ledger)} : InStep(base)

ReportReady == RunTypes /\ StoreInOrder /\ RecordsPriced /\ MatrixFits /\ Bench!Joins(ledger, store) /\ Reported

RowCosts == [i \in DOMAIN ledger |-> Bench!JoinTelemetry(ledger[i].key, store).cost]

LEMMA RowCostsFit ==
  ASSUME ReportReady
  PROVE  /\ RowCosts \in Seq(Nat) /\ Len(RowCosts) = Len(ledger) /\ Len(ledger) \in Nat /\ DOMAIN ledger = 1..Len(ledger)
         /\ \A i \in 1..Len(ledger) : RowCosts[i] = Bench!JoinTelemetry(ledger[i].key, store).cost
<1>1. store \in Seq(RunLine) /\ ledger \in Seq(Judgement) /\ Bench!Joins(ledger, store)
  BY DEF ReportReady, RunTypes
<1>2. Len(ledger) \in Nat /\ DOMAIN ledger = 1..Len(ledger)
  BY <1>1
<1>3. ASSUME NEW i \in 1..Len(ledger) PROVE Bench!JoinTelemetry(ledger[i].key, store).cost \in Nat
  <2>1. Bench!RecordsOf(store, ledger[i].key) # {}
    BY <1>1, <1>2 DEF Bench!Joins
  <2>2. Bench!JoinTelemetry(ledger[i].key, store) \in RunRecord
    BY <1>1, <2>1, JoinedFits
  <2> QED
    BY <2>2 DEF RunRecord
<1>4. RowCosts \in [1..Len(ledger) -> Nat] /\ \A i \in 1..Len(ledger) : RowCosts[i] = Bench!JoinTelemetry(ledger[i].key, store).cost
  BY <1>2, <1>3 DEF RowCosts
<1>5. RowCosts \in Seq(Nat) /\ Len(RowCosts) = Len(ledger)
  BY <1>2, <1>4
<1> QED
  BY <1>2, <1>4, <1>5

\* A row of the ledger costs what its attempt spent, when the disk took its record.
LEMMA RowIsPriced ==
  ASSUME ReportReady, NEW base \in Nat, InStep(base), NEW i \in DOMAIN ledger, <<life, ledger[i].key>> \in written
  PROVE  Bench!JoinTelemetry(ledger[i].key, store).cost =
           IF RowNamed(ledger[i].key[1]).rated THEN paid[base + i].dollars ELSE 0
<1>1. store \in Seq(RunLine) /\ life \in Nat /\ StoreInOrder /\ RecordsPriced
  BY DEF ReportReady, RunTypes
<1>2. PICK m \in DOMAIN store : /\ Bench!JoinTelemetry(ledger[i].key, store) = store[m].record
                                /\ store[m].record.of = life /\ store[m].record.key = ledger[i].key
  BY <1>1, LastIsThisLife
<1>3. base + i > base
  <2>1. i \in Nat \ {0}
    BY RowCostsFit
  <2> QED
    BY <2>1
<1>4. base + i \in DOMAIN paid /\ paid[base + i].key = ledger[i].key /\ paid[base + i].of = life
  BY <1>3 DEF InStep
<1>5. PricedAs(store[m].record, paid[base + i].dollars)
  BY <1>1, <1>2, <1>4 DEF RecordsPriced
<1> QED
  BY <1>2, <1>5 DEF PricedAs

\* The cost of a row of the report is what its attempts spent.
LEMMA ReportCosts ==
  ASSUME ReportReady, NEW r \in DOMAIN Bench!rows, Bench!Kept(Bench!rows[r].id)
  PROVE  Bench!SumAt(Bench!AttemptsOf(Bench!rows[r].id, ledger), RowCosts) =
           IF Bench!rows[r].rated THEN Bench!Dollars(Bench!rows[r].id, Len(paid)) ELSE 0
<1> DEFINE id == Bench!rows[r].id
           S == Bench!AttemptsOf(id, ledger)
           n == Len(paid)
           base == n - Len(ledger)
<1>1. /\ RowCosts \in Seq(Nat) /\ Len(RowCosts) = Len(ledger) /\ Len(ledger) \in Nat /\ DOMAIN ledger = 1..Len(ledger)
      /\ \A i \in 1..Len(ledger) : RowCosts[i] = Bench!JoinTelemetry(ledger[i].key, store).cost
  BY RowCostsFit
<1>2. paid \in Seq(Payment) /\ n \in Nat /\ DOMAIN paid = 1..n
  BY DEF ReportReady, RunTypes
<1>3. base \in Nat /\ InStep(base)
  BY DEF ReportReady, Reported, InStep
<1>4. Bench!rows[r] = RowNamed(id)
  BY DEF ReportReady, MatrixFits
<1>5. n \in 0..Len(paid)
  BY <1>2
<1> DEFINE t == [k \in 1..n |-> paid[k].dollars]
<1>6. t \in Seq(Nat) /\ Len(t) = n /\ Bench!Dollars(id, n) = Bench!SumAt(Bench!OfThisRun(id, n), t)
  BY <1>2, <1>5, DollarsAre
<1>7. \A k \in 1..n : t[k] = paid[k].dollars
  OBVIOUS
<1>8. n = base + Len(ledger)
  BY <1>1, <1>2
<1>9. ASSUME NEW i \in S
      PROVE  i \in DOMAIN ledger /\ RowCosts[i] = IF Bench!rows[r].rated THEN paid[base + i].dollars ELSE 0
  <2>1. i \in DOMAIN ledger /\ ledger[i].key[1] = id /\ <<life, ledger[i].key>> \in written
    BY <1>9 DEF Bench!AttemptsOf, Bench!Kept
  <2>2. Bench!JoinTelemetry(ledger[i].key, store).cost = IF RowNamed(ledger[i].key[1]).rated THEN paid[base + i].dollars ELSE 0
    BY <1>3, <2>1, RowIsPriced
  <2> QED
    BY <1>1, <1>4, <2>1, <2>2
<1> HIDE DEF t, n, base
<1>10. CASE Bench!rows[r].rated
  <2>1. \A i \in 1..base : i \notin Bench!OfThisRun(id, n)
    <3>1. \A i \in 1..base : i \in 1..n /\ ~(i > base)
      BY <1>1, <1>3, <1>8
    <3> QED
      BY <1>2, <1>3, <3>1 DEF Bench!OfThisRun, InStep
  <2>2. ASSUME NEW j \in 1..Len(RowCosts)
        PROVE  (j \in S <=> base + j \in Bench!OfThisRun(id, n)) /\ (j \in S => t[base + j] = RowCosts[j])
    <3>1. base + j > base /\ base + j \in 1..n
      BY <1>1, <1>3, <1>8
    <3>2. j \in DOMAIN ledger /\ paid[base + j].key = ledger[j].key /\ paid[base + j].of = life
      BY <1>1, <1>2, <1>3, <3>1 DEF InStep
    <3>3. j \in S <=> base + j \in Bench!OfThisRun(id, n)
      BY <3>1, <3>2 DEF Bench!AttemptsOf, Bench!OfThisRun
    <3>4. j \in S => t[base + j] = RowCosts[j]
      BY <1>7, <1>9, <1>10, <3>1
    <3> QED
      BY <3>3, <3>4
  <2>3. BehindBy(base, S, RowCosts, Bench!OfThisRun(id, n), t)
    BY <2>1, <2>2 DEF BehindBy
  <2>4. Len(t) = base + Len(RowCosts)
    BY <1>1, <1>6, <1>8
  <2>5. Bench!SumAt(Bench!OfThisRun(id, n), t) = Bench!SumAt(S, RowCosts)
    BY <1>1, <1>3, <1>6, <2>3, <2>4, SumAtShifts
  <2> QED
    BY <1>6, <1>10, <2>5 DEF n
<1>11. CASE ~Bench!rows[r].rated
  <2>1. PICK m : IsMask(m, S, RowCosts)
    BY <1>1, HasMask
  <2>2. \A i \in 1..Len(m) : m[i] = 0
    BY <1>9, <1>11, <2>1 DEF IsMask
  <2>3. Bench!Sum(m) = 0
    BY <2>1, <2>2, SumOfZeros DEF IsMask
  <2> QED
    BY <1>11, <2>1, <2>3 DEF IsMask
<1> QED
  BY <1>10, <1>11

\* A report counts each attempt once.
LEMMA AttemptsAreCounted ==
  ASSUME ledger \in Seq(Judgement), NEW id
  PROVE  LET c == Bench!ConfigMetrics(id, ledger, store)
         IN /\ c.attempts = c.complete + c.incomplete + c.errors
            /\ c.falsely <= c.reported
            /\ c.attempts > 0 <=> Bench!AttemptsOf(id, ledger) # {}
<1> DEFINE A == Bench!AttemptsOf(id, ledger)
           complete == {i \in A : ledger[i].verdict = "complete"}
           incomplete == {i \in A : ledger[i].verdict = "incomplete"}
           errors == {i \in A : ledger[i].verdict = "error"}
           reported == {i \in A : ledger[i].reported}
           falsely == {i \in A : ledger[i].reported /\ ledger[i].verdict # "complete"}
           c == Bench!ConfigMetrics(id, ledger, store)
<1>1. /\ c.attempts = Cardinality(A) /\ c.complete = Cardinality(complete) /\ c.incomplete = Cardinality(incomplete)
      /\ c.errors = Cardinality(errors) /\ c.reported = Cardinality(reported) /\ c.falsely = Cardinality(falsely)
  BY SameCount DEF Bench!ConfigMetrics
<1>2. Len(ledger) \in Nat /\ DOMAIN ledger = 1..Len(ledger) /\ \A i \in DOMAIN ledger : ledger[i] \in Judgement
  OBVIOUS
<1>3. IsFiniteSet(A)
  <2>1. IsFiniteSet(1..Len(ledger))
    BY <1>2, FS_Interval
  <2>2. A \subseteq 1..Len(ledger)
    BY <1>2 DEF Bench!AttemptsOf
  <2> QED
    BY <2>1, <2>2, FS_Subset
<1>4. /\ IsFiniteSet(complete) /\ IsFiniteSet(incomplete) /\ IsFiniteSet(errors) /\ IsFiniteSet(reported) /\ IsFiniteSet(falsely)
  BY <1>3, FS_Subset
<1>5. /\ Cardinality(A) \in Nat /\ Cardinality(complete) \in Nat /\ Cardinality(incomplete) \in Nat /\ Cardinality(errors) \in Nat
  BY <1>3, <1>4, FS_CardinalityType
<1>6. A = (complete \cup incomplete) \cup errors
  BY <1>2 DEF Bench!AttemptsOf, Judgement
<1>7. complete \cap incomplete = {} /\ (complete \cup incomplete) \cap errors = {} /\ falsely \subseteq reported
  OBVIOUS
<1> HIDE DEF A, complete, incomplete, errors, reported, falsely, c
<1>8. IsFiniteSet(complete \cup incomplete) /\ Cardinality(complete \cup incomplete) = Cardinality(complete) + Cardinality(incomplete)
  <2>1. /\ IsFiniteSet(complete \cup incomplete)
        /\ Cardinality(complete \cup incomplete) = Cardinality(complete) + Cardinality(incomplete) - Cardinality(complete \cap incomplete)
    BY <1>4, FS_Union
  <2>2. Cardinality(complete \cap incomplete) = 0
    BY <1>7, FS_EmptySet
  <2> QED
    BY <1>5, <2>1, <2>2
<1>9. Cardinality(A) = Cardinality(complete \cup incomplete) + Cardinality(errors)
  <2>1. Cardinality((complete \cup incomplete) \cup errors) =
          Cardinality(complete \cup incomplete) + Cardinality(errors) - Cardinality((complete \cup incomplete) \cap errors)
    BY <1>4, <1>8, FS_Union
  <2>2. Cardinality((complete \cup incomplete) \cap errors) = 0
    BY <1>7, FS_EmptySet
  <2>3. Cardinality(complete \cup incomplete) \in Nat
    BY <1>8, FS_CardinalityType
  <2> QED
    BY <1>5, <1>6, <2>1, <2>2, <2>3
<1>10. Cardinality(falsely) <= Cardinality(reported)
  BY <1>4, <1>7, FS_Subset
<1>11. Cardinality(A) > 0 <=> A # {}
  BY <1>3, <1>5, FS_EmptySet
<1>12. c.attempts = c.complete + c.incomplete + c.errors /\ c.falsely <= c.reported /\ (c.attempts > 0 <=> A # {})
  BY <1>1, <1>8, <1>9, <1>10, <1>11
<1> QED
  BY <1>12 DEF A, c

\* What a run reports is its price, and what the two files say.
LEMMA ReportIsRight ==
  ASSUME RunInv, at \in {"done", "interrupted"}, SuiteSound
  PROVE  Bench!ReportIsThePrice
<1>1. report = {Bench!FoldReport(ledger, store)} /\ ReportReady
  <2>1. MatrixFits
    BY MatrixIs DEF RunInv, RunTypes
  <2> QED
    BY <2>1 DEF RunInv, Reporting, ReportReady, Reported
<1>2. ledger \in Seq(Judgement) /\ MatrixFits /\ DOMAIN Bench!rows = 1..Len(Bench!rows)
  BY <1>1 DEF ReportReady, RunTypes, MatrixFits
<1> DEFINE r == Bench!FoldReport(ledger, store)
<1>3. DOMAIN r = DOMAIN Bench!rows /\ \A i \in DOMAIN Bench!rows : r[i] = Bench!ConfigMetrics(Bench!rows[i].id, ledger, store)
  BY DEF Bench!FoldReport
<1> HIDE DEF r
<1>4. ASSUME NEW i \in DOMAIN r
      PROVE  /\ Bench!Kept(Bench!rows[i].id) => r[i].cost = IF Bench!rows[i].rated THEN Bench!Dollars(Bench!rows[i].id, Len(paid)) ELSE 0
             /\ r[i].attempts = r[i].complete + r[i].incomplete + r[i].errors
             /\ r[i].falsely <= r[i].reported
  <2>1. r[i].cost = Bench!SumAt(Bench!AttemptsOf(Bench!rows[i].id, ledger), RowCosts)
    <3>1. \A id : Bench!ConfigMetrics(id, ledger, store).cost = Bench!SumAt(Bench!AttemptsOf(id, ledger), RowCosts)
      BY DEF Bench!ConfigMetrics, RowCosts
    <3> QED
      BY <1>3, <3>1
  <2>2. Bench!Kept(Bench!rows[i].id) => r[i].cost = IF Bench!rows[i].rated THEN Bench!Dollars(Bench!rows[i].id, Len(paid)) ELSE 0
    BY <1>1, <1>3, <2>1, ReportCosts
  <2>3. r[i].attempts = r[i].complete + r[i].incomplete + r[i].errors /\ r[i].falsely <= r[i].reported
    BY <1>2, <1>3, AttemptsAreCounted
  <2> QED
    BY <2>2, <2>3
<1>5. Bench!Recompute = {r[i] : i \in {j \in DOMAIN r : r[j].attempts > 0}}
  <2>1. ASSUME NEW x \in Bench!ToSet(invoked.roster), Bench!AttemptsOf(x.id, ledger) # {}
        PROVE  \E j \in DOMAIN r : r[j].attempts > 0 /\ r[j] = Bench!ConfigMetrics(x.id, ledger, store)
    <3>1. PICK i \in DOMAIN ledger : ledger[i].key[1] = x.id
      BY <2>1 DEF Bench!AttemptsOf
    <3>2. ledger[i].key \in AttemptKeys
      <4>1. ledger[i] \in Judgement
        BY <1>2
      <4> QED
        BY <4>1 DEF Judgement
    <3>3. PICK j \in DOMAIN Bench!Ids : ledger[i].key[1] = Bench!Ids[j]
      BY <3>2 DEF AttemptKeys, AttemptKey
    <3>4. j \in DOMAIN Bench!rows /\ Bench!rows[j].id = x.id
      BY <1>2, <3>1, <3>3 DEF MatrixFits
    <3>5. r[j] = Bench!ConfigMetrics(x.id, ledger, store) /\ j \in DOMAIN r
      BY <1>3, <3>4
    <3>6. r[j].attempts > 0
      BY <1>2, <2>1, <3>5, AttemptsAreCounted
    <3> QED
      BY <3>5, <3>6
  <2>2. ASSUME NEW j \in DOMAIN r, r[j].attempts > 0
        PROVE  \E x \in Bench!ToSet(invoked.roster) : Bench!AttemptsOf(x.id, ledger) # {} /\ r[j] = Bench!ConfigMetrics(x.id, ledger, store)
    <3>1. r[j] = Bench!ConfigMetrics(Bench!rows[j].id, ledger, store) /\ Bench!rows[j] \in Bench!ToSet(invoked.roster)
      BY <1>2, <1>3 DEF MatrixFits
    <3>2. Bench!AttemptsOf(Bench!rows[j].id, ledger) # {}
      BY <1>2, <2>2, <3>1, AttemptsAreCounted
    <3> QED
      BY <3>1, <3>2
  <2>3. Bench!Recompute = {Bench!ConfigMetrics(x.id, ledger, store) : x \in {y \in Bench!ToSet(invoked.roster) : Bench!AttemptsOf(y.id, ledger) # {}}}
    BY DEF Bench!Recompute
  <2> QED
    BY <2>1, <2>2, <2>3
<1>6. Bench!ReportIsThePrice
  BY <1>1, <1>4, <1>5 DEF Bench!ReportIsThePrice, r
<1> QED
  BY <1>6

LEMMA BooksAreRight == BenchInv => Bench!RunIsAccounted
<1> SUFFICES ASSUME RunInv, Bench!Distinct, at \notin {"idle", "refused"}
             PROVE  Bench!ReportIsThePrice /\ Bench!NoSilentZero /\ Bench!OneRecordEach /\ Bench!BudgetStops /\ Bench!GoldenIsHeldOut
  BY DEF BenchInv, Bench!RunIsAccounted
<1>1. /\ store \in Seq(RunLine) /\ (telemetry = store \/ telemetry = << >>) /\ drained = Len(telemetry) /\ paid \in Seq(Payment)
      /\ life \in Nat /\ StoreInOrder /\ SuiteSound /\ BudgetStands
  BY DEF RunInv, RunTypes
<1>2. Bench!ReportIsThePrice
  <2>1. CASE at \in {"done", "interrupted"}
    BY <1>1, <2>1, ReportIsRight
  <2>2. CASE at \notin {"done", "interrupted"}
    BY <2>2 DEF RunInv, Reporting, Bench!ReportIsThePrice
  <2> QED
    BY <2>1, <2>2
<1>3. Bench!NoSilentZero
  <2>1. CASE telemetry = store
    BY <2>1 DEF RunInv, Bench!NoSilentZero
  <2>2. CASE telemetry = << >>
    <3>1. Bench!Compiled(<< >>) = {} /\ Bench!Theirs(<< >>) = {}
      BY DEF Bench!Compiled, Bench!Theirs, Bench!ReadStore
    <3>2. << >> \in Seq(RunLine) /\ Len(<< >>) = 0
      OBVIOUS
    <3>3. Costs(<< >>) \in Seq(Nat) /\ Gaps(<< >>) \in Seq(Nat)
      BY <3>2, LinesFit
    <3>4. Payments \in Seq(Nat)
      BY <1>1, PaymentsFit
    <3>5. Bench!SumAt({}, Costs(<< >>)) = 0 /\ Bench!SumAt({}, Gaps(<< >>)) = 0 /\ Bench!SumAt({}, Payments) = 0
      BY <3>3, <3>4, SumAtNone
    <3>6. Bench!NamesEveryDollar(<< >>)
      <4>1. Bench!SumAt(Bench!Compiled(<< >>), Costs(<< >>)) + Bench!SumAt(Bench!Compiled(<< >>), Gaps(<< >>)) = Bench!SumAt(Bench!Theirs(<< >>), Payments)
        <5>1. Bench!SumAt(Bench!Compiled(<< >>), Costs(<< >>)) = 0
          BY <3>1, <3>5
        <5>2. Bench!SumAt(Bench!Compiled(<< >>), Gaps(<< >>)) = 0
          BY <3>1, <3>5
        <5>3. Bench!SumAt(Bench!Theirs(<< >>), Payments) = 0
          BY <3>1, <3>5
        <5> QED
          BY <5>1, <5>2, <5>3
      <4> QED
        BY <4>1, DollarsAreNamed
    <3> QED
      BY <2>2, <3>6 DEF Bench!NoSilentZero
  <2> QED
    BY <1>1, <2>1, <2>2
<1>4. Bench!OneRecordEach
  <2>1. \A i, j \in Bench!ReadStore(telemetry) :
          telemetry[i].record.key = telemetry[j].record.key /\ telemetry[i].record.of = telemetry[j].record.of => i = j
    BY <1>1 DEF StoreInOrder, Bench!ReadStore
  <2>2. \A i, j \in DOMAIN ledger : ledger[i].key = ledger[j].key => i = j
    BY DEF RunInv, LedgerOnce
  <2>3. telemetry = SubSeq(store, 1, drained)
    <3>1. CASE telemetry = store
      BY <1>1, <3>1
    <3>2. CASE telemetry = << >>
      BY <1>1, <3>2
    <3> QED
      BY <1>1, <3>1, <3>2
  <2>4. ASSUME NEW w \in written, w[1] = life PROVE \E i \in Bench!RecordsOf(telemetry, w[2]) : telemetry[i].record.of = life
    <3>1. PICK i \in Bench!RecordsOf(store, w[2]) : store[i].record.of = life
      BY <1>1, <2>4 DEF StoreInOrder
    <3>2. i \in DOMAIN store
      BY <3>1 DEF Bench!RecordsOf, Bench!ReadStore
    <3>3. telemetry = store
      BY <1>1, <3>1, <3>2 DEF StoreInOrder
    <3> QED
      BY <3>1, <3>3
  <2>5. ASSUME NEW i \in DOMAIN ledger, at \in {"between", "done"}, <<life, ledger[i].key>> \in written
        PROVE  Bench!JoinTelemetry(ledger[i].key, telemetry).of = life
    <3>1. ledger # << >>
      BY <2>5
    <3>2. telemetry = store
      BY <2>5, <3>1 DEF RunInv, Reading
    <3>3. PICK m \in DOMAIN store : Bench!JoinTelemetry(ledger[i].key, store) = store[m].record /\ store[m].record.of = life
      BY <1>1, <2>5, LastIsThisLife
    <3> QED
      BY <3>2, <3>3
  <2> QED
    BY <2>1, <2>2, <2>3, <2>4, <2>5 DEF Bench!OneRecordEach
<1>5. Bench!BudgetStops
  <2>1. DOMAIN paid = 1..Len(paid)
    BY <1>1
  <2> QED
    BY <1>1, <2>1 DEF Bench!BudgetStops, BudgetStands, Bench!OfThisRun
<1>6. Bench!GoldenIsHeldOut
  BY DEF RunInv
<1> QED
  BY <1>2, <1>3, <1>4, <1>5, <1>6

\* The inductive invariant: what a run of the suite has in hand when its rows
\* differ.
LEMMA BenchIsSound == PlanningSpec => []BenchInv
<1>1. PlanningInit => BenchInv
  BY BenchStarts DEF PlanningInit
<1>2. BenchInv /\ [PlanningNext]_planningVars => BenchInv'
  <2>1. ASSUME BenchInv, Bench!BenchNext PROVE BenchInv'
    BY <2>1, BenchGoesOn
  <2>2. ASSUME BenchInv, UNCHANGED Bench!benchVars PROVE BenchInv'
    <3>1. Bench!Distinct' <=> Bench!Distinct
      BY <2>2, RunStays DEF RunIsStill, Bench!benchVars
    <3> QED
      BY <2>2, <3>1, ExitedKeeps DEF BenchInv
  <2>3. UNCHANGED benchVars => UNCHANGED Bench!benchVars
    BY DEF benchVars, Bench!benchVars
  <2> QED
    BY <2>1, <2>2, <2>3 DEF PlanningNext, planningVars
<1> QED
  BY <1>1, <1>2, PTL DEF PlanningSpec

\* A benchmark's report is the price of its rows and counts each attempt once,
\* no attempt is joined to another's record or paid twice, no row outspends its
\* budget by more than its last attempt, and the held-out files stay out of the
\* attempts' checkouts (src/bench/runner.ts, src/bench/metrics.ts, src/telemetry).
THEOREM RunsAreAccounted == PlanningSpec => []RunIsAccounted
<1>1. BenchInv => RunIsAccounted
  BY BooksAreRight DEF RunIsAccounted
<1> QED
  BY <1>1, BenchIsSound, PTL

=============================================================================
