------------------------------ MODULE ControlPlane ------------------------------
(* The client of the control plane (jev/client.ts), the providers it can be    *)
(* pointed at (jev/provider.ts, jev/laya.ts), and those who drive both: the    *)
(* sites that ask, /jev, and the session's start and shutdown (index.ts).      *)
(*                                                                             *)
(* Asks run concurrently: the compiler alone has two chains of them under way  *)
(* (compiler/index.ts).  An ask waits twice, for the provider to resolve,      *)
(* which for a local provider means that its runtime is probed for, installed  *)
(* when it is missing and probed for again, and that its server is started,    *)
(* and for an answer to its request, which is sent again while it stays        *)
(* unanswered.  Meanwhile the user may change the mode or switch the provider, *)
(* and the session may end.                                                    *)
(*                                                                             *)
(* The continuations of one settled promise run before anything else does, so  *)
(* a server's start and what the asks waiting for it do next are one step.     *)
(* The questions, the projection of a request for its mode, the decision log   *)
(* and the token counts are left out.  So is a local server that the operator  *)
(* runs (jev.laya.endpoint): nothing is started or stopped for it.             *)
EXTENDS Integers, FiniteSets

CONSTANTS Asks,        \* the calls of ask, each made at most once
          Attempts,    \* JEV_HEDGE_ATTEMPTS
          MaxSwaps     \* bound on the number of provider switches

ASSUME ControlPlaneAssumption ==
  /\ IsFiniteSet(Asks)
  /\ Attempts \in Nat \ {0}
  /\ MaxSwaps \in Nat

VARIABLES
  mode,           \* the client's mode
  provider,       \* the provider in use: the last one built
  providers,      \* every provider built in this session, with its server
  asks,           \* what each ask is waiting for, and what came of it
  fallbackCount,  \* the client's counter, shared by all asks
  disposals,      \* the calls of dispose: by /jev provider and by the shutdown
  crossed         \* history: a switch and the shutdown overlapped

vars == <<mode, provider, providers, asks, fallbackCount, disposals, crossed>>

(* The two remaining modes differ from "enabled" in the request's text only.   *)
Modes == {"enabled", "disabled"}
Names == {"typesafe", "laya"}
Index == 0 .. MaxSwaps

(* "start" is the memoized promise of a local provider; "server" its child     *)
(* process and what comes before it, the install of a runtime that was missing *)
(* and the check that it can now be imported; "told" that it was sent SIGTERM, *)
(* which it may take its time over.                                            *)
Provider == [name : Names, start : {"none", "starting", "ready", "failed"},
             disposed : BOOLEAN, told : BOOLEAN,
             server : {"none", "installing", "installed", "booting", "up", "gone"}]

Fresh(name) == [name |-> name, start |-> "none", disposed |-> FALSE,
                server |-> "none", told |-> FALSE]

(* "before" is the counter as the asking site read it, "hedge" whether the     *)
(* timer for the next launch is set, "taken" what the site did in the end: it  *)
(* used the client's results as answers, or took its conservative branch.      *)
AskState == [at : {"idle", "resolving", "sending", "settled"}, before : Nat,
             launched : 0 .. Attempts, failed : 0 .. Attempts, hedge : BOOLEAN,
             outcome : {"none", "answer", "fallback"},
             taken : {"none", "answer", "conservative"}]

Unasked == [at |-> "idle", before |-> 0, launched |-> 0, failed |-> 0,
            hedge |-> FALSE, outcome |-> "none", taken |-> "none"]

Disposers == {"swap", "shutdown"}
Disposal == [at : {"idle", "waiting", "stopping", "done"}, of : Index, next : Names]

Returned(at) == [at |-> at, of |-> 0, next |-> "typesafe"]

TypeOK ==
  /\ mode \in Modes
  /\ provider \in Index
  /\ providers \in [Index -> Provider]
  /\ asks \in [Asks -> AskState]
  /\ fallbackCount \in Nat
  /\ disposals \in [Disposers -> Disposal]
  /\ crossed \in BOOLEAN

Init ==
  /\ mode \in Modes
  /\ provider = 0
  /\ \E name \in Names :
       providers = [p \in Index |-> Fresh(IF p = 0 THEN name ELSE "typesafe")]
  /\ asks = [a \in Asks |-> Unasked]
  /\ fallbackCount = 0
  /\ disposals = [d \in Disposers |-> Returned("idle")]
  /\ crossed = FALSE

switching == <<provider, disposals, crossed>>

-------------------------------------------------------------------------------
(* One request: launched, launched again while it is unanswered, settled.      *)

(* After this many launches, the timer for another one is set. *)
Rearms(launched) == launched < Attempts

(* A local server is sent one request only. *)
Sent(ask) ==
  [ask EXCEPT !.at = "sending", !.launched = 1,
              !.hedge = providers[provider].name # "laya" /\ Rearms(1)]

Settled(ask, outcome) == [ask EXCEPT !.at = "settled", !.hedge = FALSE, !.outcome = outcome]
FellBack(ask) == Settled(ask, "fallback")

(* The site reads the counter, then asks. *)
Begun(a) == [asks[a] EXCEPT !.before = fallbackCount]

LaunchAgain(a) ==
  /\ asks[a].hedge
  /\ asks' = [asks EXCEPT ![a].launched = @ + 1, ![a].hedge = Rearms(asks[a].launched + 1)]
  /\ UNCHANGED <<mode, switching, providers, fallbackCount>>

\* Mutant: gives up when every launch it may make has failed.
GivesUpAtTheLimit(ask) == ask.failed = Attempts

(* Every launch so far has failed: the next one is not waited for. *)
GivesUp(ask) == ask.failed = ask.launched

(* A launch fails: connection refused, cut off, or unanswered for 20 seconds.  *)
RequestFails(a) ==
  LET ask == [asks[a] EXCEPT !.failed = @ + 1] IN
  /\ asks[a].at = "sending" /\ asks[a].failed < asks[a].launched
  /\ asks' = [asks EXCEPT ![a] = IF GivesUp(ask) THEN FellBack(ask) ELSE ask]
  /\ fallbackCount' = fallbackCount + IF GivesUp(ask) THEN 1 ELSE 0
  /\ UNCHANGED <<mode, switching, providers>>

(* A response: "accepted" when an answer clears its site's threshold, "below"  *)
(* when none does, "unusable" for an error status or answers that do not match *)
(* the questions.                                                              *)
Responses == {"accepted", "below", "unusable"}

\* Mutant: answers that were refused for their confidence are not counted.
CountsErrors(response) == IF response = "unusable" THEN 1 ELSE 0

Counts(response) == IF response = "accepted" THEN 0 ELSE 1

(* The first response to any launch settles the ask, whatever it says.         *)
Answer(a, response) ==
  /\ asks[a].at = "sending" /\ asks[a].failed < asks[a].launched
  /\ asks' = [asks EXCEPT
                ![a] = Settled(@, IF response = "accepted" THEN "answer" ELSE "fallback")]
  /\ fallbackCount' = fallbackCount + Counts(response)
  /\ UNCHANGED <<mode, switching, providers>>

(* The site tells a fallback from an answer by the client's counter, which the *)
(* asks under way beside its own raise as well.                                *)
ReadResult(a) ==
  /\ asks[a].at = "settled" /\ asks[a].taken = "none"
  /\ asks' = [asks EXCEPT ![a].taken =
                IF fallbackCount > asks[a].before THEN "conservative" ELSE "answer"]
  /\ UNCHANGED <<mode, switching, providers, fallbackCount>>

-------------------------------------------------------------------------------
(* Resolving the provider.                                                     *)

(* The hosted service's key is looked up at every ask, and may be found or not. *)
Refuses(p) ==
  \/ p.name = "typesafe"
  \/ p.name = "laya" /\ (p.disposed \/ p.start = "failed")

Resolves(p) ==
  \/ p.name = "typesafe"
  \/ p.name = "laya" /\ ~p.disposed /\ p.start = "ready"

Waits(p) == p.name = "laya" /\ ~p.disposed /\ p.start \in {"none", "starting"}

AskInVain(a) ==
  /\ asks[a].at = "idle"
  /\ mode = "disabled" \/ Refuses(providers[provider])
  /\ asks' = [asks EXCEPT ![a] = FellBack(Begun(a))]
  /\ fallbackCount' = fallbackCount + 1
  /\ UNCHANGED <<mode, switching, providers>>

AskAndSend(a) ==
  /\ asks[a].at = "idle"
  /\ mode # "disabled" /\ Resolves(providers[provider])
  /\ asks' = [asks EXCEPT ![a] = Sent(Begun(a))]
  /\ UNCHANGED <<mode, switching, providers, fallbackCount>>

Starting == [providers EXCEPT ![provider].start = "starting"]

AskAndWait(a) ==
  /\ asks[a].at = "idle"
  /\ mode # "disabled" /\ Waits(providers[provider])
  /\ asks' = [asks EXCEPT ![a] = [Begun(a) EXCEPT !.at = "resolving"]]
  /\ providers' = Starting
  /\ UNCHANGED <<mode, switching, fallbackCount>>

(* The session's start, /jev and /jev test resolve the provider too.           *)
WarmUp ==
  /\ Waits(providers[provider]) /\ providers[provider].start = "none"
  /\ providers' = Starting
  /\ UNCHANGED <<mode, switching, asks, fallbackCount>>

-------------------------------------------------------------------------------
(* startLayaServer, what it sets up first, and its child process.              *)

SettingUp(p) ==
  providers[p].start = "starting" /\ providers[p].server \in {"none", "installing", "installed"}

(* The runtime is imported by a child process that nothing stops, before it is *)
(* installed and after: the probe may never return.                            *)
Probing(p) == SettingUp(p) /\ providers[p].server # "installing"

(* The probe finds no runtime, and the setup is allowed. *)
Install(p) ==
  /\ Probing(p) /\ providers[p].server = "none"
  /\ providers' = [providers EXCEPT ![p].server = "installing"]
  /\ UNCHANGED <<mode, switching, asks, fallbackCount>>

Installed(p) ==
  /\ SettingUp(p) /\ ~Probing(p)
  /\ providers' = [providers EXCEPT ![p].server = "installed"]
  /\ UNCHANGED <<mode, switching, asks, fallbackCount>>

Spawn(p) ==
  /\ Probing(p)
  /\ providers' = [providers EXCEPT ![p].server = "booting"]
  /\ UNCHANGED <<mode, switching, asks, fallbackCount>>

(* The asks that wait for a start: only the provider in use can be starting.   *)
Waiting == {a \in Asks : asks[a].at = "resolving"}

StartFails(p) ==
  /\ asks' = [a \in Asks |-> IF a \in Waiting THEN FellBack(asks[a]) ELSE asks[a]]
  /\ fallbackCount' = fallbackCount + Cardinality(Waiting)
  /\ UNCHANGED <<mode, switching>>

(* No runtime and no setup, a step of the install that fails, or a runtime     *)
(* that cannot be imported after it.                                           *)
InstallFails(p) ==
  /\ SettingUp(p)
  /\ providers' = [providers EXCEPT ![p].start = "failed", ![p].server = "none"]
  /\ StartFails(p)

ExitsEarly(p) ==
  /\ providers[p].start = "starting" /\ providers[p].server = "booting"
  /\ providers' = [providers EXCEPT ![p].start = "failed", ![p].server = "gone"]
  /\ StartFails(p)

StartTimesOut(p) ==
  /\ providers[p].start = "starting" /\ providers[p].server = "booting"
  /\ providers' = [providers EXCEPT ![p].start = "failed", ![p].told = TRUE]
  /\ StartFails(p)

Listens(p) ==
  /\ providers[p].start = "starting" /\ providers[p].server = "booting"
  /\ providers' = [providers EXCEPT ![p].start = "ready", ![p].server = "up"]
  /\ asks' = [a \in Asks |-> IF a \in Waiting THEN Sent(asks[a]) ELSE asks[a]]
  /\ UNCHANGED <<mode, switching, fallbackCount>>

(* A server that is up dies, or one that was told to exits. *)
ServerExits(p) ==
  /\ providers[p].start # "starting" /\ providers[p].server \in {"booting", "up"}
  /\ providers' = [providers EXCEPT ![p].server = "gone"]
  /\ UNCHANGED <<mode, switching, asks, fallbackCount>>

-------------------------------------------------------------------------------
(* dispose, awaited by /jev provider before it sets the new provider, and by   *)
(* the hook of the session's shutdown.                                         *)

\* Mutant: a disposed provider may be resolved again.
Reusable(ps, p) == ps

(* The hosted provider has no dispose. *)
Disposed(ps, p) == IF ps[p].name = "laya" THEN [ps EXCEPT ![p].disposed = TRUE] ELSE ps

(* What runs when dispose has returned. *)
Return(d, next, ps) ==
  /\ disposals' = [disposals EXCEPT ![d] = Returned(IF d = "swap" THEN "idle" ELSE "done")]
  /\ \/ /\ d = "swap"
        /\ provider' = provider + 1
        /\ providers' = [ps EXCEPT ![provider + 1] = Fresh(next)]
     \/ /\ d = "shutdown"
        /\ providers' = ps
        /\ UNCHANGED provider

Dispose(d, next) ==
  /\ disposals[d].at = "idle"
  /\ d = "swap" => provider < MaxSwaps
  /\ crossed' = (crossed \/ \E e \in Disposers \ {d} : disposals[e].at # "idle")
  /\ \/ /\ providers[provider].start = "none"
        /\ Return(d, next, Disposed(providers, provider))
     \/ /\ providers[provider].start # "none"
        /\ disposals' = [disposals EXCEPT ![d] = [at |-> "waiting", of |-> provider, next |-> next]]
        /\ providers' = Disposed(providers, provider)
        /\ UNCHANGED provider
  /\ UNCHANGED <<mode, asks, fallbackCount>>

Forgotten(p) == [providers EXCEPT ![p].start = "none"]

(* The start is awaited first: it cannot be interrupted. *)
Stop(d) ==
  LET p == disposals[d].of IN
  /\ disposals[d].at = "waiting" /\ providers[p].start # "starting"
  /\ \/ /\ providers[p].start = "ready" /\ ~providers[p].told
        /\ providers' = [providers EXCEPT ![p].told = TRUE]
        /\ disposals' = [disposals EXCEPT ![d].at = "stopping"]
        /\ UNCHANGED provider
     \/ /\ providers[p].start # "ready" \/ providers[p].told
        /\ Return(d, disposals[d].next, Forgotten(p))
  /\ UNCHANGED <<mode, asks, fallbackCount, crossed>>

(* The server has exited, or ten seconds have passed. *)
Stopped(d) ==
  /\ disposals[d].at = "stopping"
  /\ Return(d, disposals[d].next, Forgotten(disposals[d].of))
  /\ UNCHANGED <<mode, asks, fallbackCount, crossed>>

SetMode(m) ==
  /\ m # mode /\ mode' = m
  /\ UNCHANGED <<switching, providers, asks, fallbackCount>>

-------------------------------------------------------------------------------
RequestEnds(a) == RequestFails(a) \/ \E response \in Responses : Answer(a, response)
StartMoves(p) ==
  \/ Install(p) \/ Installed(p) \/ InstallFails(p)
  \/ Spawn(p) \/ ExitsEarly(p) \/ StartTimesOut(p) \/ Listens(p)
DisposalMoves(d) == Stop(d) \/ Stopped(d)

OfAsk(a) ==
  \/ AskInVain(a) \/ AskAndSend(a) \/ AskAndWait(a)
  \/ LaunchAgain(a) \/ RequestEnds(a) \/ ReadResult(a)

Next ==
  \/ \E a \in Asks : OfAsk(a)
  \/ \E p \in Index : StartMoves(p) \/ ServerExits(p)
  \/ \E next \in Names : Dispose("swap", next)
  \/ Dispose("shutdown", "typesafe")
  \/ \E d \in Disposers : DisposalMoves(d)
  \/ WarmUp \/ \E m \in Modes : SetMode(m)

(* Every request, install and boot runs under a timeout, and so does the wait  *)
(* for a server that was told to stop.  The probe of the runtime does not.     *)
Fairness ==
  /\ \A a \in Asks : WF_vars(RequestEnds(a))
  /\ \A p \in Index : WF_vars(~Probing(p) /\ StartMoves(p))
  /\ \A d \in Disposers : WF_vars(DisposalMoves(d))

Spec == Init /\ [][Next]_vars /\ Fairness

-------------------------------------------------------------------------------
(* Properties.                                                                 *)

(* An ask that waits always waits for a launch that is still under way, never  *)
(* for the timer of the next one alone (a fast error falls back at once), and  *)
(* an ask that is settled launches nothing more, though its slower requests    *)
(* still run and will still report (client.ts:136-174).                        *)
HedgeIsAccounted ==
  \A a \in Asks :
    /\ asks[a].at = "sending" => asks[a].failed < asks[a].launched
    /\ asks[a].hedge => asks[a].at = "sending"

(* A site never takes its deterministic fallback for an answer of the control  *)
(* plane, although it can only tell by a counter that it shares with the asks  *)
(* that run beside it (client.ts:284, classify.ts:141-152 and every other use  *)
(* of fallbackCount).                                                          *)
FallbackIsNeverTaken ==
  \A a \in Asks : asks[a].taken = "answer" => asks[a].outcome = "answer"

(* What an ask has launched and taken is accounted for (src/jev/client.ts:120-405). *)
AsksAreAccounted == TypeOK /\ HedgeIsAccounted /\ FallbackIsNeverTaken

Runs(p) == providers[p].server \in {"booting", "up"}

(* A local server that was not told to stop belongs to the provider in use, so *)
(* there is at most one, and none once the session was shut down, whichever    *)
(* asks were under way or come late; a switch that overlaps the shutdown is    *)
(* excepted (index.ts:685-690, laya.ts:249-286).                               *)
NoServerIsOrphaned ==
  \A p \in Index : Runs(p) /\ ~providers[p].told =>
    /\ p = provider
    /\ disposals["shutdown"].at = "done" => crossed

(* An ask that has sent its request is settled, whatever the local server and  *)
(* the network do.  One that waits for the provider is, and every switch and   *)
(* shutdown returns, unless a probe of the runtime hangs: it is awaited by the *)
(* start, which the asks and dispose await, and has no deadline                *)
(* (client.ts:126-134, laya.ts:26-35, 113-122, 173-183, 272-279).              *)
EverythingSettles ==
  /\ \A a \in Asks : asks[a].at = "sending" ~> asks[a].at = "settled"
  /\ (\A p \in Index : []<>~Probing(p)) =>
       /\ \A a \in Asks : asks[a].at = "resolving" ~> asks[a].at = "settled"
       /\ \A d \in Disposers : disposals[d].at = "waiting" ~> disposals[d].at \in {"idle", "done"}

================================================================================
