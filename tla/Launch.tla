------------------------------- MODULE Launch -------------------------------
(***************************************************************************)
(* What `leanpi` does before a session exists and until it runs            *)
(* (bin/leanpi.js, src/cli, src/subagents, src/index.ts): its flags, the   *)
(* one question of a first run, the control plane's credential, the role   *)
(* map written from what the machine has, the configuration loaded, the    *)
(* one copy of pi-subagents selected, Pi spawned with the extensions, and  *)
(* the session activated inside it from what its environment carries.      *)
(* createLeanPiSession enters at the selection, in one process.            *)
(*                                                                         *)
(* Any process may be killed at any step, and other LeanPi processes of    *)
(* the machine write the same files.  Wording, layout, endpoints, prices   *)
(* and paths are left out; a key is there or it is not.                    *)
(***************************************************************************)
EXTENDS Guard

CONSTANTS Machines,    \* what of the machine no launch changes: see MCGuard
          Argvs,       \* ways to start: [sdk, model, args]
          UserFiles,   \* what the user's configuration may be at first
          Ballots,     \* what JEV may answer: for each role a model
          Limits,      \* the concurrency limits an operator sets
          MaxLaunches, MaxOthers

VARIABLES about,    \* "project" or "launch"
          machine, argv,
          run,      \* this launch: where it is and what it holds
          disk,     \* the files launches share
          launches, others,
          quiet,    \* history: nobody else wrote since this launch began
          begun     \* history: the user's configuration when it began

launchVars == <<machine, argv, run, disk, launches, others, quiet, begun>>

history == <<machine, argv, launches, others, quiet, begun>>

Roles == {"quick", "balanced", "strong", "specialist", "review_quick", "review_strong"}

Vendors == {"claude", "codex", "opencode"}

Go == "opencode-go"

Empty == [x \in {} |-> x]

\* The first of an order that is in a set.
FirstIn(order, set) ==
  order[CHOOSE i \in DOMAIN order : order[i] \in set /\ \A j \in 1 .. (i - 1) : order[j] \notin set]

------------------------------------------------------- (* the arguments *)

Switches == {"--no-jev", "--laya", "--jev"}

Valued == {"--jev-key", "--safety", "--ui"}

Informational == {"--help", "--version"}

\* Pi's own flags that name a model.
Selecting == {"--model", "--models"}

IsFlag(t) == t \in Switches \union Valued \union Informational \union Selecting \union {"--no-skills", "--theme"}

Allowed == [safety |-> {"low", "medium", "high"}, ui |-> {"compact", "plain"}]

NoFlags == [noJev |-> FALSE, key |-> FALSE, provider |-> "none", safety |-> "none", ui |-> "compact",
            rest |-> <<>>, awaits |-> "none", wrong |-> FALSE]

\* A flag is never a key, and a level or surface nobody knows is a usage error.
ReadToken(f, t) ==
  LET g == [f EXCEPT !.awaits = "none"] IN
  IF f.awaits = "--jev-key" /\ ~IsFlag(t) THEN [g EXCEPT !.key = TRUE]
  ELSE IF f.awaits = "--safety" THEN [g EXCEPT !.safety = t, !.wrong = @ \/ t \notin Allowed.safety]
  ELSE IF f.awaits = "--ui" THEN [g EXCEPT !.ui = t, !.wrong = @ \/ t \notin Allowed.ui]
  ELSE IF t \in Valued THEN [g EXCEPT !.awaits = t]
  ELSE IF t = "--no-jev" THEN [g EXCEPT !.noJev = TRUE]
  ELSE IF t = "--laya" THEN [g EXCEPT !.provider = "laya"]
  ELSE IF t = "--jev" THEN [g EXCEPT !.provider = "typesafe"]
  ELSE [g EXCEPT !.rest = Append(@, t)]

ParseLeanPiFlags(args) ==
  LET f == FoldLeft(ReadToken, NoFlags, args) IN
  [f EXCEPT !.wrong = @ \/ f.awaits \in {"--safety", "--ui"}]

Flags == ParseLeanPiFlags(argv.args)

Has(f, names) == \E i \in DOMAIN f.rest : f.rest[i] \in names

IsInformational(f) == Has(f, Informational)

---------------------------------------------------------- (* the models *)

\* The vendor's own answer, else the credential it leaves behind.
Ready(m, v) == m.vendors[v].path /\ (m.vendors[v].said = "yes" \/ (m.vendors[v].said = "nothing" /\ m.vendors[v].login))

\* The child asks no vendor: the credential alone, stale or not.
Offered(m, v) == m.vendors[v].path /\ m.vendors[v].login

\* A model [of, id]: the provider it is listed under, if any.
Id(of, id) == [of |-> of, id |-> id]

VendorDefault == Id("none", "default")

ClaudeAliases == <<Id("none", "opus"), Id("none", "sonnet"), Id("none", "haiku")>>

\* What a vendor's CLI offers: the first of its models, and all of them.
Offer(first, models) == [first |-> first, models |-> models]

ClaudeModels(m) ==
  Offer(IF m.named["claude"] # <<>> THEN m.named["claude"][1] ELSE ClaudeAliases[1], Range(m.named["claude"] \o ClaudeAliases))

CodexModels(m) == LET named == IF m.named["codex"] # <<>> THEN m.named["codex"] ELSE <<VendorDefault>> IN Offer(named[1], Range(named))

\* Of what opencode lists, only the provider there is a rate card for.
OpenCodeModels(m) ==
  LET listed == {i \in DOMAIN m.listed : m.listed[i].of = Go}
      named  == IF m.named["opencode"] # <<>> THEN m.named["opencode"] ELSE <<VendorDefault>> IN
  IF listed = {} THEN Offer(named[1], Range(named))
  ELSE Offer(m.listed[CHOOSE i \in listed : \A j \in listed : i <= j], {m.listed[i] : i \in listed})

DetectModels(m, v) ==
  IF v = "claude" THEN ClaudeModels(m) ELSE IF v = "codex" THEN CodexModels(m) ELSE OpenCodeModels(m)

\* Whether Pi can dial the subscription itself (pi auth check).
PiReady(m, provider) == provider \in m.authed

NativeOpenCode(m) == Ready(m, "opencode") /\ PiReady(m, Go)

\* Where Pi can dial the subscription the provider wins over the vendor's CLI.
Remap(m, c) ==
  IF NativeOpenCode(m) /\ c.vendor = "opencode"
    THEN [c EXCEPT !.backend = Go, !.model = IF @.of = Go THEN Id("none", @.id) ELSE @] ELSE c

\* One model of a vendor, as the configuration would dispatch it.
Discovered(m, v, model) == Remap(m, [vendor |-> v, backend |-> v, model |-> model])

\* Every vendor's models, signed in or not: what JEV is told of.
DiscoverInventory(m) == UNION {{Discovered(m, v, x) : x \in DetectModels(m, v).models} : v \in Vendors}

\* Mutant: a model that is seen is on the ballot.
CandidatesUnchecked(m) == DiscoverInventory(m)

\* The ballot: only what the machine can run.
Candidates(m) == {c \in DiscoverInventory(m) : Ready(m, c.vendor)}

\* Cheapest first by quota class.
Ladder ==
  [r \in Roles |->
     IF r \in {"quick", "review_quick"} THEN <<"opencode", "codex", "claude">>
     ELSE IF r = "balanced" THEN <<"codex", "claude", "opencode">> ELSE <<"claude", "codex", "opencode">>]

\* The first model of the first vendor on the ballot.
LadderAllocation(m) ==
  [r \in Roles |-> LET v == FirstIn(Ladder[r], {c.vendor : c \in Candidates(m)}) IN Discovered(m, v, DetectModels(m, v).first)]

\* JEV's word for each role it is sure of, when it names a candidate.
AllocateRoles(m, ballot) == [r \in Roles |-> IF ballot[r] \in Candidates(m) THEN ballot[r] ELSE LadderAllocation(m)[r]]

Undecided == [r \in Roles |-> [vendor |-> "none", backend |-> "none", model |-> VendorDefault]]

--------------------------------------------------- (* the configuration *)

\* A file [exists, ok, backends, models, jev]: ok when it parses; jev at most one.
NoFile == [exists |-> FALSE, ok |-> TRUE, backends |-> Empty, models |-> Empty, jev |-> {}]

Harness == [type |-> "external_harness", enabled |-> TRUE, url |-> FALSE, key |-> "none"]

\* The provider written for OpenCode: the key's variable only where it is set.
NativeOpenCodeGo(m) ==
  [type |-> "native", enabled |-> TRUE, url |-> TRUE,
   key |-> IF "OPENCODE_API_KEY" \in m.vars THEN "OPENCODE_API_KEY" ELSE "none"]

DefaultJev == [mode |-> "enabled", provider |-> "typesafe", key |-> FALSE]

\* The backends written: the CLIs that answer, and OpenCode natively where Pi can dial it.
RenderBackends(m) ==
  LET harnesses == {v \in Vendors : Ready(m, v) /\ ~(v = "opencode" /\ NativeOpenCode(m))} IN
  [b \in harnesses \union (IF NativeOpenCode(m) THEN {Go} ELSE {}) |-> IF b = Go THEN NativeOpenCodeGo(m) ELSE Harness]

RenderConfig(m, roles) ==
  [exists |-> TRUE, ok |-> TRUE, backends |-> RenderBackends(m),
   models |-> [r \in Roles |-> [backend |-> roles[r].backend, model |-> roles[r].model]], jev |-> {DefaultJev}]

\* One function over another.
Over(top, base) == [x \in DOMAIN top \union DOMAIN base |-> IF x \in DOMAIN top THEN top[x] ELSE base[x]]

\* The project's sections win entry by entry; jev, which holds a key, as a whole.
MergeRecords(base, top) ==
  [exists |-> top.exists, ok |-> base.ok /\ top.ok, backends |-> Over(top.backends, base.backends),
   models |-> Over(top.models, base.models), jev |-> IF top.jev # {} THEN top.jev ELSE base.jev]

\* Without HOME the lookup knows no user file.
UserFile(m, d) == IF m.home THEN d.user ELSE NoFile

\* The project's file if there is one, else the user's (src/core/config-path.ts).
Configured(m, d) == m.project.exists \/ UserFile(m, d).exists

ParseBackends(file) == \A b \in DOMAIN file.backends : file.backends[b].type \in {"native", "external_harness"}

ParseModels(file) == \A r \in DOMAIN file.models : r \in Roles /\ file.models[r].backend \in DOMAIN file.backends

ParseJev(file) == IF file.jev = {} THEN DefaultJev ELSE CHOOSE j \in file.jev : TRUE

\* A configuration that binds no role is refused.
LoadedConfig(m, d) ==
  LET file == MergeRecords(UserFile(m, d), m.project) IN
  [ok |-> file.ok /\ ParseBackends(file) /\ ParseModels(file) /\ DOMAIN file.models # {},
   backends |-> file.backends, models |-> file.models, jev |-> ParseJev(file)]

NoConfig == [ok |-> FALSE, backends |-> Empty, models |-> Empty, jev |-> DefaultJev]

\* What is asked before a session exists runs on: the file if it loads.
BootstrapConfig(m, d) == IF Configured(m, d) /\ LoadedConfig(m, d).ok THEN LoadedConfig(m, d) ELSE NoConfig

ResolveCredential(m, d, config) ==
  IF config.jev.key THEN "config" ELSE IF d.key THEN "store"
  ELSE IF "JEV_API_KEY" \in m.vars THEN "env" ELSE IF m.dotenv THEN "dotenv" ELSE "none"

Forced(f, m) == IF f.provider # "none" THEN f.provider ELSE m.inherited.provider

\* Mutant: the run's own override is read by the child only.
RequireJevOfConfig(m, d, f) ==
  [source |-> IF f.noJev THEN "no-jev" ELSE ResolveCredential(m, d, BootstrapConfig(m, d)),
   provider |-> BootstrapConfig(m, d).jev.provider]

\* The control plane as the launcher reports it.
RequireJev(m, d, f) ==
  LET config   == BootstrapConfig(m, d)
      provider == IF Forced(f, m) # "none" THEN Forced(f, m) ELSE config.jev.provider IN
  [source |-> IF f.key THEN "store"
              ELSE IF config.jev.mode = "disabled" THEN "disabled"
              ELSE IF f.noJev THEN "no-jev"
              ELSE IF provider = "laya" THEN "laya"
              ELSE ResolveCredential(m, d, config),
   provider |-> provider]

\* Only an unanswered question warns.
JevWarning(source) == source = "none"

\* A prompt needs a person, a first run and an open question; it does not look
\* at the run's own provider.
ShouldOnboard(m, d, f) ==
  /\ m.tty /\ ~f.key /\ ~f.noJev /\ ~Configured(m, d)
  /\ RequireJev(m, d, [f EXCEPT !.provider = "none"]).source = "none"

------------------------------------------------- (* the child and its plan *)

\* The concurrency file: limit 0 is absent; async is whether it says.
Whole == [ok |-> TRUE, limit |-> 0, async |-> FALSE]

DefaultLimit == 3

\* LeanPi's keys where the operator named none.
EnsureDefaultConfig(l) == [l EXCEPT !.limit = IF @ = 0 THEN DefaultLimit ELSE @, !.async = TRUE]

SetLimit(l, n) == [l EXCEPT !.limit = n]

\* The launcher's preflight sees the global copies, the SDK's all of them.
Seen == {c \in machine.copies : argv.sdk \/ c.scope = "global"}

Pin == 2

Enabled(copies) == {c \in copies : c.enabled}

\* One enabled copy of the pinned version or none; never a project's beside the selected.
Selectable ==
  /\ \A c \in machine.copies : c.scope = "project" /\ c.enabled => argv.sdk
  /\ \A c \in Seen : c.installed
  /\ \A c, d \in Enabled(Seen) : c = d /\ c.version = Pin

Bundled == [scope |-> "bundled", version |-> Pin, installed |-> TRUE, enabled |-> TRUE]

Selection == IF Enabled(Seen) = {} THEN Bundled ELSE CHOOSE c \in Enabled(Seen) : TRUE

\* What Pi loads: the selected path and every copy its own settings name.
LoadedCopies == {run.entry} \union Enabled(machine.copies)

OneCopy == \A c, d \in LoadedCopies : c = d

\* The order decides who owns a name and which patch wraps which.
PlanOrder ==
  <<"leanpi", "usage", "subagents", "fold", "background", "compact", "context", "search", "card", "spinner", "fold-cache">>

\* The packages that are there, in the surface that was asked for.
BundledExtensions(m, f, fold) ==
  (m.packages \intersect {"background", "context", "search"})
    \union (IF fold THEN m.packages \intersect {"fold"} ELSE {})
    \union (IF f.ui = "compact" THEN (m.packages \intersect {"compact"}) \union {"card"} ELSE {})

LaunchPlan(m, f, fold) ==
  {"leanpi", "usage", "subagents", "spinner"} \union BundledExtensions(m, f, fold)
    \union (IF fold /\ f.ui = "compact" THEN {"fold-cache"} ELSE {})

SdkPlan == {"subagents", "leanpi"}

Baseline == {"read", "search", "edit", "write", "execute"}

Yielded == {"read", "edit", "write"}

CompactUiAttached(plan) == "compact" \in plan

\* The tool names an extension registers while it loads.
Owns(plan, e) ==
  IF e = "leanpi" THEN Baseline \ (IF CompactUiAttached(plan) THEN Yielded ELSE {})
  ELSE IF e = "compact" THEN {"read", "edit", "write", "bash"}
  ELSE IF e = "background" THEN {"jobs"}
  ELSE IF e = "search" THEN {"web_search", "url_context"}
  ELSE IF e = "subagents" THEN {"subagent"} ELSE {}

Owners(plan, name) == {e \in plan : name \in Owns(plan, e)}

Owned(plan) == UNION {Owns(plan, e) : e \in plan}

OwnedOnce(plan, names) == \A n \in names : \E e \in plan : Owners(plan, n) = {e}

\* background waits for session_start with its bash; Pi runs the first owner.
OwnerOfBash(plan) == FirstIn(PlanOrder, {e \in plan : e = "background" \/ "bash" \in Owns(plan, e)})

\* Only where nothing else decided and there is an OpenCode login.
WebSearch(m) == m.home /\ ~m.searches /\ ("OPENCODE_API_KEY" \in m.vars \/ PiReady(m, Go))

\* What the child is told of the launch.
LaunchEnv ==
  IF argv.sdk THEN machine.inherited
  ELSE [noJev |-> Flags.noJev \/ machine.inherited.noJev, provider |-> Forced(Flags, machine),
        warned |-> "launcher" \in run.told \/ machine.inherited.warned]

Native(config) == {b \in DOMAIN config.backends : config.backends[b].type = "native" /\ config.backends[b].enabled}

Bound(config, b) == {config.models[r].model : r \in {q \in DOMAIN config.models : config.models[q].backend = b}}

\* A bound native backend needs an endpoint.
Registrable(config) == \A b \in Native(config) : Bound(config, b) = {} \/ config.backends[b].url

Model(via, backend, model) == [via |-> via, backend |-> backend, model |-> model]

\* The roles' models on an offered subscription, as providers of their own.
SubscriptionModels(config) ==
  UNION {{Model("cli", b, x) : x \in Bound(config, b)} :
         b \in {v \in DOMAIN config.backends \ Native(config) : config.backends[v].enabled /\ Offered(machine, v)}}

\* One provider for a native backend, with its roles' models, and the one the
\* search package needs where that replaces Pi's own catalog.
Registered(config) ==
  SubscriptionModels(config)
    \union (UNION {{Model("pi", b, x) : x \in Bound(config, b)} : b \in Native(config)})
    \union {Model("pi", b, Id("none", "search")) :
              b \in {n \in Native(config) \intersect {Go} : WebSearch(machine) /\ Bound(config, n) # {}}}

\* The first configured of three roles, where Pi can dial it.
SessionModelFor(config) ==
  LET bound == DOMAIN config.models \intersect {"balanced", "strong", "quick"}
      entry == config.models[FirstIn(<<"balanced", "strong", "quick">>, bound)] IN
  IF bound # {} /\ entry.backend \in Native(config) /\ entry.model # VendorDefault
    THEN {Model("pi", entry.backend, entry.model)} ELSE {}

\* A model the user names wins.
Named == IF Has(Flags, Selecting) THEN {} ELSE SessionModelFor(run.config)

FallbackChains ==
  [quick |-> <<"quick", "balanced", "strong", "specialist">>, balanced |-> <<"balanced", "quick", "strong", "specialist">>,
   strong |-> <<"strong", "balanced", "quick", "specialist">>]

\* The nearest role on a backend that is on (a ranking may pick another: see Routing).
ResolveRole(config, role) ==
  LET on    == {r \in Range(FallbackChains[role]) \intersect DOMAIN config.models :
                  config.backends[config.models[r].backend].enabled}
      entry == config.models[FirstIn(FallbackChains[role], on)] IN
  IF on = {} THEN {}
  ELSE {Model(IF entry.backend \in Native(config) THEN "pi" ELSE "cli", entry.backend, entry.model)}

OwnsExecutionLoop(config) ==
  LET bound == {config.models[r].backend : r \in DOMAIN config.models \intersect {"quick", "balanced", "strong"}} IN
  bound # {} /\ \A b \in bound : b \notin Native(config) /\ config.backends[b].enabled

\* A named variable the shell does not hold, and no credential of Pi's own.
UnusableBackendKeys(config) ==
  {b \in Native(config) : config.backends[b].key \notin machine.vars \union {"none"} /\ ~PiReady(machine, b)}

IsFile(f) == DOMAIN f = DOMAIN NoFile /\ f.exists \in BOOLEAN /\ (~f.exists => f = NoFile)

\* A file that is not there names nothing; an operator names models one by one;
\* pi-subagents is installed for the user or in the project; the interface's
\* settings say something, or nothing.
ASSUME LaunchAssumption ==
  /\ \A f \in UserFiles : IsFile(f)
  /\ \A m \in Machines :
       /\ IsFile(m.project) /\ m.stored \in BOOLEAN
       /\ m.named \in [Vendors -> Seq([of : STRING, id : STRING])]
       /\ m.concurrency \in [ok : BOOLEAN, limit : Nat, async : BOOLEAN]
       /\ m.settings \in {"absent", "silent", "answered", "unreadable"}
       /\ \A c \in m.copies : c.scope \in {"global", "project"}

------------------------------------------------------------ (* the launch *)

NoRun == [at |-> "parse", check |-> [source |-> "none", provider |-> "none"], roles |-> Empty, config |-> NoConfig,
          told |-> {}, limit |-> 0, entry |-> Bundled, plan |-> {}, refreshes |-> FALSE, notice |-> FALSE,
          child |-> NoConfig, mode |-> "none", clamp |-> 0, keys |-> {}, runner |-> "unread", routed |-> {}]

\* A usage error ends it; what prints and exits configures nothing.
Start ==
  /\ run.at = "parse"
  /\ run' = [run EXCEPT !.at = IF argv.sdk THEN "ensure" ELSE IF Flags.wrong THEN "failed"
                              ELSE IF IsInformational(Flags) THEN "plan" ELSE "prepare"]
  /\ UNCHANGED <<disk, history>>

\* Before the session's first files: .leanpi is excluded, the surface's defaults
\* are added where the file can be read and says nothing, and the gate is asked.
Prepare ==
  /\ run.at = "prepare"
  /\ disk' = [disk EXCEPT !.ignored = TRUE,
                         !.settings = IF Flags.ui = "compact" /\ @ \in {"absent", "silent"} THEN "answered" ELSE @]
  /\ run' = [run EXCEPT !.at = IF ShouldOnboard(machine, disk, Flags) THEN "asked" ELSE "jev"]
  /\ UNCHANGED history

\* One attempt; skipped, rejected and unstorable all go on.
Onboards ==
  /\ run.at = "asked"
  /\ \E stored \in BOOLEAN : disk' = [disk EXCEPT !.key = @ \/ stored]
  /\ run' = [run EXCEPT !.at = "jev"]
  /\ UNCHANGED history

\* A key given is stored before anything is decided.
ChecksJev ==
  /\ run.at = "jev"
  /\ disk' = [disk EXCEPT !.key = @ \/ Flags.key]
  /\ run' = [run EXCEPT !.at = "detect", !.check = RequireJev(machine, disk, Flags)]
  /\ UNCHANGED history

\* A configuration that is there is the user's; without a vendor there is none to write.
Detects ==
  /\ run.at = "detect"
  /\ run' = [run EXCEPT !.at = IF Configured(machine, disk) THEN "load"
                              ELSE IF \E v \in Vendors : Ready(machine, v) THEN "allocate" ELSE "failed"]
  /\ UNCHANGED <<disk, history>>

\* JEV is asked wherever a key resolves, whatever the run's flags say of it.
Allocates ==
  /\ run.at = "allocate"
  /\ \E ballot \in {Undecided} \union (IF ResolveCredential(machine, disk, NoConfig) = "none" THEN {} ELSE Ballots) :
       run' = [run EXCEPT !.at = "write", !.roles = AllocateRoles(machine, ballot)]
  /\ UNCHANGED <<disk, history>>

\* Over whatever was written there since the question was asked.
Writes ==
  /\ run.at = "write"
  /\ disk' = [disk EXCEPT !.user = RenderConfig(machine, run.roles)]
  /\ run' = [run EXCEPT !.at = "load"]
  /\ UNCHANGED history

ShouldCheckForUpdate == ~machine.source /\ machine.tty

\* The banner, the warning under it and the notice from an earlier launch's cache.
Loads ==
  /\ run.at = "load"
  /\ LET config == LoadedConfig(machine, disk) IN
     \/ /\ config.ok
        /\ run' = [run EXCEPT !.at = "ensure", !.config = config,
                              !.told = IF JevWarning(run.check.source) THEN {"launcher"} ELSE {},
                              !.refreshes = ShouldCheckForUpdate, !.notice = ShouldCheckForUpdate /\ disk.latest > 1]
     \/ ~config.ok /\ run' = [run EXCEPT !.at = "failed"]
  /\ UNCHANGED <<disk, history>>

\* Not awaited: one request a day, and a failed one says nothing.
Refreshes ==
  /\ run.refreshes
  /\ run' = [run EXCEPT !.refreshes = FALSE]
  /\ disk' = [disk EXCEPT !.latest = IF @ = 0 THEN machine.registry ELSE @]
  /\ UNCHANGED history

\* A file it cannot safely extend is refused; a whole one is left alone.
EnsureReads ==
  /\ run.at = "ensure"
  /\ run' = IF ~disk.limit.ok THEN [run EXCEPT !.at = "failed"]
            ELSE [run EXCEPT !.limit = EnsureDefaultConfig(disk.limit).limit,
                             !.at = IF EnsureDefaultConfig(disk.limit) = disk.limit THEN "select" ELSE "merge"]
  /\ UNCHANGED <<disk, history>>

\* A sibling file renamed: what was read, with LeanPi's keys.
EnsureWrites ==
  /\ run.at = "merge"
  /\ disk' = [disk EXCEPT !.limit = [Whole EXCEPT !.limit = run.limit, !.async = TRUE]]
  /\ run' = [run EXCEPT !.at = "select"]
  /\ UNCHANGED history

Selects ==
  /\ run.at = "select"
  /\ run' = IF Selectable THEN [run EXCEPT !.at = "plan", !.entry = Selection] ELSE [run EXCEPT !.at = "failed"]
  /\ UNCHANGED <<disk, history>>

\* Pi's own /model gives way, where its bundle still has the branch; Pi is spawned.
Plans ==
  /\ run.at = "plan"
  /\ disk' = [disk EXCEPT !.host = IF ~argv.sdk /\ @ = "original" THEN "patched" ELSE @]
  /\ run' = [run EXCEPT !.at = IF ~argv.sdk /\ IsInformational(Flags) THEN "exited" ELSE "activate",
                        !.plan = IF argv.sdk THEN SdkPlan ELSE LaunchPlan(machine, Flags, disk.fold)]
  /\ UNCHANGED history

\* The child reads its files again.  Two owners of a name while loading end it;
\* so does a native backend without an endpoint.
Activates ==
  /\ run.at = "activate"
  /\ LET config == LoadedConfig(machine, disk)
         loads  == /\ config.ok /\ Registrable(config) /\ disk.host # "torn"
                   /\ OneCopy /\ OwnedOnce(run.plan, Owned(run.plan)) IN
     \/ /\ loads
        /\ run' = [run EXCEPT !.at = "session", !.child = config,
                              !.mode = IF LaunchEnv.noJev THEN "disabled" ELSE config.jev.mode,
                              !.clamp = IF disk.limit.ok THEN EnsureDefaultConfig(disk.limit).limit ELSE 0]
        /\ disk' = [disk EXCEPT !.ignored = TRUE, !.limit = IF @.ok THEN EnsureDefaultConfig(@) ELSE @]
     \/ ~loads /\ run' = [run EXCEPT !.at = "failed"] /\ UNCHANGED disk
  /\ UNCHANGED history

ChildProvider == IF LaunchEnv.provider # "none" THEN LaunchEnv.provider ELSE run.child.jev.provider

\* What session_start says of the control plane: a person, a mode that would
\* use a key, none to be found, and nobody has said so above.
SessionTells ==
  machine.tty /\ ~argv.sdk /\ run.mode # "disabled" /\ ResolveCredential(machine, disk, run.child) = "none" /\ ~LaunchEnv.warned

Telling == run.told \union (IF SessionTells THEN {"session"} ELSE {})

\* The SDK boots without a model only where every executor role is a harness.
SdkModelIsThere ==
  \/ argv.model = "known"
  \/ /\ argv.model = "none"
     /\ \/ OwnsExecutionLoop(run.child)
        \/ \E x \in ResolveRole(run.child, "balanced") \intersect Registered(run.child) : x.via = "pi"

StartsSession ==
  /\ run.at = "session"
  /\ run' = IF argv.sdk /\ ~SdkModelIsThere THEN [run EXCEPT !.at = "failed"]
            ELSE [run EXCEPT !.at = "running", !.told = Telling, !.keys = UnusableBackendKeys(run.child)]
  /\ UNCHANGED <<disk, history>>

\* The extension stays; the profiles it read go.
SwitchesSession ==
  /\ run.at = "running" /\ ~argv.sdk
  /\ run' = [run EXCEPT !.told = Telling, !.runner = "unread", !.routed = {}]
  /\ UNCHANGED <<disk, history>>

\* A child's model: only where its profile runs in Pi, by what this session read
\* of it, and only one the registry has.
Delegates ==
  /\ run.at = "running" /\ ~OwnsExecutionLoop(run.child)
  /\ \E role \in DOMAIN FallbackChains :
       LET runner == IF run.runner = "unread" THEN disk.profile ELSE run.runner IN
       run' = [run EXCEPT !.runner = runner,
                          !.routed = IF runner = "native" THEN ResolveRole(run.child, role) \intersect Registered(run.child) ELSE {}]
  /\ UNCHANGED <<disk, history>>

Quits ==
  /\ run.at = "running"
  /\ run' = [run EXCEPT !.at = "exited", !.refreshes = FALSE]
  /\ UNCHANGED <<disk, history>>

-------------------------------------------------- (* crashes and neighbours *)

Ended == run.at \in {"exited", "failed", "dead"}

Torn(file) ==
  {[file EXCEPT !.ok = FALSE], [file EXCEPT !.jev = {}, !.models = [r \in {"quick", "balanced"} |-> file.models[r]]],
   [file EXCEPT !.jev = {}, !.models = Empty]}

\* Only the concurrency file is renamed into place: another write is cut off where it is.
Dies ==
  /\ ~Ended /\ run.at # "parse"
  /\ run' = [NoRun EXCEPT !.at = "dead"]
  /\ \/ UNCHANGED disk
     \/ run.at = "prepare" /\ Flags.ui = "compact" /\ disk.settings \in {"absent", "silent"}
           /\ disk' = [disk EXCEPT !.settings = "unreadable"]
     \/ run.at = "write" /\ \E file \in Torn(RenderConfig(machine, run.roles)) : disk' = [disk EXCEPT !.user = file]
     \/ run.at = "jev" /\ Flags.key /\ disk' = [disk EXCEPT !.key = FALSE]
     \/ run.at = "plan" /\ ~argv.sdk /\ disk.host = "original" /\ disk' = [disk EXCEPT !.host = "torn"]
  /\ UNCHANGED history

Relaunch ==
  /\ Ended /\ launches < MaxLaunches
  /\ launches' = launches + 1
  /\ argv' \in Argvs
  /\ run' = NoRun
  /\ quiet' = TRUE /\ begun' = disk.user
  /\ UNCHANGED <<machine, disk, others>>

\* The one leaf /jev provider writes, into an empty document if there is none.
WriteUserProvider(file, name) ==
  [file EXCEPT !.exists = TRUE, !.jev = IF @ = {} THEN {[DefaultJev EXCEPT !.provider = name]}
                                       ELSE {[j EXCEPT !.provider = name] : j \in @}]

\* A role's binding, and its backend where the file has none.
WriteRoleBinding(file, role, vendor) ==
  [file EXCEPT !.exists = TRUE, !.models = Over([r \in {role} |-> [backend |-> vendor, model |-> VendorDefault]], @),
               !.backends = Over(@, [b \in {vendor} |-> Harness])]

\* What another process of this machine may make of the files: its own launch's
\* configuration, a command of its session, or an edit of an agent's profile.
Neighbours ==
  {[disk EXCEPT !.key = ~@], [disk EXCEPT !.fold = ~@], [disk EXCEPT !.profile = "external"]}
    \union {[disk EXCEPT !.limit = SetLimit(@, n)] : n \in IF disk.limit.ok THEN Limits ELSE {}}
    \union (IF disk.user.ok /\ machine.home
              THEN {[disk EXCEPT !.user = WriteUserProvider(@, "laya")], [disk EXCEPT !.user = WriteRoleBinding(@, "balanced", "codex")]}
              ELSE {})
    \union (IF ~disk.user.exists /\ Candidates(machine) # {}
              THEN {[disk EXCEPT !.user = RenderConfig(machine, LadderAllocation(machine))]} ELSE {})

Elsewhere ==
  /\ others < MaxOthers /\ ~Ended
  /\ disk' \in Neighbours
  /\ others' = others + 1 /\ quiet' = FALSE
  /\ UNCHANGED <<machine, argv, run, launches, begun>>

Exited ==
  /\ Ended /\ launches = MaxLaunches
  /\ UNCHANGED launchVars

LaunchInit ==
  /\ machine \in Machines /\ argv \in Argvs /\ begun \in UserFiles
  /\ run = NoRun
  /\ disk = [user |-> begun, key |-> machine.stored, limit |-> machine.concurrency, fold |-> TRUE, settings |-> machine.settings,
             ignored |-> FALSE, host |-> "original", latest |-> 0, profile |-> "native"]
  /\ launches = 1 /\ others = 0 /\ quiet = TRUE

LaunchNext ==
  \/ Start \/ Prepare \/ Onboards \/ ChecksJev \/ Detects \/ Allocates \/ Writes \/ Loads \/ Refreshes
  \/ EnsureReads \/ EnsureWrites \/ Selects \/ Plans \/ Activates \/ StartsSession
  \/ SwitchesSession \/ Delegates \/ Quits \/ Dies \/ Relaunch \/ Elsewhere \/ Exited

------------------------------------------------------ (* what must be true *)

Inside == run.at \in {"session", "running"}

\* The lines about the control plane are read once: under the banner or in the
\* session, and a session that wants them has them (bin/leanpi.js:93-100,
\* index.ts:662-671).
ToldOnce ==
  run.at = "running" =>
    /\ run.told # {"launcher", "session"}
    /\ quiet /\ SessionTells => run.told # {}

\* The banner's line is of the session it stands above: whether the control
\* plane will answer, and which one (cli/bootstrap.ts:339-341, bin/leanpi.js:70).
BannerIsTrue ==
  Inside /\ ~argv.sdk /\ quiet /\ machine.inherited = [noJev |-> FALSE, provider |-> "none", warned |-> FALSE]
    /\ ~(Flags.key /\ (Flags.noJev \/ run.child.jev.mode = "disabled")) =>
    /\ run.check.provider = ChildProvider
    /\ run.check.source \notin {"none", "no-jev", "disabled"}
          <=> run.mode # "disabled" /\ (ChildProvider = "laya" \/ ResolveCredential(machine, disk, run.child) # "none")

\* The model Pi is started on is one the child registers (cli/bootstrap.ts:540-543).
ModelIsRegistered == Inside /\ ~argv.sdk /\ quiet => Named \subseteq Registered(run.child)

\* One load-time owner of every name, whichever packages are there and whichever
\* surface was asked for, and bash is the backgrounding one where it is attached;
\* one copy of pi-subagents, of the reviewed version (core/tools.ts:66-78,
\* cli/launch.ts:130-132, subagents/index.ts:461-464).
OneOwnerEach ==
  run.at = "activate" \/ Inside =>
    /\ OwnedOnce(run.plan, Owned(run.plan) \union Baseline)
    /\ "background" \in run.plan => OwnerOfBash(run.plan) = "background"
    /\ OneCopy /\ \A c \in LoadedCopies : c.version = Pin

\* A configuration that exists is the user's (cli/bootstrap.ts:227-231).
ConfigIsKept == machine.home /\ quiet /\ begun.exists => disk.user = begun

\* The map written for a machine binds every role to a backend it declares, of a
\* vendor that machine can run, native only where Pi can dial it, and loads
\* (cli/bootstrap.ts:244-287, cli/allocate.ts:287-290).
RolesAreRunnable ==
  run.roles # Empty =>
    LET file == RenderConfig(machine, run.roles) IN
    /\ ParseModels(file) /\ DOMAIN file.models = Roles
    /\ \A r \in Roles : Ready(machine, run.roles[r].vendor)
    /\ \A b \in Native(file) : PiReady(machine, b) /\ file.backends[b].url

\* The concurrency file is whole through any crash, and the clamp a session
\* enforces is the limit the preflight found: the operator's where there is one
\* (subagents/index.ts:80, :105-116, :468-471).
LimitIsWhole ==
  machine.concurrency.ok =>
    /\ disk.limit.ok /\ (Inside /\ quiet => run.clamp = run.limit)
    /\ others = 0 /\ machine.concurrency.limit # 0 => disk.limit.limit = machine.concurrency.limit

\* A child runs on another model only where its profile runs in Pi, and on a
\* subscription only where its CLI is installed and left a credential
\* (subagents/route.ts:48-62, backends/cli-provider.ts:204-246).
RoutedIsNative ==
  run.routed # {} => (quiet => disk.profile = "native") /\ \A x \in run.routed : x.via = "cli" => Offered(machine, x.backend)

SoundLaunch ==
  /\ run.at \in {"parse", "prepare", "asked", "jev", "detect", "allocate", "write", "load", "ensure", "merge", "select",
                "plan", "activate", "session", "running", "exited", "failed", "dead"}
  /\ disk.settings \in {"absent", "silent", "answered", "unreadable"} /\ disk.host \in {"original", "patched", "torn"}
  /\ ToldOnce /\ BannerIsTrue /\ ModelIsRegistered /\ OneOwnerEach
  /\ ConfigIsKept /\ RolesAreRunnable /\ LimitIsWhole /\ RoutedIsNative

---------------------------------------------------------- (* composition *)

\* A behaviour is about a project, its policy and the calls it judges, or about
\* the launches of a machine.
GuardInit ==
  /\ about \in {"project", "launch"}
  /\ Init /\ LaunchInit
  /\ about = "launch" => project = (CHOOSE p \in Projects : TRUE) /\ level = (CHOOSE l \in Levels : l # Unset)
  /\ about = "project" =>
       /\ machine = CHOOSE m \in Machines : TRUE
       /\ argv = CHOOSE a \in Argvs : TRUE
       /\ begun = CHOOSE f \in UserFiles : TRUE

GuardNext ==
  /\ UNCHANGED about
  /\ \/ about = "project" /\ Next /\ UNCHANGED launchVars
     \/ about = "launch" /\ LaunchNext /\ UNCHANGED vars

GuardSpec == GuardInit /\ [][GuardNext]_<<about, vars, launchVars>>

\* Whatever the machine, the flags, the crashes and the neighbours: one warning,
\* a true banner, a runnable role map that overwrites nothing, one owner of every
\* tool name, the operator's limit, a model Pi has (bin/leanpi.js, src/cli,
\* src/subagents, src/index.ts:1209-1345).
LaunchIsSound == about = "launch" => SoundLaunch

==============================================================================
