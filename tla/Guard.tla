-------------------------------- MODULE Guard --------------------------------
(***************************************************************************)
(* The permission chokepoint of a session (src/permissions/guard.ts), the  *)
(* configuration it reads (src/core/config.ts), the project's trust        *)
(* (trust.ts), and the /permissions command.                               *)
(*                                                                         *)
(* Tool calls are judged one at a time, and while a question is open the   *)
(* dialog holds the keyboard: the operator types no command.  Whoever      *)
(* edits the project's files, or a second session that writes the user's   *)
(* store, may do so at any moment.                                         *)
(*                                                                         *)
(* What a tool call asks for and what the policy says to it                *)
(* (src/permissions/rules.ts), and how the policy is made of the user's    *)
(* store, the project's configuration and the launch's safety level        *)
(* (trust.ts, state.ts).                                                   *)
(*                                                                         *)
(* A target is a sequence of words, a capability the scope, a colon and    *)
(* the target.  A pattern is such a text with wildcards anywhere in it.    *)
(***************************************************************************)
EXTENDS Integers, FiniteSets, SequencesExt

Scopes == {"read", "edit", "shell", "network", "mcp", "external_dir", "subagent",
           "git_destructive", "package_install"}

Severity == [allow |-> 0, ask |-> 1, deny |-> 2]

Decisions == DOMAIN Severity

\* No decision of one's own on a scope, no safety level.
Unset == "unset"

BuiltinDefaults ==
  [s \in Scopes |-> IF s = "read" THEN "allow"
                    ELSE IF s \in {"external_dir", "git_destructive"} THEN "deny" ELSE "ask"]

SafetyProfiles ==
  [low    |-> [s \in Scopes |-> "allow"],
   medium |-> BuiltinDefaults,
   high   |-> [s \in Scopes |-> IF s = "read" THEN "allow" ELSE IF s = "edit" THEN "ask" ELSE "deny"]]

------------------------------------------------------ (* classification *)

Capability(scope, target) == <<scope, ":">> \o target

\* A text that begins with a scope, as every capability does.
Scoped(text) == Len(text) > 0 /\ text[1] \in Scopes /\ (Len(text) > 1 => text[2] = ":")

\* One git invocation [sub, flags]; sub "dynamic" when a substitution hides it.
DestructiveFlags ==
  [push |-> {"+", "--force", "-f", "--delete", "--force-with-lease"}, reset |-> {"--hard"},
   branch |-> {"-D"}, checkout |-> {"--"}, ref |-> {"-d"}]

GitIsDestructive(g) ==
  \/ g.sub = "dynamic"
  \/ g.sub = "clean" /\ g.flags \intersect {"-f", "--force"} # {} /\ g.flags \intersect {"-d", "--directory"} # {}
  \/ g.sub \in DOMAIN DestructiveFlags /\ g.flags \intersect DestructiveFlags[g.sub] # {}

GitIsNetwork(g) ==
  \/ g.sub \in {"dynamic", "fetch", "pull", "push", "clone", "ls-remote"}
  \/ g.sub = "remote" /\ g.flags \intersect {"update", "show", "set-url"} # {}

\* A path [words, at]: inside the session's root once links are followed,
\* outside, or nowhere that can be told, which counts as outside.
EscapesRoot(path) == path.at \in {"outside", "unresolved"}

\* A command [words, git, installs, connects, paths]: every scope it reaches.
ClassifyCommand(c) ==
  {Capability("shell", c.words)}
    \union {Capability("git_destructive", c.words) : g \in {x \in c.git : GitIsDestructive(x)}}
    \union (IF c.installs THEN {Capability("package_install", c.words)} ELSE {})
    \union (IF c.connects \/ \E g \in c.git : GitIsNetwork(g) THEN {Capability("network", c.words)} ELSE {})
    \union {Capability("external_dir", p.words) : p \in {x \in c.paths : x.at # "device" /\ EscapesRoot(x)}}

\* A call [tool, commands, paths, urls, target]: at most one command, path, url.
\* The seven read-only tools of a language server are reads, and a tool no table
\* names is shell reach.
ClassifyScopes(call) ==
  IF call.tool \in {"read", "edit"} THEN
    (IF call.paths = {} THEN {Capability(call.tool, <<call.tool>>)}
     ELSE {Capability(call.tool, p.words) : p \in call.paths}
            \union {Capability("external_dir", p.words) : p \in {x \in call.paths : EscapesRoot(x)}})
  ELSE IF call.tool = "execute" THEN UNION {ClassifyCommand(c) : c \in call.commands}
  ELSE IF call.tool = "monitor" /\ (call.commands # {} \/ call.urls # {}) THEN
    (UNION {ClassifyCommand(c) : c \in call.commands}) \union {Capability("network", u) : u \in call.urls}
  ELSE IF call.tool \in {"subagent", "mcp"} THEN {Capability(call.tool, call.target)}
  ELSE IF call.tool = "mcp_request" THEN {Capability("mcp", <<call.tool>>)}
  ELSE {Capability("shell", <<call.tool>>)}

---------------------------------------------------------- (* resolution *)

\* Any run, and any one; neither is or contains a line break.
Wild == {"*", "?"}
LineBreak == "newline"

\* How much of a pattern comes before its first wildcard.
LiteralPrefix(pattern) ==
  LET wild == {i \in DOMAIN pattern : pattern[i] \in Wild} IN
  IF wild = {} THEN Len(pattern) ELSE Min(wild) - 1

\* The rest of the text is laid out, in order, over the rest of the pattern: a
\* star takes any part of it, everything else one.
Matches(pattern, text) ==
  LET n == LiteralPrefix(pattern) IN
  /\ n <= Len(text) /\ \A i \in 1 .. n : text[i] = pattern[i]
  /\ \E at \in [n + 1 .. Len(text) -> n + 1 .. Len(pattern)] :
       /\ \A i, j \in DOMAIN at : i <= j => at[i] <= at[j]
       /\ \A i \in DOMAIN at :
            IF pattern[at[i]] \in Wild THEN text[i] # LineBreak ELSE text[i] = pattern[at[i]]
       /\ \A k \in n + 1 .. Len(pattern) :
            pattern[k] # "*" => \E i \in DOMAIN at : {j \in DOMAIN at : at[j] = k} = {i}

\* The longer literal prefix, the stricter of two as long.
Overrides(rule, other) ==
  LET n == LiteralPrefix(rule.pattern)
      m == LiteralPrefix(other.pattern)
  IN  n > m \/ (n = m /\ Severity[rule.decision] >= Severity[other.decision])

\* The most specific rule that matches decides, else the default of the scope.
Resolve(text, policy) ==
  LET matching == {r \in policy.rules : Matches(r.pattern, text)} IN
  IF matching # {} THEN (CHOOSE r \in matching : \A s \in matching : Overrides(r, s)).decision
  ELSE IF Scoped(text) THEN policy.defaults[text[1]] ELSE "deny"

Strictest(decisions) == CHOOSE d \in decisions : \A e \in decisions : Severity[e] <= Severity[d]

\* A call is as free as the least free of its scopes.
ResolveAll(capabilities, policy) ==
  IF capabilities = {} THEN "allow" ELSE Strictest({Resolve(c, policy) : c \in capabilities})

---------------------------------------------------------------- (* merge *)

\* The user's own policy: the builtin column under the store's defaults.
UserPolicy(user) ==
  [defaults |-> [s \in Scopes |-> IF user.defaults[s] = Unset THEN BuiltinDefaults[s] ELSE user.defaults[s]],
   rules    |-> user.rules]

\* Mutant: a rule of the project is compared with the default of its scope only.
TightenedOverDefaults(policy, rule) ==
  IF Severity[rule.decision] > Severity[Resolve(rule.pattern, [policy EXCEPT !.rules = {}])]
    THEN [policy EXCEPT !.rules = @ \union {rule}] ELSE policy

\* A rule of the project applies only where it is stricter than what its own
\* pattern, read as a capability, resolves to.
Tightened(policy, rule) ==
  IF Severity[rule.decision] > Severity[Resolve(rule.pattern, policy)]
    THEN [policy EXCEPT !.rules = @ \union {rule}] ELSE policy

\* So does a default of the project.
TightenedDefaults(policy, defaults) ==
  [policy EXCEPT !.defaults = [s \in Scopes |->
     IF defaults[s] # Unset /\ Severity[defaults[s]] > Severity[@[s]] THEN defaults[s] ELSE @[s]]]

\* The project's rules are taken in the order of its file.
MergePermissions(user, project) ==
  LET after[n \in 0 .. Len(project.rules)] ==
        IF n = 0 THEN TightenedDefaults(UserPolicy(user), project.defaults)
        ELSE Tightened(after[n - 1], project.rules[n])
  IN  after[Len(project.rules)]

\* What the secrets policy becomes: an untrusted project changes nothing; a
\* trusted one may redact more, and forwards nothing more to children.
MergeSecrets(user, project, trusted) ==
  IF ~trusted THEN user
  ELSE [user EXCEPT !.names = @ \union project.names,
                    !.floor = IF project.floor <= @ THEN project.floor ELSE @]

\* A safety level replaces everything, the rules included.
ApplySafetyLevel(policy, level) ==
  IF level = Unset THEN policy ELSE [defaults |-> SafetyProfiles[level], rules |-> {}]

CONSTANTS
  Words,        \* the words of targets and patterns
  Calls,        \* the calls the model may make
  Projects,     \* the versions of the project's files: [declares, content,
                \* defaults, rules, secrets, commands]
  Settings,     \* what /permissions set is given: [pattern, decision]
  Levels,       \* the safety levels a session may be launched with
  UserSecrets,  \* the user's secrets policy: [names, passthrough, floor]
  MaxLoads      \* how often a session reads its configuration

Symbols == Words \union Scopes \union Wild \union {":", LineBreak}

Rules == [pattern : Seq(Symbols), decision : Decisions]

\* The types of the constants.
ASSUME GuardAssumption ==
  /\ \A c \in Calls : \A x \in ClassifyScopes(c) : x \in Seq(Symbols) /\ Scoped(x)
  /\ \A p \in Projects : /\ p.defaults \in [Scopes -> Decisions \union {Unset}]
                        /\ p.rules \in Seq(Rules)
                        /\ p.secrets.floor \in Int
  /\ Settings \subseteq Rules
  /\ Levels \subseteq DOMAIN SafetyProfiles \union {Unset}
  /\ UserSecrets \in [names : {UserSecrets.names}, passthrough : {UserSecrets.passthrough}, floor : Int]
  /\ MaxLoads \in Nat

VARIABLES
  user,      \* the user-scope store: [defaults, rules, trust]
  project,   \* the project's files now
  level,     \* the session's safety level
  state,     \* what the session loaded: [policy, secrets, commands, trusted,
             \* declares, load]
  answers,   \* the guard's cache: [capability, yes, load]
  under,     \* the load the cache was answered under
  call,      \* the call being judged
  seen       \* the project's files as of the load (a history variable)

vars == <<user, project, level, state, answers, under, call, seen>>

NoStore == [defaults |-> [s \in Scopes |-> Unset], rules |-> {}, trust |-> {}]

------------------------------------------------------------- (* loading *)

\* The surface trust is bound to: the declared paths, and the files under them
\* with the configuration itself.
ProjectSurface(declares, files) == [declares |-> declares, content |-> files.content]

AssertTrusted(files, store) == ProjectSurface(files.declares, files) \in store.trust

\* An untrusted project keeps no command, server or local skill root; its
\* permissions are merged either way.
LoadConfig(files, store, lev, count) ==
  LET trusted == AssertTrusted(files, store) IN
  [policy   |-> ApplySafetyLevel(MergePermissions(store, files), lev),
   secrets  |-> MergeSecrets(UserSecrets, files.secrets, trusted),
   commands |-> IF trusted THEN files.commands ELSE {},
   trusted  |-> trusted, declares |-> files.declares, load |-> count]

NoCall  == [phase |-> "none", capabilities |-> {}]
Refused == [phase |-> "refused", capabilities |-> {}]

Init ==
  /\ user = NoStore /\ project \in Projects /\ level \in Levels
  /\ state = LoadConfig(project, user, level, 1)
  /\ answers = {} /\ under = 0 /\ call = NoCall /\ seen = project

--------------------------------------------------------------- (* guard *)

\* Mutant: answers outlive the policy.
Kept(cache, load) == cache

\* The answers that count under this load of the configuration.
Current(cache, load) == IF under = load THEN cache ELSE {}

Answered(cache, capability) == {a \in cache : a.capability = capability}

Declined(cache, capabilities) ==
  {c \in capabilities : \E a \in Answered(cache, c) : ~a.yes}

Pending(cache, capabilities) == {x \in capabilities : Answered(cache, x) = {}}

Judged(cache, capabilities) ==
  IF Declined(cache, capabilities) = {} THEN [phase |-> "ran", capabilities |-> capabilities] ELSE Refused

\* Every tool call passes here; what the policy asks about is put in one
\* question for the capabilities nothing is remembered of.
ToolCall ==
  /\ call.phase # "asking"
  /\ \E c \in Calls :
       LET capabilities == ClassifyScopes(c)
           decision     == ResolveAll(capabilities, state.policy)
           cache        == Current(answers, state.load)
           phase        == IF decision = "allow" THEN "ran" ELSE IF decision = "deny" THEN "refused" ELSE "asking"
       IN  /\ answers' = cache /\ under' = state.load
           /\ call' = IF phase = "refused" THEN Refused
                       ELSE IF phase = "asking" /\ Pending(cache, capabilities) = {}
                       THEN Judged(cache, capabilities)
                       ELSE [phase |-> phase, capabilities |-> capabilities]
  /\ UNCHANGED <<user, project, level, state, seen>>

\* The operator answers; without a UI the answer is no.
Answer ==
  /\ call.phase = "asking"
  /\ \E yes \in BOOLEAN :
       LET cache == answers \union {[capability |-> x, yes |-> yes, load |-> state.load] :
                                       x \in Pending(answers, call.capabilities)}
       IN  answers' = cache /\ call' = Judged(cache, call.capabilities)
  /\ UNCHANGED <<user, project, level, state, under, seen>>

------------------------------------------------------------ (* /permissions *)

\* The state re-reads configuration and trust, in place.
Refresh(store) ==
  /\ state.load < MaxLoads
  /\ state' = LoadConfig(project, store, level, state.load + 1)
  /\ seen' = project

\* A bare scope is a default, what begins with none is refused, the rest is a
\* rule that replaces its like.
WriteUser(store, s) ==
  IF ~Scoped(s.pattern) THEN store
  ELSE IF Len(s.pattern) = 1 THEN [store EXCEPT !.defaults[s.pattern[1]] = s.decision]
  ELSE [store EXCEPT !.rules = {r \in @ : r.pattern # s.pattern} \union {s}]

Set ==
  /\ call.phase # "asking"
  /\ \E s \in Settings :
       /\ user' = WriteUser(user, s)
       /\ Refresh(user')
  /\ call' = NoCall
  /\ UNCHANGED <<project, level, answers, under>>


\* The record is of the files as they are now under the paths that were declared
\* at the load.
GrantTrust(store, declares, files) == [store EXCEPT !.trust = {ProjectSurface(declares, files)}]

Trust ==
  /\ call.phase # "asking"
  /\ user' = GrantTrust(user, state.declares, project)
  /\ Refresh(user')
  /\ call' = NoCall
  /\ UNCHANGED <<project, level, answers, under>>

----------------------------------------------------------- (* the others *)

\* The project's files change: a pull, an edit, the agent's own work.
EditProject ==
  /\ \E p \in Projects \ {project} : project' = p
  /\ UNCHANGED <<user, level, state, answers, under, call, seen>>

\* A write of the store is torn, and reads as an empty one.
TornStore ==
  /\ user # NoStore /\ user' = NoStore
  /\ UNCHANGED <<project, level, state, answers, under, call, seen>>

\* A new session loads everything and remembers no answer.
Restart ==
  /\ level' \in Levels
  /\ state' = LoadConfig(project, user, level', 1)
  /\ answers' = {} /\ under' = 0 /\ call' = NoCall /\ seen' = project
  /\ UNCHANGED <<user, project>>

Next == ToolCall \/ Answer \/ Set \/ Trust \/ EditProject \/ TornStore \/ Restart

Spec == Init /\ [][Next]_vars

---------------------------------------------------------- (* properties *)

TypeOK ==
  /\ project \in Projects /\ seen \in Projects /\ level \in Levels
  /\ \A s \in Scopes : state.policy.defaults[s] \in Decisions
  /\ state.policy.rules \subseteq Rules
  /\ Cardinality(user.trust) <= 1
  /\ call.phase \in {"none", "asking", "ran", "refused"}
  /\ \A c \in call.capabilities : Scoped(c)
  /\ \A a, b \in answers : a.capability = b.capability => a = b

\* What runs is allowed by the policy in force, scope by scope, or was said yes
\* to under that very policy: an answer given before a /permissions set, or in
\* an earlier session, opens nothing (guard.ts: the cache lives as long as the
\* policy it was answered under).
RanUnderThisPolicy ==
  /\ TypeOK
  /\ call.phase = "ran" =>
    \A c \in call.capabilities :
      \/ Resolve(c, state.policy) = "allow"
      \/ /\ Resolve(c, state.policy) = "ask"
         /\ \E a \in answers : a.capability = c /\ a.yes /\ a.load = state.load

\* The capabilities a policy is compared on: those of the calls.
Asked == UNION {ClassifyScopes(c) : c \in Calls}

\* A wildcard at the end, or none.
Plain(pattern) ==
  \A i \in DOMAIN pattern : pattern[i] \in Wild => pattern[i] = "*" /\ i = Len(pattern)

\* A project's configuration only tightens: whatever its defaults and rules,
\* with wildcards anywhere, in whatever order and beside whatever plain rules of
\* the user's, nothing is freer than without it, no secret is redacted less and
\* no variable forwarded more (trust.ts:459-536: the asymmetric merge).  A user
\* who has a rule with a wildcard before its end is excepted: what it says of a
\* call is not compared with a longer pattern of the project's.
ProjectOnlyTightens ==
  level = Unset =>
    /\ LET merged == MergePermissions(user, seen)
           own    == UserPolicy(user)
       IN  (\A r \in user.rules : Plain(r.pattern)) =>
             \A c \in Asked : Severity[Resolve(c, merged)] >= Severity[Resolve(c, own)]
    /\ UserSecrets.names \subseteq state.secrets.names
    /\ state.secrets.floor <= UserSecrets.floor
    /\ state.secrets.passthrough \subseteq UserSecrets.passthrough

\* The policy in force is the operator's, tightened, and what runs is under it
\* (guard.ts:103-182 over trust.ts:459-536).
PolicyIsKept == RanUnderThisPolicy /\ ProjectOnlyTightens

==============================================================================
