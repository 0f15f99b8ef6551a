---------------------------- MODULE BackendPool ----------------------------
(***************************************************************************)
(* The session's pool of model backends (src/backends/registry.ts): which  *)
(* backend serves a role next, and which backends rest after a vendor      *)
(* limit.  One pool lives as long as the session, so its cooldowns carry   *)
(* over from one turn to the next.                                         *)
(***************************************************************************)
EXTENDS Naturals, Sequences

CONSTANTS
  Backends,     \* the configured backends
  Enabled,      \* those not switched off by enabled: false
  BoundRoles,   \* the roles: list of a backend, <<>> when it serves every role
  Priority,     \* the configured priority of a backend
  DeclaredAt,   \* its position in the configuration
  NoBackend     \* the value of "no backend"

ASSUME PoolAssumption ==
  /\ NoBackend \notin Backends
  /\ Enabled \subseteq Backends
  /\ Priority \in [Backends -> Nat]
  /\ DeclaredAt \in [Backends -> Nat]
  /\ \A b, c \in Backends : DeclaredAt[b] = DeclaredAt[c] => b = c

VARIABLES
  cooling,      \* backends the registry keeps out of selection
  limited       \* backends that signalled a limit or hung, until the window
                \* since that signal has passed (a history variable: the code
                \* keeps only the cooldowns)

poolVars == <<cooling, limited>>

RolesOf(list) == {list[i] : i \in DOMAIN list}

ServesRole(b, role) == BoundRoles[b] = <<>> \/ role \in RolesOf(BoundRoles[b])

\* selectBackend, the filter: enabled, bound to the role or to none, not
\* excluded by the caller, not cooling.
Selectable(role, exclude) ==
  {b \in Enabled \ (exclude \union cooling) : ServesRole(b, role)}

\* selectBackend, the order: an explicit binding first, then the higher
\* priority, then the earlier declaration.
Before(b, c) ==
  LET isBound(x) == BoundRoles[x] # <<>> IN
  \/ isBound(b) /\ ~isBound(c)
  \/ isBound(b) = isBound(c) /\ Priority[b] > Priority[c]
  \/ isBound(b) = isBound(c) /\ Priority[b] = Priority[c] /\ DeclaredAt[b] < DeclaredAt[c]

IsFirst(b, candidates) ==
  b \in candidates /\ \A c \in candidates \ {b} : Before(b, c)

PoolTypeOK ==
  /\ cooling \in SUBSET Backends
  /\ limited \in SUBSET Backends

\* A turn of the session starts with the cooldowns earlier turns left behind.
PoolInit ==
  /\ cooling \in SUBSET Enabled
  /\ limited = cooling

\* The failures a worker invocation can end with; a hang counts as a limit.
LimitFailures == {"limit", "timeout"}

FailureKinds == LimitFailures \union {"other"}

\* The fallback driver marks a limited backend; it is not probed again until
\* the cooldown has passed.
MarkIfLimited(b, kind) ==
  IF kind \in LimitFailures
    THEN cooling' = cooling \union {b} /\ limited' = limited \union {b}
    ELSE UNCHANGED poolVars

\* A limit the registry is not told about.
SignalUnmarked(b, kind) ==
  /\ limited' = IF kind \in LimitFailures THEN limited \union {b} ELSE limited
  /\ UNCHANGED cooling

\* The window since b's signal passes; the registry's own cooldown, if it has
\* one, was started by the same signal.
CooldownExpires(b) ==
  /\ b \in limited
  /\ cooling' = cooling \ {b}
  /\ limited' = limited \ {b}
=============================================================================
