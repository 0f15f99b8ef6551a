----------------------------- MODULE GuardProofs -----------------------------
(***************************************************************************)
(* What the permission chokepoint guarantees for every project file, user  *)
(* store, call and setting: beside plain rules of the user's a project     *)
(* only tightens the policy, and what runs was allowed or answered for     *)
(* under the policy in force.                                              *)
(*                                                                         *)
(* That the merge tightens is shown along the project's rules: the least   *)
(* number of rules after which it did not would have tightened one before. *)
(* A plain rule that covers the text of a longer pattern covers all the    *)
(* pattern matches; with a wildcard before its end it need not.            *)
(***************************************************************************)
EXTENDS Launch, WellFoundedInduction, SequenceTheorems, FiniteSetTheorems, TLAPS

Texts == Seq(Symbols)

\* What a policy is.
Policies == [defaults : [Scopes -> Decisions], rules : SUBSET Rules]

Freedom(c, policy) == Severity[Resolve(c, policy)]

Prefix(rule) == LiteralPrefix(rule.pattern)

----------------------------------------------------------------------------

\* A set of naturals has a least one.
LEMMA Least ==
  ASSUME NEW S \in SUBSET Nat, S # {}
  PROVE  \E n \in S : \A m \in S : n <= m
<1>1. S \subseteq Nat
  OBVIOUS
<1>2. PICK n \in S : \A m \in S : ~ (<<m, n>> \in OpToRel(<, Nat))
  BY <1>1, NatLessThanWellFounded, WFMin
<1>3. \A m \in S : ~ (m < n)
  BY <1>1, <1>2 DEF OpToRel
<1> QED
  BY <1>1, <1>3

LEMMA Severities ==
  /\ Decisions = {"allow", "ask", "deny"}
  /\ \A d \in Decisions : Severity[d] \in 0 .. 2
  /\ \A d, e \in Decisions : Severity[d] = Severity[e] => d = e
  /\ Severity["allow"] = 0 /\ Severity["ask"] = 1 /\ Severity["deny"] = 2
BY DEF Decisions, Severity

\* The literal prefix of a pattern ends at its first wildcard.
LEMMA PrefixEnds ==
  ASSUME NEW p \in Texts
  PROVE  /\ LiteralPrefix(p) \in 0 .. Len(p) /\ Len(p) \in Nat
         /\ \A i \in 1 .. LiteralPrefix(p) : p[i] \notin Wild
         /\ LiteralPrefix(p) # Len(p) => p[LiteralPrefix(p) + 1] \in Wild
<1> DEFINE wild == {i \in DOMAIN p : p[i] \in Wild}
<1>1. DOMAIN p = 1 .. Len(p) /\ Len(p) \in Nat
  BY DEF Texts
<1>2. CASE wild = {}
  BY <1>1, <1>2 DEF LiteralPrefix
<1>3. CASE wild # {}
  <2>1. wild \in SUBSET Nat
    BY <1>1
  <2>2. \E n \in wild : \A m \in wild : n <= m
    <3> HIDE DEF wild
    <3> QED
      BY <1>3, <2>1, Least
  <2>3. Min(wild) \in wild /\ \A m \in wild : Min(wild) <= m
    BY <2>2 DEF Min
  <2>4. LiteralPrefix(p) = Min(wild) - 1
    BY <1>3 DEF LiteralPrefix
  <2> DEFINE n == Min(wild)
  <2>5. n \in 1 .. Len(p) /\ p[n] \in Wild /\ \A i \in 1 .. Len(p) : p[i] \in Wild => n <= i
    BY <1>1, <2>3
  <2> HIDE DEF n
  <2>6. \A i \in 1 .. (n - 1) : p[i] \notin Wild
    <3> TAKE i \in 1 .. (n - 1)
    <3>1. i \in 1 .. Len(p) /\ ~(n <= i)
      BY <1>1, <2>5
    <3> QED
      BY <2>5, <3>1
  <2>7. LiteralPrefix(p) = n - 1
    BY <2>4 DEF n
  <2> QED
    BY <1>1, <2>5, <2>6, <2>7
<1> QED
  BY <1>2, <1>3

\* What a pattern matches begins with its literal prefix.
LEMMA MatchBegins ==
  ASSUME NEW p \in Texts, NEW c \in Texts, Matches(p, c)
  PROVE  /\ LiteralPrefix(p) \in 0 .. Len(c) /\ Len(c) \in Nat
         /\ \A i \in 1 .. LiteralPrefix(p) : c[i] = p[i]
<1>1. LiteralPrefix(p) <= Len(c) /\ \A i \in 1 .. LiteralPrefix(p) : c[i] = p[i]
  BY DEF Matches
<1>2. LiteralPrefix(p) \in Nat /\ Len(c) \in Nat
  BY PrefixEnds DEF Texts
<1> QED
  BY <1>1, <1>2

\* The rest of what it matches is made of what the rest of the pattern says, and
\* of what a wildcard takes.
LEMMA MatchGoesOn ==
  ASSUME NEW p \in Texts, NEW c \in Texts, Matches(p, c)
  PROVE  LET n == LiteralPrefix(p) IN
         /\ \A i \in n + 1 .. Len(c) : c[i] # LineBreak \/ \E k \in n + 1 .. Len(p) : p[k] = c[i]
         /\ \A k \in n + 1 .. Len(p) : p[k] \in Wild \/ \E i \in n + 1 .. Len(c) : p[k] = c[i]
<1> DEFINE n == LiteralPrefix(p)
<1>1. PICK at \in [n + 1 .. Len(c) -> n + 1 .. Len(p)] :
        /\ \A i \in DOMAIN at : IF p[at[i]] \in Wild THEN c[i] # LineBreak ELSE c[i] = p[at[i]]
        /\ \A k \in n + 1 .. Len(p) :
             p[k] # "*" => \E i \in DOMAIN at : {j \in DOMAIN at : at[j] = k} = {i}
  BY DEF Matches
<1>2. \A i \in n + 1 .. Len(c) : c[i] # LineBreak \/ \E k \in n + 1 .. Len(p) : p[k] = c[i]
  BY <1>1
<1>3. ASSUME NEW k \in n + 1 .. Len(p), p[k] \notin Wild
      PROVE  \E i \in n + 1 .. Len(c) : p[k] = c[i]
  <2>1. p[k] # "*"
    BY <1>3 DEF Wild
  <2>2. PICK i \in DOMAIN at : at[i] = k
    BY <1>1, <2>1
  <2> QED
    BY <1>1, <1>3, <2>2
<1> QED
  BY <1>2, <1>3

\* A pattern without a wildcard matches its own text and nothing else.
LEMMA LiteralMatches ==
  ASSUME NEW p \in Texts, NEW c \in Texts, Matches(p, c), LiteralPrefix(p) = Len(p)
  PROVE  c = p
<1>1. Len(p) \in Nat /\ Len(p) \in 0 .. Len(c) /\ Len(c) \in Nat /\ \A i \in 1 .. Len(p) : c[i] = p[i]
  BY MatchBegins, PrefixEnds
<1>2. Len(c) = Len(p)
  <2>1. SUFFICES ASSUME Len(c) > Len(p) PROVE FALSE
    BY <1>1
  <2>2. PICK at \in [Len(p) + 1 .. Len(c) -> Len(p) + 1 .. Len(p)] : TRUE
    BY DEF Matches
  <2>3. at[Len(c)] \in Len(p) + 1 .. Len(p)
    BY <1>1, <2>1, <2>2
  <2> QED
    BY <1>1, <2>3
<1> QED
  BY <1>1, <1>2, SeqEqual DEF Texts

\* A plain pattern with a wildcard ends in a star, which takes what is left of a
\* text unless there is a line break in it.
LEMMA PlainMatches ==
  ASSUME NEW p \in Texts, Plain(p), LiteralPrefix(p) # Len(p), NEW c \in Texts
  PROVE  Matches(p, c) <=> /\ LiteralPrefix(p) <= Len(c) /\ \A i \in 1 .. LiteralPrefix(p) : c[i] = p[i]
                           /\ \A i \in LiteralPrefix(p) + 1 .. Len(c) : c[i] # LineBreak
<1> DEFINE n == LiteralPrefix(p)
<1>1. n \in Nat /\ Len(p) \in Nat /\ Len(c) \in Nat /\ n < Len(p) /\ p[n + 1] \in Wild /\ DOMAIN p = 1 .. Len(p)
  BY PrefixEnds DEF Texts
<1>2. n + 1 \in DOMAIN p
  BY <1>1
<1>3. Len(p) = n + 1 /\ p[n + 1] = "*"
  BY <1>1, <1>2 DEF Plain
<1>4. ASSUME Matches(p, c) PROVE \A i \in n + 1 .. Len(c) : c[i] # LineBreak
  <2> SUFFICES ASSUME NEW i \in n + 1 .. Len(c), c[i] = LineBreak PROVE FALSE
    OBVIOUS
  <2>1. PICK k \in n + 1 .. Len(p) : p[k] = LineBreak
    BY <1>4, MatchGoesOn
  <2>2. k = n + 1
    BY <1>1, <1>3, <2>1
  <2> QED
    BY <1>3, <2>1, <2>2 DEF LineBreak
<1>5. ASSUME n <= Len(c), \A i \in 1 .. n : c[i] = p[i], \A i \in n + 1 .. Len(c) : c[i] # LineBreak
      PROVE  Matches(p, c)
  <2> DEFINE at == [i \in n + 1 .. Len(c) |-> n + 1]
  <2>1. at \in [n + 1 .. Len(c) -> n + 1 .. Len(p)]
    BY <1>1, <1>3
  <2>2. /\ \A i, j \in DOMAIN at : i <= j => at[i] <= at[j]
        /\ \A i \in DOMAIN at : IF p[at[i]] \in Wild THEN c[i] # LineBreak ELSE c[i] = p[at[i]]
    BY <1>1, <1>5
  <2>3. \A k \in n + 1 .. Len(p) : p[k] = "*"
    BY <1>1, <1>3
  <2> HIDE DEF at
  <2> QED
    BY <1>5, <2>1, <2>2, <2>3 DEF Matches
<1> QED
  BY <1>4, <1>5, MatchBegins DEF Matches

----------------------------------------------------------------------------

Matching(c, policy) == {r \in policy.rules : Matches(r.pattern, c)}

\* The literal prefix of a rule that matches is no longer than what it matches.
LEMMA MatchingLength ==
  ASSUME NEW r \in Rules, NEW c \in Texts, Matches(r.pattern, c)
  PROVE  Prefix(r) \in 0 .. Len(c) /\ Len(c) \in Nat
BY MatchBegins DEF Rules, Texts, Prefix

\* Of the rules that match there is a most specific one.
LEMMA MostSpecific ==
  ASSUME NEW policy \in Policies, NEW c \in Texts, Matching(c, policy) # {}
  PROVE  \E r \in Matching(c, policy) : \A s \in Matching(c, policy) : Overrides(r, s)
<1> DEFINE M == Matching(c, policy)
           spare == {n \in Nat : \E r \in M : n = Len(c) - Prefix(r)}
<1>1. \A r \in M : r \in Rules /\ Prefix(r) \in 0 .. Len(c) /\ Len(c) \in Nat
  BY MatchingLength DEF Matching, Policies
<1>2. spare \in SUBSET Nat /\ spare # {}
  <2>1. PICK r \in M : TRUE
    OBVIOUS
  <2>2. Len(c) - Prefix(r) \in Nat
    BY <1>1
  <2> QED
    BY <2>2
<1>3. PICK n \in spare : \A m \in spare : n <= m
  <2> HIDE DEF spare
  <2> QED
    BY <1>2, Least
<1>4. PICK long \in M : n = Len(c) - Prefix(long)
  BY <1>3
<1>5. \A s \in M : Prefix(s) <= Prefix(long)
  <2> TAKE s \in M
  <2>1. Len(c) - Prefix(s) \in Nat
    BY <1>1
  <2>2. n <= Len(c) - Prefix(s)
    BY <1>3, <2>1
  <2> QED
    BY <1>1, <1>4, <2>2
<1> DEFINE longest == {r \in M : Prefix(r) = Prefix(long)}
           leniency == {n_2 \in Nat : \E r \in longest : n_2 = 2 - Severity[r.decision]}
<1>6. \A r \in M : Severity[r.decision] \in 0 .. 2
  BY <1>1, Severities DEF Rules
<1>7. leniency \in SUBSET Nat /\ leniency # {}
  <2>1. 2 - Severity[long.decision] \in Nat
    BY <1>6
  <2> QED
    BY <2>1
<1>8. PICK k \in leniency : \A m \in leniency : k <= m
  <2> HIDE DEF leniency
  <2> QED
    BY <1>7, Least
<1>9. PICK r \in longest : k = 2 - Severity[r.decision]
  BY <1>8
<1>10. \A s \in longest : Severity[s.decision] <= Severity[r.decision]
  <2> TAKE s \in longest
  <2>1. 2 - Severity[s.decision] \in Nat
    BY <1>6
  <2>2. k <= 2 - Severity[s.decision]
    BY <1>8, <2>1
  <2> QED
    BY <1>6, <1>9, <2>2
<1>11. \A s \in M : Overrides(r, s)
  <2> TAKE s \in M
  <2>1. Prefix(s) \in Nat /\ Prefix(r) \in Nat /\ Prefix(s) <= Prefix(r)
    BY <1>1, <1>5, <1>9
  <2>2. CASE Prefix(s) = Prefix(r)
    BY <1>9, <1>10, <2>2 DEF Overrides, Prefix
  <2>3. CASE Prefix(s) # Prefix(r)
    BY <2>1, <2>3 DEF Overrides, Prefix
  <2> QED
    BY <2>2, <2>3
<1> QED
  BY <1>9, <1>11

\* A policy answers with a decision: the default, or that of a rule that is as
\* specific as any that matches.
LEMMA Resolved ==
  ASSUME NEW policy \in Policies, NEW c \in Texts
  PROVE  /\ Resolve(c, policy) \in Decisions
         /\ Matching(c, policy) = {} =>
              Resolve(c, policy) = IF Scoped(c) THEN policy.defaults[c[1]] ELSE "deny"
         /\ Matching(c, policy) # {} =>
              \E r \in Matching(c, policy) : /\ Resolve(c, policy) = r.decision
                                            /\ \A s \in Matching(c, policy) : Overrides(r, s)
<1>1. CASE Matching(c, policy) = {}
  <2>1. Resolve(c, policy) = IF Scoped(c) THEN policy.defaults[c[1]] ELSE "deny"
    BY <1>1 DEF Resolve, Matching
  <2> QED
    BY <1>1, <2>1, Severities DEF Policies, Scoped
<1>2. CASE Matching(c, policy) # {}
  <2> DEFINE r == CHOOSE x \in Matching(c, policy) : \A s \in Matching(c, policy) : Overrides(x, s)
  <2>1. r \in Matching(c, policy) /\ \A s \in Matching(c, policy) : Overrides(r, s)
    BY <1>2, MostSpecific
  <2>2. Resolve(c, policy) = r.decision
    BY <1>2 DEF Resolve, Matching
  <2>3. r.decision \in Decisions
    BY <2>1 DEF Matching, Policies, Rules
  <2> QED
    BY <1>2, <2>1, <2>2, <2>3
<1> QED
  BY <1>1, <1>2

----------------------------------------------------------------------------

\* A plain rule that matches a pattern, read as a text, matches whatever the
\* pattern matches.
LEMMA TextIsWidest ==
  ASSUME NEW q \in Texts, NEW t \in Texts, Plain(t), NEW c \in Texts, Matches(q, c), Matches(t, q)
  PROVE  Matches(t, c)
<1> DEFINE n == LiteralPrefix(q)
           m == LiteralPrefix(t)
<1>1. /\ n \in Nat /\ m \in Nat /\ Len(q) \in Nat /\ Len(c) \in Nat /\ n <= Len(q) /\ n <= Len(c)
      /\ n # Len(q) => q[n + 1] \in Wild
      /\ \A i \in 1 .. n : c[i] = q[i]
      /\ \A i \in 1 .. m : t[i] \notin Wild
  BY PrefixEnds, MatchBegins
<1>2. CASE n = Len(q)
  BY <1>2, LiteralMatches
<1>3. CASE n # Len(q)
  <2>1. m # Len(t)
    <3>1. SUFFICES ASSUME m = Len(t) PROVE FALSE
      OBVIOUS
    <3>2. q = t
      BY <3>1, LiteralMatches
    <3> QED
      BY <1>3, <3>1, <3>2
  <2>2. /\ m <= Len(q) /\ \A i \in 1 .. m : q[i] = t[i]
        /\ \A i \in m + 1 .. Len(q) : q[i] # LineBreak
    BY <2>1, PlainMatches
  <2>3. m <= n
    <3>1. SUFFICES ASSUME n < m PROVE FALSE
      BY <1>1
    <3>2. n + 1 \in 1 .. m
      BY <1>1, <3>1
    <3> QED
      BY <1>1, <1>3, <2>2, <3>2
  <2>4. \A i \in 1 .. m : c[i] = t[i]
    BY <1>1, <2>2, <2>3
  <2>5. ASSUME NEW i \in m + 1 .. Len(c) PROVE c[i] # LineBreak
    <3>1. CASE i <= n
      <4>1. i \in 1 .. n /\ i \in m + 1 .. Len(q)
        BY <1>1, <3>1
      <4> QED
        BY <1>1, <2>2, <4>1
    <3>2. CASE ~(i <= n)
      <4>1. i \in n + 1 .. Len(c)
        BY <1>1, <3>2
      <4>2. CASE \E k \in n + 1 .. Len(q) : q[k] = c[i]
        <5>1. PICK k \in n + 1 .. Len(q) : q[k] = c[i]
          BY <4>2
        <5>2. k \in m + 1 .. Len(q)
          BY <1>1, <2>3
        <5> QED
          BY <2>2, <5>1, <5>2
      <4> QED
        BY <4>1, <4>2, MatchGoesOn
    <3> QED
      BY <3>1, <3>2
  <2>6. m <= Len(c)
    BY <1>1, <2>3
  <2> QED
    BY <2>1, <2>4, <2>5, <2>6, PlainMatches
<1> QED
  BY <1>2, <1>3

\* A plain rule with the shorter literal prefix matches, of what they both match,
\* the text of the other one as well.
LEMMA ShorterMatchesText ==
  ASSUME NEW q \in Texts, NEW s \in Texts, Plain(s), NEW c \in Texts, Matches(q, c), Matches(s, c),
         LiteralPrefix(s) < LiteralPrefix(q)
  PROVE  Matches(s, q)
<1> DEFINE n == LiteralPrefix(q)
           m == LiteralPrefix(s)
<1>1. /\ n \in Nat /\ m \in Nat /\ Len(q) \in Nat /\ Len(c) \in Nat /\ n <= Len(q) /\ n <= Len(c)
      /\ \A i \in 1 .. n : c[i] = q[i]
  BY PrefixEnds, MatchBegins
<1>2. m # Len(s)
  <2>1. SUFFICES ASSUME m = Len(s) PROVE FALSE
    OBVIOUS
  <2>2. c = s
    BY <2>1, LiteralMatches
  <2> QED
    BY <1>1, <2>1, <2>2
<1>3. /\ \A i \in 1 .. m : c[i] = s[i]
      /\ \A i \in m + 1 .. Len(c) : c[i] # LineBreak
  BY <1>2, PlainMatches
<1>4. m <= Len(q) /\ \A i \in 1 .. m : q[i] = s[i]
  BY <1>1, <1>3
<1>5. ASSUME NEW k \in m + 1 .. Len(q) PROVE q[k] # LineBreak
  <2>1. CASE k <= n
    <3>1. k \in 1 .. n /\ k \in m + 1 .. Len(c)
      BY <1>1, <2>1
    <3> QED
      BY <1>1, <1>3, <3>1
  <2>2. CASE ~(k <= n)
    <3>1. k \in n + 1 .. Len(q)
      BY <1>1, <2>2
    <3>2. CASE q[k] \in Wild
      BY <3>2 DEF Wild, LineBreak
    <3>3. CASE \E i \in n + 1 .. Len(c) : q[k] = c[i]
      <4>1. PICK i \in n + 1 .. Len(c) : q[k] = c[i]
        BY <3>3
      <4>2. i \in m + 1 .. Len(c)
        BY <1>1
      <4> QED
        BY <1>3, <4>1, <4>2
    <3> QED
      BY <3>1, <3>2, <3>3, MatchGoesOn
  <2> QED
    BY <2>1, <2>2
<1> QED
  BY <1>2, <1>4, <1>5, PlainMatches

\* A pattern that begins with a scope matches texts of that scope.
LEMMA SameScope ==
  ASSUME NEW q \in Texts, NEW c \in Texts, Matches(q, c), Scoped(q)
  PROVE  Scoped(c) /\ c[1] = q[1]
<1> DEFINE n == LiteralPrefix(q)
<1>1. /\ n \in Nat /\ Len(q) \in Nat /\ Len(c) \in Nat /\ n <= Len(q) /\ n <= Len(c)
      /\ n # Len(q) => q[n + 1] \in Wild
      /\ \A i \in 1 .. n : c[i] = q[i]
  BY PrefixEnds, MatchBegins
<1>2. Len(q) > 0 /\ q[1] \in Scopes /\ (Len(q) > 1 => q[2] = ":")
  BY DEF Scoped
<1>3. q[1] \notin Wild /\ (Len(q) > 1 => q[2] \notin Wild)
  BY <1>2 DEF Scopes, Wild
<1>4. CASE n = Len(q)
  BY <1>4, LiteralMatches
<1>5. CASE n # Len(q)
  <2>1. n # 0
    BY <1>1, <1>3, <1>5
  <2>2. n # 1
    BY <1>1, <1>3, <1>5
  <2>3. 1 \in 1 .. n /\ 2 \in 1 .. n /\ Len(q) > 1 /\ Len(c) > 1
    BY <1>1, <2>1, <2>2
  <2>4. c[1] = q[1] /\ c[2] = q[2]
    BY <1>1, <2>3
  <2> QED
    BY <1>2, <2>3, <2>4 DEF Scoped
<1> QED
  BY <1>4, <1>5

\* An answer depends on the rules that match and the default alone.
LEMMA SameRules ==
  ASSUME NEW p, NEW q, NEW c, Matching(c, p) = Matching(c, q), p.defaults = q.defaults
  PROVE  Resolve(c, p) = Resolve(c, q)
<1> DEFINE Decision(M, defaults) ==
             IF M # {} THEN (CHOOSE r \in M : \A s \in M : Overrides(r, s)).decision
             ELSE IF Scoped(c) THEN defaults[c[1]] ELSE "deny"
<1>1. Resolve(c, p) = Decision(Matching(c, p), p.defaults)
  BY DEF Resolve, Matching
<1>2. Resolve(c, q) = Decision(Matching(c, q), q.defaults)
  BY DEF Resolve, Matching
<1> HIDE DEF Decision
<1> QED
  BY <1>1, <1>2

\* Two rules each of which overrides the other decide alike.
LEMMA OverridesBothWays ==
  ASSUME NEW r \in Rules, NEW s \in Rules, Overrides(r, s), Overrides(s, r)
  PROVE  Prefix(r) = Prefix(s) /\ r.decision = s.decision
<1>1. Prefix(r) \in Nat /\ Prefix(s) \in Nat /\ r.decision \in Decisions /\ s.decision \in Decisions
  BY PrefixEnds DEF Rules, Texts, Prefix
<1>2. Severity[r.decision] \in 0 .. 2 /\ Severity[s.decision] \in 0 .. 2
  BY <1>1, Severities
<1>3. Prefix(r) = Prefix(s) /\ Severity[r.decision] = Severity[s.decision]
  BY <1>1, <1>2 DEF Overrides, Prefix
<1> QED
  BY <1>1, <1>3, Severities

AllPlain(policy) == \A r \in policy.rules : Plain(r.pattern)

\* A policy of plain rules says to a pattern, read as a text, no less than to
\* what the pattern matches, unless a rule that is more specific than the pattern
\* decides the latter.
LEMMA TextDecides ==
  ASSUME NEW base \in Policies, AllPlain(base), NEW q \in Rules, NEW c \in Texts, Matches(q.pattern, c),
         Severity[q.decision] > Freedom(q.pattern, base)
  PROVE  \/ Freedom(c, base) = Freedom(q.pattern, base)
         \/ \E s \in Matching(c, base) : Resolve(c, base) = s.decision /\ Prefix(s) >= Prefix(q)
<1> DEFINE text == q.pattern
<1>1. text \in Texts /\ q.decision \in Decisions
  BY DEF Rules, Texts
<1>2. \A r \in base.rules : r \in Rules /\ r.pattern \in Texts /\ Plain(r.pattern) /\ Prefix(r) \in Nat
  BY PrefixEnds DEF AllPlain, Policies, Rules, Texts, Prefix
<1>3. \A r \in Matching(text, base) : r \in Matching(c, base)
  BY <1>1, <1>2, TextIsWidest DEF Matching
<1>4. CASE Matching(c, base) = {}
  <2>1. Matching(text, base) = {}
    BY <1>3, <1>4
  <2>2. Resolve(text, base) = IF Scoped(text) THEN base.defaults[text[1]] ELSE "deny"
    BY <1>1, <2>1, Resolved
  <2>3. Scoped(text)
    <3>1. SUFFICES ASSUME ~Scoped(text) PROVE FALSE
      OBVIOUS
    <3>2. Freedom(text, base) = 2
      BY <2>2, <3>1, Severities DEF Freedom
    <3>3. Severity[q.decision] \in 0 .. 2
      BY <1>1, Severities
    <3> QED
      BY <3>2, <3>3
  <2>4. Scoped(c) /\ c[1] = text[1]
    BY <1>1, <2>3, SameScope
  <2>5. Resolve(c, base) = base.defaults[c[1]]
    BY <1>4, <2>4, Resolved
  <2> QED
    BY <2>2, <2>3, <2>4, <2>5 DEF Freedom
<1>5. CASE Matching(c, base) # {}
  <2>1. PICK s \in Matching(c, base) :
          Resolve(c, base) = s.decision /\ \A r \in Matching(c, base) : Overrides(s, r)
    BY <1>5, Resolved
  <2>2. s \in base.rules /\ s \in Rules /\ Matches(s.pattern, c) /\ Prefix(s) \in Nat /\ Prefix(q) \in Nat
    BY <1>1, <1>2, PrefixEnds DEF Matching, Prefix
  <2>3. CASE Prefix(s) < Prefix(q)
    <3>1. s \in Matching(text, base)
      BY <1>1, <1>2, <2>2, <2>3, ShorterMatchesText DEF Matching, Prefix
    <3>2. PICK t \in Matching(text, base) :
            Resolve(text, base) = t.decision /\ \A r \in Matching(text, base) : Overrides(t, r)
      BY <1>1, <3>1, Resolved
    <3>3. Overrides(t, s) /\ Overrides(s, t) /\ t \in Rules
      BY <1>2, <1>3, <2>1, <3>1, <3>2 DEF Matching
    <3>4. t.decision = s.decision
      BY <2>2, <3>3, OverridesBothWays
    <3> QED
      BY <2>1, <3>2, <3>4 DEF Freedom
  <2>4. CASE ~(Prefix(s) < Prefix(q))
    BY <2>1, <2>2, <2>4
  <2> QED
    BY <2>3, <2>4
<1> QED
  BY <1>4, <1>5

\* A policy with one more rule is a policy.
LEMMA TightenedType ==
  ASSUME NEW policy \in Policies, NEW q \in Rules
  PROVE  Tightened(policy, q) \in Policies
BY DEF Tightened, Policies

\* A policy that is stricter than the base, and has its rules.
Stricter(policy, base) ==
  /\ policy \in Policies /\ base.rules \subseteq policy.rules
  /\ \A c \in Texts : Freedom(c, base) <= Freedom(c, policy)

LEMMA FreedomType ==
  ASSUME NEW p \in Policies, NEW c \in Texts
  PROVE  Freedom(c, p) \in 0 .. 2
BY Resolved, Severities DEF Freedom

\* A further rule of the project leaves nothing freer than the plain base.
LEMMA RuleTightens ==
  ASSUME NEW base \in Policies, AllPlain(base), NEW policy, Stricter(policy, base), NEW q \in Rules
  PROVE  Stricter(Tightened(policy, q), base)
<1>1. policy \in Policies /\ base.rules \subseteq policy.rules /\ q.pattern \in Texts /\ q.decision \in Decisions
  BY DEF Stricter, Rules, Texts
<1>2. CASE ~(Severity[q.decision] > Severity[Resolve(q.pattern, policy)])
  <2>1. Tightened(policy, q) = policy
    BY <1>2 DEF Tightened
  <2> QED
    BY <2>1
<1>3. CASE Severity[q.decision] > Severity[Resolve(q.pattern, policy)]
  <2> DEFINE next == [policy EXCEPT !.rules = @ \union {q}]
  <2>1. Tightened(policy, q) = next
    BY <1>3 DEF Tightened
  <2>2. next \in Policies /\ next.rules = policy.rules \union {q} /\ next.defaults = policy.defaults
    BY <1>1 DEF Policies
  <2> HIDE DEF next
  <2>3. Freedom(q.pattern, base) \in 0 .. 2 /\ Freedom(q.pattern, policy) \in 0 .. 2 /\ Severity[q.decision] \in 0 .. 2
    BY <1>1, FreedomType, Severities
  <2>4. Severity[q.decision] > Freedom(q.pattern, base)
    <3>1. Freedom(q.pattern, base) <= Freedom(q.pattern, policy) /\ Severity[q.decision] > Freedom(q.pattern, policy)
      BY <1>1, <1>3 DEF Stricter, Freedom
    <3> HIDE DEF Freedom
    <3> QED
      BY <2>3, <3>1
  <2>5. ASSUME NEW c \in Texts
        PROVE  Freedom(c, base) <= Freedom(c, next)
    <3>1. Freedom(c, base) \in 0 .. 2 /\ Freedom(c, policy) \in 0 .. 2 /\ Freedom(c, next) \in 0 .. 2
      BY <1>1, <2>2, FreedomType
    <3>2. Freedom(c, base) <= Freedom(c, policy)
      BY DEF Stricter
    <3>3. CASE ~Matches(q.pattern, c)
      <4>1. Matching(c, next) = Matching(c, policy)
        BY <2>2, <3>3 DEF Matching
      <4>2. Resolve(c, next) = Resolve(c, policy)
        BY <2>2, <4>1, SameRules
      <4> QED
        BY <3>2, <4>2 DEF Freedom
    <3>4. CASE Matches(q.pattern, c)
      <4>1. Matching(c, next) = Matching(c, policy) \union {q}
        BY <2>2, <3>4 DEF Matching
      <4>2. PICK top \in Matching(c, next) :
              Resolve(c, next) = top.decision /\ \A s \in Matching(c, next) : Overrides(top, s)
        BY <2>2, <4>1, Resolved
      <4>3. top \in Rules
        BY <2>2, <4>2 DEF Matching, Policies
      <4>4. CASE top \in Matching(c, policy)
        <5>1. PICK best \in Matching(c, policy) :
                Resolve(c, policy) = best.decision /\ \A s \in Matching(c, policy) : Overrides(best, s)
          BY <1>1, <4>4, Resolved
        <5>2. best \in Rules /\ Overrides(best, top) /\ Overrides(top, best)
          BY <1>1, <4>1, <4>2, <4>4, <5>1 DEF Matching, Policies
        <5>3. Resolve(c, next) = Resolve(c, policy)
          BY <4>2, <4>3, <5>1, <5>2, OverridesBothWays
        <5> QED
          BY <3>2, <5>3 DEF Freedom
      <4>5. CASE top = q
        <5>1. Freedom(c, next) = Severity[q.decision]
          BY <4>2, <4>5 DEF Freedom
        <5>2. CASE Freedom(c, base) = Freedom(q.pattern, base)
          <6> HIDE DEF Freedom
          <6> QED
            BY <2>3, <2>4, <5>1, <5>2
        <5>3. CASE \E s \in Matching(c, base) : Resolve(c, base) = s.decision /\ Prefix(s) >= Prefix(q)
          <6>1. PICK s \in Matching(c, base) : Resolve(c, base) = s.decision /\ Prefix(s) >= Prefix(q)
            BY <5>3
          <6>2. s \in Matching(c, next) /\ s \in Rules
            BY <1>1, <2>2, <6>1 DEF Matching, Policies
          <6>3. Overrides(q, s)
            BY <4>2, <4>5, <6>2
          <6>4. Prefix(s) \in Nat /\ Prefix(q) \in Nat
            BY <1>1, <6>2, PrefixEnds DEF Rules, Texts, Prefix
          <6>5. Severity[q.decision] >= Severity[s.decision]
            BY <6>1, <6>3, <6>4 DEF Overrides, Prefix
          <6>6. Freedom(c, base) = Severity[s.decision]
            BY <6>1 DEF Freedom
          <6> HIDE DEF Freedom
          <6> QED
            BY <2>3, <3>1, <5>1, <6>5, <6>6
        <5> QED
          BY <2>4, <3>4, <5>2, <5>3, TextDecides
      <4> QED
        BY <4>1, <4>2, <4>4, <4>5
    <3> QED
      BY <3>3, <3>4
  <2>6. base.rules \subseteq next.rules
    BY <1>1, <2>2
  <2> QED
    BY <2>1, <2>2, <2>5, <2>6 DEF Stricter
<1> QED
  BY <1>2, <1>3

----------------------------------------------------------------------------

Defaults == [Scopes -> Decisions \union {Unset}]

\* The user's own policy is a policy.
LEMMA UserPolicyType ==
  ASSUME NEW store, store.defaults \in Defaults, store.rules \in SUBSET Rules
  PROVE  UserPolicy(store) \in Policies
<1>1. \A s \in Scopes : BuiltinDefaults[s] \in Decisions
  BY Severities DEF BuiltinDefaults
<1>2. \A s \in Scopes : store.defaults[s] # Unset => store.defaults[s] \in Decisions
  BY DEF Defaults
<1> QED
  BY <1>1, <1>2 DEF UserPolicy, Policies

\* The project's defaults make nothing freer; a project without any leaves the
\* policy as it is.
LEMMA DefaultsTighten ==
  ASSUME NEW policy \in Policies, NEW defaults \in Defaults
  PROVE  /\ TightenedDefaults(policy, defaults) \in Policies
         /\ TightenedDefaults(policy, defaults).rules = policy.rules
         /\ \A c \in Texts : Freedom(c, policy) <= Freedom(c, TightenedDefaults(policy, defaults))
         /\ (\A s \in Scopes : defaults[s] = Unset) => TightenedDefaults(policy, defaults) = policy
<1> DEFINE next == TightenedDefaults(policy, defaults)
<1>1. /\ next.rules = policy.rules /\ DOMAIN next = DOMAIN policy
      /\ next.defaults = [s \in Scopes |->
           IF defaults[s] # Unset /\ Severity[defaults[s]] > Severity[policy.defaults[s]]
             THEN defaults[s] ELSE policy.defaults[s]]
  BY DEF TightenedDefaults, Policies
<1>2. next.defaults \in [Scopes -> Decisions]
  BY <1>1 DEF Defaults, Policies
<1>3. next = [defaults |-> next.defaults, rules |-> next.rules]
  BY <1>1 DEF TightenedDefaults, Policies
<1>4. next \in Policies
  BY <1>1, <1>2, <1>3 DEF Policies
<1>5. \A s \in Scopes : Severity[policy.defaults[s]] <= Severity[next.defaults[s]]
  <2> TAKE s \in Scopes
  <2>1. policy.defaults[s] \in Decisions
    BY DEF Policies
  <2>2. Severity[policy.defaults[s]] \in 0 .. 2
    BY <2>1, Severities
  <2>3. CASE defaults[s] # Unset /\ Severity[defaults[s]] > Severity[policy.defaults[s]]
    <3>1. Severity[defaults[s]] \in 0 .. 2
      BY <2>3, Severities DEF Defaults
    <3> QED
      BY <1>1, <2>2, <2>3, <3>1
  <2>4. CASE ~(defaults[s] # Unset /\ Severity[defaults[s]] > Severity[policy.defaults[s]])
    BY <1>1, <2>2, <2>4
  <2> QED
    BY <2>3, <2>4
<1>6. ASSUME NEW c \in Texts
      PROVE  Freedom(c, policy) <= Freedom(c, next)
  <2>1. Matching(c, next) = Matching(c, policy)
    BY <1>1 DEF Matching
  <2>2. CASE Matching(c, policy) = {}
    <3>1. CASE Scoped(c)
      <4>1. Resolve(c, policy) = policy.defaults[c[1]] /\ Resolve(c, next) = next.defaults[c[1]] /\ c[1] \in Scopes
        BY <1>4, <2>1, <2>2, <3>1, Resolved DEF Scoped
      <4> QED
        BY <1>5, <4>1 DEF Freedom
    <3>2. CASE ~Scoped(c)
      <4>1. Resolve(c, policy) = "deny" /\ Resolve(c, next) = "deny"
        BY <1>4, <2>1, <2>2, <3>2, Resolved
      <4> QED
        BY <4>1, Severities DEF Freedom
    <3> QED
      BY <3>1, <3>2
  <2>3. CASE Matching(c, policy) # {}
    <3>1. PICK r \in Matching(c, policy) :
            Resolve(c, policy) = r.decision /\ \A s \in Matching(c, policy) : Overrides(r, s)
      BY <2>3, Resolved
    <3>2. PICK t \in Matching(c, policy) :
            Resolve(c, next) = t.decision /\ \A s \in Matching(c, policy) : Overrides(t, s)
      BY <1>4, <2>1, <2>3, Resolved
    <3>3. r \in Rules /\ t \in Rules /\ Overrides(r, t) /\ Overrides(t, r)
      BY <3>1, <3>2 DEF Matching, Policies
    <3>4. Resolve(c, next) = Resolve(c, policy) /\ Severity[Resolve(c, policy)] \in 0 .. 2
      BY <3>1, <3>2, <3>3, OverridesBothWays, Resolved, Severities
    <3> QED
      BY <3>4 DEF Freedom
  <2> QED
    BY <2>2, <2>3
<1>7. ASSUME \A s \in Scopes : defaults[s] = Unset
      PROVE  next = policy
  <2>1. next.defaults = policy.defaults
    BY <1>1, <1>7 DEF Policies
  <2>2. policy = [defaults |-> policy.defaults, rules |-> policy.rules]
    BY DEF Policies
  <2> QED
    BY <1>1, <1>3, <2>1, <2>2
<1> QED
  BY <1>1, <1>4, <1>6, <1>7

\* The policies after each of the project's rules exist.
Chain(f, n, base, rules) ==
  f = [i \in 0 .. n |-> IF i = 0 THEN base ELSE Tightened(f[i - 1], rules[i])]

LEMMA ChainExists ==
  ASSUME NEW base, NEW rules, NEW n \in Nat
  PROVE  \E f : Chain(f, n, base, rules)
<1> DEFINE bad == {m \in Nat : ~ \E f : Chain(f, m, base, rules)}
<1>1. SUFFICES bad = {}
  OBVIOUS
<1>2. SUFFICES ASSUME bad # {} PROVE FALSE
  OBVIOUS
<1>3. PICK m \in bad : \A k \in bad : m <= k
  <2>1. bad \in SUBSET Nat
    OBVIOUS
  <2> HIDE DEF bad
  <2> QED
    BY <1>2, <2>1, Least
<1>4. CASE m = 0
  <2> DEFINE f == [i \in 0 .. 0 |-> base]
  <2>1. f = [i \in 0 .. 0 |-> IF i = 0 THEN base ELSE Tightened(f[i - 1], rules[i])]
    OBVIOUS
  <2> QED
    BY <1>3, <1>4, <2>1 DEF Chain
<1>5. CASE m # 0
  <2>1. m - 1 \in Nat /\ m - 1 \notin bad
    BY <1>3, <1>5
  <2>2. PICK g : Chain(g, m - 1, base, rules)
    BY <2>1
  <2> DEFINE f == [i \in 0 .. m |-> IF i = m THEN Tightened(g[m - 1], rules[m]) ELSE g[i]]
  <2>3. \A i \in 0 .. m : f[i] = IF i = 0 THEN base ELSE Tightened(f[i - 1], rules[i])
    <3> TAKE i \in 0 .. m
    <3>1. CASE i = m
      <4>1. f[i] = Tightened(g[m - 1], rules[m]) /\ f[i - 1] = g[m - 1]
        BY <1>5, <2>1, <3>1
      <4> QED
        BY <1>5, <3>1, <4>1
    <3>2. CASE i # m
      <4>1. i \in 0 .. (m - 1) /\ f[i] = g[i]
        BY <2>1, <3>2
      <4>2. g[i] = IF i = 0 THEN base ELSE Tightened(g[i - 1], rules[i])
        BY <2>2, <4>1 DEF Chain
      <4>3. i # 0 => f[i - 1] = g[i - 1]
        BY <2>1, <4>1
      <4> QED
        BY <4>1, <4>2, <4>3
    <3> QED
      BY <3>1, <3>2
  <2>4. Chain(f, m, base, rules)
    <3>1. f = [i \in 0 .. m |-> f[i]]
      OBVIOUS
    <3> HIDE DEF f
    <3> QED
      BY <2>3, <3>1 DEF Chain
  <2> QED
    BY <1>3, <2>4
<1> QED
  BY <1>4, <1>5

\* However many rules the project has, and in whatever order, the merge is a
\* policy, under which nothing is freer than under the user's when that one has
\* plain rules only.
LEMMA MergeTightens ==
  ASSUME NEW store, store.defaults \in Defaults, store.rules \in SUBSET Rules,
         NEW files, files.defaults \in Defaults, files.rules \in Seq(Rules)
  PROVE  /\ MergePermissions(store, files) \in Policies
         /\ AllPlain(UserPolicy(store)) =>
              \A c \in Texts : Freedom(c, UserPolicy(store)) <= Freedom(c, MergePermissions(store, files))
<1> DEFINE base == TightenedDefaults(UserPolicy(store), files.defaults)
           N == Len(files.rules)
           f == CHOOSE after : after = [n \in 0 .. N |->
                  IF n = 0 THEN base ELSE Tightened(after[n - 1], files.rules[n])]
<1>1. N \in Nat
  OBVIOUS
<1>2. f = [n \in 0 .. N |-> IF n = 0 THEN base ELSE Tightened(f[n - 1], files.rules[n])]
  <2>1. \E after : after = [n \in 0 .. N |-> IF n = 0 THEN base ELSE Tightened(after[n - 1], files.rules[n])]
    <3> HIDE DEF base, N
    <3>1. PICK g : Chain(g, N, base, files.rules)
      BY <1>1, ChainExists
    <3>2. g = [n \in 0 .. N |-> IF n = 0 THEN base ELSE Tightened(g[n - 1], files.rules[n])]
      BY <3>1 DEF Chain
    <3> WITNESS g
    <3> QED
      BY <3>2
  <2> QED
    BY <2>1
<1>3. MergePermissions(store, files) = f[N]
  BY DEF MergePermissions
<1> HIDE DEF f
<1>4. /\ UserPolicy(store) \in Policies /\ base \in Policies /\ base.rules = UserPolicy(store).rules
      /\ \A c \in Texts : Freedom(c, UserPolicy(store)) <= Freedom(c, base)
  BY UserPolicyType, DefaultsTighten
<1> HIDE DEF base, N
<1> DEFINE Good(p) == p \in Policies /\ (AllPlain(base) => Stricter(p, base))
           bad == {n \in 0 .. N : ~Good(f[n])}
<1>5. bad = {}
  <2>1. SUFFICES ASSUME bad # {} PROVE FALSE
    OBVIOUS
  <2>2. PICK m \in bad : \A k \in bad : m <= k
    <3>1. bad \in SUBSET Nat
      BY <1>1
    <3> HIDE DEF bad
    <3> QED
      BY <2>1, <3>1, Least
  <2>3. m \in 0 .. N /\ ~Good(f[m])
    BY <2>2
  <2>4. CASE m = 0
    <3>1. f[m] = base
      BY <1>1, <1>2, <2>4
    <3>2. \A c \in Texts : Freedom(c, base) <= Freedom(c, base)
      BY <1>4, FreedomType
    <3>3. Stricter(base, base)
      BY <1>4, <3>2 DEF Stricter
    <3> QED
      BY <1>4, <2>3, <3>1, <3>3
  <2>5. CASE m # 0
    <3>1. m - 1 \in 0 .. N /\ m - 1 \notin bad
      <4>1. m - 1 \in 0 .. N /\ ~(m <= m - 1)
        BY <1>1, <2>3, <2>5
      <4> HIDE DEF bad
      <4> QED
        BY <2>2, <4>1
    <3>2. Good(f[m - 1])
      BY <3>1
    <3>3. f[m] = Tightened(f[m - 1], files.rules[m])
      BY <1>1, <1>2, <2>3, <2>5
    <3>4. files.rules[m] \in Rules
      BY <1>1, <2>3, <2>5 DEF N
    <3>5. f[m] \in Policies
      BY <3>2, <3>3, <3>4, TightenedType
    <3>6. AllPlain(base) => Stricter(f[m], base)
      BY <1>4, <3>2, <3>3, <3>4, RuleTightens
    <3> QED
      BY <2>3, <3>5, <3>6
  <2> QED
    BY <2>3, <2>4, <2>5
<1>6. Good(f[N])
  BY <1>1, <1>5
<1> HIDE DEF bad, f
<1>7. ASSUME AllPlain(UserPolicy(store)), NEW c \in Texts
      PROVE  Freedom(c, UserPolicy(store)) <= Freedom(c, MergePermissions(store, files))
  <2>1. AllPlain(base)
    BY <1>4, <1>7 DEF AllPlain
  <2>2. Freedom(c, base) <= Freedom(c, f[N]) /\ Freedom(c, UserPolicy(store)) <= Freedom(c, base)
    BY <1>4, <1>6, <2>1 DEF Stricter
  <2>3. Freedom(c, UserPolicy(store)) \in 0 .. 2 /\ Freedom(c, base) \in 0 .. 2 /\ Freedom(c, f[N]) \in 0 .. 2
    BY <1>4, <1>6, FreedomType
  <2> HIDE DEF Freedom
  <2> QED
    BY <1>3, <2>2, <2>3
<1> QED
  BY <1>3, <1>6, <1>7

----------------------------------------------------------------------------

\* What a project's files are, by assumption.
LEMMA ProjectTypes ==
  ASSUME NEW p \in Projects
  PROVE  p.defaults \in Defaults /\ p.rules \in Seq(Rules) /\ p.secrets.floor \in Int
BY GuardAssumption DEF GuardAssumption, Defaults

\* What a call asks for is what a policy answers to.
LEMMA CallTypes ==
  ASSUME NEW c \in Calls
  PROVE  ClassifyScopes(c) \subseteq Texts /\ \A x \in ClassifyScopes(c) : Scoped(x)
BY GuardAssumption DEF GuardAssumption, Texts

\* Some decision of several is the strictest.
LEMMA SomeStrictest ==
  ASSUME NEW D \in SUBSET Decisions, D # {}
  PROVE  Strictest(D) \in D /\ \A e \in D : Severity[e] <= Severity[Strictest(D)]
<1>1. \E d \in D : \A e \in D : Severity[e] <= Severity[d]
  <2>1. CASE "deny" \in D
    BY <2>1, Severities
  <2>2. CASE "deny" \notin D /\ "ask" \in D
    BY <2>2, Severities
  <2>3. CASE "deny" \notin D /\ "ask" \notin D
    <3>1. PICK d \in D : TRUE
      OBVIOUS
    <3>2. \A e \in D : e = "allow"
      BY <2>3, Severities
    <3>3. \A e \in D : Severity[e] <= Severity[d]
      BY <3>1, <3>2, Severities
    <3> QED
      BY <3>1, <3>3
  <2> QED
    BY <2>1, <2>2, <2>3
<1> QED
  BY <1>1 DEF Strictest

\* A call that is not refused has no scope that is, one that is allowed only
\* scopes that are.
LEMMA AllOfThem ==
  ASSUME NEW policy \in Policies, NEW C \in SUBSET Texts
  PROVE  /\ ResolveAll(C, policy) = "allow" => \A c \in C : Resolve(c, policy) = "allow"
         /\ ResolveAll(C, policy) # "deny" => \A c \in C : Resolve(c, policy) \in {"allow", "ask"}
<1>1. CASE C = {}
  BY <1>1
<1>2. CASE C # {}
  <2> DEFINE D == {Resolve(c, policy) : c \in C}
  <2>1. D \in SUBSET Decisions /\ D # {}
    BY <1>2, Resolved
  <2>2. ResolveAll(C, policy) = Strictest(D)
    BY <1>2 DEF ResolveAll
  <2>3. ResolveAll(C, policy) \in Decisions /\ \A c \in C : Severity[Resolve(c, policy)] <= Severity[ResolveAll(C, policy)]
    <3> HIDE DEF D
    <3>1. Strictest(D) \in D /\ \A e \in D : Severity[e] <= Severity[Strictest(D)]
      BY <2>1, SomeStrictest
    <3>2. \A c \in C : Resolve(c, policy) \in D
      BY DEF D
    <3> QED
      BY <2>1, <2>2, <3>1, <3>2
  <2>4. \A c \in C : Resolve(c, policy) \in Decisions
    BY Resolved
  <2> QED
    BY <2>3, <2>4, Severities
<1> QED
  BY <1>1, <1>2

----------------------------------------------------------------------------

Surfaces == {ProjectSurface(p.declares, q) : p \in Projects, q \in Projects}

Stores == [defaults : Defaults, rules : SUBSET Rules, trust : SUBSET Surfaces]

UserOK == user \in Stores /\ (user.trust = {} \/ \E t \in Surfaces : user.trust = {t})

Secretive(secrets) ==
  /\ UserSecrets.names \subseteq secrets.names
  /\ secrets.floor <= UserSecrets.floor
  /\ secrets.passthrough \subseteq UserSecrets.passthrough

StateOK ==
  /\ state.policy \in Policies /\ state.load \in Nat
  /\ \E p \in Projects : state.declares = p.declares
  /\ Secretive(state.secrets)

\* The cached answers are of one load and one for each capability.
AnswersOK ==
  /\ \A a \in answers : a.load = under
  /\ \A a, b \in answers : a.capability = b.capability => a = b

Permitted(c) ==
  \/ Resolve(c, state.policy) = "allow"
  \/ /\ Resolve(c, state.policy) = "ask"
     /\ \E a \in answers : a.capability = c /\ a.yes /\ a.load = state.load

\* A question is asked under the policy it was raised by.
CallOK ==
  /\ call.phase \in {"none", "asking", "ran", "refused"}
  /\ call.capabilities \in SUBSET Texts /\ \A c \in call.capabilities : Scoped(c)
  /\ call.phase = "asking" =>
       under = state.load /\ \A c \in call.capabilities : Resolve(c, state.policy) \in {"allow", "ask"}
  /\ call.phase = "ran" => \A c \in call.capabilities : Permitted(c)

\* The inductive invariant.
Inv ==
  /\ project \in Projects /\ seen \in Projects /\ level \in Levels
  /\ UserOK /\ StateOK /\ AnswersOK /\ CallOK

\* A policy with a safety level over it is a policy.
LEMMA SafetyType ==
  ASSUME NEW policy \in Policies, NEW lev \in Levels
  PROVE  ApplySafetyLevel(policy, lev) \in Policies
<1>1. CASE lev = Unset
  BY <1>1 DEF ApplySafetyLevel
<1>2. CASE lev # Unset
  <2>1. lev \in DOMAIN SafetyProfiles
    BY <1>2, GuardAssumption DEF GuardAssumption
  <2>2. \A l \in DOMAIN SafetyProfiles : SafetyProfiles[l] \in [Scopes -> Decisions]
    BY Severities DEF SafetyProfiles, BuiltinDefaults
  <2> QED
    BY <1>2, <2>1, <2>2 DEF ApplySafetyLevel, Policies
<1> QED
  BY <1>1, <1>2

\* What a load leaves behind.
LEMMA Loading ==
  ASSUME NEW files \in Projects, NEW store \in Stores, NEW lev \in Levels, NEW n \in Nat
  PROVE  LET s == LoadConfig(files, store, lev, n) IN
         /\ s.policy \in Policies /\ s.load = n /\ s.declares = files.declares
         /\ Secretive(s.secrets)
<1>1. MergePermissions(store, files) \in Policies
  BY MergeTightens, ProjectTypes DEF Stores
<1>2. ApplySafetyLevel(MergePermissions(store, files), lev) \in Policies
  BY <1>1, SafetyType
<1>3. Secretive(MergeSecrets(UserSecrets, files.secrets, AssertTrusted(files, store)))
  <2>1. UserSecrets \in [names : {UserSecrets.names}, passthrough : {UserSecrets.passthrough}, floor : Int]
    BY GuardAssumption DEF GuardAssumption
  <2>2. files.secrets.floor \in Int
    BY ProjectTypes
  <2> QED
    BY <2>1, <2>2 DEF MergeSecrets, Secretive
<1> QED
  BY <1>2, <1>3 DEF LoadConfig

----------------------------------------------------------------------------

LEMMA Initially == Init => Inv
<1> SUFFICES ASSUME Init PROVE Inv
  OBVIOUS
<1>1. user \in Stores /\ user.trust = {}
  BY DEF Init, NoStore, Stores, Defaults
<1>2. StateOK
  BY <1>1, Loading DEF Init, StateOK
<1>3. CallOK
  BY DEF Init, CallOK, NoCall
<1> QED
  BY <1>1, <1>2, <1>3 DEF Init, Inv, UserOK, AnswersOK

\* A load under a store of the operator's leaves the session in a sound state.
LEMMA LoadKeeps ==
  ASSUME Inv, user' \in Stores, NEW lev \in Levels, NEW n \in Nat,
         state' = LoadConfig(project, user', lev, n)
  PROVE  StateOK'
BY Loading DEF Inv, StateOK, Secretive

\* The answers of one load, with one more for each capability that had none.
LEMMA AnswersJoin ==
  ASSUME AnswersOK, NEW C, NEW yes \in BOOLEAN,
         answers' = answers \union {[capability |-> x, yes |-> yes, load |-> under] : x \in Pending(answers, C)},
         under' = under
  PROVE  AnswersOK'
BY DEF AnswersOK, Pending, Answered

\* Nothing declined and nothing pending: every capability has a yes.
LEMMA NoneDeclined ==
  ASSUME NEW cache, NEW C,
         Pending(cache, C) = {}, Declined(cache, C) = {}
  PROVE  \A c \in C : \E a \in cache : a.capability = c /\ a.yes
<1> TAKE c \in C
<1>1. PICK a \in cache : a.capability = c
  BY DEF Pending, Answered
<1>2. a.yes
  BY <1>1 DEF Declined, Answered
<1> QED
  BY <1>1, <1>2

\* Every action keeps the invariant: what a call is let through with belongs to
\* the load that is in force, and a new load forgets the call.
LEMMA EveryStep == Inv /\ [Next]_vars => Inv'
<1> SUFFICES ASSUME Inv, [Next]_vars PROVE Inv'
  OBVIOUS
<1> USE DEF Inv
<1>1. CASE ToolCall
  <2>1. PICK c \in Calls :
          LET capabilities == ClassifyScopes(c)
              decision     == ResolveAll(capabilities, state.policy)
              cache        == Current(answers, state.load)
              phase        == IF decision = "allow" THEN "ran" ELSE IF decision = "deny" THEN "refused" ELSE "asking"
          IN  /\ answers' = cache /\ under' = state.load
              /\ call' = IF phase = "refused" THEN Refused
                          ELSE IF phase = "asking" /\ Pending(cache, capabilities) = {}
                          THEN Judged(cache, capabilities)
                          ELSE [phase |-> phase, capabilities |-> capabilities]
    BY <1>1 DEF ToolCall
  <2>2. UNCHANGED <<user, project, level, state, seen>>
    BY <1>1 DEF ToolCall
  <2> DEFINE C == ClassifyScopes(c)
             cache == Current(answers, state.load)
  <2>3. C \in SUBSET Texts /\ \A x \in C : Scoped(x)
    BY CallTypes
  <2>4. \A a \in cache : a.load = state.load
    BY DEF AnswersOK, Current
  <2>5. AnswersOK'
    BY <2>1, <2>4 DEF AnswersOK, Current
  <2>6. /\ ResolveAll(C, state.policy) = "allow" => \A x \in C : Resolve(x, state.policy) = "allow"
        /\ ResolveAll(C, state.policy) # "deny" => \A x \in C : Resolve(x, state.policy) \in {"allow", "ask"}
    BY <2>3, AllOfThem DEF StateOK
  <2> HIDE DEF C, cache
  <2>7. /\ answers' = cache /\ under' = state.load /\ state' = state
        /\ \/ call' = Refused
           \/ /\ call' = [phase |-> "ran", capabilities |-> C]
              /\ ResolveAll(C, state.policy) = "allow"
           \/ /\ call' = [phase |-> "ran", capabilities |-> C]
              /\ ResolveAll(C, state.policy) # "deny"
              /\ Pending(cache, C) = {} /\ Declined(cache, C) = {}
           \/ /\ call' = [phase |-> "asking", capabilities |-> C]
              /\ ResolveAll(C, state.policy) # "deny"
    BY <2>1, <2>2 DEF Judged, C, cache
  <2>8. CallOK'
    <3>1. CASE call' = Refused
      BY <3>1 DEF CallOK, Refused
    <3>2. CASE /\ call' = [phase |-> "ran", capabilities |-> C]
               /\ ResolveAll(C, state.policy) = "allow"
      BY <2>3, <2>6, <2>7, <3>2 DEF CallOK, Permitted
    <3>3. CASE /\ call' = [phase |-> "ran", capabilities |-> C]
               /\ ResolveAll(C, state.policy) # "deny"
               /\ Pending(cache, C) = {} /\ Declined(cache, C) = {}
      <4>1. \A x \in C : \E a \in cache : a.capability = x /\ a.yes
        BY <3>3, NoneDeclined
      <4>2. \A x \in C : Permitted(x)'
        BY <2>4, <2>6, <2>7, <3>3, <4>1 DEF Permitted
      <4> QED
        BY <2>3, <3>3, <4>2 DEF CallOK
    <3>4. CASE /\ call' = [phase |-> "asking", capabilities |-> C]
               /\ ResolveAll(C, state.policy) # "deny"
      BY <2>3, <2>6, <2>7, <3>4 DEF CallOK
    <3> QED
      BY <2>7, <3>1, <3>2, <3>3, <3>4
  <2> QED
    BY <2>2, <2>5, <2>8 DEF UserOK, StateOK
<1>2. CASE Answer
  <2>1. /\ call.phase = "asking" /\ UNCHANGED <<user, project, level, state, under, seen>>
        /\ under = state.load
        /\ call.capabilities \in SUBSET Texts /\ \A c \in call.capabilities : Scoped(c)
        /\ \A c \in call.capabilities : Resolve(c, state.policy) \in {"allow", "ask"}
    BY <1>2 DEF Answer, CallOK
  <2>2. PICK yes \in BOOLEAN :
          /\ answers' = answers \union {[capability |-> x, yes |-> yes, load |-> under] :
                                          x \in Pending(answers, call.capabilities)}
          /\ call' = Judged(answers', call.capabilities)
    BY <1>2, <2>1 DEF Answer
  <2>3. AnswersOK'
    BY <2>1, <2>2, AnswersJoin
  <2>4. Pending(answers', call.capabilities) = {}
    <3> SUFFICES ASSUME NEW x \in call.capabilities, Answered(answers', x) = {} PROVE FALSE
      BY DEF Pending
    <3>1. CASE x \in Pending(answers, call.capabilities)
      <4>1. [capability |-> x, yes |-> yes, load |-> under] \in answers'
        BY <2>2, <3>1
      <4> QED
        BY <4>1 DEF Answered
    <3>2. CASE x \notin Pending(answers, call.capabilities)
      BY <2>2, <3>2 DEF Pending, Answered
    <3> QED
      BY <3>1, <3>2
  <2>5. CASE Declined(answers', call.capabilities) = {}
    <3>1. call' = [phase |-> "ran", capabilities |-> call.capabilities]
      BY <2>2, <2>5 DEF Judged
    <3>2. \A x \in call.capabilities : \E a \in answers' : a.capability = x /\ a.yes
      BY <2>4, <2>5, NoneDeclined
    <3>3. \A a \in answers' : a.load = under'
      BY <2>3 DEF AnswersOK
    <3>4. \A x \in call.capabilities : Permitted(x)'
      BY <2>1, <3>2, <3>3 DEF Permitted
    <3>5. CallOK'
      BY <2>1, <3>1, <3>4 DEF CallOK
    <3> QED
      BY <2>1, <2>3, <3>5 DEF UserOK, StateOK
  <2>6. CASE Declined(answers', call.capabilities) # {}
    <3>1. call' = Refused
      BY <2>2, <2>6 DEF Judged
    <3>2. CallOK'
      BY <3>1 DEF CallOK, Refused
    <3> QED
      BY <2>1, <2>3, <3>2 DEF UserOK, StateOK
  <2> QED
    BY <2>5, <2>6
<1>3. CASE Set
  <2>1. PICK s \in Settings : user' = WriteUser(user, s) /\ Refresh(user')
    BY <1>3 DEF Set
  <2>2. s \in Rules
    BY GuardAssumption DEF GuardAssumption
  <2>3. UserOK'
    <3>1. user \in Stores
      BY DEF UserOK
    <3>2. user'.defaults \in Defaults /\ user'.rules \in SUBSET Rules /\ user'.trust = user.trust
      <4>1. Len(s.pattern) = 1 /\ Scoped(s.pattern) => s.pattern[1] \in Scopes
        BY DEF Scoped
      <4>2. s.decision \in Decisions
        BY <2>2 DEF Rules
      <4> QED
        BY <2>1, <2>2, <3>1, <4>1, <4>2 DEF WriteUser, Stores, Defaults
    <3>3. user' = [defaults |-> user'.defaults, rules |-> user'.rules, trust |-> user'.trust]
      BY <2>1, <3>1 DEF WriteUser, Stores
    <3> QED
      BY <3>1, <3>2, <3>3 DEF UserOK, Stores
  <2>4. state.load + 1 \in Nat
    BY DEF StateOK
  <2>5. StateOK' /\ seen' = project
    BY <2>1, <2>3, <2>4, LoadKeeps DEF Refresh, UserOK
  <2>6. CallOK' /\ AnswersOK'
    BY <1>3 DEF Set, CallOK, NoCall, AnswersOK
  <2> QED
    BY <1>3, <2>3, <2>5, <2>6 DEF Set
<1>4. CASE Trust
  <2>1. ProjectSurface(state.declares, project) \in Surfaces
    BY DEF StateOK, Surfaces
  <2>2. user' = [user EXCEPT !.trust = {ProjectSurface(state.declares, project)}] /\ Refresh(user')
    BY <1>4 DEF Trust, GrantTrust
  <2> HIDE DEF Surfaces
  <2>3. UserOK'
    BY <2>1, <2>2 DEF UserOK, Stores
  <2>4. state.load + 1 \in Nat
    BY DEF StateOK
  <2>5. StateOK' /\ seen' = project
    BY <2>2, <2>3, <2>4, LoadKeeps DEF Refresh, UserOK
  <2>6. CallOK' /\ AnswersOK'
    BY <1>4 DEF Trust, CallOK, NoCall, AnswersOK
  <2> QED
    BY <1>4, <2>3, <2>5, <2>6 DEF Trust
<1>5. CASE EditProject
  BY <1>5 DEF EditProject, UserOK, StateOK, AnswersOK, CallOK, Permitted
<1>6. CASE TornStore
  <2>1. UserOK'
    BY <1>6 DEF TornStore, NoStore, UserOK, Stores, Defaults
  <2> QED
    BY <1>6, <2>1 DEF TornStore, StateOK, AnswersOK, CallOK, Permitted
<1>7. CASE Restart
  <2>1. UserOK' /\ user' \in Stores
    BY <1>7 DEF Restart, UserOK
  <2>2. StateOK'
    BY <1>7, <2>1, LoadKeeps DEF Restart
  <2>3. CallOK' /\ AnswersOK'
    BY <1>7 DEF Restart, CallOK, NoCall, AnswersOK
  <2> QED
    BY <1>7, <2>1, <2>2, <2>3 DEF Restart
<1>8. CASE UNCHANGED vars
  BY <1>8 DEF vars, UserOK, StateOK, AnswersOK, CallOK, Permitted
<1> QED
  BY <1>1, <1>2, <1>3, <1>4, <1>5, <1>6, <1>7, <1>8 DEF Next

LEMMA Always == Spec => []Inv
BY Initially, EveryStep, PTL DEF Spec

LEMMA InvTypes == Inv => TypeOK
<1> SUFFICES ASSUME Inv PROVE TypeOK
  OBVIOUS
<1>1. \A s \in Scopes : state.policy.defaults[s] \in Decisions
  BY DEF Inv, StateOK, Policies
<1>2. state.policy.rules \subseteq Rules
  BY DEF Inv, StateOK, Policies
<1>3. Cardinality(user.trust) <= 1
  <2>1. CASE user.trust = {}
    BY <2>1, FS_EmptySet
  <2>2. CASE \E t \in Surfaces : user.trust = {t}
    BY <2>2, FS_Singleton
  <2> QED
    BY <2>1, <2>2 DEF Inv, UserOK
<1>4. \A c \in call.capabilities : Scoped(c)
  BY DEF Inv, CallOK
<1> QED
  BY <1>1, <1>2, <1>3, <1>4 DEF Inv, CallOK, AnswersOK, TypeOK

LEMMA InvPolicy == Inv => PolicyIsKept
<1> SUFFICES ASSUME Inv PROVE PolicyIsKept
  OBVIOUS
<1>1. RanUnderThisPolicy
  BY InvTypes DEF Inv, CallOK, Permitted, RanUnderThisPolicy
<1>2. ASSUME NEW c \in Asked, \A r \in user.rules : Plain(r.pattern)
      PROVE  Severity[Resolve(c, MergePermissions(user, seen))] >= Severity[Resolve(c, UserPolicy(user))]
  <2>1. c \in Texts
    BY CallTypes DEF Asked
  <2>2. /\ user.defaults \in Defaults /\ user.rules \in SUBSET Rules
        /\ seen.defaults \in Defaults /\ seen.rules \in Seq(Rules)
    BY ProjectTypes DEF Inv, UserOK, Stores
  <2>3. MergePermissions(user, seen) \in Policies /\ UserPolicy(user) \in Policies
    BY <2>2, MergeTightens, UserPolicyType
  <2>4. Freedom(c, UserPolicy(user)) <= Freedom(c, MergePermissions(user, seen))
    <3>1. AllPlain(UserPolicy(user))
      BY <1>2 DEF AllPlain, UserPolicy
    <3> QED
      BY <2>1, <2>2, <3>1, MergeTightens
  <2>5. Freedom(c, UserPolicy(user)) \in 0 .. 2 /\ Freedom(c, MergePermissions(user, seen)) \in 0 .. 2
    BY <2>1, <2>3, Resolved, Severities DEF Freedom
  <2> QED
    BY <2>4, <2>5 DEF Freedom
<1>3. ProjectOnlyTightens
  <2> SUFFICES Secretive(state.secrets)
    BY <1>2 DEF ProjectOnlyTightens, Secretive
  <2> QED
    BY DEF Inv, StateOK
<1> QED
  BY <1>1, <1>3 DEF PolicyIsKept

\* The session's variables keep their types, the operator's trust is of one
\* surface at most and the guard remembers one answer for each capability
\* (guard.ts: the cache is keyed by what was asked).
THEOREM TypeCorrect == Spec => []TypeOK
BY Always, InvTypes, PTL

\* Whatever the calls, the rules and the settings, in whatever order they come:
\* what runs is allowed or was said yes to under the policy in force, and no
\* project's file makes anything freer than the user's own policy does
\* (guard.ts: an answer lives as long as its policy; trust.ts: each rule of the
\* project is compared with what resolves for its pattern) as long as the user's
\* own rules have their wildcard at the end.
THEOREM PolicyHolds == Spec => []PolicyIsKept
BY Always, InvPolicy, PTL

----------------------------------------------------------------------------
(* The launches of a machine.                                               *)

\* Past its first question: what a launcher prints and exits, or a spent one, is not.
Underway ==
  \/ run.at \in {"ensure", "merge", "select", "activate", "session", "running"}
  \/ run.at = "plan" /\ (argv.sdk \/ ~IsInformational(Flags))

Shapes ==
  /\ machine \in Machines /\ IsFile(begun) /\ launches \in Nat /\ others \in Nat /\ quiet \in BOOLEAN
  /\ others = 0 => quiet
  /\ DOMAIN run = DOMAIN NoRun
  /\ run.at \in {"parse", "prepare", "asked", "jev", "detect", "allocate", "write", "load", "ensure", "merge", "select",
                "plan", "activate", "session", "running", "exited", "failed", "dead"}
  /\ argv.sdk => run.at \notin {"prepare", "asked", "jev", "detect", "allocate", "write", "load"}
  /\ DOMAIN disk = {"user", "key", "limit", "fold", "settings", "ignored", "host", "latest", "profile"}
  /\ IsFile(disk.user) /\ DOMAIN disk.limit = {"ok", "limit", "async"} /\ disk.fold \in BOOLEAN /\ disk.key \in BOOLEAN
  /\ disk.settings \in {"absent", "silent", "answered", "unreadable"}
  /\ disk.host \in {"original", "patched", "torn"} /\ disk.profile \in {"native", "external"}

\* Where what the launcher found of the control plane still stands.
Deciding == run.at \in {"detect", "allocate", "write", "load"}

\* What the launcher decided on is still what the machine and its files say.
Decided ==
  /\ quiet /\ ~argv.sdk /\ (Underway \/ Deciding) => run.check = RequireJev(machine, disk, Flags) /\ (Flags.key => disk.key)
  /\ quiet /\ ~argv.sdk /\ Underway => run.config = LoadedConfig(machine, disk) /\ run.config.ok
  /\ Inside => run.child.ok /\ run.mode = (IF LaunchEnv.noJev THEN "disabled" ELSE run.child.jev.mode)
  /\ Inside /\ quiet => run.child = LoadedConfig(machine, disk)

\* The operator was told about the control plane by one side, or still will be.
Warned ==
  /\ run.told \in {{}, {"launcher"}, {"session"}}
  /\ argv.sdk => run.told = {}
  /\ run.told = {"session"} => run.at \in {"running", "exited"}
  /\ run.at = "running" /\ quiet /\ SessionTells => run.told # {}

\* What the child is given is what the launcher planned, its entry the selected copy.
Composed ==
  /\ Underway /\ run.at \notin {"ensure", "merge", "select"} => Selectable /\ run.entry = Selection
  /\ run.at = "activate" \/ Inside =>
       run.plan = SdkPlan \/ \E fold \in BOOLEAN : run.plan = LaunchPlan(machine, Flags, fold)

\* A configuration is written where none was, by a launcher that found a vendor ready.
Written ==
  /\ machine.home /\ quiet /\ begun.exists => disk.user = begun
  /\ quiet /\ run.at \in {"allocate", "write"} => ~Configured(machine, disk)
  /\ run.at = "allocate" => \E v \in Vendors : Ready(machine, v)
  /\ RolesAreRunnable

\* The limit that was announced is the file's, and the one the child clamps to.
Limited ==
  /\ machine.concurrency.ok => disk.limit.ok
  /\ Underway /\ run.at # "ensure" => disk.limit.ok /\ (quiet => run.limit = EnsureDefaultConfig(disk.limit).limit)
  /\ Inside /\ quiet => run.clamp = run.limit
  /\ others = 0 /\ machine.concurrency.limit # 0 => disk.limit.limit = machine.concurrency.limit

\* A delegated model was routed by the runner that was read, to a vendor on offer.
Routed ==
  /\ run.runner \in {"unread", "native", "external"}
  /\ quiet /\ run.runner # "unread" => run.runner = disk.profile
  /\ run.routed # {} => run.runner = "native"
  /\ \A x \in run.routed : x.via = "cli" => Offered(machine, x.backend)

LaunchInv == Shapes /\ Decided /\ Warned /\ Composed /\ Written /\ Limited /\ Routed

\* What an order names first of a set it meets is in the set.
LEMMA FirstOf ==
  ASSUME NEW T, NEW order \in Seq(T), NEW S, \E i \in DOMAIN order : order[i] \in S
  PROVE  FirstIn(order, S) \in S /\ \E i \in DOMAIN order : FirstIn(order, S) = order[i]
<1> DEFINE I == {i \in DOMAIN order : order[i] \in S}
<1>1. I \in SUBSET Nat /\ I # {} /\ DOMAIN order = 1 .. Len(order) /\ Len(order) \in Nat
  OBVIOUS
<1>2. PICK i \in I : \A j \in I : i <= j
  BY <1>1, Least
<1>3. i \in DOMAIN order /\ order[i] \in S /\ \A j \in 1 .. (i - 1) : order[j] \notin S
  <2>1. ASSUME NEW j \in 1 .. (i - 1), order[j] \in S PROVE FALSE
    <3>1. j \in I
      BY <1>1, <1>2, <2>1
    <3> QED
      BY <1>1, <1>2, <2>1, <3>1
  <2> QED
    BY <1>2, <2>1
<1> QED
  BY <1>3 DEF FirstIn

\* The first is the one nothing before it is.
LEMMA FirstIs ==
  ASSUME NEW T, NEW order \in Seq(T), NEW S, NEW i \in DOMAIN order, order[i] \in S,
         \A j \in 1 .. (i - 1) : order[j] \notin S
  PROVE  FirstIn(order, S) = order[i]
<1>1. DOMAIN order = 1 .. Len(order) /\ Len(order) \in Nat
  OBVIOUS
<1>2. ASSUME NEW k \in DOMAIN order, order[k] \in S, \A j \in 1 .. (k - 1) : order[j] \notin S
      PROVE  k = i
  BY <1>1, <1>2
<1> QED
  BY <1>2 DEF FirstIn

\* Of whose files and flags the answers are.
LEMMA SameLookup ==
  ASSUME NEW m, NEW d, NEW e, NEW f, d.user = e.user, d.key = e.key
  PROVE  /\ RequireJev(m, d, f) = RequireJev(m, e, f) /\ LoadedConfig(m, d) = LoadedConfig(m, e)
         /\ Configured(m, d) = Configured(m, e)
         /\ \A c : ResolveCredential(m, d, c) = ResolveCredential(m, e, c)
BY DEF RequireJev, BootstrapConfig, LoadedConfig, Configured, UserFile, ResolveCredential

LEMMA SameLaunch ==
  ASSUME UNCHANGED <<machine, argv>>
  PROVE  Flags' = Flags /\ Selectable' = Selectable /\ Selection' = Selection
BY DEF Flags, Selectable, Selection, Seen

LEMMA LaunchBegins == LaunchInit => LaunchInv
<1> SUFFICES ASSUME LaunchInit PROVE LaunchInv
  OBVIOUS
<1>1. Shapes
  BY LaunchAssumption DEF LaunchInit, Shapes, LaunchAssumption, NoRun
<1>2. Decided /\ Warned /\ Composed
  BY DEF LaunchInit, Decided, Warned, Composed, Underway, Deciding, Inside, NoRun
<1>3. Written /\ Limited /\ Routed
  BY <1>1 DEF LaunchInit, Written, Limited, Routed, RolesAreRunnable, Underway, Inside, NoRun
<1> QED
  BY <1>1, <1>2, <1>3 DEF LaunchInv

----------------------------------------------------------------------------

\* A file another process writes is a file.
LEMMA TornFile ==
  ASSUME NEW file, DOMAIN file = DOMAIN NoFile, file.exists = TRUE, NEW t \in Torn(file)
  PROVE  IsFile(t)
<1>1. CASE t = [file EXCEPT !.ok = FALSE]
  BY <1>1 DEF IsFile, NoFile
<1>2. ASSUME NEW models, t = [file EXCEPT !.jev = {}, !.models = models]
      PROVE  IsFile(t)
  BY <1>2 DEF IsFile, NoFile
<1> QED
  BY <1>1, <1>2 DEF Torn

LEMMA RenderedFile == ASSUME NEW m, NEW roles PROVE IsFile(RenderConfig(m, roles)) /\ RenderConfig(m, roles).exists
BY DEF RenderConfig, IsFile, NoFile

LEMMA NeighboursWrite ==
  ASSUME Shapes, disk' \in Neighbours
  PROVE  /\ DOMAIN disk' = DOMAIN disk /\ IsFile(disk'.user) /\ DOMAIN disk'.limit = {"ok", "limit", "async"}
         /\ disk'.fold \in BOOLEAN /\ disk'.key \in BOOLEAN /\ disk'.settings = disk.settings /\ disk'.host = disk.host
         /\ disk'.profile \in {"native", "external"} /\ disk'.limit.ok = disk.limit.ok
<1>1. CASE disk' \in {[disk EXCEPT !.key = ~@], [disk EXCEPT !.fold = ~@], [disk EXCEPT !.profile = "external"]}
  BY <1>1 DEF Shapes
<1>2. ASSUME NEW n, disk' = [disk EXCEPT !.limit = SetLimit(@, n)]
      PROVE  /\ DOMAIN disk' = DOMAIN disk /\ disk'.limit = SetLimit(disk.limit, n) /\ disk'.user = disk.user
             /\ disk'.fold = disk.fold /\ disk'.key = disk.key /\ disk'.settings = disk.settings /\ disk'.host = disk.host /\ disk'.profile = disk.profile
  BY <1>2 DEF Shapes
<1>3. ASSUME NEW n PROVE DOMAIN SetLimit(disk.limit, n) = {"ok", "limit", "async"} /\ SetLimit(disk.limit, n).ok = disk.limit.ok
  BY DEF Shapes, SetLimit
<1>4. ASSUME NEW f, disk' = [disk EXCEPT !.user = f], IsFile(f)
      PROVE  /\ DOMAIN disk' = DOMAIN disk /\ disk'.limit = disk.limit /\ disk'.user = f
             /\ disk'.fold = disk.fold /\ disk'.key = disk.key /\ disk'.settings = disk.settings /\ disk'.host = disk.host /\ disk'.profile = disk.profile
  BY <1>4 DEF Shapes
<1>5. IsFile(WriteUserProvider(disk.user, "laya")) /\ IsFile(WriteRoleBinding(disk.user, "balanced", "codex"))
  BY DEF WriteUserProvider, WriteRoleBinding, IsFile, NoFile, Shapes
<1>6. PICK f :
           \/ IsFile(f) /\ disk' = [disk EXCEPT !.user = f]
           \/ disk' \in {[disk EXCEPT !.key = ~@], [disk EXCEPT !.fold = ~@], [disk EXCEPT !.profile = "external"]}
           \/ \E n : disk' = [disk EXCEPT !.limit = SetLimit(@, n)]
  BY <1>5, RenderedFile DEF Neighbours
<1> QED
  BY <1>1, <1>2, <1>3, <1>4, <1>6 DEF Shapes

\* What a step leaves of the run and of the files, and what it leaves alone.
RunKeeps(fields) == DOMAIN run' = DOMAIN run /\ \A f \in DOMAIN NoRun \ fields : run'[f] = run[f]

DiskKeeps(fields) == DOMAIN disk' = DOMAIN disk /\ \A f \in DOMAIN disk \ fields : disk'[f] = disk[f]

LEMMA SetAt ==
  ASSUME Shapes, NEW a, run' = [run EXCEPT !.at = a]
  PROVE  RunKeeps({"at"}) /\ run'.at = a
BY DEF Shapes, RunKeeps, NoRun

LEMMA Starts ==
  ASSUME Shapes, Start
  PROVE  /\ RunKeeps({"at"}) /\ run.at = "parse"
         /\ run'.at \in {"ensure", "failed", "plan", "prepare"}
         /\ run'.at = "ensure" <=> argv.sdk
         /\ run'.at = "plan" => IsInformational(Flags)
         /\ UNCHANGED <<disk, history>>
<1> DEFINE a == IF argv.sdk THEN "ensure" ELSE IF Flags.wrong THEN "failed" ELSE IF IsInformational(Flags) THEN "plan" ELSE "prepare"
<1>1. run' = [run EXCEPT !.at = a] /\ run.at = "parse" /\ UNCHANGED <<disk, history>>
  BY DEF Start
<1>2. /\ a \in {"ensure", "failed", "plan", "prepare"} /\ (a = "ensure" <=> argv.sdk)
      /\ a = "plan" => IsInformational(Flags)
  OBVIOUS
<1> HIDE DEF a
<1> QED
  BY <1>1, <1>2, SetAt

LEMMA Prepares ==
  ASSUME Shapes, Prepare
  PROVE  /\ RunKeeps({"at"}) /\ run.at = "prepare" /\ run'.at \in {"asked", "jev"}
         /\ DiskKeeps({"ignored", "settings"}) /\ disk'.settings \in {disk.settings, "answered"}
         /\ UNCHANGED history
<1> DEFINE a == IF ShouldOnboard(machine, disk, Flags) THEN "asked" ELSE "jev"
           w == IF Flags.ui = "compact" /\ disk.settings \in {"absent", "silent"} THEN "answered" ELSE disk.settings
<1>1. run' = [run EXCEPT !.at = a] /\ run.at = "prepare" /\ UNCHANGED history
  BY DEF Prepare
<1>2. disk' = [disk EXCEPT !.ignored = TRUE, !.settings = w]
  BY DEF Prepare
<1>3. a \in {"asked", "jev"} /\ w \in {disk.settings, "answered"}
  OBVIOUS
<1> HIDE DEF a, w
<1> QED
  BY <1>1, <1>2, <1>3, SetAt DEF Shapes, DiskKeeps

LEMMA Asks ==
  ASSUME Shapes, Onboards
  PROVE  /\ RunKeeps({"at"}) /\ run.at = "asked" /\ run'.at = "jev"
         /\ DiskKeeps({"key"}) /\ disk'.key \in BOOLEAN /\ UNCHANGED history
<1>1. PICK k \in BOOLEAN : disk' = [disk EXCEPT !.key = k]
  BY DEF Onboards
<1>2. run' = [run EXCEPT !.at = "jev"] /\ run.at = "asked" /\ UNCHANGED history
  BY DEF Onboards
<1> QED
  BY <1>1, <1>2, SetAt DEF Shapes, DiskKeeps

LEMMA Checks ==
  ASSUME Shapes, ChecksJev
  PROVE  /\ RunKeeps({"at", "check"}) /\ run.at = "jev" /\ run'.at = "detect"
         /\ run'.check = RequireJev(machine, disk, Flags)
         /\ DiskKeeps({"key"}) /\ disk'.key \in BOOLEAN /\ (disk'.key = disk.key \/ Flags.key) /\ (Flags.key => disk'.key)
         /\ UNCHANGED history
<1> DEFINE k == disk.key \/ Flags.key
           c == RequireJev(machine, disk, Flags)
<1>1. disk' = [disk EXCEPT !.key = k]
  BY DEF ChecksJev
<1>2. run' = [run EXCEPT !.at = "detect", !.check = c] /\ run.at = "jev" /\ UNCHANGED history
  BY DEF ChecksJev
<1>a. k \in BOOLEAN /\ (k = disk.key \/ Flags.key) /\ (Flags.key => k)
  BY DEF Shapes
<1> HIDE DEF c, k
<1>3. RunKeeps({"at", "check"}) /\ run'.at = "detect" /\ run'.check = c
  BY <1>2 DEF Shapes, RunKeeps, NoRun
<1>4. DiskKeeps({"key"}) /\ disk'.key = k
  BY <1>1 DEF Shapes, DiskKeeps
<1> QED
  BY <1>a, <1>2, <1>3, <1>4 DEF c

LEMMA DetectsVendors ==
  ASSUME Shapes, Detects
  PROVE  /\ RunKeeps({"at"}) /\ run.at = "detect" /\ run'.at \in {"load", "allocate", "failed"}
         /\ run'.at = "allocate" => ~Configured(machine, disk) /\ \E v \in Vendors : Ready(machine, v)
         /\ UNCHANGED <<disk, history>>
<1> DEFINE a == IF Configured(machine, disk) THEN "load"
                ELSE IF \E v \in Vendors : Ready(machine, v) THEN "allocate" ELSE "failed"
<1>1. run' = [run EXCEPT !.at = a] /\ run.at = "detect" /\ UNCHANGED <<disk, history>>
  BY DEF Detects
<1>2. a \in {"load", "allocate", "failed"} /\ (a = "allocate" => ~Configured(machine, disk) /\ \E v \in Vendors : Ready(machine, v))
  OBVIOUS
<1> HIDE DEF a
<1> QED
  BY <1>1, <1>2, SetAt

LEMMA AllocatesRoles ==
  ASSUME Shapes, Allocates
  PROVE  /\ RunKeeps({"at", "roles"}) /\ run.at = "allocate" /\ run'.at = "write"
         /\ \E ballot : run'.roles = AllocateRoles(machine, ballot)
         /\ UNCHANGED <<disk, history>>
<1>1. PICK ballot : run' = [run EXCEPT !.at = "write", !.roles = AllocateRoles(machine, ballot)]
  BY DEF Allocates
<1>2. RunKeeps({"at", "roles"}) /\ run'.at = "write" /\ run'.roles = AllocateRoles(machine, ballot)
  BY <1>1 DEF Shapes, RunKeeps, NoRun
<1> QED
  BY <1>2 DEF Allocates

LEMMA WritesFile ==
  ASSUME Shapes, Writes
  PROVE  /\ RunKeeps({"at"}) /\ run.at = "write" /\ run'.at = "load"
         /\ DiskKeeps({"user"}) /\ disk'.user = RenderConfig(machine, run.roles) /\ UNCHANGED history
<1>1. disk' = [disk EXCEPT !.user = RenderConfig(machine, run.roles)] /\ run' = [run EXCEPT !.at = "load"] /\ run.at = "write"
      /\ UNCHANGED history
  BY DEF Writes
<1>2. DiskKeeps({"user"}) /\ disk'.user = RenderConfig(machine, run.roles)
  BY <1>1 DEF Shapes, DiskKeeps
<1> QED
  BY <1>1, <1>2, SetAt

LEMMA LoadsFile ==
  ASSUME Shapes, Loads
  PROVE  /\ RunKeeps({"at", "config", "told", "refreshes", "notice"}) /\ run.at = "load" /\ run'.at \in {"ensure", "failed"}
         /\ run'.at = "ensure" => /\ run'.config = LoadedConfig(machine, disk) /\ run'.config.ok
                                  /\ run'.told \in {{}, {"launcher"}}
         /\ run'.at = "failed" => run'.told = run.told
         /\ UNCHANGED <<disk, history>>
<1> DEFINE config == LoadedConfig(machine, disk)
           told   == IF JevWarning(run.check.source) THEN {"launcher"} ELSE {}
           notice == ShouldCheckForUpdate /\ disk.latest > 1
<1>1. \/ config.ok /\ run' = [run EXCEPT !.at = "ensure", !.config = config, !.told = told, !.refreshes = ShouldCheckForUpdate,
                                        !.notice = notice]
      \/ run' = [run EXCEPT !.at = "failed"]
  BY DEF Loads
<1>2. told \in {{}, {"launcher"}} /\ run.at = "load" /\ UNCHANGED <<disk, history>>
  BY DEF Loads
<1> HIDE DEF config, told, notice
<1>3. CASE run' = [run EXCEPT !.at = "failed"]
  BY <1>2, <1>3 DEF Shapes, RunKeeps, NoRun
<1>4. CASE config.ok /\ run' = [run EXCEPT !.at = "ensure", !.config = config, !.told = told, !.refreshes = ShouldCheckForUpdate,
                                          !.notice = notice]
  <2>1. RunKeeps({"at", "config", "told", "refreshes", "notice"}) /\ run'.at = "ensure" /\ run'.config = config /\ run'.told = told
    BY <1>4 DEF Shapes, RunKeeps, NoRun
  <2> QED
    BY <1>2, <1>4, <2>1 DEF config
<1> QED
  BY <1>1, <1>3, <1>4

LEMMA ReadsLimit ==
  ASSUME Shapes, EnsureReads
  PROVE  /\ RunKeeps({"at", "limit"}) /\ run.at = "ensure" /\ run'.at \in {"failed", "select", "merge"}
         /\ run'.at # "failed" => disk.limit.ok /\ run'.limit = EnsureDefaultConfig(disk.limit).limit
         /\ UNCHANGED <<disk, history>>
<1> DEFINE l == EnsureDefaultConfig(disk.limit)
           a == IF l = disk.limit THEN "select" ELSE "merge"
<1>1. \/ run' = [run EXCEPT !.at = "failed"]
      \/ disk.limit.ok /\ run' = [run EXCEPT !.limit = l.limit, !.at = a]
  BY DEF EnsureReads
<1>2. a \in {"select", "merge"} /\ run.at = "ensure" /\ UNCHANGED <<disk, history>>
  BY DEF EnsureReads
<1> HIDE DEF a, l
<1>3. CASE run' = [run EXCEPT !.at = "failed"]
  BY <1>2, <1>3 DEF Shapes, RunKeeps, NoRun
<1>4. CASE disk.limit.ok /\ run' = [run EXCEPT !.limit = l.limit, !.at = a]
  BY <1>2, <1>4 DEF Shapes, RunKeeps, NoRun, l
<1> QED
  BY <1>1, <1>3, <1>4

LEMMA WritesLimit ==
  ASSUME Shapes, EnsureWrites
  PROVE  /\ RunKeeps({"at"}) /\ run.at = "merge" /\ run'.at = "select"
         /\ DiskKeeps({"limit"}) /\ UNCHANGED history
         /\ DOMAIN disk'.limit = {"ok", "limit", "async"} /\ disk'.limit.ok /\ disk'.limit.limit = run.limit
<1> DEFINE w == [Whole EXCEPT !.limit = run.limit, !.async = TRUE]
<1>1. run' = [run EXCEPT !.at = "select"] /\ run.at = "merge" /\ UNCHANGED history
  BY DEF EnsureWrites
<1>2. disk' = [disk EXCEPT !.limit = w]
  BY DEF EnsureWrites
<1>3. DOMAIN w = {"ok", "limit", "async"} /\ w.ok /\ w.limit = run.limit
  BY DEF Whole
<1> HIDE DEF w
<1> QED
  BY <1>1, <1>2, <1>3, SetAt DEF Shapes, DiskKeeps

LEMMA SelectsCopy ==
  ASSUME Shapes, Selects
  PROVE  /\ RunKeeps({"at", "entry"}) /\ run.at = "select" /\ run'.at \in {"plan", "failed"}
         /\ run'.at = "plan" => Selectable /\ run'.entry = Selection
         /\ UNCHANGED <<disk, history>>
<1>1. \/ run' = [run EXCEPT !.at = "failed"]
      \/ Selectable /\ run' = [run EXCEPT !.at = "plan", !.entry = Selection]
  BY DEF Selects
<1>2. run.at = "select" /\ UNCHANGED <<disk, history>>
  BY DEF Selects
<1> QED
  BY <1>1, <1>2 DEF Shapes, RunKeeps, NoRun

LEMMA PlansLaunch ==
  ASSUME Shapes, Plans
  PROVE  /\ RunKeeps({"at", "plan"}) /\ run.at = "plan" /\ run'.at \in {"exited", "activate"}
         /\ run'.at = "activate" => argv.sdk \/ ~IsInformational(Flags)
         /\ run'.plan = SdkPlan \/ \E fold \in BOOLEAN : run'.plan = LaunchPlan(machine, Flags, fold)
         /\ DiskKeeps({"host"}) /\ disk'.host \in {disk.host, "patched"} /\ UNCHANGED history
<1> DEFINE a == IF ~argv.sdk /\ IsInformational(Flags) THEN "exited" ELSE "activate"
           p == IF argv.sdk THEN SdkPlan ELSE LaunchPlan(machine, Flags, disk.fold)
           h == IF ~argv.sdk /\ disk.host = "original" THEN "patched" ELSE disk.host
<1>1. run' = [run EXCEPT !.at = a, !.plan = p] /\ run.at = "plan" /\ UNCHANGED history
  BY DEF Plans
<1>2. disk' = [disk EXCEPT !.host = h]
  BY DEF Plans
<1>3. /\ a \in {"exited", "activate"} /\ (a = "activate" => argv.sdk \/ ~IsInformational(Flags)) /\ h \in {disk.host, "patched"}
      /\ p = SdkPlan \/ \E fold \in BOOLEAN : p = LaunchPlan(machine, Flags, fold)
  BY DEF Shapes
<1> HIDE DEF a, p, h
<1>4. RunKeeps({"at", "plan"}) /\ run'.at = a /\ run'.plan = p
  BY <1>1 DEF Shapes, RunKeeps, NoRun
<1>5. DiskKeeps({"host"}) /\ disk'.host = h
  BY <1>2 DEF Shapes, DiskKeeps
<1> QED
  BY <1>1, <1>3, <1>4, <1>5

LEMMA ActivatesSession ==
  ASSUME Shapes, Activates
  PROVE  /\ RunKeeps({"at", "child", "mode", "clamp"}) /\ run.at = "activate" /\ run'.at \in {"session", "failed"}
         /\ run'.at = "session" =>
              /\ run'.child = LoadedConfig(machine, disk) /\ run'.child.ok
              /\ run'.mode = (IF LaunchEnv.noJev THEN "disabled" ELSE run'.child.jev.mode)
              /\ disk.limit.ok => run'.clamp = EnsureDefaultConfig(disk.limit).limit
         /\ DiskKeeps({"ignored", "limit"})
         /\ disk'.limit \in {disk.limit, EnsureDefaultConfig(disk.limit)} /\ UNCHANGED history
<1> DEFINE config == LoadedConfig(machine, disk)
           mode   == IF LaunchEnv.noJev THEN "disabled" ELSE config.jev.mode
           clamp  == IF disk.limit.ok THEN EnsureDefaultConfig(disk.limit).limit ELSE 0
           limit  == IF disk.limit.ok THEN EnsureDefaultConfig(disk.limit) ELSE disk.limit
<1>1. \/ /\ config.ok /\ run' = [run EXCEPT !.at = "session", !.child = config, !.mode = mode, !.clamp = clamp]
         /\ disk' = [disk EXCEPT !.ignored = TRUE, !.limit = limit]
      \/ run' = [run EXCEPT !.at = "failed"] /\ UNCHANGED disk
  BY DEF Activates
<1>2. /\ disk.limit.ok => clamp = EnsureDefaultConfig(disk.limit).limit
      /\ limit \in {disk.limit, EnsureDefaultConfig(disk.limit)}
      /\ run.at = "activate" /\ UNCHANGED history
  BY DEF Activates
<1> HIDE DEF config, mode, clamp, limit
<1>3. CASE run' = [run EXCEPT !.at = "failed"] /\ UNCHANGED disk
  BY <1>2, <1>3 DEF Shapes, RunKeeps, DiskKeeps, NoRun
<1>4. CASE /\ config.ok /\ run' = [run EXCEPT !.at = "session", !.child = config, !.mode = mode, !.clamp = clamp]
           /\ disk' = [disk EXCEPT !.ignored = TRUE, !.limit = limit]
  <2>1. /\ RunKeeps({"at", "child", "mode", "clamp"}) /\ run'.at = "session" /\ run'.child = config /\ run'.mode = mode
        /\ run'.clamp = clamp
    BY <1>4 DEF Shapes, RunKeeps, NoRun
  <2>2. DiskKeeps({"ignored", "limit"}) /\ disk'.limit = limit
    BY <1>4 DEF Shapes, DiskKeeps
  <2>3. mode = (IF LaunchEnv.noJev THEN "disabled" ELSE config.jev.mode)
    BY DEF mode
  <2> QED
    BY <1>2, <1>4, <2>1, <2>2, <2>3 DEF config
<1> QED
  BY <1>1, <1>3, <1>4

LEMMA SessionStarts ==
  ASSUME Shapes, StartsSession
  PROVE  /\ RunKeeps({"at", "told", "keys"}) /\ run.at = "session" /\ run'.at \in {"failed", "running"}
         /\ run'.at = "failed" => run'.told = run.told
         /\ run'.at = "running" => run'.told = Telling
         /\ UNCHANGED <<disk, history>>
<1>1. \/ run' = [run EXCEPT !.at = "failed"]
      \/ run' = [run EXCEPT !.at = "running", !.told = Telling, !.keys = UnusableBackendKeys(run.child)]
  BY DEF StartsSession
<1>2. run.at = "session" /\ UNCHANGED <<disk, history>>
  BY DEF StartsSession
<1> QED
  BY <1>1, <1>2 DEF Shapes, RunKeeps, NoRun

LEMMA SessionSwitches ==
  ASSUME Shapes, SwitchesSession
  PROVE  /\ RunKeeps({"told", "runner", "routed"}) /\ run.at = "running" /\ run'.told = Telling
         /\ run'.runner = "unread" /\ run'.routed = {} /\ UNCHANGED <<disk, history>>
<1>1. run' = [run EXCEPT !.told = Telling, !.runner = "unread", !.routed = {}]
  BY DEF SwitchesSession
<1> QED
  BY <1>1 DEF Shapes, RunKeeps, NoRun, SwitchesSession

LEMMA DelegatesRole ==
  ASSUME Shapes, Delegates
  PROVE  /\ RunKeeps({"runner", "routed"}) /\ run.at = "running"
         /\ run'.runner = (IF run.runner = "unread" THEN disk.profile ELSE run.runner)
         /\ run'.routed # {} => run'.runner = "native" /\ run'.routed \subseteq Registered(run.child)
         /\ UNCHANGED <<disk, history>>
<1> DEFINE runner == IF run.runner = "unread" THEN disk.profile ELSE run.runner
<1>1. PICK role : run' = [run EXCEPT !.runner = runner,
                       !.routed = IF runner = "native" THEN ResolveRole(run.child, role) \intersect Registered(run.child) ELSE {}]
  BY DEF Delegates
<1> DEFINE routed == IF runner = "native" THEN ResolveRole(run.child, role) \intersect Registered(run.child) ELSE {}
<1>2. routed # {} => runner = "native" /\ routed \subseteq Registered(run.child)
  OBVIOUS
<1>3. run.at = "running" /\ UNCHANGED <<disk, history>>
  BY DEF Delegates
<1> HIDE DEF runner, routed
<1>4. RunKeeps({"runner", "routed"}) /\ run'.runner = runner /\ run'.routed = routed
  BY <1>1 DEF Shapes, RunKeeps, NoRun, routed
<1> QED
  BY <1>2, <1>3, <1>4 DEF runner

LEMMA OthersLive ==
  ASSUME Shapes, Quits \/ Refreshes
  PROVE  /\ RunKeeps({"at", "refreshes"}) /\ run'.at \in {run.at, "exited"}
         /\ DiskKeeps({"latest"}) /\ UNCHANGED history
<1>1. CASE Quits
  BY <1>1 DEF Quits, Shapes, RunKeeps, DiskKeeps, NoRun
<1>2. CASE Refreshes
  <2> DEFINE n == IF disk.latest = 0 THEN machine.registry ELSE disk.latest
  <2>1. disk' = [disk EXCEPT !.latest = n]
    BY <1>2 DEF Refreshes
  <2> HIDE DEF n
  <2>2. run' = [run EXCEPT !.refreshes = FALSE] /\ UNCHANGED history
    BY <1>2 DEF Refreshes
  <2>3. DiskKeeps({"latest"})
    BY <2>1 DEF Shapes, DiskKeeps
  <2>4. RunKeeps({"at", "refreshes"})
    BY <2>2 DEF Shapes, RunKeeps, NoRun
  <2>5. run'.at = run.at
    BY <2>2 DEF Shapes, NoRun
  <2> QED
    BY <2>2, <2>3, <2>4, <2>5
<1> QED
  BY <1>1, <1>2

LEMMA RunDies ==
  ASSUME Shapes, Dies
  PROVE  /\ run' = [NoRun EXCEPT !.at = "dead"] /\ DOMAIN run' = DOMAIN NoRun /\ run'.at = "dead"
         /\ DiskKeeps({"settings", "user", "key", "host"}) /\ IsFile(disk'.user) /\ disk'.key \in BOOLEAN
         /\ disk'.user # disk.user => run.at = "write"
         /\ disk'.settings \in {disk.settings, "unreadable"} /\ disk'.host \in {disk.host, "torn"} /\ UNCHANGED history
<1>1. run' = [NoRun EXCEPT !.at = "dead"] /\ UNCHANGED history
  BY DEF Dies
<1>2. DOMAIN RenderConfig(machine, run.roles) = DOMAIN NoFile /\ RenderConfig(machine, run.roles).exists = TRUE
  BY DEF RenderConfig, NoFile
<1>3. \/ UNCHANGED disk
      \/ disk' = [disk EXCEPT !.settings = "unreadable"]
      \/ run.at = "write" /\ \E file \in Torn(RenderConfig(machine, run.roles)) : disk' = [disk EXCEPT !.user = file]
      \/ disk' = [disk EXCEPT !.key = FALSE]
      \/ disk' = [disk EXCEPT !.host = "torn"]
  BY DEF Dies
<1>4. ASSUME run.at = "write", NEW file \in Torn(RenderConfig(machine, run.roles)), disk' = [disk EXCEPT !.user = file]
      PROVE  /\ DiskKeeps({"settings", "user", "key", "host"}) /\ IsFile(disk'.user) /\ disk'.key \in BOOLEAN
             /\ disk'.settings = disk.settings /\ disk'.host = disk.host
  BY <1>2, <1>4, TornFile DEF Shapes, DiskKeeps
<1>5. ASSUME \/ UNCHANGED disk
             \/ disk' = [disk EXCEPT !.settings = "unreadable"]
             \/ disk' = [disk EXCEPT !.key = FALSE]
             \/ disk' = [disk EXCEPT !.host = "torn"]
      PROVE  /\ DiskKeeps({"settings", "user", "key", "host"}) /\ disk'.user = disk.user /\ disk'.key \in BOOLEAN
             /\ disk'.settings \in {disk.settings, "unreadable"} /\ disk'.host \in {disk.host, "torn"}
  BY <1>5 DEF Shapes, DiskKeeps
<1>6. DOMAIN run' = DOMAIN NoRun /\ run'.at = "dead"
  BY <1>1 DEF NoRun
<1> QED
  BY <1>1, <1>3, <1>4, <1>5, <1>6 DEF Shapes

LEMMA ShapesStay ==
  ASSUME LaunchInv, LaunchNext
  PROVE  Shapes' /\ UNCHANGED machine
<1>0. Shapes
  BY DEF LaunchInv
<1>1. DOMAIN NoRun = {"at", "check", "roles", "config", "told", "limit", "entry", "plan", "refreshes", "notice", "child", "mode",
                      "clamp", "keys", "runner", "routed"}
  BY DEF NoRun
<1>2. ASSUME UNCHANGED history, DOMAIN run' = DOMAIN run, ~argv.sdk \/ run'.at \notin {"prepare", "asked", "jev", "detect", "allocate", "write", "load"},
             run'.at \in {"parse", "prepare", "asked", "jev", "detect", "allocate", "write", "load", "ensure", "merge", "select",
                          "plan", "activate", "session", "running", "exited", "failed", "dead"},
             DOMAIN disk' = DOMAIN disk, IsFile(disk'.user), DOMAIN disk'.limit = {"ok", "limit", "async"},
             disk'.fold = disk.fold, disk'.key \in BOOLEAN, disk'.settings \in {disk.settings, "answered", "unreadable"},
             disk'.host \in {disk.host, "patched", "torn"}, disk'.profile = disk.profile
      PROVE  Shapes' /\ UNCHANGED machine
  BY <1>0, <1>2 DEF Shapes, history
<1>3. CASE Start \/ Detects \/ Allocates \/ Loads \/ EnsureReads \/ Selects \/ StartsSession \/ SwitchesSession \/ Delegates
  <2>1. UNCHANGED <<disk, history>> /\ DOMAIN run' = DOMAIN run
    BY <1>0, <1>3, Starts, DetectsVendors, AllocatesRoles, LoadsFile, ReadsLimit, SelectsCopy, SessionStarts, SessionSwitches,
       DelegatesRole DEF RunKeeps
  <2>2. /\ run'.at \in {"prepare", "load", "allocate", "write", "ensure", "failed", "select", "merge", "plan", "running"}
        /\ argv.sdk => run'.at \notin {"prepare", "load", "allocate", "write"}
    <3>1. CASE Start \/ Detects \/ Allocates \/ Loads \/ EnsureReads \/ Selects \/ StartsSession
      BY <1>0, <3>1, Starts, DetectsVendors, AllocatesRoles, LoadsFile, ReadsLimit, SelectsCopy, SessionStarts DEF Shapes
    <3>2. CASE SwitchesSession \/ Delegates
      BY <1>0, <1>1, <3>2, SessionSwitches, DelegatesRole DEF RunKeeps
    <3> QED
      BY <1>3, <3>1, <3>2
  <2> QED
    BY <1>0, <1>2, <2>1, <2>2 DEF Shapes
<1>4. CASE Prepare \/ Onboards \/ ChecksJev
  <2>1. /\ DOMAIN run' = DOMAIN run /\ run'.at \in {"asked", "jev", "detect"} /\ ~argv.sdk /\ UNCHANGED history
        /\ DiskKeeps({"ignored", "settings", "key"}) /\ disk'.settings \in {disk.settings, "answered"} /\ disk'.key \in BOOLEAN
    BY <1>0, <1>4, Prepares, Asks, Checks DEF RunKeeps, DiskKeeps, Shapes
  <2> QED
    BY <1>0, <1>2, <2>1 DEF Shapes, DiskKeeps
<1>5. CASE Writes \/ EnsureWrites \/ Plans \/ Quits \/ Refreshes
  <2>1. /\ DOMAIN run' = DOMAIN run /\ UNCHANGED history /\ DiskKeeps({"user", "limit", "host", "latest"})
        /\ IsFile(disk'.user) /\ DOMAIN disk'.limit = {"ok", "limit", "async"} /\ disk'.host \in {disk.host, "patched"}
    <3>1. CASE Writes
      BY <1>0, <3>1, WritesFile, RenderedFile DEF RunKeeps, DiskKeeps, Shapes
    <3>2. CASE EnsureWrites
      BY <1>0, <3>2, WritesLimit DEF RunKeeps, DiskKeeps, Shapes
    <3>3. CASE Plans
      BY <1>0, <3>3, PlansLaunch DEF RunKeeps, DiskKeeps, Shapes
    <3>4. CASE Quits \/ Refreshes
      BY <1>0, <3>4, OthersLive DEF RunKeeps, DiskKeeps, Shapes
    <3> QED
      BY <1>5, <3>1, <3>2, <3>3, <3>4
  <2>2. run'.at \in {run.at, "select", "exited", "activate"} \/ (run'.at = "load" /\ ~argv.sdk)
    BY <1>0, <1>5, WritesFile, WritesLimit, PlansLaunch, OthersLive DEF Shapes
  <2> QED
    BY <1>0, <1>2, <2>1, <2>2 DEF Shapes, DiskKeeps
<1>6. CASE Activates
  <2>1. DOMAIN EnsureDefaultConfig(disk.limit) = {"ok", "limit", "async"}
    BY <1>0 DEF EnsureDefaultConfig, Shapes
  <2> QED
    BY <1>0, <1>2, <1>6, <2>1, ActivatesSession DEF Shapes, RunKeeps, DiskKeeps
<1>7. CASE Dies
  <2>1. DOMAIN run' = DOMAIN run
    BY <1>0, <1>7, RunDies DEF Shapes
  <2> QED
    BY <1>0, <1>2, <1>7, <2>1, RunDies DEF Shapes, DiskKeeps
<1>8. CASE Relaunch
  BY <1>0, <1>8 DEF Relaunch, Shapes, NoRun
<1>9. CASE Elsewhere
  <2>1. /\ disk' \in Neighbours /\ UNCHANGED <<machine, argv, run, launches, begun>>
        /\ others' = others + 1 /\ quiet' = FALSE
    BY <1>9 DEF Elsewhere
  <2>2. /\ DOMAIN disk' = DOMAIN disk /\ IsFile(disk'.user) /\ DOMAIN disk'.limit = {"ok", "limit", "async"}
        /\ disk'.fold \in BOOLEAN /\ disk'.key \in BOOLEAN /\ disk'.settings = disk.settings /\ disk'.host = disk.host
        /\ disk'.profile \in {"native", "external"}
    BY <1>0, <2>1, NeighboursWrite
  <2>a. others \in Nat
    BY <1>0 DEF Shapes
  <2>b. others' = others + 1
    BY <2>1
  <2>c. quiet' \in BOOLEAN
    BY <2>1
  <2>3. others' \in Nat /\ others' # 0 /\ quiet' \in BOOLEAN
    BY <2>a, <2>b, <2>c
  <2>4. machine' = machine /\ argv' = argv /\ run' = run /\ launches' = launches /\ begun' = begun
    BY <2>1
  <2>5. IsFile(begun') /\ IsFile(disk'.user)
    BY <1>0, <2>2, <2>4 DEF Shapes
  <2> QED
    BY <1>0, <2>2, <2>3, <2>4, <2>5 DEF Shapes
<1>10. CASE Exited
  BY <1>0, <1>10 DEF Exited, launchVars, Shapes
<1> QED
  BY <1>3, <1>4, <1>5, <1>6, <1>7, <1>8, <1>9, <1>10 DEF LaunchNext

LEMMA DecidedCarries ==
  ASSUME Decided, UNCHANGED history, disk'.user = disk.user, disk'.key = disk.key,
         run'.check = run.check, run'.config = run.config, run'.child = run.child, run'.mode = run.mode,
         Underway' => Underway, Deciding' => Underway \/ Deciding, Inside' => Inside
  PROVE  Decided'
<1>1. machine' = machine /\ argv' = argv /\ quiet' = quiet /\ Flags' = Flags
  BY SameLaunch DEF history
<1>2. /\ RequireJev(machine', disk', Flags') = RequireJev(machine, disk, Flags)
      /\ LoadedConfig(machine', disk') = LoadedConfig(machine, disk)
  BY <1>1, SameLookup
<1>3. LaunchEnv'.noJev = LaunchEnv.noJev
  BY <1>1 DEF LaunchEnv
<1> QED
  BY <1>1, <1>2, <1>3 DEF Decided, Deciding

\* A map written where none was moves no answer about the control plane.
LEMMA WrittenJev ==
  ASSUME NEW m \in Machines, NEW d, NEW e, NEW roles, NEW f,
         ~Configured(m, d), e.user = RenderConfig(m, roles), e.key = d.key
  PROVE  RequireJev(m, e, f) = RequireJev(m, d, f)
<1>1. m.project = NoFile
  BY LaunchAssumption DEF LaunchAssumption, IsFile, Configured
<1>2. BootstrapConfig(m, d).jev = DefaultJev
  BY DEF BootstrapConfig, NoConfig
<1>3. BootstrapConfig(m, e).jev = DefaultJev
  <2>1. CASE ~m.home
    BY <1>1, <2>1 DEF BootstrapConfig, NoConfig, Configured, UserFile, NoFile
  <2>2. CASE m.home
    <3>1. LoadedConfig(m, e).jev = ParseJev(MergeRecords(e.user, NoFile))
      BY <1>1, <2>2 DEF LoadedConfig, UserFile
    <3>2. MergeRecords(e.user, NoFile).jev = {DefaultJev}
      BY DEF MergeRecords, NoFile, RenderConfig
    <3>3. ParseJev(MergeRecords(e.user, NoFile)) = DefaultJev
      BY <3>2 DEF ParseJev
    <3> QED
      BY <3>1, <3>3 DEF BootstrapConfig, NoConfig
  <2> QED
    BY <2>1, <2>2
<1>4. ResolveCredential(m, e, BootstrapConfig(m, e)) = ResolveCredential(m, d, BootstrapConfig(m, d))
  BY <1>2, <1>3 DEF ResolveCredential
<1> QED
  BY <1>2, <1>3, <1>4 DEF RequireJev

\* A key that is stored now is the one the answer was about.
LEMMA StoredKey ==
  ASSUME NEW m, NEW d, NEW e, NEW f, e.user = d.user, f.key \/ e.key = d.key
  PROVE  RequireJev(m, e, f) = RequireJev(m, d, f)
<1>1. BootstrapConfig(m, e) = BootstrapConfig(m, d)
  BY DEF BootstrapConfig, LoadedConfig, Configured, UserFile
<1>2. CASE f.key
  BY <1>1, <1>2 DEF RequireJev
<1>3. CASE e.key = d.key
  BY <1>1, <1>3 DEF RequireJev, ResolveCredential
<1> QED
  BY <1>2, <1>3

LEMMA DecidedStays ==
  ASSUME LaunchInv, LaunchNext
  PROVE  Decided'
<1>0. Shapes /\ Decided /\ Written /\ machine \in Machines
  BY DEF LaunchInv, Shapes
<1>a. ASSUME Deciding', ~Underway', ~Inside', UNCHANGED history,
             run'.check = RequireJev(machine, disk', Flags), Flags.key => disk'.key
      PROVE  Decided'
  BY <1>a, SameLaunch DEF Decided, Deciding, history
<1>b. ASSUME ~Deciding', ~Underway', ~Inside'
      PROVE  Decided'
  BY <1>b DEF Decided, Deciding
<1>1. CASE Start
  <2>1. /\ RunKeeps({"at"}) /\ run'.at \in {"ensure", "failed", "plan", "prepare"} /\ (run'.at = "ensure" <=> argv.sdk)
        /\ run'.at = "plan" => IsInformational(Flags)
        /\ UNCHANGED <<disk, history>>
    BY <1>0, <1>1, Starts
  <2>2. argv' = argv /\ Flags' = Flags
    BY <2>1, SameLaunch DEF history
  <2> QED
    BY <2>1, <2>2 DEF Decided, Underway, Inside, Deciding
<1>2. CASE Prepare \/ Onboards
  <2>1. run'.at \in {"asked", "jev"}
    BY <1>0, <1>2, Prepares, Asks
  <2> QED
    BY <1>b, <2>1 DEF Deciding, Underway, Inside
<1>3. CASE ChecksJev
  <2>1. /\ run'.at = "detect" /\ run'.check = RequireJev(machine, disk, Flags) /\ UNCHANGED history
        /\ disk'.user = disk.user /\ (Flags.key \/ disk'.key = disk.key) /\ (Flags.key => disk'.key)
    BY <1>0, <1>3, Checks DEF DiskKeeps, Shapes
  <2>2. run'.check = RequireJev(machine, disk', Flags)
    BY <2>1, StoredKey
  <2> QED
    BY <1>a, <2>1, <2>2 DEF Deciding, Underway, Inside
<1>4. CASE Detects \/ Allocates
  <2>1. /\ run'.at \in {"load", "allocate", "failed", "write"} /\ run'.check = run.check /\ UNCHANGED <<disk, history>>
        /\ run.at \in {"detect", "allocate"}
    BY <1>0, <1>4, DetectsVendors, AllocatesRoles DEF RunKeeps, NoRun
  <2> QED
    BY <1>0, <2>1, SameLaunch DEF Decided, Deciding, Underway, Inside, history
<1>5. CASE Writes
  <2>1. /\ run'.at = "load" /\ run'.check = run.check /\ UNCHANGED history /\ run.at = "write" /\ disk'.key = disk.key
        /\ disk'.user = RenderConfig(machine, run.roles)
    BY <1>0, <1>5, WritesFile DEF RunKeeps, NoRun, DiskKeeps, Shapes
  <2>2. quiet => RequireJev(machine, disk', Flags) = RequireJev(machine, disk, Flags)
    BY <1>0, <2>1, WrittenJev DEF Written
  <2> QED
    BY <1>0, <2>1, <2>2, SameLaunch DEF Decided, Deciding, Underway, Inside, history
<1>6. CASE Loads
  <2>1. /\ run'.at \in {"ensure", "failed"} /\ run'.check = run.check /\ UNCHANGED <<disk, history>> /\ run.at = "load"
        /\ run'.at = "ensure" => run'.config = LoadedConfig(machine, disk) /\ run'.config.ok
    BY <1>0, <1>6, LoadsFile DEF RunKeeps, NoRun
  <2> QED
    BY <1>0, <2>1, SameLaunch DEF Decided, Deciding, Underway, Inside, history
<1>7. CASE EnsureReads \/ EnsureWrites \/ Selects \/ Plans
  <2>1. /\ run'.check = run.check /\ run'.config = run.config /\ run'.child = run.child /\ run'.mode = run.mode
        /\ UNCHANGED history /\ disk'.user = disk.user /\ disk'.key = disk.key
    BY <1>0, <1>7, ReadsLimit, WritesLimit, SelectsCopy, PlansLaunch DEF RunKeeps, NoRun, DiskKeeps, Shapes
  <2>2. /\ run.at \in {"ensure", "merge", "select"} \/ (run.at = "plan" /\ (run'.at = "activate" => argv.sdk \/ ~IsInformational(Flags)))
        /\ run'.at \in {"failed", "select", "merge", "plan", "activate", "exited"}
    BY <1>0, <1>7, ReadsLimit, WritesLimit, SelectsCopy, PlansLaunch
  <2>3. run.at = "plan" => run'.at \in {"exited", "activate"}
    BY <1>0, <1>7, ReadsLimit, WritesLimit, SelectsCopy, PlansLaunch
  <2> QED
    BY <1>0, <2>1, <2>2, <2>3, DecidedCarries DEF Underway, Inside, Deciding
<1>8. CASE Activates
  <2>1. /\ run'.check = run.check /\ run'.config = run.config /\ run.at = "activate" /\ run'.at \in {"session", "failed"}
        /\ run'.at = "session" => /\ run'.child = LoadedConfig(machine, disk) /\ run'.child.ok
                                  /\ run'.mode = (IF LaunchEnv.noJev THEN "disabled" ELSE run'.child.jev.mode)
        /\ UNCHANGED history /\ disk'.user = disk.user /\ disk'.key = disk.key
    BY <1>0, <1>8, ActivatesSession DEF RunKeeps, NoRun, DiskKeeps, Shapes
  <2>2. machine' = machine /\ argv' = argv /\ quiet' = quiet /\ Flags' = Flags
    BY <2>1, SameLaunch DEF history
  <2>3. /\ RequireJev(machine', disk', Flags') = RequireJev(machine, disk, Flags)
        /\ LoadedConfig(machine', disk') = LoadedConfig(machine, disk)
    BY <2>1, <2>2, SameLookup
  <2>4. LaunchEnv'.noJev = LaunchEnv.noJev
    BY <2>2 DEF LaunchEnv
  <2> QED
    BY <1>0, <2>1, <2>2, <2>3, <2>4 DEF Decided, Underway, Inside
<1>9. CASE StartsSession \/ SwitchesSession \/ Delegates \/ Quits \/ Refreshes
  <2>1. /\ run'.check = run.check /\ run'.config = run.config /\ run'.child = run.child /\ run'.mode = run.mode
        /\ UNCHANGED history /\ disk'.user = disk.user /\ disk'.key = disk.key
    BY <1>0, <1>9, SessionStarts, SessionSwitches, DelegatesRole, OthersLive DEF RunKeeps, NoRun, DiskKeeps, Shapes
  <2>2. run'.at \in {run.at, "exited", "failed"} \/ (run.at = "session" /\ run'.at = "running")
    BY <1>0, <1>9, SessionStarts, SessionSwitches, DelegatesRole, OthersLive DEF RunKeeps, NoRun
  <2>3. argv' = argv /\ Flags' = Flags
    BY <2>1, SameLaunch DEF history
  <2> QED
    BY <1>0, <2>1, <2>2, <2>3, DecidedCarries DEF Underway, Inside, Deciding
<1>10. CASE Dies \/ Relaunch
  <2>1. run'.at \in {"dead", "parse"}
    BY <1>0, <1>10, RunDies DEF Relaunch, NoRun
  <2> QED
    BY <1>b, <2>1 DEF Deciding, Underway, Inside
<1>11. CASE Elsewhere
  <2>1. run' = run /\ ~quiet' /\ machine' = machine /\ argv' = argv
    BY <1>11 DEF Elsewhere
  <2>2. LaunchEnv' = LaunchEnv
    BY <2>1 DEF LaunchEnv, Flags
  <2> QED
    BY <1>0, <2>1, <2>2 DEF Decided, Inside
<1>12. CASE Exited
  <2>1. UNCHANGED history /\ UNCHANGED <<run, disk>>
    BY <1>12 DEF Exited, launchVars, history
  <2>2. Flags' = Flags /\ argv' = argv
    BY <2>1, SameLaunch DEF history
  <2> QED
    BY <1>0, <2>1, <2>2, DecidedCarries DEF Underway, Inside, Deciding
<1> QED
  BY <1>1, <1>2, <1>3, <1>4, <1>5, <1>6, <1>7, <1>8, <1>9, <1>10, <1>11, <1>12 DEF LaunchNext

\* A step that leaves a session's answers leaves what it would say.
LEMMA SameSaying ==
  ASSUME UNCHANGED <<machine, argv>>, disk'.user = disk.user, disk'.key = disk.key,
         run'.told = run.told, run'.child = run.child, run'.mode = run.mode
  PROVE  SessionTells' = SessionTells
<1>1. LaunchEnv' = LaunchEnv
  BY DEF LaunchEnv, Flags
<1>2. ResolveCredential(machine', disk', run'.child) = ResolveCredential(machine, disk, run.child)
  BY SameLookup
<1> QED
  BY <1>1, <1>2 DEF SessionTells

LEMMA WarnedStays ==
  ASSUME LaunchInv, LaunchNext
  PROVE  Warned'
<1>0. Shapes /\ Warned
  BY DEF LaunchInv
<1>1. ASSUME run'.told = {}, ~(run'.at = "running" /\ quiet')
      PROVE  Warned'
  BY <1>1 DEF Warned
<1>2. ASSUME UNCHANGED <<machine, argv>>, run'.told = run.told, run'.at # "running" \/ ~quiet', run'.at = run.at \/ run.told # {"session"}
      PROVE  Warned'
  BY <1>0, <1>2 DEF Warned
<1>3. CASE Start \/ Prepare \/ Onboards \/ ChecksJev \/ Detects \/ Allocates \/ Writes
  <2>1. /\ UNCHANGED history /\ run'.told = run.told /\ run'.at # "running" /\ run.at \notin {"running", "exited"}
    BY <1>0, <1>3, Starts, Prepares, Asks, Checks, DetectsVendors, AllocatesRoles, WritesFile DEF RunKeeps, NoRun
  <2> QED
    BY <1>0, <1>2, <2>1 DEF Warned, history
<1>4. CASE EnsureReads \/ EnsureWrites \/ Selects \/ Plans \/ Activates
  <2>1. /\ UNCHANGED history /\ run'.told = run.told /\ run'.at # "running" /\ run.at \notin {"running", "exited"}
    BY <1>0, <1>4, ReadsLimit, WritesLimit, SelectsCopy, PlansLaunch, ActivatesSession DEF RunKeeps, NoRun
  <2> QED
    BY <1>0, <1>2, <2>1 DEF Warned, history
<1>5. CASE Loads
  <2>1. /\ run.at = "load" /\ run'.at \in {"ensure", "failed"} /\ UNCHANGED history
        /\ run'.told \in {{}, {"launcher"}} \/ (run'.at = "failed" /\ run'.told = run.told)
    BY <1>0, <1>5, LoadsFile
  <2>2. ~argv.sdk /\ argv' = argv
    BY <1>0, <2>1 DEF Shapes, history
  <2> QED
    BY <1>0, <2>1, <2>2 DEF Warned
<1>6. CASE StartsSession \/ SwitchesSession
  <2>1. /\ UNCHANGED <<disk, history>> /\ run'.child = run.child /\ run'.mode = run.mode /\ run'.at \in {"failed", "running"}
        /\ run'.at = "failed" => run.at = "session" /\ run'.told = run.told
        /\ run'.at = "running" => run'.told = Telling
    BY <1>0, <1>6, SessionStarts, SessionSwitches DEF RunKeeps, NoRun
  <2>2. argv' = argv /\ machine' = machine
    BY <2>1 DEF history
  <2>3. CASE run'.at = "failed"
    BY <1>0, <2>1, <2>2, <2>3 DEF Warned
  <2>4. CASE run'.at = "running"
    <3>1. run'.told = Telling
      BY <2>1, <2>4
    <3>2. SessionTells => ~argv.sdk /\ "launcher" \notin run.told
      BY DEF SessionTells, LaunchEnv
    <3>3. Telling \in {run.told, {"session"}} /\ (argv.sdk => Telling = run.told) /\ (SessionTells => Telling # {})
      BY <1>0, <3>2 DEF Telling, Warned
    <3>4. run'.told = {} => run'.told = run.told /\ ~SessionTells
      BY <1>0, <3>1, <3>2 DEF Warned, Telling
    <3>5. run'.told = {} => ~SessionTells'
      BY <2>1, <2>2, <3>4, SameSaying
    <3> QED
      BY <1>0, <2>2, <2>4, <3>1, <3>3, <3>5 DEF Warned
  <2> QED
    BY <2>1, <2>3, <2>4
<1>7. CASE Delegates \/ Quits \/ Refreshes \/ Exited
  <2>1. /\ UNCHANGED history /\ run'.told = run.told /\ run'.child = run.child /\ run'.mode = run.mode
        /\ disk'.user = disk.user /\ disk'.key = disk.key /\ run'.at \in {run.at, "exited"} /\ (run'.at # run.at => run.at = "running")
    <3>1. CASE Delegates
      BY <1>0, <3>1, DelegatesRole DEF RunKeeps, NoRun
    <3>2. CASE Quits \/ Refreshes
      BY <1>0, <3>2, OthersLive DEF RunKeeps, NoRun, DiskKeeps, Shapes, Quits, Refreshes
    <3>3. CASE Exited
      BY <3>3 DEF Exited, launchVars, history
    <3> QED
      BY <1>7, <3>1, <3>2, <3>3
  <2>2. SessionTells' = SessionTells /\ argv' = argv /\ quiet' = quiet
    BY <2>1, SameSaying DEF history
  <2> QED
    BY <1>0, <2>1, <2>2 DEF Warned
<1>8. CASE Dies \/ Relaunch
  <2>1. run'.at \in {"dead", "parse"} /\ run'.told = {}
    BY <1>0, <1>8, RunDies DEF Relaunch, NoRun
  <2> QED
    BY <1>1, <2>1
<1>9. CASE Elsewhere
  BY <1>0, <1>2, <1>9 DEF Elsewhere
<1> QED
  BY <1>3, <1>4, <1>5, <1>6, <1>7, <1>8, <1>9 DEF LaunchNext

LEMMA ComposedStays ==
  ASSUME LaunchInv, LaunchNext
  PROVE  Composed'
<1>0. Shapes /\ Composed
  BY DEF LaunchInv
<1> DEFINE Chosen   == Underway /\ run.at \notin {"ensure", "merge", "select"}
           Composing == run.at = "activate" \/ Inside
<1>a. ASSUME ~Chosen', ~Composing' PROVE Composed'
  BY <1>a DEF Composed
<1>1. ASSUME UNCHANGED <<machine, argv>>, run'.entry = run.entry, run'.plan = run.plan, Chosen' => Chosen, Composing' => Composing
      PROVE  Composed'
  BY <1>0, <1>1, SameLaunch DEF Composed
<1>2. CASE Start \/ Prepare \/ Onboards \/ ChecksJev \/ Detects \/ Allocates \/ Writes \/ Loads \/ EnsureReads \/ EnsureWrites
  <2>1. /\ run'.at \in {"ensure", "failed", "plan", "prepare", "asked", "jev", "detect", "load", "allocate", "write", "select", "merge"}
        /\ run'.at = "plan" => ~argv.sdk /\ IsInformational(Flags)
        /\ UNCHANGED history
    <3>1. CASE Start
      BY <1>0, <3>1, Starts
    <3>2. CASE Prepare \/ Onboards \/ ChecksJev \/ Detects \/ Allocates
      BY <1>0, <3>2, Prepares, Asks, Checks, DetectsVendors, AllocatesRoles
    <3>3. CASE Writes \/ Loads \/ EnsureReads \/ EnsureWrites
      BY <1>0, <3>3, WritesFile, LoadsFile, ReadsLimit, WritesLimit
    <3> QED
      BY <1>2, <3>1, <3>2, <3>3
  <2>2. argv' = argv /\ Flags' = Flags
    BY <2>1, SameLaunch DEF history
  <2> QED
    BY <1>a, <2>1, <2>2 DEF Underway, Inside
<1>3. CASE Selects
  <2>1. /\ run'.at \in {"plan", "failed"} /\ UNCHANGED history
        /\ run'.at = "plan" => Selectable /\ run'.entry = Selection
    BY <1>0, <1>3, SelectsCopy
  <2>2. UNCHANGED <<machine, argv>>
    BY <2>1 DEF history
  <2> QED
    BY <2>1, <2>2, SameLaunch DEF Composed, Underway, Inside
<1>4. CASE Plans
  <2>1. /\ run.at = "plan" /\ run'.at \in {"exited", "activate"} /\ run'.entry = run.entry /\ UNCHANGED history
        /\ run'.at = "activate" => argv.sdk \/ ~IsInformational(Flags)
        /\ run'.plan = SdkPlan \/ \E fold \in BOOLEAN : run'.plan = LaunchPlan(machine, Flags, fold)
    BY <1>0, <1>4, PlansLaunch DEF RunKeeps, NoRun
  <2>2. UNCHANGED <<machine, argv>>
    BY <2>1 DEF history
  <2> QED
    BY <1>0, <2>1, <2>2, SameLaunch DEF Composed, Underway, Inside
<1>5. CASE Activates \/ StartsSession \/ SwitchesSession \/ Delegates \/ Quits \/ Refreshes
  <2>1. run'.entry = run.entry /\ run'.plan = run.plan /\ UNCHANGED history
    BY <1>0, <1>5, ActivatesSession, SessionStarts, SessionSwitches, DelegatesRole, OthersLive DEF RunKeeps, NoRun
  <2>2. run'.at \in {run.at, "exited", "failed"} \/ (run.at \in {"activate", "session"} /\ run'.at \in {"session", "running"})
    BY <1>0, <1>5, ActivatesSession, SessionStarts, SessionSwitches, DelegatesRole, OthersLive DEF RunKeeps, NoRun
  <2>3. UNCHANGED <<machine, argv>> /\ Flags' = Flags
    BY <2>1, SameLaunch DEF history
  <2> QED
    BY <1>1, <2>1, <2>2, <2>3 DEF Underway, Inside
<1>6. CASE Dies \/ Relaunch
  <2>1. run'.at \in {"dead", "parse"}
    BY <1>0, <1>6, RunDies DEF Relaunch, NoRun
  <2> QED
    BY <1>a, <2>1 DEF Underway, Inside
<1>7. CASE Elsewhere \/ Exited
  <2>1. run' = run /\ machine' = machine /\ argv' = argv
    BY <1>7 DEF Elsewhere, Exited, launchVars
  <2> QED
    BY <1>1, <2>1, SameLaunch DEF Underway, Inside
<1> QED
  BY <1>2, <1>3, <1>4, <1>5, <1>6, <1>7 DEF LaunchNext

\* Three things in a row.
LEMMA Triple ==
  ASSUME NEW T, NEW a \in T, NEW b \in T, NEW c \in T
  PROVE  /\ <<a, b, c>> \in Seq(T) /\ <<a, b, c>> # <<>>
         /\ \A v \in {a, b, c} : \E i \in DOMAIN <<a, b, c>> : <<a, b, c>>[i] = v
<1>1. /\ <<a, b, c>>[1] = a /\ <<a, b, c>>[2] = b /\ <<a, b, c>>[3] = c
      /\ 1 \in DOMAIN <<a, b, c>> /\ 2 \in DOMAIN <<a, b, c>> /\ 3 \in DOMAIN <<a, b, c>>
  OBVIOUS
<1> QED
  BY <1>1

\* A sequence that is not empty has an element, and so has a longer one.
LEMMA Ranges ==
  ASSUME NEW T, NEW s \in Seq(T), NEW t \in Seq(T), t # <<>>
  PROVE  (\E x : x \in Range(t)) /\ (\E x : x \in Range(s \o t))
<1>1. Len(s) \in Nat /\ Len(t) \in Nat \ {0} /\ t[1] \in Range(t)
  BY DEF Range
<1>2. s \o t \in Seq(T) /\ Len(s \o t) = Len(s) + Len(t)
  BY ConcatProperties
<1>3. Len(s) + 1 \in DOMAIN (s \o t)
  BY <1>1, <1>2
<1>4. (s \o t)[Len(s) + 1] \in Range(s \o t)
  BY <1>3 DEF Range
<1> QED
  BY <1>1, <1>4

\* Every vendor offers a model.
LEMMA Offers ==
  ASSUME NEW m \in Machines, NEW v \in Vendors
  PROVE  \E x : x \in DetectModels(m, v).models
<1> DEFINE Models     == [of : STRING, id : STRING]
           NamedBy(w) == IF m.named[w] # <<>> THEN m.named[w] ELSE <<VendorDefault>>
<1>1. m.named \in [Vendors -> Seq(Models)]
  BY LaunchAssumption DEF LaunchAssumption
<1>3. ASSUME NEW w \in Vendors PROVE \E x : x \in Range(NamedBy(w))
  <2>1. m.named[w] \in Seq(Models)
    BY <1>1
  <2> HIDE DEF Models
  <2>2. CASE m.named[w] # <<>>
    BY <2>1, <2>2, Ranges
  <2>3. CASE m.named[w] = <<>>
    <3>1. NamedBy(w) = <<VendorDefault>>
      BY <2>3
    <3>2. VendorDefault \in Range(<<VendorDefault>>)
      BY DEF Range
    <3> QED
      BY <3>1, <3>2
  <2> QED
    BY <2>2, <2>3
<1>4. CASE v = "claude"
  <2>1. m.named["claude"] \in Seq(Models)
    BY <1>1 DEF Vendors
  <2> DEFINE Known == Models \union {Id("none", "opus"), Id("none", "sonnet"), Id("none", "haiku")}
  <2> HIDE DEF Models
  <2>2. m.named["claude"] \in Seq(Known)
    BY <2>1, SeqDef
  <2>4. ClaudeAliases \in Seq(Known) /\ ClaudeAliases # <<>>
    BY Triple DEF ClaudeAliases
  <2> HIDE DEF Known
  <2>3. DetectModels(m, v).models = Range(m.named["claude"] \o ClaudeAliases)
    BY <1>4 DEF DetectModels, ClaudeModels, Offer
  <2> QED
    BY <2>2, <2>3, <2>4, Ranges
<1>5. CASE v = "codex"
  <2>1. DetectModels(m, v).models = Range(NamedBy("codex"))
    BY <1>5 DEF DetectModels, CodexModels, Offer
  <2> QED
    BY <1>3, <2>1 DEF Vendors
<1>6. CASE v = "opencode"
  <2> DEFINE listed == {i \in DOMAIN m.listed : m.listed[i].of = Go}
  <2>1. CASE listed = {}
    <3>1. DetectModels(m, v).models = Range(NamedBy("opencode"))
      BY <1>6, <2>1 DEF DetectModels, OpenCodeModels, Offer
    <3> QED
      BY <1>3, <3>1 DEF Vendors
  <2>2. CASE listed # {}
    <3>1. DetectModels(m, v).models = {m.listed[i] : i \in listed}
      BY <1>6, <2>2 DEF DetectModels, OpenCodeModels, Offer
    <3> QED
      BY <2>2, <3>1
  <2> QED
    BY <2>1, <2>2
<1> QED
  BY <1>4, <1>5, <1>6 DEF Vendors

\* Whose a model is, and where it would be dispatched.
LEMMA Dispatched ==
  ASSUME NEW m, NEW v, NEW x
  PROVE  /\ Discovered(m, v, x).vendor = v
         /\ Discovered(m, v, x).backend = (IF NativeOpenCode(m) /\ v = "opencode" THEN Go ELSE v)
<1> DEFINE c == [vendor |-> v, backend |-> v, model |-> x]
           y == IF c.model.of = Go THEN Id("none", c.model.id) ELSE c.model
<1>1. CASE ~(NativeOpenCode(m) /\ v = "opencode")
  BY <1>1 DEF Discovered, Remap
<1>2. CASE NativeOpenCode(m) /\ v = "opencode"
  <2>1. Discovered(m, v, x) = [c EXCEPT !.backend = Go, !.model = y]
    BY <1>2 DEF Discovered, Remap
  <2> HIDE DEF y
  <2> QED
    BY <1>2, <2>1
<1> QED
  BY <1>1, <1>2

\* Every role of an allocation is of a vendor the machine can run, and is
\* dispatched on a backend the rendered file declares.
LEMMA Allocated ==
  ASSUME NEW m \in Machines, NEW ballot, \E v \in Vendors : Ready(m, v), NEW r \in Roles
  PROVE  /\ Ready(m, AllocateRoles(m, ballot)[r].vendor)
         /\ AllocateRoles(m, ballot)[r].backend \in DOMAIN RenderBackends(m)
<1>1. ASSUME NEW v \in Vendors, NEW x, Ready(m, v)
      PROVE  /\ Ready(m, Discovered(m, v, x).vendor) /\ Discovered(m, v, x).backend \in DOMAIN RenderBackends(m)
  BY <1>1, Dispatched DEF RenderBackends
<1>2. ASSUME NEW c \in Candidates(m)
      PROVE  \E v \in Vendors : c.vendor = v /\ Ready(m, v) /\ \E x : c = Discovered(m, v, x)
  BY <1>2, Dispatched DEF Candidates, DiscoverInventory
<1> DEFINE S == {c.vendor : c \in Candidates(m)}
<1>3. ASSUME NEW v \in Vendors, Ready(m, v) PROVE v \in S
  <2>1. PICK x : x \in DetectModels(m, v).models
    BY Offers
  <2>2. Discovered(m, v, x) \in DiscoverInventory(m)
    BY <2>1 DEF DiscoverInventory
  <2>3. Discovered(m, v, x) \in Candidates(m) /\ Discovered(m, v, x).vendor = v
    BY <1>3, <2>2, Dispatched DEF Candidates
  <2> QED
    BY <2>3
<1>4. FirstIn(Ladder[r], S) \in S
  <2>1. Ladder[r] \in Seq(Vendors) /\ \A v \in Vendors : \E i \in DOMAIN Ladder[r] : Ladder[r][i] = v
    <3>1. Ladder[r] \in {<<"opencode", "codex", "claude">>, <<"codex", "claude", "opencode">>, <<"claude", "codex", "opencode">>}
      BY DEF Ladder
    <3>2. ASSUME NEW a \in Vendors, NEW b \in Vendors, NEW c \in Vendors, \A v \in Vendors : v \in {a, b, c}, Ladder[r] = <<a, b, c>>
          PROVE  Ladder[r] \in Seq(Vendors) /\ \A v \in Vendors : \E i \in DOMAIN Ladder[r] : Ladder[r][i] = v
      BY <3>2, Triple
    <3>3. CASE Ladder[r] = <<"opencode", "codex", "claude">>
      BY <3>2, <3>3 DEF Vendors
    <3>4. CASE Ladder[r] = <<"codex", "claude", "opencode">>
      BY <3>2, <3>4 DEF Vendors
    <3>5. CASE Ladder[r] = <<"claude", "codex", "opencode">>
      BY <3>2, <3>5 DEF Vendors
    <3> QED
      BY <3>1, <3>3, <3>4, <3>5
  <2>2. \E i \in DOMAIN Ladder[r] : Ladder[r][i] \in S
    BY <1>3, <2>1
  <2> HIDE DEF S
  <2> QED
    BY <2>1, <2>2, FirstOf
<1>5. FirstIn(Ladder[r], S) \in Vendors /\ Ready(m, FirstIn(Ladder[r], S))
  BY <1>2, <1>4
<1>6. LadderAllocation(m)[r] = Discovered(m, FirstIn(Ladder[r], S), DetectModels(m, FirstIn(Ladder[r], S)).first)
  BY DEF LadderAllocation
<1>7. CASE ballot[r] \in Candidates(m)
  <2>1. AllocateRoles(m, ballot)[r] = ballot[r]
    BY <1>7 DEF AllocateRoles
  <2> QED
    BY <1>1, <1>2, <1>7, <2>1
<1>8. CASE ballot[r] \notin Candidates(m)
  <2>1. AllocateRoles(m, ballot)[r] = LadderAllocation(m)[r]
    BY <1>8 DEF AllocateRoles
  <2> HIDE DEF S
  <2> QED
    BY <1>1, <1>5, <1>6, <2>1
<1> QED
  BY <1>7, <1>8

\* What is rendered native is what Pi can dial.
LEMMA RenderedNative ==
  ASSUME NEW m, NEW roles, NEW b \in Native(RenderConfig(m, roles))
  PROVE  PiReady(m, b) /\ RenderConfig(m, roles).backends[b].url
<1> DEFINE backends == RenderConfig(m, roles).backends
<1>1. backends = RenderBackends(m) /\ b \in DOMAIN backends /\ backends[b].type = "native"
  BY DEF RenderConfig, Native
<1>2. b \in DOMAIN RenderBackends(m) /\ RenderBackends(m)[b] = (IF b = Go THEN NativeOpenCodeGo(m) ELSE Harness)
  BY <1>1 DEF RenderBackends
<1>3. b = Go
  BY <1>1, <1>2 DEF Harness
<1>4. NativeOpenCode(m)
  BY <1>2, <1>3 DEF RenderBackends, Go, Vendors
<1> QED
  BY <1>1, <1>2, <1>3, <1>4 DEF NativeOpenCode, NativeOpenCodeGo

\* A role map of a machine with a vendor is one it can run.
LEMMA AllocationRuns ==
  ASSUME NEW m \in Machines, NEW ballot, \E v \in Vendors : Ready(m, v), NEW roles, roles = AllocateRoles(m, ballot)
  PROVE  /\ ParseModels(RenderConfig(m, roles)) /\ DOMAIN RenderConfig(m, roles).models = Roles
         /\ \A r \in Roles : Ready(m, roles[r].vendor)
         /\ \A b \in Native(RenderConfig(m, roles)) : PiReady(m, b) /\ RenderConfig(m, roles).backends[b].url
<1>1. \A r \in Roles : Ready(m, roles[r].vendor) /\ roles[r].backend \in DOMAIN RenderBackends(m)
  BY Allocated
<1>2. /\ RenderConfig(m, roles).models = [r \in Roles |-> [backend |-> roles[r].backend, model |-> roles[r].model]]
      /\ RenderConfig(m, roles).backends = RenderBackends(m)
  BY DEF RenderConfig
<1>3. ParseModels(RenderConfig(m, roles)) /\ DOMAIN RenderConfig(m, roles).models = Roles
  BY <1>1, <1>2 DEF ParseModels
<1> QED
  BY <1>1, <1>3, RenderedNative

LEMMA WrittenStays ==
  ASSUME LaunchInv, LaunchNext
  PROVE  Written'
<1>0. Shapes /\ Written /\ machine \in Machines
  BY DEF LaunchInv, Shapes
<1>1. ASSUME UNCHANGED <<machine, quiet, begun>>, disk'.user = disk.user, run'.roles = run.roles, run'.at \notin {"allocate", "write"}
      PROVE  Written'
  BY <1>0, <1>1 DEF Written, RolesAreRunnable
<1>2. CASE Start \/ Prepare \/ Onboards \/ ChecksJev
  <2>1. run'.at \notin {"allocate", "write"} /\ UNCHANGED history /\ run'.roles = run.roles /\ disk'.user = disk.user
    BY <1>0, <1>2, Starts, Prepares, Asks, Checks DEF RunKeeps, NoRun, DiskKeeps, Shapes
  <2> QED
    BY <1>1, <2>1 DEF history
<1>3. CASE Loads \/ EnsureReads \/ EnsureWrites \/ Selects \/ Plans \/ Activates
  <2>1. run'.at \notin {"allocate", "write"} /\ UNCHANGED history /\ run'.roles = run.roles /\ disk'.user = disk.user
    BY <1>0, <1>3, LoadsFile, ReadsLimit, WritesLimit, SelectsCopy, PlansLaunch, ActivatesSession
       DEF RunKeeps, NoRun, DiskKeeps, Shapes
  <2> QED
    BY <1>1, <2>1 DEF history
<1>4. CASE StartsSession \/ SwitchesSession \/ Delegates
  <2>1. run'.at \notin {"allocate", "write"} /\ UNCHANGED history /\ run'.roles = run.roles /\ disk'.user = disk.user
    BY <1>0, <1>4, SessionStarts, SessionSwitches, DelegatesRole DEF RunKeeps, NoRun, Shapes
  <2> QED
    BY <1>1, <2>1 DEF history
<1>5. CASE Quits \/ Refreshes
  <2>1. UNCHANGED history /\ run'.roles = run.roles /\ disk'.user = disk.user /\ run'.at \in {run.at, "exited"}
    BY <1>0, <1>5, OthersLive DEF RunKeeps, NoRun, DiskKeeps, Shapes
  <2> QED
    BY <1>0, <2>1 DEF Written, RolesAreRunnable, history, Configured, UserFile
<1>6. CASE Detects
  <2>1. /\ UNCHANGED <<disk, history>> /\ run'.roles = run.roles /\ run'.at \in {"load", "allocate", "failed"}
        /\ run'.at = "allocate" => ~Configured(machine, disk) /\ \E v \in Vendors : Ready(machine, v)
    BY <1>0, <1>6, DetectsVendors DEF RunKeeps, NoRun
  <2> QED
    BY <1>0, <2>1 DEF Written, RolesAreRunnable, history
<1>7. CASE Allocates
  <2>1. /\ UNCHANGED <<disk, history>> /\ run.at = "allocate" /\ run'.at = "write"
        /\ \E ballot : run'.roles = AllocateRoles(machine, ballot)
    BY <1>0, <1>7, AllocatesRoles
  <2>2. \E v \in Vendors : Ready(machine, v)
    BY <1>0, <2>1 DEF Written
  <2>3. machine' = machine
    BY <2>1 DEF history
  <2>4. PICK ballot : run'.roles = AllocateRoles(machine, ballot)
    BY <2>1
  <2>5. RolesAreRunnable'
    BY <1>0, <2>2, <2>3, <2>4, AllocationRuns DEF RolesAreRunnable
  <2> QED
    BY <1>0, <2>1, <2>5 DEF Written, history
<1>8. ASSUME run.at = "write", machine.home, quiet PROVE ~begun.exists
  <2>1. ~disk.user.exists
    BY <1>0, <1>8 DEF Written, Configured, UserFile
  <2> QED
    BY <1>0, <1>8, <2>1 DEF Written
<1>9. CASE Writes
  <2>1. UNCHANGED history /\ run'.roles = run.roles /\ run'.at = "load" /\ run.at = "write"
    BY <1>0, <1>9, WritesFile DEF RunKeeps, NoRun
  <2> QED
    BY <1>0, <1>8, <2>1 DEF Written, RolesAreRunnable, history
<1>10. CASE Dies
  <2>1. /\ run' = [NoRun EXCEPT !.at = "dead"] /\ run'.at = "dead" /\ UNCHANGED history
        /\ disk'.user # disk.user => run.at = "write"
    BY <1>0, <1>10, RunDies
  <2>2. run'.roles = Empty
    BY <2>1 DEF NoRun
  <2>3. machine.home /\ quiet /\ begun.exists => disk'.user = begun
    BY <1>0, <1>8, <2>1 DEF Written
  <2> QED
    BY <2>1, <2>2, <2>3 DEF Written, RolesAreRunnable, history
<1>11. CASE Relaunch
  <2>1. run' = NoRun /\ begun' = disk.user /\ disk' = disk
    BY <1>11 DEF Relaunch
  <2>2. run'.at = "parse" /\ run'.roles = Empty
    BY <2>1 DEF NoRun
  <2> QED
    BY <2>1, <2>2 DEF Written, RolesAreRunnable
<1>12. CASE Elsewhere
  <2>1. run' = run /\ ~quiet' /\ machine' = machine
    BY <1>12 DEF Elsewhere
  <2> QED
    BY <1>0, <2>1 DEF Written, RolesAreRunnable
<1>13. CASE Exited
  BY <1>0, <1>13 DEF Exited, Written, RolesAreRunnable, launchVars
<1> QED
  BY <1>2, <1>3, <1>4, <1>5, <1>6, <1>7, <1>9, <1>10, <1>11, <1>12, <1>13 DEF LaunchNext

\* LeanPi's keys: once set they stay, and an operator's limit is the operator's.
LEMMA DefaultKeys ==
  ASSUME NEW l, DOMAIN l = {"ok", "limit", "async"}
  PROVE  /\ EnsureDefaultConfig(l).ok = l.ok
         /\ EnsureDefaultConfig(l).limit = (IF l.limit = 0 THEN DefaultLimit ELSE l.limit)
<1> DEFINE n == IF l.limit = 0 THEN DefaultLimit ELSE l.limit
<1>1. EnsureDefaultConfig(l) = [l EXCEPT !.limit = n, !.async = TRUE]
  BY DEF EnsureDefaultConfig
<1> HIDE DEF n
<1>2. EnsureDefaultConfig(l).ok = l.ok /\ EnsureDefaultConfig(l).limit = n
  BY <1>1
<1> QED
  BY <1>2 DEF n

LEMMA LimitedStays ==
  ASSUME LaunchInv, LaunchNext
  PROVE  Limited'
<1>0. Shapes /\ Limited /\ DOMAIN disk.limit = {"ok", "limit", "async"} /\ (others = 0 => quiet)
  BY DEF LaunchInv, Shapes
<1> DEFINE Filled(l) == IF l.limit = 0 THEN DefaultLimit ELSE l.limit
           Held   == Underway /\ run.at # "ensure"
<1>1. \A l : DOMAIN l = {"ok", "limit", "async"} => EnsureDefaultConfig(l).limit = Filled(l) /\ EnsureDefaultConfig(l).ok = l.ok
  BY DefaultKeys
<1>2. ASSUME UNCHANGED <<machine, quiet, others>>, disk'.limit = disk.limit, run'.limit = run.limit, run'.clamp = run.clamp,
             Held' => Held, Inside' => Inside
      PROVE  Limited'
  BY <1>0, <1>2 DEF Limited
<1>3. ASSUME UNCHANGED <<machine, quiet, others>>, disk'.limit = disk.limit, ~Held', ~Inside'
      PROVE  Limited'
  BY <1>0, <1>3 DEF Limited
<1>4. CASE Start \/ Prepare \/ Onboards \/ ChecksJev \/ Detects \/ Allocates \/ Writes \/ Loads
  <2>1. /\ run'.at \in {"ensure", "failed", "plan", "prepare", "asked", "jev", "detect", "load", "allocate", "write"}
        /\ run'.at = "plan" => ~argv.sdk /\ IsInformational(Flags)
        /\ UNCHANGED history /\ disk'.limit = disk.limit
    <3>1. CASE Start
      BY <1>0, <3>1, Starts
    <3>2. CASE Prepare \/ Onboards \/ ChecksJev \/ Detects \/ Allocates \/ Writes \/ Loads
      BY <1>0, <3>2, Prepares, Asks, Checks, DetectsVendors, AllocatesRoles, WritesFile, LoadsFile DEF DiskKeeps, Shapes
    <3> QED
      BY <1>4, <3>1, <3>2
  <2>2. argv' = argv /\ Flags' = Flags
    BY <2>1, SameLaunch DEF history
  <2> QED
    BY <1>3, <2>1, <2>2 DEF Underway, Inside, history
<1>5. CASE EnsureReads
  <2>1. /\ run'.at \in {"failed", "select", "merge"} /\ UNCHANGED <<disk, history>>
        /\ run'.at # "failed" => disk.limit.ok /\ run'.limit = EnsureDefaultConfig(disk.limit).limit
    BY <1>0, <1>5, ReadsLimit
  <2> QED
    BY <1>0, <2>1 DEF Limited, Underway, Inside, history
<1>6. CASE EnsureWrites
  <2>1. /\ run.at = "merge" /\ run'.at = "select" /\ UNCHANGED history /\ run'.limit = run.limit
        /\ DOMAIN disk'.limit = {"ok", "limit", "async"} /\ disk'.limit.ok /\ disk'.limit.limit = run.limit
    BY <1>0, <1>6, WritesLimit DEF RunKeeps, NoRun
  <2>2. quiet => run.limit = Filled(disk.limit)
    BY <1>0, <1>1, <2>1 DEF Limited, Underway
  <2>3. quiet => EnsureDefaultConfig(disk'.limit).limit = run'.limit
    BY <1>1, <2>1, <2>2 DEF DefaultLimit
  <2>4. others = 0 /\ machine.concurrency.limit # 0 => disk'.limit.limit = machine.concurrency.limit
    BY <1>0, <2>1, <2>2 DEF Limited
  <2>5. machine' = machine /\ quiet' = quiet /\ others' = others
    BY <2>1 DEF history
  <2> HIDE DEF Filled
  <2> QED
    BY <2>1, <2>3, <2>4, <2>5 DEF Limited, Inside
<1>7. CASE Selects \/ Plans
  <2>1. /\ run'.limit = run.limit /\ run'.clamp = run.clamp /\ UNCHANGED history /\ disk'.limit = disk.limit
        /\ run.at \in {"select", "plan"} /\ run'.at \in {"plan", "failed", "exited", "activate"}
        /\ run'.at = "plan" => run.at = "select"
        /\ run'.at = "activate" => run.at = "plan" /\ (argv.sdk \/ ~IsInformational(Flags))
    BY <1>0, <1>7, SelectsCopy, PlansLaunch DEF RunKeeps, NoRun, DiskKeeps, Shapes
  <2>2. UNCHANGED <<machine, quiet, others>>
    BY <2>1 DEF history
  <2> QED
    BY <1>2, <2>1, <2>2 DEF Underway, Inside
<1>8. CASE Activates
  <2>1. /\ run.at = "activate" /\ run'.at \in {"session", "failed"} /\ run'.limit = run.limit /\ UNCHANGED history
        /\ run'.at = "session" /\ disk.limit.ok => run'.clamp = EnsureDefaultConfig(disk.limit).limit
        /\ disk'.limit \in {disk.limit, EnsureDefaultConfig(disk.limit)}
    BY <1>0, <1>8, ActivatesSession DEF RunKeeps, NoRun
  <2>2. disk.limit.ok /\ (quiet => run.limit = Filled(disk.limit))
    BY <1>0, <1>1, <2>1 DEF Limited, Underway
  <2>3. DOMAIN EnsureDefaultConfig(disk.limit) = {"ok", "limit", "async"}
    BY <1>0 DEF EnsureDefaultConfig
  <2>4. disk'.limit.ok /\ EnsureDefaultConfig(disk'.limit).limit = Filled(disk.limit) /\ (disk.limit.limit # 0 => disk'.limit.limit = disk.limit.limit)
    BY <1>0, <1>1, <2>1, <2>2, <2>3 DEF DefaultLimit
  <2>5. machine' = machine /\ quiet' = quiet /\ others' = others
    BY <2>1 DEF history
  <2>6. others = 0 /\ machine.concurrency.limit # 0 => disk'.limit.limit = machine.concurrency.limit
    BY <1>0, <2>4 DEF Limited
  <2>7. Inside' /\ quiet' => run'.clamp = run'.limit
    BY <1>0, <1>1, <2>1, <2>2, <2>5 DEF Inside
  <2>8. quiet' => run'.limit = EnsureDefaultConfig(disk'.limit).limit
    BY <2>1, <2>2, <2>4, <2>5
  <2> HIDE DEF Filled
  <2> QED
    BY <2>4, <2>5, <2>6, <2>7, <2>8 DEF Limited
<1>9. CASE StartsSession \/ SwitchesSession \/ Delegates \/ Quits \/ Refreshes
  <2>1. run'.limit = run.limit /\ run'.clamp = run.clamp /\ UNCHANGED history /\ disk'.limit = disk.limit
    BY <1>0, <1>9, SessionStarts, SessionSwitches, DelegatesRole, OthersLive DEF RunKeeps, NoRun, DiskKeeps, Shapes
  <2>2. run'.at \in {run.at, "exited", "failed"} \/ (run.at = "session" /\ run'.at = "running")
    BY <1>0, <1>9, SessionStarts, SessionSwitches, DelegatesRole, OthersLive DEF RunKeeps, NoRun
  <2>3. UNCHANGED <<machine, quiet, others>> /\ argv' = argv /\ Flags' = Flags
    BY <2>1, SameLaunch DEF history
  <2> QED
    BY <1>2, <2>1, <2>2, <2>3 DEF Underway, Inside
<1>10. CASE Dies
  <2>1. run'.at = "dead" /\ UNCHANGED history /\ disk'.limit = disk.limit
    BY <1>0, <1>10, RunDies DEF DiskKeeps, Shapes
  <2> QED
    BY <1>3, <2>1 DEF Underway, Inside, history
<1>11. CASE Relaunch
  <2>1. run'.at = "parse" /\ disk' = disk /\ machine' = machine /\ others' = others
    BY <1>11 DEF Relaunch, NoRun
  <2> QED
    BY <1>0, <2>1 DEF Limited, Underway, Inside
<1>12. CASE Elsewhere
  <2>1. disk' \in Neighbours /\ others' = others + 1 /\ ~quiet' /\ UNCHANGED <<machine, argv, run>>
    BY <1>12 DEF Elsewhere
  <2>2. disk'.limit.ok = disk.limit.ok
    BY <1>0, <2>1, NeighboursWrite
  <2>3. others' # 0
    <3>1. others \in Nat
      BY <1>0 DEF Shapes
    <3>2. others' = others + 1
      BY <2>1
    <3> QED
      BY <3>1, <3>2
  <2>4. Flags' = Flags
    BY <2>1, SameLaunch
  <2> QED
    BY <1>0, <2>1, <2>2, <2>3, <2>4 DEF Limited, Underway
<1>13. CASE Exited
  <2>1. UNCHANGED launchVars
    BY <1>13 DEF Exited
  <2>2. UNCHANGED <<machine, argv, run, disk, quiet, others>> /\ Flags' = Flags
    BY <2>1, SameLaunch DEF launchVars
  <2> QED
    BY <1>2, <2>2 DEF Underway, Inside
<1> QED
  BY <1>4, <1>5, <1>6, <1>7, <1>8, <1>9, <1>10, <1>11, <1>12, <1>13 DEF LaunchNext

\* What is registered to be dialled through a vendor's login is offered.
LEMMA RegisteredOffered ==
  ASSUME NEW config, NEW x \in Registered(config), x.via = "cli"
  PROVE  Offered(machine, x.backend)
<1>1. ASSUME NEW b, NEW y, x = Model("pi", b, y) PROVE FALSE
  BY <1>1 DEF Model
<1>2. x \in SubscriptionModels(config)
  BY <1>1 DEF Registered
<1>3. PICK b \in {v \in DOMAIN config.backends \ Native(config) : config.backends[v].enabled /\ Offered(machine, v)} :
        \E y : x = Model("cli", b, y)
  BY <1>2 DEF SubscriptionModels
<1> QED
  BY <1>3 DEF Model

LEMMA RoutedStays ==
  ASSUME LaunchInv, LaunchNext
  PROVE  Routed'
<1>0. Shapes /\ Routed /\ disk.profile \in {"native", "external"}
  BY DEF LaunchInv, Shapes
<1>1. ASSUME UNCHANGED machine, quiet' => quiet, quiet' => disk'.profile = disk.profile, run'.runner = run.runner,
             run'.routed = run.routed
      PROVE  Routed'
  BY <1>0, <1>1 DEF Routed, Offered
<1>2. ASSUME run'.runner = "unread", run'.routed = {} PROVE Routed'
  BY <1>2 DEF Routed
<1>3. CASE Start \/ Prepare \/ Onboards \/ ChecksJev \/ Detects \/ Allocates \/ Writes \/ Loads
  <2>1. UNCHANGED history /\ run'.runner = run.runner /\ run'.routed = run.routed /\ disk'.profile = disk.profile
    BY <1>0, <1>3, Starts, Prepares, Asks, Checks, DetectsVendors, AllocatesRoles, WritesFile, LoadsFile
       DEF RunKeeps, NoRun, DiskKeeps, Shapes
  <2> QED
    BY <1>1, <2>1 DEF history
<1>4. CASE EnsureReads \/ EnsureWrites \/ Selects \/ Plans \/ Activates \/ StartsSession \/ Quits \/ Refreshes
  <2>1. UNCHANGED history /\ run'.runner = run.runner /\ run'.routed = run.routed /\ disk'.profile = disk.profile
    BY <1>0, <1>4, ReadsLimit, WritesLimit, SelectsCopy, PlansLaunch, ActivatesSession, SessionStarts, OthersLive
       DEF RunKeeps, NoRun, DiskKeeps, Shapes
  <2> QED
    BY <1>1, <2>1 DEF history
<1>5. CASE SwitchesSession
  BY <1>0, <1>2, <1>5, SessionSwitches
<1>6. CASE Delegates
  <2>1. /\ run'.runner = (IF run.runner = "unread" THEN disk.profile ELSE run.runner)
        /\ run'.routed # {} => run'.runner = "native" /\ run'.routed \subseteq Registered(run.child)
        /\ UNCHANGED <<disk, history>>
    BY <1>0, <1>6, DelegatesRole
  <2>2. machine' = machine /\ quiet' = quiet
    BY <2>1 DEF history
  <2>3. \A x \in run'.routed : x.via = "cli" => Offered(machine, x.backend)
    BY <2>1, RegisteredOffered
  <2>4. \A x \in run'.routed : x.via = "cli" => Offered(machine', x.backend)
    BY <2>2, <2>3
  <2>5. run'.runner \in {"unread", "native", "external"} /\ (quiet' /\ run'.runner # "unread" => run'.runner = disk'.profile)
    BY <1>0, <2>1, <2>2 DEF Routed
  <2> QED
    BY <2>1, <2>4, <2>5 DEF Routed, Offered
<1>7. CASE Dies \/ Relaunch
  <2>1. run' = NoRun \/ run' = [NoRun EXCEPT !.at = "dead"]
    BY <1>0, <1>7, RunDies DEF Relaunch
  <2>2. run'.runner = "unread" /\ run'.routed = {}
    BY <2>1 DEF NoRun
  <2> QED
    BY <1>2, <2>2
<1>8. CASE Elsewhere \/ Exited
  <2>1. run' = run /\ machine' = machine /\ (quiet' => quiet /\ disk' = disk)
    BY <1>8 DEF Elsewhere, Exited, launchVars
  <2> QED
    BY <1>1, <2>1
<1> QED
  BY <1>3, <1>4, <1>5, <1>6, <1>7, <1>8 DEF LaunchNext

----------------------------------------------------------------------------

\* A configuration that loads is in a file.
LEMMA LoadedIsThere ==
  ASSUME NEW m \in Machines, NEW d, IsFile(d.user), LoadedConfig(m, d).ok
  PROVE  BootstrapConfig(m, d) = LoadedConfig(m, d)
<1>1. Configured(m, d)
  <2>1. SUFFICES ASSUME ~m.project.exists, ~UserFile(m, d).exists PROVE FALSE
    BY DEF Configured
  <2>2. m.project = NoFile /\ UserFile(m, d) = NoFile
    BY <2>1, LaunchAssumption DEF LaunchAssumption, IsFile, UserFile
  <2>3. DOMAIN NoFile.models = {}
    BY DEF NoFile, Empty
  <2>4. DOMAIN MergeRecords(NoFile, NoFile).models = {}
    BY <2>3 DEF MergeRecords, Over
  <2> QED
    BY <2>2, <2>4 DEF LoadedConfig
<1> QED
  BY <1>1 DEF BootstrapConfig

\* The answer, field by field.
LEMMA JevAnswer ==
  ASSUME NEW m, NEW d, NEW f, NEW config, config = BootstrapConfig(m, d),
         NEW provider, provider = (IF Forced(f, m) # "none" THEN Forced(f, m) ELSE config.jev.provider)
  PROVE  /\ RequireJev(m, d, f).provider = provider
         /\ RequireJev(m, d, f).source =
              (IF f.key THEN "store" ELSE IF config.jev.mode = "disabled" THEN "disabled"
               ELSE IF f.noJev THEN "no-jev" ELSE IF provider = "laya" THEN "laya" ELSE ResolveCredential(m, d, config))
<1> DEFINE source == IF f.key THEN "store" ELSE IF config.jev.mode = "disabled" THEN "disabled"
                     ELSE IF f.noJev THEN "no-jev" ELSE IF provider = "laya" THEN "laya" ELSE ResolveCredential(m, d, config)
<1>1. RequireJev(m, d, f) = [source |-> source, provider |-> provider]
  BY DEF RequireJev
<1> HIDE DEF source
<1>2. RequireJev(m, d, f).provider = provider /\ RequireJev(m, d, f).source = source
  BY <1>1
<1> QED
  BY <1>2 DEF source

LEMMA TruthOfBanner ==
  ASSUME LaunchInv
  PROVE  BannerIsTrue
<1> SUFFICES ASSUME Inside, ~argv.sdk, quiet, machine.inherited = [noJev |-> FALSE, provider |-> "none", warned |-> FALSE],
                    ~(Flags.key /\ (Flags.noJev \/ run.child.jev.mode = "disabled"))
             PROVE  /\ run.check.provider = ChildProvider
                    /\ run.check.source \notin {"none", "no-jev", "disabled"}
                         <=> run.mode # "disabled" /\ (ChildProvider = "laya" \/ ResolveCredential(machine, disk, run.child) # "none")
  BY DEF BannerIsTrue
<1>1. /\ machine \in Machines /\ IsFile(disk.user) /\ disk.key \in BOOLEAN /\ Underway
      /\ run.check = RequireJev(machine, disk, Flags) /\ (Flags.key => disk.key)
      /\ run.child = LoadedConfig(machine, disk) /\ run.child.ok
      /\ run.mode = (IF LaunchEnv.noJev THEN "disabled" ELSE run.child.jev.mode)
  BY DEF LaunchInv, Shapes, Decided, Underway, Inside
<1>2. BootstrapConfig(machine, disk) = run.child
  BY <1>1, LoadedIsThere
<1>3. (LaunchEnv.noJev <=> Flags.noJev) /\ LaunchEnv.provider = Forced(Flags, machine)
  <2> DEFINE noJev  == Flags.noJev \/ machine.inherited.noJev
             warned == "launcher" \in run.told \/ machine.inherited.warned
  <2>1. LaunchEnv = [noJev |-> noJev, provider |-> Forced(Flags, machine), warned |-> warned]
    BY DEF LaunchEnv
  <2>2. noJev <=> Flags.noJev
    <3>1. machine.inherited.noJev = FALSE
      OBVIOUS
    <3> QED
      BY <3>1
  <2> HIDE DEF noJev, warned
  <2> QED
    BY <2>1, <2>2
<1> DEFINE credential == ResolveCredential(machine, disk, run.child)
           provider   == IF Forced(Flags, machine) # "none" THEN Forced(Flags, machine) ELSE run.child.jev.provider
<1>a. ChildProvider = provider
  BY <1>3 DEF ChildProvider
<1>4. run.check.provider = ChildProvider
  BY <1>1, <1>2, <1>a, JevAnswer
<1>5. run.check.source =
        (IF Flags.key THEN "store" ELSE IF run.child.jev.mode = "disabled" THEN "disabled"
         ELSE IF Flags.noJev THEN "no-jev" ELSE IF ChildProvider = "laya" THEN "laya" ELSE credential)
  BY <1>1, <1>2, <1>a, JevAnswer
<1>6. credential \in {"config", "store", "env", "dotenv", "none"} /\ (disk.key => credential # "none")
  BY DEF ResolveCredential
<1>7. run.mode = "disabled" <=> Flags.noJev \/ run.child.jev.mode = "disabled"
  BY <1>1, <1>3
<1> HIDE DEF credential
<1>8. run.check.source \notin {"none", "no-jev", "disabled"}
        <=> run.mode # "disabled" /\ (ChildProvider = "laya" \/ credential # "none")
  <2>1. CASE Flags.key
    BY <1>1, <1>5, <1>6, <1>7, <2>1
  <2>2. CASE ~Flags.key
    BY <1>5, <1>6, <1>7, <2>2
  <2> QED
    BY <2>1, <2>2
<1> QED
  BY <1>4, <1>8 DEF credential

\* The model of a role that Pi can dial is one of its backend's.
LEMMA SessionModelIsThere ==
  ASSUME NEW config
  PROVE  SessionModelFor(config) \subseteq Registered(config)
<1> DEFINE order == <<"balanced", "strong", "quick">>
           bound == DOMAIN config.models \intersect {"balanced", "strong", "quick"}
           role  == FirstIn(order, bound)
           entry == config.models[role]
<1>1. SUFFICES ASSUME bound # {}, entry.backend \in Native(config)
               PROVE  Model("pi", entry.backend, entry.model) \in Registered(config)
  BY DEF SessionModelFor
<1>2. role \in bound
  <2>1. order \in Seq({"balanced", "strong", "quick"})
    BY Triple
  <2>2. \E i \in DOMAIN order : order[i] \in bound
    <3>1. PICK r \in {"balanced", "strong", "quick"} : r \in bound
      BY <1>1
    <3>2. \E i \in DOMAIN order : order[i] = r
      BY <3>1, Triple
    <3> QED
      BY <3>1, <3>2
  <2> HIDE DEF bound, order
  <2> QED
    BY <2>1, <2>2, FirstOf
<1> HIDE DEF role
<1>3. entry.model \in Bound(config, entry.backend)
  BY <1>2 DEF Bound
<1> HIDE DEF entry
<1> QED
  BY <1>1, <1>3 DEF Registered

LEMMA ModelIsThere ==
  ASSUME LaunchInv
  PROVE  ModelIsRegistered
<1>1. Inside /\ ~argv.sdk /\ quiet => run.config = run.child
  BY DEF LaunchInv, Decided, Underway, Inside
<1> QED
  BY <1>1, SessionModelIsThere DEF ModelIsRegistered, Named

\* Whatever else a plan holds beside leanpi.
LEMMA PlanOwns ==
  ASSUME NEW plan, "leanpi" \in plan
  PROVE  OwnedOnce(plan, Owned(plan) \union Baseline)
<1>1. ASSUME NEW e \in plan, NEW d \in plan, NEW n, n \in Owns(plan, e), n \in Owns(plan, d)
      PROVE  e = d
  BY <1>1 DEF Owns, Baseline, Yielded, CompactUiAttached
<1>2. ASSUME NEW n \in Owned(plan) \union Baseline
      PROVE  \E e \in plan : n \in Owns(plan, e)
  <2>1. CASE n \in Owned(plan)
    BY <2>1 DEF Owned
  <2>2. CASE n \in Baseline
    BY <2>2 DEF Owns, Baseline, Yielded, CompactUiAttached
  <2> QED
    BY <2>1, <2>2
<1>3. ASSUME NEW n \in Owned(plan) \union Baseline
      PROVE  \E e \in plan : Owners(plan, n) = {e}
  <2>1. PICK e \in plan : n \in Owns(plan, e)
    BY <1>2
  <2>2. Owners(plan, n) = {e}
    BY <1>1, <2>1 DEF Owners
  <2> QED
    BY <2>2
<1> QED
  BY <1>3 DEF OwnedOnce

LEMMA BackgroundOwnsBash ==
  ASSUME NEW plan, "background" \in plan
  PROVE  OwnerOfBash(plan) = "background"
<1> DEFINE S == {e \in plan : e = "background" \/ "bash" \in Owns(plan, e)}
           E == {"leanpi", "usage", "subagents", "fold", "background", "compact", "context", "search", "card", "spinner", "fold-cache"}
<1>1. PlanOrder \in Seq(E) /\ 5 \in DOMAIN PlanOrder /\ PlanOrder[5] = "background"
  BY DEF PlanOrder
<1>2. \A j \in 1 .. 4 : PlanOrder[j] \in {"leanpi", "usage", "subagents", "fold"}
  BY DEF PlanOrder
<1>3. \A e \in {"leanpi", "usage", "subagents", "fold"} : e \notin S
  BY DEF Owns, Baseline, Yielded
<1>4. "background" \in S
  OBVIOUS
<1> HIDE DEF S, E
<1>5. \A j \in 1 .. (5 - 1) : PlanOrder[j] \notin S
  BY <1>2, <1>3
<1>6. FirstIn(PlanOrder, S) = PlanOrder[5]
  BY <1>1, <1>4, <1>5, FirstIs
<1> QED
  BY <1>1, <1>6 DEF OwnerOfBash, S

LEMMA OneCopyIsLoaded ==
  ASSUME machine \in Machines, Selectable, run.entry = Selection
  PROVE  OneCopy /\ \A c \in LoadedCopies : c.version = Pin
<1>1. ASSUME NEW c \in Enabled(machine.copies) PROVE c \in Enabled(Seen)
  <2>1. c \in machine.copies /\ c.enabled /\ c.scope \in {"global", "project"}
    BY LaunchAssumption DEF LaunchAssumption, Enabled
  <2> QED
    BY <2>1 DEF Selectable, Seen, Enabled
<1>2. \A c, d \in Enabled(Seen) : c = d /\ c.version = Pin
  BY DEF Selectable
<1>3. CASE Enabled(Seen) = {}
  <2>1. LoadedCopies = {Bundled}
    BY <1>1, <1>3 DEF LoadedCopies, Selection
  <2> QED
    BY <2>1 DEF OneCopy, Bundled
<1>4. CASE Enabled(Seen) # {}
  <2>1. run.entry \in Enabled(Seen)
    BY <1>4 DEF Selection
  <2>2. \A c \in LoadedCopies : c \in Enabled(Seen)
    BY <1>1, <2>1 DEF LoadedCopies
  <2> QED
    BY <1>2, <2>2 DEF OneCopy
<1> QED
  BY <1>3, <1>4

LEMMA OwnersAreOne ==
  ASSUME LaunchInv
  PROVE  OneOwnerEach
<1> SUFFICES ASSUME run.at = "activate" \/ Inside
             PROVE  /\ OwnedOnce(run.plan, Owned(run.plan) \union Baseline)
                    /\ "background" \in run.plan => OwnerOfBash(run.plan) = "background"
                    /\ OneCopy /\ \A c \in LoadedCopies : c.version = Pin
  BY DEF OneOwnerEach
<1>1. "leanpi" \in run.plan
  BY DEF LaunchInv, Composed, SdkPlan, LaunchPlan
<1>2. machine \in Machines /\ Selectable /\ run.entry = Selection
  BY DEF LaunchInv, Shapes, Composed, Underway, Inside
<1> QED
  BY <1>1, <1>2, PlanOwns, BackgroundOwnsBash, OneCopyIsLoaded

LEMMA InvSound == LaunchInv => SoundLaunch
<1> SUFFICES ASSUME LaunchInv PROVE SoundLaunch
  OBVIOUS
<1>1. BannerIsTrue /\ ModelIsRegistered /\ OneOwnerEach
  BY TruthOfBanner, ModelIsThere, OwnersAreOne
<1>2. ToldOnce
  BY DEF LaunchInv, Warned, ToldOnce
<1>3. ConfigIsKept /\ RolesAreRunnable
  BY DEF LaunchInv, Written, ConfigIsKept
<1>4. LimitIsWhole
  BY DEF LaunchInv, Limited, LimitIsWhole
<1>5. RoutedIsNative
  BY DEF LaunchInv, Routed, RoutedIsNative
<1>6. Shapes
  BY DEF LaunchInv
<1> QED
  BY <1>1, <1>2, <1>3, <1>4, <1>5, <1>6 DEF SoundLaunch, Shapes

LEMMA LaunchStays == LaunchInv /\ LaunchNext => LaunchInv'
BY ShapesStay, DecidedStays, WarnedStays, ComposedStays, WrittenStays, LimitedStays, RoutedStays DEF LaunchInv

\* A step of the project's behaviours, or none, is nothing to a launch.
LEMMA LaunchStutters == LaunchInv /\ UNCHANGED launchVars => LaunchInv'
BY DEF launchVars, LaunchInv, Shapes, Decided, Warned, Composed, Written, Limited, Routed, Underway, Deciding, Inside, Flags,
       LaunchEnv, SessionTells, Selectable, Selection, Seen, RolesAreRunnable, Offered

\* Whatever the machine, its files and their neighbours, and wherever a launch is
\* killed: one warning, a banner that is true of the session under it, a model Pi
\* has, one owner of every tool name and one reviewed copy of pi-subagents, a
\* configuration that is kept, a role map the machine can run, a whole concurrency
\* file and the operator's limit (bin/leanpi.js, src/cli, src/subagents,
\* src/index.ts:1209-1345).
THEOREM LaunchesStaySound == GuardSpec => []LaunchIsSound
<1> DEFINE LaunchesInv == about = "launch" => LaunchInv
<1>1. GuardInit => LaunchesInv
  BY LaunchBegins DEF GuardInit
<1>2. LaunchesInv /\ [GuardNext]_<<about, vars, launchVars>> => LaunchesInv'
  <2> SUFFICES ASSUME LaunchInv, about = "launch", [GuardNext]_<<about, vars, launchVars>>, about' = "launch"
               PROVE  LaunchInv'
    BY DEF GuardNext
  <2>1. LaunchNext \/ UNCHANGED launchVars
    BY DEF GuardNext
  <2> QED
    BY <2>1, LaunchStays, LaunchStutters
<1>3. LaunchesInv => LaunchIsSound
  BY InvSound DEF LaunchIsSound
<1> QED
  BY <1>1, <1>2, <1>3, PTL DEF GuardSpec

==============================================================================
