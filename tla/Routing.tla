------------------------------- MODULE Routing -------------------------------
(***************************************************************************)
(* The cost-aware router (src/routing): the price of running a candidate,  *)
(* calibrated by the project's completed runs, the band of candidates too  *)
(* close to tell apart, and the answers of the three routing sites.        *)
(*                                                                         *)
(* Money is a whole number of units; the two token classes of a prediction *)
(* are one volume.  The executor passes the router no earlier attempts, so *)
(* the branch for a repeated failure, which no caller reaches, is not      *)
(* modelled.                                                               *)
(*                                                                         *)
(* The capability index (src/capability): the ranking file's records bound *)
(* to the backends the configuration declares, the cheapest model clearing *)
(* a floor, the model that fills a role, and the copy of the ranking the   *)
(* role hook keeps between calls.                                          *)
(*                                                                         *)
(* A model is a number, its place in the lexicographic order of model ids. *)
(* A configured model is a spelling: [exact, leads, tier], the ids the     *)
(* spelling rewrites to (best first), those it is the leading part of, and *)
(* those of the vendor tier it selects.  What the rewriting does to the    *)
(* characters is not modelled, what it decides is.                         *)
(***************************************************************************)
EXTENDS Integers, FiniteSets, SequencesExt

CONSTANT NoBackend

\* A number or an id that is absent.
Null == -1

Known(x) == x # Null

\* A configuration: models, the sequence of [role, backend, spelling] its
\* models: map holds; enabled, the backends not switched off; settings, the
\* floor, the ceiling and the pin of each role.
EntryOf(config, role) ==
  LET at == SelectInSeq(config.models, LAMBDA e : e.role = role) IN
  IF at = 0 THEN [role |-> role, backend |-> NoBackend, spelling |-> [exact |-> <<>>, leads |-> {}, tier |-> {}]]
            ELSE config.models[at]

------------------------------------------------------------- (* matching *)

HigherScore(r, s) ==
  \/ r.score > s.score
  \/ r.score = s.score /\ r.id < s.id

Best(records) == CHOOSE r \in records : \A s \in records \ {r} : HigherScore(r, s)

\* The ids a spelling may stand for in the ranking, best first.
ExactIn(file, spelling) ==
  SelectSeq(spelling.exact, LAMBDA i : \E r \in file : r.id = i)

\* The record a spelling names: an exact spelling, else the one record it leads,
\* else the best scored record of its tier.
MatchModel(file, spelling) ==
  LET led    == {r \in file : r.id \in spelling.leads}
      ranked == {r \in file : r.id \in spelling.tier /\ Known(r.score)}
  IN  IF ExactIn(file, spelling) # <<>> THEN Head(ExactIn(file, spelling))
      ELSE IF Cardinality(led) = 1 THEN (CHOOSE r \in led : TRUE).id
      ELSE IF ranked # {} THEN Best(ranked).id
      ELSE Null

\* The declarations a record can be dispatched through, by their place.
Offers(file, config, record) ==
  {i \in DOMAIN config.models : /\ MatchModel(file, config.models[i].spelling) = record.id
                                /\ config.models[i].backend \in config.enabled}

\* The hint picks among the declarations, it never invents one.
BindingOf(file, config, record) ==
  LET offers == Offers(file, config, record)
      hinted == {i \in offers : config.models[i].backend = record.hint}
  IN  IF hinted # {} THEN config.models[Min(hinted)].backend
      ELSE IF offers # {} THEN config.models[Min(offers)].backend
      ELSE NoBackend

Bind(file, config) ==
  {[id |-> r.id, score |-> r.score, price |-> r.price,
    backend |-> BindingOf(file, config, r)] : r \in file}

---------------------------------------------------------------- (* choice *)

BoundRecords(ranking) == {r \in ranking : r.backend # NoBackend}

BoundCandidates(ranking) == {r \in BoundRecords(ranking) : Known(r.score)}

\* Known price ascending, unknown price last, then score, then id.
Cheaper(r, s) ==
  \/ Known(r.price) /\ ~Known(s.price)
  \/ Known(r.price) /\ Known(s.price) /\ r.price < s.price
  \/ r.price = s.price /\ HigherScore(r, s)

Cheapest(records) == CHOOSE r \in records : \A s \in records \ {r} : Cheaper(r, s)

ClearingSet(ranking, floor) == {r \in BoundCandidates(ranking) : r.score >= floor}

\* What a selection returns: the model, its backend, and whether it falls short.
Selected(r, short) == [id |-> r.id, backend |-> r.backend, gap |-> short]
NoSelection        == [id |-> Null, backend |-> NoBackend, gap |-> TRUE]

Escalated(records) ==
  IF records = {} THEN NoSelection ELSE Selected(Best(records), TRUE)

SelectCheapestClearing(ranking, floor) ==
  LET clearing == ClearingSet(ranking, floor) IN
  IF clearing # {} THEN Selected(Cheapest(clearing), FALSE)
                   ELSE Escalated(BoundCandidates(ranking))

\* A record that falls short of its role's floor or ceiling, or has no backend.
FallsShort(r, setting) ==
  \/ r.backend = NoBackend
  \/ ~Known(r.score)
  \/ r.score < setting.floor
  \/ Known(setting.ceiling) /\ Known(r.price) /\ r.price > setting.ceiling

WithinCeiling(r, setting) ==
  Known(setting.ceiling) => Known(r.price) /\ r.price <= setting.ceiling

\* A pin wins whatever it lacks.  One the ranking does not carry is the
\* configuration's own entry (a pin that is neither is refused as an error of
\* the configuration, and no configuration here has one).
PinnedModel(config, role, ranking) ==
  LET setting == config.settings[role]
      named   == {r \in ranking : r.id = setting.pin}
      entry   == EntryOf(config, role)
  IN  IF named # {} THEN LET r == CHOOSE x \in named : TRUE IN Selected(r, FallsShort(r, setting))
      ELSE [id |-> Null, gap |-> FALSE, backend |-> entry.backend]

SelectRoleModel(config, role, ranking) ==
  LET setting  == config.settings[role]
      clearing == {r \in ClearingSet(ranking, setting.floor) : WithinCeiling(r, setting)}
  IN  IF Known(setting.pin) THEN PinnedModel(config, role, ranking)
      ELSE IF clearing # {} THEN Selected(Cheapest(clearing), FALSE)
      ELSE Escalated(BoundRecords(ranking))

--------------------------------------------------------------- (* the file *)

\* A document is refused when two records share an id.  (The fields' own
\* ranges are parsing and not modelled.)
ValidFile(file) == \A r, s \in file : r.id = s.id => r = s

\* Mutant: the copy is known by its file and its models only.
KeyWithoutBackends(world) == [file |-> world.file, models |-> world.config.models]

\* The identity of a loaded ranking: the file on disk, and the facts of the
\* configuration its bindings were made from.
KeyOf(world) == [file    |-> world.file,
                 models  |-> world.config.models,
                 enabled |-> world.config.enabled]

\* A valid file's ranking; an invalid one leaves the roles to the static map.
LoadRanking(world) == Bind(world.file, world.config)

\* The hook's copy: none yet, or one.
NoCache == {}

Loaded(world) == [key |-> KeyOf(world), ranking |-> LoadRanking(world)]

\* The role hook's copy after a call: kept under the same key, loaded anew
\* under another; a file that does not load leaves the old copy in place.
Refreshed(cache, world) ==
  IF (\E c \in cache : c.key = KeyOf(world)) \/ ~ValidFile(world.file) THEN cache ELSE {Loaded(world)}

------------------------------------------------------------- (* the roles *)

Chain ==
  [quick      |-> <<"quick", "balanced", "strong", "specialist">>,
   balanced   |-> <<"balanced", "quick", "strong", "specialist">>,
   strong     |-> <<"strong", "balanced", "quick", "specialist">>,
   specialist |-> <<"specialist", "balanced", "quick", "strong">>]

\* A configured entry as a reference to dispatch through.
EntryRef(world, e) == [id |-> MatchModel(world.file, e.spelling), backend |-> e.backend]

\* The static models: map, down the role's ladder.
StaticRole(world, role) ==
  LET usable == SelectSeq(Chain[role], LAMBDA c : EntryOf(world.config, c).backend \in world.config.enabled) IN
  EntryRef(world, EntryOf(world.config, IF usable = <<>> THEN role ELSE Head(usable)))

\* resolveRole: through the ranking the hook holds, else the static map.
ResolveRole(world, cache, role) ==
  LET ranked == {SelectRoleModel(world.config, role, c.ranking) : c \in Refreshed(cache, world)}
      filled == {[id |-> s.id, backend |-> s.backend] : s \in {x \in ranked : x.backend # NoBackend}}
  IN  IF ValidFile(world.file) /\ filled # {} THEN CHOOSE ref \in filled : TRUE
      ELSE StaticRole(world, role)

CONSTANTS
  Billing,          \* how a backend is billed: metered, subscription or local
  Shadow,           \* the scarcity price of its quota class, 0 without one
  ConfiguredRate,   \* its cost: rate, for a model the ranking does not price
  Preference,       \* its configured priority
  Defaults,         \* the values of a bucket without enough runs:
                    \* [retried, of, tokens, latency, gpu]
  Multiplier,       \* the tokens an effort level buys
  LatencyRate, LocalRate,
  RetryThreshold,   \* the percentage of retried runs above which effort rises
  MinBucketRuns,    \* the runs a bucket needs before it is believed
  TieBand           \* the difference in price within which candidates tie

Efforts == <<"minimal", "low", "medium", "high">>
EffortLevels == {"minimal", "low", "medium", "high"}

Backends == DOMAIN Billing

\* Prices, rates and what a run measured are no less than zero, and a bucket is
\* believed on one run at least.
ASSUME RoutingAssumption ==
  /\ NoBackend \notin Backends
  /\ Shadow \in [Backends -> Nat] /\ ConfiguredRate \in [Backends -> Nat] /\ Preference \in [Backends -> Nat]
  /\ Multiplier \in [EffortLevels -> Nat] /\ LatencyRate \in Nat /\ LocalRate \in Nat
  /\ Defaults \in [retried : Nat, of : Nat \ {0}, tokens : Nat, latency : Nat, gpu : Nat]
  /\ MinBucketRuns \in Nat \ {0} /\ TieBand \in Nat

EffortByComplexity == [LOW |-> "minimal", MEDIUM |-> "medium", HIGH |-> "high"]

RaisedEffort(e) ==
  LET at == CHOOSE i \in 1 .. 4 : Efforts[i] = e IN Efforts[IF at = 4 THEN 4 ELSE at + 1]

-------------------------------------------------------- (* calibration *)

InBucket(run, key) ==
  run.complexity = key.complexity /\ run.role = key.role /\ run.backend = key.backend

\* The values measured: what was not is a zero.
Measures(history, runs, field) == [i \in {j \in runs : history[j][field] > 0} |-> history[i][field]]

\* The k-th of some values in their order: the least that k of them do not exceed.
Nth(values, k) == Min({values[i] : i \in {j \in DOMAIN values : Cardinality({m \in DOMAIN values : values[m] <= values[j]}) >= k}})

\* The median, the fallback when nothing was measured.
Median(values, fallback) ==
  LET n == Cardinality(DOMAIN values) IN
  IF n = 0 THEN fallback
  ELSE IF n % 2 = 1 THEN Nth(values, (n + 1) \div 2)
  ELSE (Nth(values, n \div 2) + Nth(values, n \div 2 + 1)) \div 2

BucketStats(history, key) ==
  LET runs == {i \in DOMAIN history : InBucket(history[i], key)} IN
  IF Cardinality(runs) < MinBucketRuns THEN Defaults
  ELSE [retried |-> Cardinality({i \in runs : history[i].retries > 0}),
        of      |-> Cardinality(runs),
        tokens  |-> Median(Measures(history, runs, "tokens"), Defaults.tokens),
        latency |-> Median(Measures(history, runs, "latency"), Defaults.latency),
        gpu     |-> Median(Measures(history, runs, "gpu"), Defaults.gpu)]

\* The table's effort, one level higher when the bucket retries too often.
AdjustedEffort(base, bucket) ==
  IF bucket.retried * 100 > RetryThreshold * bucket.of THEN RaisedEffort(base) ELSE base

---------------------------------------------------------------- (* cost *)

RateOf(candidate) ==
  IF Known(candidate.price) THEN candidate.price ELSE ConfiguredRate[candidate.backend]

\* Metered models cost money, subscriptions quota, local ones time on the
\* machine; a retry is expected to spend the scarce terms once more.
PredictRouteCost(candidate, bucket, effort) ==
  LET billed == Billing[candidate.backend]
      money  == IF billed = "metered" THEN bucket.tokens * Multiplier[effort] * RateOf(candidate) ELSE 0
      local  == IF billed = "local" THEN bucket.gpu * LocalRate ELSE 0
      scarce == money + Shadow[candidate.backend] + local
  IN  scarce + bucket.latency * LatencyRate + (bucket.retried * scarce) \div bucket.of

\* The roles whose entry names this model on this backend.
RolesFor(world, candidate) ==
  SelectSeq(world.config.models, LAMBDA e : EntryRef(world, e) = [id |-> candidate.id, backend |-> candidate.backend])

\* A candidate is calibrated under the task's role when it serves it, else
\* under the first role it does serve.
BucketRole(world, candidate, role) ==
  LET roles == RolesFor(world, candidate) IN
  IF roles = <<>> \/ \E i \in DOMAIN roles : roles[i].role = role THEN role ELSE roles[1].role

Price(world, candidate, task, effort, history) ==
  LET key == [complexity |-> task.complexity, backend |-> candidate.backend,
              role |-> BucketRole(world, candidate, task.role)]
  IN  PredictRouteCost(candidate, BucketStats(history, key), effort)

-------------------------------------------------------------- (* choice *)

\* Price first, then the backend's priority, then the id.
Better(c, d, price) ==
  \/ price[c] < price[d]
  \/ price[c] = price[d] /\ Preference[c.backend] > Preference[d.backend]
  \/ price[c] = price[d] /\ Preference[c.backend] = Preference[d.backend] /\ c.id < d.id

BestOf(candidates, price) == CHOOSE c \in candidates : \A d \in candidates \ {c} : Better(c, d, price)

Band(candidates, price) ==
  {c \in candidates : price[c] <= price[BestOf(candidates, price)] + TieBand}

\* The role's own model first when it is in the band: the preference reorders
\* the band, it does not shrink it.
FirstOfBand(band, price, ref) ==
  LET preferred == {c \in band : [id |-> c.id, backend |-> c.backend] = ref} IN
  BestOf(IF preferred = {} THEN band ELSE preferred, price)

\* A site's answer counts when it is one of its options; otherwise (and when
\* the site is off, unreachable or unsure) the fallback stands.
Accepted(answer, options, fallback) == IF answer \in options THEN answer ELSE fallback

\* The tie is put to the quota-preference site only when there is one, and an
\* answer outside the band is ignored.
Winner(band, price, ref, answer) ==
  LET named == {c \in band : c.id = answer} IN
  IF Cardinality(band) > 1 /\ named # {} THEN CHOOSE c \in named : TRUE
  ELSE FirstOfBand(band, price, ref)

\* Nothing clears the bar: the gap goes to the user and nothing is dispatched.
GapRoute(task) ==
  [selected |-> Null, backend |-> NoBackend, price |-> 0, score |-> Null,
   effort |-> EffortByComplexity[task.complexity], escalation |-> "USER_INPUT"]

\* The effort is settled before candidates are priced, from the bucket of the
\* cheapest model that clears.
RouteEffort(task, ranking, history, answer) ==
  LET first  == SelectCheapestClearing(ranking, task.index)
      bucket == BucketStats(history, [complexity |-> task.complexity, role |-> task.role, backend |-> first.backend])
  IN  Accepted(answer, EffortLevels, AdjustedEffort(EffortByComplexity[task.complexity], bucket))

SelectRoute(world, cache, task, history, answers) ==
  LET ranking  == LoadRanking(world)
      clearing == ClearingSet(ranking, task.index)
      effort   == RouteEffort(task, ranking, history, answers.effort)
      price    == [c \in clearing |-> Price(world, c, task, effort, history)]
      ref      == ResolveRole(world, cache, task.role)
      winner   == Winner(Band(clearing, price), price, ref, answers.model)
  IN  IF SelectCheapestClearing(ranking, task.index).gap THEN GapRoute(task)
      ELSE [selected |-> winner.id, backend |-> winner.backend, price |-> price[winner],
            score |-> winner.score, effort |-> effort, escalation |-> "none"]
==============================================================================
