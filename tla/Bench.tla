-------------------------------- MODULE Bench --------------------------------
(***************************************************************************)
(* The benchmark runner of src/bench and the telemetry it is built on      *)
(* (src/telemetry): every task of the suite under every selected row, one  *)
(* attempt each in a throwaway checkout, one record per attempt appended   *)
(* to the run's store by whichever adapter drove it, the record joined to  *)
(* the attempt, an independent adjudication, one ledger row, and a report  *)
(* folded from the two files.                                              *)
(*                                                                         *)
(* A dollar is the price of one measured call of a metered model, so a     *)
(* cost is a number of calls.  Tokens, timings, names, notes and the       *)
(* report's layout are left out.                                           *)
(***************************************************************************)
EXTENDS Integers, Sequences, FiniteSets, SequencesExt

CONSTANTS Invocations, \* what a run may be asked for: records [ids, roster, dirs, enabled,
                       \* path] of --configs, the configuration files and the suite's
                       \* directories, both sorted, and what of the baselines is there
          MaxCalls,    \* the model calls of one attempt
          MaxFaults,   \* the writes the disk refuses or tears
          MaxRuns      \* the times one run id is used

VARIABLES
  invoked,     \* what this run was asked for
  at,          \* where the run is
  row, task,   \* the attempt under way, by position
  spent,       \* dollars of the row's attempts so far
  flush,       \* whether the adapter registered a writer for an interrupt
  calls,       \* the model calls of the attempt under way
  store,       \* the lines of telemetry.jsonl
  drained,     \* how many of them were read
  telemetry,   \* the lines read, of which it holds the records
  ledger,      \* the rows of ledger.jsonl
  report,      \* the report this run wrote, in a singleton
  golden,      \* the tasks whose checkout holds the held-out files
  faults,
  life,        \* how often the run id was used
  paid,        \* history: dollars really spent, by attempt
  written      \* history: the attempts whose record reached the disk

benchVars == <<invoked, at, row, task, spent, flush, calls, store, drained, telemetry, ledger, report, golden,
               faults, life, paid, written>>

------------------------------------------------------------- (* the matrix *)

\* A configuration file's row: what is malformed refuses the whole directory.
ParseConfigRow(r) ==
  /\ r.id = r.file /\ r.adapter \in {"leanpi", "stock-pi", "omp", "external"}
  /\ r.adapter = "external" <=> r.vendor # "none"
  /\ r.budget >= 0

LoadConfigRows(roster) == roster # <<>> /\ \A i \in DOMAIN roster : ParseConfigRow(roster[i])

\* Without --configs: every row whose gate is open.
DefaultIds(roster, enabled) ==
  LET open == {i \in DOMAIN roster : ~roster[i].gated \/ enabled}
  IN [k \in 1..Cardinality(open) |-> roster[CHOOSE i \in open : Cardinality({j \in open : j <= i}) = k].id]

SelectConfigRows(roster, ids) ==
  [i \in DOMAIN ids |-> CHOOSE r \in ToSet(roster) : r.id = ids[i]]

KnownIds(roster, ids) == \A i \in DOMAIN ids : \E r \in ToSet(roster) : r.id = ids[i]

\* A task's file: no malformed field, and a golden that is a rubric or has a
\* command (parseTask); its id is its directory's name and no other task's.
ParseTask(t) == t.malformed = {} /\ t.golden \in {"rubric", "test"}

LoadSuite(dirs) ==
  /\ dirs # <<>>
  /\ \A i \in DOMAIN dirs : ParseTask(dirs[i]) /\ dirs[i].id = dirs[i].dir

\* The owner's gate, and the vendor's CLI on the PATH.
AssertRunnableRows(r, enabled, path) == (r.gated => enabled) /\ (r.adapter = "external" => r.vendor \in path)

Ids == IF invoked.ids = <<>> THEN DefaultIds(invoked.roster, invoked.enabled) ELSE invoked.ids
rows == SelectConfigRows(invoked.roster, Ids)
Tasks == invoked.dirs
Row == rows[row]
Task == Tasks[task]

\* The task id a record carries, by which it is joined to its attempt.
Key == <<Row.id, Task.id>>

-------------------------------------------------------------- (* telemetry *)

\* A call bills by the backend it ran on; only a metered one has a price.
Metered(call) == call.billing = "metered"

PriceCall(call) == IF Metered(call) /\ call.rated THEN call.used ELSE 0

HasMissingRates(call) == call.used > 0 /\ ~call.rated

CallRow(call) ==
  [billing |-> call.billing, used |-> call.used, cost |-> PriceCall(call),
   pricing |-> IF ~Metered(call) THEN "unbilled" ELSE IF HasMissingRates(call) THEN "missing" ELSE "declared"]

UnpricedCalls(callRows) ==
  {i \in DOMAIN callRows : callRows[i].billing = "metered" /\ callRows[i].used > 0 /\ callRows[i].pricing = "missing"}

\* The sum of a sequence of numbers, and of those at some of its positions.
Sum(s) == FoldLeft(LAMBDA total, n : total + n, 0, s)
SumAt(S, s) == Sum([i \in DOMAIN s |-> IF i \in S THEN s[i] ELSE 0])

PriceRun(cs) == Sum([i \in DOMAIN cs |-> PriceCall(cs[i])])

\* What a session's messages report: one call each, of the role the loop has.
CallsFromMessages(messages) ==
  [i \in DOMAIN messages |->
     LET m == messages[i]
     IN [billing |-> m.billing, used |-> m.used, rated |-> m.rated, model |-> m.model, role |-> "balanced"]]

\* The reviewer a run billed: the model of its last call in a reviewer role.
BilledReviewer(cs) ==
  LET reviews == {i \in DOMAIN cs : cs[i].role \in {"review_quick", "review_strong"}}
  IN IF reviews = {} THEN "none" ELSE cs[Max(reviews)].model

\* The record of a compiled turn (emitRunTelemetry) and of any other attempt.
\* What run it is of is history: a record does not say.
Emitted(cs, success) ==
  [key |-> Key, of |-> life, cost |-> PriceRun(cs), success |-> success, reviewer |-> BilledReviewer(cs),
   rows |-> [i \in DOMAIN cs |-> CallRow(cs[i])]]

\* One call stands for all a session's messages report (messageTokens).
SpentNumbers(messages) ==
  LET used == Sum([i \in DOMAIN messages |-> messages[i].used])
  IN IF used = 0 THEN <<>>
     ELSE <<[billing |-> "metered", used |-> used, rated |-> Row.rated, model |-> Row.model, role |-> "balanced"]>>

AppendedRecord(cs, success) ==
  [key |-> Key, of |-> life, cost |-> PriceRun(cs), success |-> success, reviewer |-> "none", rows |-> <<>>]

Whole(record) == [whole |-> TRUE, record |-> record]
Torn(record) == [whole |-> FALSE, record |-> record]

\* Mutant: a record is written behind the torn line, on the same line.
Merged(lines, line) ==
  IF lines # <<>> /\ ~Last(lines).whole THEN lines ELSE Append(lines, line)

\* A line after a torn one starts on a line of its own (endsWithNewline).
Terminated(lines, line) == Append(lines, line)

\* The file after one append: written, or refused or torn by the disk, of
\* which the caller never hears.
AppendRun(record) ==
  \/ /\ store' = Terminated(store, Whole(record))
     /\ written' = written \union {<<life, Key>>}
     /\ UNCHANGED faults
  \/ /\ faults < MaxFaults
     /\ faults' = faults + 1
     /\ store' \in {store, Terminated(store, Torn(record))}
     /\ UNCHANGED written

\* Where a file has a record: what does not parse is skipped (readStore).
ReadStore(lines) == {i \in DOMAIN lines : lines[i].whole}

RecordsOf(lines, key) == {i \in ReadStore(lines) : lines[i].record.key = key}

---------------------------------------------------------- (* fold and report *)

\* A later record of a key replaces an earlier one.
JoinTelemetry(key, lines) == lines[Max(RecordsOf(lines, key))].record

Joins(rowsOut, lines) == \A i \in DOMAIN rowsOut : RecordsOf(lines, rowsOut[i].key) # {}

AttemptsOf(id, rowsOut) == {i \in DOMAIN rowsOut : rowsOut[i].key[1] = id}

ConfigMetrics(id, rowsOut, lines) ==
  LET attempts == AttemptsOf(id, rowsOut)
      With(verdict) == Cardinality({i \in attempts : rowsOut[i].verdict = verdict})
  IN [attempts |-> Cardinality(attempts),
      complete |-> With("complete"), incomplete |-> With("incomplete"), errors |-> With("error"),
      reported |-> Cardinality({i \in attempts : rowsOut[i].reported}),
      falsely |-> Cardinality({i \in attempts : rowsOut[i].reported /\ rowsOut[i].verdict # "complete"}),
      cost |-> SumAt(attempts, [i \in DOMAIN rowsOut |-> JoinTelemetry(rowsOut[i].key, lines).cost])]

FoldReport(rowsOut, lines) == [i \in DOMAIN rows |-> ConfigMetrics(rows[i].id, rowsOut, lines)]

---------------------------------------------------------------- (* the run *)

BenchInit ==
  /\ invoked \in Invocations
  /\ at = "idle" /\ row = 1 /\ task = 1 /\ spent = 0
  /\ flush = FALSE /\ calls = <<>>
  /\ store = <<>> /\ drained = 0 /\ telemetry = <<>>
  /\ ledger = <<>> /\ report = {} /\ golden = {}
  /\ faults = 0 /\ life = 1 /\ paid = <<>> /\ written = {}

\* Every line appended since the last reading, in order.
DrainStore ==
  /\ telemetry' = telemetry \o SubSeq(store', drained + 1, Len(store'))
  /\ drained' = Len(store')

\* A run starts when the suite and every configuration file parse, every row it
\* asks for is there and may run, and no earlier run of its id left a ledger:
\* no empty row is reported for a baseline that cannot run.  Without a row, the
\* owner's gate being shut on all, it reports that there is none.
Runnable ==
  /\ LoadSuite(Tasks) /\ LoadConfigRows(invoked.roster) /\ KnownIds(invoked.roster, Ids)
  /\ \A i \in DOMAIN rows : AssertRunnableRows(rows[i], invoked.enabled, invoked.path)
  /\ ledger = <<>>

RunBench ==
  /\ at = "idle"
  /\ UNCHANGED <<invoked, row, task, spent, flush, calls, store, ledger, golden, faults, life, paid, written>>
  /\ at' = IF ~Runnable THEN "refused" ELSE IF rows = <<>> THEN "done" ELSE "between"
  /\ IF at' = "done" THEN DrainStore ELSE UNCHANGED <<drained, telemetry>>
  /\ report' = IF at' = "done" THEN {FoldReport(ledger, telemetry')} ELSE report

\* The checkout is made anew, whatever an earlier row left in its directory.
CloneWorkspace == golden' = golden \ {Task.id}

\* The next attempt's checkout is cloned and its setup commands run; either
\* may fail, and ends the run without a report.
Prepares ==
  /\ at = "between"
  /\ CloneWorkspace
  /\ at' \in {"booting", "aborted"}
  /\ flush' = FALSE /\ calls' = <<>>
  /\ paid' = Append(paid, [key |-> Key, of |-> life, dollars |-> 0])
  /\ UNCHANGED <<invoked, row, task, spent, store, drained, telemetry, ledger, report, faults, life, written>>

\* The adapter's session is there, and LeanPi's own registers what to write if
\* the operator interrupts it; a session that cannot boot ends the run.
Boots ==
  /\ at = "booting"
  /\ \/ at' = "running" /\ flush' = (Row.adapter = "leanpi")
     \/ at' = "aborted" /\ flush' = FALSE
  /\ UNCHANGED <<invoked, row, task, spent, calls, store, drained, telemetry, ledger, report, golden, faults, life, paid, written>>

\* A message of the attempt's model.
Spends(used) ==
  LET call == [billing |-> "metered", used |-> used, rated |-> Row.rated, model |-> Row.model]
  IN /\ at = "running" /\ Row.adapter # "external" /\ Len(calls) < MaxCalls
     /\ calls' = Append(calls, call)
     /\ paid' = [paid EXCEPT ![Len(paid)].dollars = @ + used]
     /\ UNCHANGED <<invoked, at, row, task, spent, flush, store, drained, telemetry, ledger, report, golden, faults, life, written>>

\* The attempt's record is joined, or the run ends: an attempt without a
\* record is not a free success.
Joined == at' = IF RecordsOf(telemetry', Key) = {} THEN "aborted" ELSE "adjudicating"

Records(record) ==
  /\ AppendRun(record)
  /\ DrainStore
  /\ Joined
  /\ flush' = FALSE
  /\ UNCHANGED <<invoked, row, task, spent, calls, ledger, report, golden, life, paid>>

\* LeanPi's turn returns, by itself or aborted at the ceiling.  Without a
\* contract it is recorded from the session's counters and claims nothing.
LeanPiReturns ==
  /\ at = "running" /\ Row.adapter = "leanpi"
  /\ \/ Records(AppendedRecord(SpentNumbers(calls), FALSE))
     \/ /\ at' = "proving" /\ flush' = FALSE
        /\ UNCHANGED <<invoked, row, task, spent, calls, store, drained, telemetry, ledger, report, golden, faults, life, paid, written>>

\* The verifiers of a compiled turn have run; the attempt claims no success.
Verified ==
  /\ at = "proving"
  /\ Records(Emitted(CallsFromMessages(calls), FALSE))

\* Pi alone claims the success of a turn that returned.
StockPiReturns ==
  /\ at = "running" /\ Row.adapter = "stock-pi"
  /\ Records(AppendedRecord(SpentNumbers(calls), TRUE))

\* What omp's stream says of its turn: ended by itself, or cut off after some
\* message; a stream that says neither is no attempt.
ParseOmpStream == {terminal \in BOOLEAN : terminal \/ calls # <<>>}

\* omp claims a turn that ended by itself and whose process did not fail.
OmpReturns ==
  /\ at = "running" /\ Row.adapter = "omp"
  /\ \E terminal \in ParseOmpStream : \E failed \in BOOLEAN :
       Records(AppendedRecord(SpentNumbers(calls), terminal /\ ~failed))

\* A vendor's worker draws on its subscription.
ExternalReturns ==
  /\ at = "running" /\ Row.adapter = "external"
  /\ \E returned \in BOOLEAN :
       Records(AppendedRecord(<<[billing |-> "subscription", used |-> 0, rated |-> FALSE, model |-> Row.model, role |-> "balanced"]>>,
                              returned))

\* An adapter throws: a turn that failed, a worker out of quota or not
\* installed, an omp that said nothing, verifiers that could not run.
Throws ==
  /\ at \in {"running", "proving"}
  /\ at' = "aborted" /\ flush' = FALSE
  /\ UNCHANGED <<invoked, row, task, spent, calls, store, drained, telemetry, ledger, report, golden, faults, life, paid, written>>

LedgerRow(verdict, reported) == [key |-> Key, verdict |-> verdict, reported |-> reported]

\* The verdicts on an attempt: its golden command's, or a rubric judge's, who
\* must not be the model that reviewed the attempt.
Verdicts(record) ==
  IF Task.golden = "rubric" /\ Row.judge = record.reviewer THEN {"error"} ELSE {"complete", "incomplete", "error"}

\* The row goes on to its next task unless the row's budget is used up, then
\* the run to its next row.
Stops(dollars) == Row.budget > 0 /\ dollars >= Row.budget /\ task < Len(Tasks)

RowsEnd(dollars) == task = Len(Tasks) \/ Stops(dollars)

Advances(dollars) ==
  IF RowsEnd(dollars)
  THEN row' = row + 1 /\ task' = 1 /\ spent' = 0
  ELSE row' = row /\ task' = task + 1 /\ spent' = dollars

\* The attempt is judged, its row committed and the checkout removed; the last
\* one folds the report.  The golden's files enter the checkout only now.
AdjudicateAttempt ==
  LET record == JoinTelemetry(Key, telemetry)
      dollars == spent + record.cost
      over == RowsEnd(dollars) /\ row = Len(rows)
  IN /\ at = "adjudicating"
     /\ \E verdict \in Verdicts(record) : ledger' = Append(ledger, LedgerRow(verdict, record.success))
     /\ golden' \in (IF Task.golden = "rubric" THEN {golden} ELSE {golden, golden \union {Task.id}})
     /\ Advances(dollars)
     /\ at' = IF over THEN "done" ELSE "between"
     /\ report' = IF over THEN {FoldReport(ledger', telemetry)} ELSE {}
     /\ UNCHANGED <<invoked, flush, calls, store, drained, telemetry, faults, life, paid, written>>

\* A signal is handled where the process waits: omp runs and a golden is run
\* with the whole process blocked.
Yields ==
  \/ at \in {"booting", "running"} /\ Row.adapter # "omp"
  \/ at = "proving"
  \/ at = "adjudicating" /\ Task.golden = "rubric"

\* The operator interrupts: the adapter's writer records what the attempt
\* spent, its row is an error, and the report is folded; a fold whose row has
\* no record throws in the handler and takes the process with it.
OnSignal ==
  /\ Yields
  /\ IF flush THEN AppendRun(AppendedRecord(SpentNumbers(calls), FALSE)) ELSE UNCHANGED <<store, faults, written>>
  /\ DrainStore
  /\ ledger' = Append(ledger, LedgerRow("error", RecordsOf(telemetry', Key) # {} /\ JoinTelemetry(Key, telemetry').success))
  /\ IF Joins(ledger', telemetry')
     THEN at' = "interrupted" /\ report' = {FoldReport(ledger', telemetry')}
     ELSE at' = "crashed" /\ UNCHANGED report
  /\ UNCHANGED <<invoked, row, task, spent, flush, calls, golden, life, paid>>

Ended == at \in {"refused", "aborted", "interrupted", "crashed", "done"}

\* The process is killed: what it wrote stays.
Dies ==
  /\ at \in {"booting", "running", "proving", "adjudicating"}
  /\ at' = "crashed" /\ flush' = FALSE
  /\ UNCHANGED <<invoked, row, task, spent, calls, store, drained, telemetry, ledger, report, golden, faults, life, paid, written>>

\* The operator asks for the same run id again: a new process over the same
\* directory.
Reruns ==
  /\ Ended /\ at # "refused" /\ life < MaxRuns
  /\ life' = life + 1 /\ at' = "idle" /\ row' = 1 /\ task' = 1 /\ spent' = 0
  /\ flush' = FALSE /\ calls' = <<>> /\ drained' = 0 /\ telemetry' = <<>> /\ report' = {}
  /\ UNCHANGED <<invoked, store, ledger, golden, faults, paid, written>>

\* A process that has ended.
Exited == Ended /\ UNCHANGED benchVars

BenchNext ==
  \/ RunBench \/ Prepares \/ Boots \/ (\E used \in 0..1 : Spends(used))
  \/ LeanPiReturns \/ Verified \/ StockPiReturns \/ OmpReturns \/ ExternalReturns \/ Throws
  \/ AdjudicateAttempt \/ OnSignal \/ Dies \/ Reruns \/ Exited

------------------------------------------------------- (* what is read back *)

\* A report made again from the two files, over the rows the ledger names
\* (--recompute).
Recompute ==
  LET named == {r \in ToSet(invoked.roster) : AttemptsOf(r.id, ledger) # {}}
  IN {ConfigMetrics(r.id, ledger, store) : r \in named}

\* /cost over some of a store's records: the runs, their total, the successes, and
\* the calls no rate card priced, printed beside the total.
AggregateRuns(records, lines) ==
  [runs |-> Cardinality(records), total |-> SumAt(records, [i \in DOMAIN lines |-> lines[i].record.cost]),
   successes |-> Cardinality({i \in records : lines[i].record.success}),
   unpriced |-> SumAt(records, [i \in DOMAIN lines |-> Cardinality(UnpricedCalls(lines[i].record.rows))])]

------------------------------------------------------------- (* properties *)

\* The rows asked for are different: the same id twice joins both attempts of
\* a task to the later record.
Distinct == \A i, j \in DOMAIN Ids : Ids[i] = Ids[j] => i = j

\* What this run's attempts of a row spent, of the first n attempts there were,
\* and whether all their records reached the disk.
OfThisRun(id, n) == {k \in 1..n : paid[k].of = life /\ paid[k].key[1] = id}

Dollars(id, n) == SumAt(OfThisRun(id, n), [k \in 1..n |-> paid[k].dollars])

Kept(id) == \A i \in AttemptsOf(id, ledger) : <<life, ledger[i].key>> \in written

\* A report's cost of a row is every dollar its attempts spent, an interrupted
\* one included, when the row's model has a rate and the disk took its records;
\* its rates count each attempt once; and the two files say the same of it.
ReportIsThePrice ==
  \A r \in report :
    /\ \A i \in DOMAIN r :
         /\ Kept(rows[i].id) => r[i].cost = IF rows[i].rated THEN Dollars(rows[i].id, Len(paid)) ELSE 0
         /\ r[i].attempts = r[i].complete + r[i].incomplete + r[i].errors
         /\ r[i].falsely <= r[i].reported
    /\ Recompute = {r[i] : i \in {j \in DOMAIN r : r[j].attempts > 0}}

\* The records of this run's compiled turns, and the attempts they are of.
Compiled(lines) == {i \in ReadStore(lines) : lines[i].record.of = life /\ lines[i].record.rows # <<>>}

Theirs(lines) == {k \in DOMAIN paid : paid[k].of = life /\ \E i \in Compiled(lines) : lines[i].record.key = paid[k].key}

\* What /cost prints over the compiled turns of this run: the total and the
\* calls named as unpriced are every dollar they spent.
NamesEveryDollar(lines) ==
  LET told == AggregateRuns(Compiled(lines), lines)
  IN told.total + told.unpriced = SumAt(Theirs(lines), [k \in DOMAIN paid |-> paid[k].dollars])

NoSilentZero == NamesEveryDollar(telemetry)

\* An attempt has one record and one ledger row, whoever wrote them; a record
\* the disk took is found, and what was read piece by piece is what a full scan
\* of the store reads; a row is joined to its own run's record when the disk took
\* one, though an earlier run of the id left its own.
OneRecordEach ==
  /\ \A i, j \in ReadStore(telemetry) :
       telemetry[i].record.key = telemetry[j].record.key /\ telemetry[i].record.of = telemetry[j].record.of => i = j
  /\ \A i, j \in DOMAIN ledger : ledger[i].key = ledger[j].key => i = j
  /\ telemetry = SubSeq(store, 1, drained)
  /\ \A w \in written : w[1] = life => \E i \in RecordsOf(telemetry, w[2]) : telemetry[i].record.of = life
  /\ \A i \in DOMAIN ledger :
       at \in {"between", "done"} /\ <<life, ledger[i].key>> \in written => JoinTelemetry(ledger[i].key, telemetry).of = life

\* No attempt of a row starts once the earlier ones spent its budget.
BudgetStops ==
  \A i \in DOMAIN rows : rows[i].budget > 0 /\ rows[i].rated /\ Kept(rows[i].id) =>
    \A k \in OfThisRun(rows[i].id, Len(paid)) : Dollars(rows[i].id, k - 1) < rows[i].budget

\* The held-out files are in no checkout an attempt works in.
GoldenIsHeldOut == at \in {"booting", "running", "proving"} => Task.id \notin golden

\* The benchmark's books: see the parts.
RunIsAccounted ==
  at \notin {"idle", "refused"} /\ Distinct =>
    ReportIsThePrice /\ NoSilentZero /\ OneRecordEach /\ BudgetStops /\ GoldenIsHeldOut
=============================================================================
