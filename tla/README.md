# shortfire: TLA+ models, model checking and proofs

shortfire is a crypto data platform. Its running part today is the
**data-platform** service: one asyncio process that ingests market data from
MEXC (websocket and REST), Coinglass and CoinGecko into TimescaleDB
hypertables, by continuous stream tasks and by scheduled jobs. The strategy
engine and the dashboard are still health endpoints. This directory holds
TLA+ models of the service's core logic, the TLC configurations that check them
on small instances and TLAPS proofs for instances of any size. Paths below are
relative to `src/src/shortfire/`.

    tlc -workers 2 -config MCCandles_faults.cfg MCCandles
    tlapm CandlesProofs.tla

## The system

| part | state it keeps | operations | talks to | what is hard |
|---|---|---|---|---|
| write path (`ingest/storage/copy.py`, `db/engine.py`) | hypertables, UNLOGGED staging table per backend pid, connection pool | `copy_into_hypertable` | every writer below; PostgreSQL | interleaved calls on one key, staging rows that outlive a call, deadlock, failure at each await, lost COMMIT answer, database restart |
| live candles (`ingest/mexc/live_candles.py`) | partial bucket per symbol, buffer, time of last flush, all in memory | `on_trade`, flush, reconnect | exchange stream, write path, dead letter | late and lost trades, restart in a minute, failed flush |
| backfill (`ingest/mexc/backfill.py`, job in `ingest/scheduler/jobs.py`) | cursor of the sweep | page, store, advance | MEXC REST, write path | page boundaries, data that grows while it is read, the open minute |
| divergence check (`ingest/mexc/streams.py`) | symbol rotation | fetch, read, update | MEXC REST, candles table | three steps with two writers between them |
| round-robin jobs (`ingest/scheduler/jobs.py`, `ingest/state/kv_state.py`, `ingest/mexc/oi.py`, `ingest/coinglass/*`, `ingest/retry.py`) | cursor in `ingest_runs.kv_state` | list, slice, fetch, retry, store, save | symbols table, REST clients, write path, dead letter | a list that changes under the cursor, failure in a slice, crash before the save, starvation |
| dead letter (`ingest/dead_letter/`) | `dead_letter` table | write, alert | write path, Telegram | it is called from `except` blocks and may fail itself |
| stream supervisor (`ingest/mexc/streams.py`, `trades.py`, `funding.py`, `orderbook.py`, `liquidations.py`, `entrypoints/data_platform.py`) | TaskGroup, shutdown event, freshness gauge | watchdog, shutdown | all stream loops, lifespan | cancellation, no respawn after a failure, loops that ignore the shutdown event |
| freshness monitor (`ingest/freshness/`) | degraded set | check, alert, recover | gauge, Telegram | state read before an await and replaced after it |
| universe (`ingest/universe/`, `ingest/coingecko/`) | snapshots, symbols, tiers | snapshot, diff, recompute | MEXC REST, write path | two transactions, missed days |
| backup (`ingest/backup/`) | objects in R2 by prefix | dump, upload, promote, sweep | pg_dump, R2 | upload that ends before the dump has failed, no transactions |
| REST clients (`ingest/*/client.py`, `ingest/rate_limit.py`) | limiter | call | sources, dead letter | which exceptions are retried |
| scheduler (`ingest/scheduler/bootstrap.py`, `ingest/context.py`) | schedules | register, start, stop | all jobs | ordering of start and stop |
| schema (`alembic/versions`, `db/models`) | tables and unique indexes | DDL | ON CONFLICT columns of the writers | an ON CONFLICT without a matching index |
| settings, domain types, observability, client protocols, other entry points | none | | | nothing to model: declarations and output |

`PROJECT.json` lists the same parts with their status, and the hazards with the
line at which each one bites.

## Modules

| module | role |
|---|---|
| `HypertableStore` | abstract specification of a hypertable: a batch is merged at once, or not at all, and the first write of a key wins |
| `CopyIntoHypertable` | `copy_into_hypertable` await by await, for several coroutines |
| `Schema` | primary keys of the fourteen hypertables from the migrations beside the ON CONFLICT columns of their writers; its assumption says that every INSERT but the one of `write_to_dead_letter` has its index |
| `Candles` | the 1m candle table and its three writers: live loop, sweep, divergence check |
| `RoundRobin` | one round-robin job over a symbol list that changes |
| `StreamSupervisor` | the process: lifespan, scheduler, TaskGroup with stream loops, watchdog and freshness alerter, which meet in one gauge |
| `Universe` | the daily universe job: snapshots, symbols table, tiers |
| `Backup` | dump, upload, promotion and retention sweep |
| `MCCopy`, `MCCandles`, `MCRoundRobin`, `MCStreams`, `MCUniverse`, `MCBackup` | instances for TLC |
| `CopyProofs`, `CandlesProofs`, `LiveCandlesProofs`, `RoundRobinProofs`, `SupervisorProofs`, `UniverseProofs`, `BackupProofs` | theorems and proofs |

`Candles`, `RoundRobin`, `StreamSupervisor` and `Universe` do not repeat the
write path: a write there is one atomic merge (`Candles` uses `HypertableStore!Merged`). This is justified by
the refinement `CopyIntoHypertable => HypertableStore!Spec`, which TLC checks
and TLAPS proves. The outcome of a dead-letter write comes from `Schema`.

### CopyIntoHypertable

A writer is a coroutine; `phase` says at which await of the function it is,
`conn` which backend pid it holds, `view` what its transaction sees in the
staging table, `ins` the rows it has inserted but not committed. `Begin`,
`Connect`, `Create`, `Truncate`, `CopyRecords`, `InsertRow`, `Commit` are the
lines of the function in order. The INSERT is taken row by row, because that is
where PostgreSQL waits for a key another open transaction has inserted; the
rest of PostgreSQL (waiting, deadlock detection, loss of UNLOGGED rows in crash
recovery) is external and marked so in the map. `Raise`, `ConnectTimeout`,
`NoArbiter`, `DeadlockVictim`, `CommitLost` and `DatabaseRestart` are the ways
a call ends without returning. Staging tables are never dropped by the code,
so `staging` keeps the rows of earlier calls and a pid may come back.

### Candles

The clock counts minutes. `book` is what the exchange has published, `inbox` the
trades on their way to the process. `Watch` is one trade through
`MinuteAggregator.on_trade`, followed by the look at the flush timer; `Flush`
the COPY. `lastFlush` is the time of that look and not of the COPY, as in the
code. Failures are switched on by the constant `Events`: `"late"` (a trade overtakes another),
`"loss"` (reconnect drops what was under way), `"crash"` (any await raises, the
answer of a COMMIT is lost, the process is replaced), `"malformed"` (a trade
that fails validation), `"sweep"` and `"check"` (the other two writers run).
`SweepFetch` returns the oldest `PageLimit` minutes from the cursor on, the open
minute included, because `fetch_ohlcv` sends no upper bound; `until` only bounds
the cursor. The check compares with the second newest REST candle and has
three separate steps.

Abstractions: prices are integers further apart than the 0.5% threshold, so
"differs" is "differs by more than the threshold"; each trade has quantity one;
symbol rotation of the check is a free choice.

### RoundRobin

`kv` is `last_symbol_index` of the newest `ingest_runs` row of the job, `job`
the run under way with its own copy of the list, `listed` the symbols table as
the query orders it. The three Coinglass jobs fetch and store symbol by symbol,
`mexc.oi.poll` fetches the slice and stores it at once: `kind` tells the two
shapes apart. `done`, `base` and the counter `changes` are history: whom the
present round has dealt with, and whether the list changed in it. The jobs run
one at a time because APScheduler's default is one running job per task; that
is external. `Save` has two outcomes, and the constant `BindsBeforeCast` says which: the
statement holds `:st::jsonb` inside `text()`, and whether `:st` is a parameter there is up
to SQLAlchemy. As far as its bind pattern goes (a name followed by a colon is left out;
2.0.49 is the locked version) it is not, and the INSERT raises, so `FALSE` is the
program as it is. `rr_rounds` takes `TRUE` and asks whether the cursor logic around the
save is right; `rr_starved` takes `FALSE`. The theorems hold for both.

### StreamSupervisor

Time is counted in intervals of the watchdog. `phase` is where the
lifespan is (running, joining the group after a shutdown, aborting after a
failure, stopping the scheduler, unwound), `task` the children of the TaskGroup,
`age` the gauge `source_freshness_seconds` as an age that saturates at `MaxAge`.
A loop's step is a message together with its COPY: `TradesMessage` buffers and
flushes when the flush is due, `DirectMessage` writes at once, `LoopRaises` is
the exception of a rejected flush or dead letter. `Raise` is the TaskGroup's
answer: cancel everybody, leave the context. `WatchdogRaises`/`WatchdogSleeps`,
`DivergenceEnds`, `FreshnessCheck`, `SendAlert`, `Shutdown`, `Cancel`,
`StopScheduler` and `Close` are the other tasks and the unwinding. `spin`
says that a task keeps the event loop: the funding loop with an empty list.
The samplers of all symbols are one task. `AtOnce` names the children that return as
soon as they start: the liquidations loop when the exchange has no such stream, and the
divergence check with the empty tier-1 list that the lifespan passes. `alerts` and
`unseen` are history: how often the present outage of a series was alerted, and which
series came back while the alerter took them for stale and have not been seen
fresh by a check since.

`"unwound"` is the end of the lifespan and not of the process. Nothing enters it
again: uvicorn keeps serving `/health`, and `railway.toml` restarts the service only when the
process fails.

### Universe

`snapshots` is `universe_snapshots` by date, `status` and `tier` the symbols
table, `exchange` what `fetch_tickers` would return. A run goes through `Start`,
`Fetch` (or `FetchFails`, which the job swallows), `Copy` (first transaction),
`Diff`, `Update` (second transaction), `RankRead`, `RankWrite`; `Fail` ends it
anywhere. Volumes are compared with the threshold, nothing else; the result of
the ranking query is any set of at most `TopN` symbols. `last`, `committed`,
`clean` and the field `since` are history.

### Backup

Objects have the time of their run as a name, so the order of names is the
order of times, as in the code. `Upload` stores a complete or a truncated
object, `Wait` looks at the exit code, `List`, `Promote`, `SweepPrefix` and
`Delete` are the requests of `_sundown_sweep` one by one, and `Fail` ends the
run between any two. The calendar is given by sets of days.

## What the runs show

Each property has one mutant: a plausible change of the code under which
TLC must report the property violated.

| run | asks | bounds |
|---|---|---|
| `copy_shared` | With overlapping, contradictory batches in opposite key orders, a dead-letter writer, pooled connections with old staging rows, failures everywhere and database restarts: is the INSERT's input the call's own (`StagedIsOwn`), does a normal return mean stored (`ReturnedIsStored`), are keys held once (`HeldOnce`), does nothing overwrite (`FirstWriteWins`), is a batch atomic (`ImplementsStore`), does each call end (`CallEnds`), and does a deadlock need a batch in descending order (`DeadlockNeedsDisorder`)? Backfill pages ascend. The live buffer does too, except after a late trade, for which `MinuteAggregator` finalizes the new minute and later the old one again (`!=` at `live_candles.py:87`): a batch `[m1, m0]` can deadlock with a page `[m0, m1]`, PostgreSQL then aborts one of them, and the call raises. | 3 writers, 2 tables, 2 keys, 2 values, 2 pids and connections |
| `candles_live` | Without failures, is every `ok` row of a closed minute the candle of the exchange (`OkRowsExact`), and is every received minute whole in bucket, buffer or table (`NothingDropped`)? | 4 minutes, 2 trades a minute, 2 prices |
| `candles_faults` | With all three writers, late, lost and malformed trades, failures and restarts: does a stored candle lie within the exchange's candle of its minute (`StoredWithinExchange`) and count no trade twice (`VolumeNeverInflated`), are divergence flags true (`FlagIsTrue`), does a finished sweep leave no gap (`SweepCovers`), is nothing rewritten (`CandlesNeverRewritten`), does a sweep end (`SweepEnds`)? | 2 minutes, 2 trades, pages of one candle; all but `SweepEnds` are proved for any bounds |
| `rr_rounds` | Is a slice always within its list (`SliceWithinList`), the cursor never ahead of the rows (`CursorBehindRows`), a round complete (`RoundComplete`), and is, as long as saves succeed again and again, each symbol that stays listed served again and again, whatever else fails and however the list changes under the index (`SavedCursorServesAll`)? | 4 symbols, 4 lists (growing, shrinking, reordered, empty), 2 changes, slices of 2 and 3, 2 attempts |
| `streams_supervised` | Is a stream that hangs noticed (`NoSilentStream`), a stale series alerted once its age is over the threshold, a round of the alerter and its sends (`StaleIsAlerted`, for the series not in `unseen`), and once only (`AlertedOnce`), although the gauges move while alerts are sent; does a failure unwind the lifespan to its end (`FailureUnwinds`) in the right order (`EngineClosedLast`); do the checks go on otherwise (`FreshnessKeepsChecking`)? | 1 symbol, a buffering and a direct loop and a polled series; what is 60 seconds in the code (watchdog timeout, flush, interval of the alerter, the smallest threshold) is one tick, the sends of a check take up to two ticks, longer than a gauge needs to become stale |
| `universe_days` | Does the past stay as it is (`UniverseAtStable`), is the symbols table never ahead of the snapshots (`SymbolsBehindSnapshots`), do the daily differences add up while every day has its run (`ActiveAsSeen`), is tier 1 bounded (`TierOneBounded`)? | 2 symbols (symmetric), 3 days, 2 runs a day, volumes on both sides of the threshold |
| `backup_sweeps` | Is the latest complete dump always there (`RestorePoint`), is nothing truncated promoted (`PromotedComplete`), is only deleted what is beyond the retention (`OnlyBeyondRetention`), and all of it by a sweep that ends (`SweepLeavesRetention`)? | 4 days with two times each, retentions of 3, 1 and 2 |

The bounds are chosen so that the interesting cases occur: two keys in
opposite orders are the smallest deadlock; three minutes allow a closed minute, a
flush of it and an open minute at once; four symbols and slices of two and three give rounds of several slices
with and without a remainder, and a list that becomes shorter than the saved
cursor; three days are the shortest time in which a symbol leaves and comes back;
eight times fill each prefix beyond its retention. `CHECK_DEADLOCK FALSE` is set
where the system may stop: the clocks of `Candles`, `Universe` and `Backup` end,
a list of `rr_rounds` may become empty for good, and the lifespan of
`StreamSupervisor` is unwound.

Five runs are expected to fail. Each states what the repository says of the
program and shows that the code does otherwise (`findings` in `PROJECT.json`):

- `candles_gaprepair`: the sweep stores the minute that is still open, and the
  finished candle of the live loop is then dropped as a conflict. The job
  calls itself "a pure gap-repair pass".
- `rr_starved`: a round-robin job as the code has it does not go round, for two
  reasons. The INSERT of `write_to_dead_letter` names `ON CONFLICT (id)`
  and `dead_letter` has only the key `(id, ts)`, so it is always rejected: one
  symbol with a permanent 4xx makes every run of its job fail in its slice, and the
  symbols behind it starve. The client says "dead_letter, no raise". And the save of
  the cursor raises (`:st::jsonb`, see above), so that every run begins with the first
  slice, while `kv_state.py` says the helper is there to "read/write its
  `last_symbol_index` cursor across scheduler restarts". TLC prints the first
  as the shorter one. Either of them is enough: with `Refused = {}` TLC prints
  the second, with `BindsBeforeCast = TRUE` still the first, and with both
  the property holds. (A malformed trade ends the live loop by the rejection
  of its dead letter: `Malformed` in `Candles`, `LoopRaises` in `StreamSupervisor`.)
- `streams_firstboot`: the lifespan starts the streams with an empty symbol list,
  and `funding_live_loop` is then a `while True` without an await.
- `streams_shutdown`: leaving `mexc_ws_streams` sets an event the stream loops do
  not look at; the TaskGroup joins them and does not cancel.
- `universe_lost`: a run that ends between its two transactions loses the new
  listings of the day for good.

Observed while modelling, without a run: `candles_live` needs its assumption of
no restarts, since after one the rest of a minute is stored as an `ok` candle that
no sweep can replace. The alerter can lose an alert (`unseen`; without this exception
`StaleIsAlerted` is violated in `streams_supervised`): the sends of a check are awaited one after the other, up to
10 seconds each (`alerter.py:122`, `telegram.py:65`), so a series that is refreshed while they
last may be stale again before the next check, which finds it in the degraded set and says nothing.
After a failure the lifespan is unwound and nothing respawns the streams:
`streams.py:207-208`, `278` and `286` leave that to the lifespan, and
`data_platform.py:107-119` has no step for it. The docstring of `recompute_tier1`
(`tier1.py:27-28`) says that without candle data all symbols are set to tier 2;
the code returns and changes nothing. The watchdog looks at writes, and a loop that flushes every 60
seconds at the earliest is over its timeout of 60 seconds whenever the message
that triggers the flush is late by one interval. The sentinel 0 that the
liquidations loop sets so that the alerter fires is skipped by the alerter, and
`update_freshness_gauge` has no caller, so Coinglass and CoinGecko data
is never stale. `backup_age_seconds` is set to 0 after each backup and never grows.
`symbols.coinglass_symbol` is read by four jobs and written by nobody.
A weekly, monthly or annual dump is made only from a dump of that very day: if the
run of a Monday fails, the week has none.

### Fairness

- `CopyIntoHypertable`: weak fairness of each call's own steps (the event loop
  resumes a ready coroutine, the server answers or the pool times out), strong
  fairness of `InsertRow` (PostgreSQL wakes a waiting transaction when the
  holder ends). No fairness of failures.
- `Candles`: weak fairness of the sweep's steps. The sweep catches up with a
  clock that goes on, so `SweepEnds` does not rely on trading to stop.
- `StreamSupervisor`: weak fairness of time, of the tasks that wait for time only
  (watchdog, divergence check, alerter and its sends, which have a timeout) and of
  the unwinding. Nothing makes the exchange send or the operator stop the server.
- `Universe` and `Backup` are checked for safety only.
- `RoundRobin`: weak fairness of the job's steps (the scheduler starts it again
  after each run, failed or not), and strong fairness of a fetch, a
  store and a load: what is tried again and again succeeds in the
  end. Symbols in `Refused` never succeed. Of the save `FairSpec` assumes nothing:
  that it succeeds again and again is the hypothesis of `SavedCursorServesAll`.
  `AnsweredSpec`, for `rr_starved`, adds that a save comes to its answer, so that the
  counterexample is one of the code and not of a process that is always replaced
  just then; there the answer is the error.

## What is proved

Every theorem holds for all values of the constants that satisfy the named
assumptions (`CopyAssumption`, `CandlesAssumption`, `RoundRobinAssumption`,
`StreamsAssumption`, `AgesAssumption`, `UniverseAssumption`, `BackupAssumption`):
any number of writers, tables, keys, pids, symbols, prices, page sizes, windows,
lists, batch sizes, stream loops, timeouts, days, runs a day, calendars and
retentions. Every invariant and every action property that a passing run checks is
stated by a theorem. Three theorems have a hypothesis of their own, given below:
`AscendingNeverDeadlocks`, `LiveRowsExact` and `NothingFallsThrough`.
`AgesAssumption` is about the model only: ages saturate at a `MaxAge` beyond everything the checks tell apart.
No assumption relates the duration of the sends to the thresholds.

**CopyProofs.** `CopyInv` is inductive: type correctness, `StagedIsOwn`,
`HeldOnce`, `CursorExplainsHeld` and `ReturnedIsStored`. `ReturnedIsStored`
alone is not inductive: at commit one has to know that each row the cursor
passed is held by the transaction or committed, and that a held key is
committed by nobody else. From it: the type invariant, these properties,
the action property `FirstWriteWins`, and
`CopyImplementsStore`, the refinement: a commit is one `Merge` of the whole
batch (a held row is the first of its key in the batch), every other step leaves
the tables alone. `AscendingNeverDeadlocks` proves `DeadlockNeedsDisorder` from the same
invariant when the keys are numbers (`Keys \subseteq Nat`, the order in which batches
are compared): a writer whose batch ascends (a backfill page, and a live buffer without late trades) holds only keys below the one it
waits for, so the writer of a cycle that waits for the least key would be waited for
with a lesser one.

**CandlesProofs.** `CandlesInv` adds three strengthenings. `PipelineWithin`:
trades under way, buckets, buffered candles and the fetched page all lie within
the exchange's candle of their minute (for `StoredWithinExchange`).
`SweepKeepsUp`: what the cursor passed is stored, and a page skips no
closed minute (for `SweepCovers`). `CheckRefersBack`: the remembered close is the
final one of a closed minute, and the row read is still there (for `FlagIsTrue`).
The action property `CandlesNeverRewritten` follows from the type invariant.
`SweepAdvances` states the measure behind `SweepEnds`: every page moves the cursor on.

**LiveCandlesProofs.** Two ledgers of trades, both on top of `CandlesInv`.
`Counted` (for `VolumeNeverInflated`, with all failures and all three writers) counts
the trades of a minute that are on their way: they and the bucket of
the minute together are at most what the exchange counted, and so is each buffered,
fetched and stored candle. The trade that is taken out of the inbox pays for the one
that is added to the bucket; a late trade that opens its minute's bucket again pays
in the same way. `Exact` (for `OkRowsExact` and `NothingDropped`) supposes `Undisturbed`,
`Events \subseteq {"check"}`, as the run `candles_live` does, and replays the inbox: there is a
sequence of books that starts with what buckets, buffer and table hold (`Holds`),
takes one trade of the inbox after the other (`Replay`) and ends with the book
of the exchange. Saying that a book and the last one agree on the minutes
no later trade touches makes the replay inductive without an induction over its
length. `InOrder` adds that trades come in the order of time, so that what is buffered or stored is
a minute the loop is past.

**RoundRobinProofs.** `RoundRobinInv` adds `RunKeepsUp`: while the list stands
still, the run's copy is the list, and what the run has passed is stored or in
its hands. `SliceWithinList`, `CursorBehindRows` and `RoundComplete` follow.

**SupervisorProofs.** `Lifecycle` relates the lifespan, the scheduler, the engine and
the tasks on both ways down (for `EngineClosedLast`). `WatchdogInTime` ties each
gauge to the sleep of the watchdog: the longer it will still sleep, the younger
the gauge (for `NoSilentStream`). `RunShape` and `AlertKnown` say what the run that is sending and the degraded
set know of the alerts sent (for `AlertedOnce`), and `AlertsInTime` how old a stale
series outside `unseen` can be that the run at hand, or the next one, is still going to alert (for
`StaleIsAlerted`): such a series is degraded in the eyes of the alerter only if its present
outage was found by a check, which has sent the alert or is about to. The conjunction was checked with TLC on instances
with an interval shorter and longer than a send before it was proved.

**UniverseProofs.** `IInv` adds three strengthenings. `Dated`: the date of a run is
the day it began on, and no snapshot is of a day to come (for
`UniverseAtStable`). `FetchedStored`: what a run is about to enter in the symbols table
is in the snapshot it has written (for `SymbolsBehindSnapshots`). `CleanDay`: on
a clean day the active symbols are those of the snapshot of the day before until
the commit and those of today's after it, and the difference the run holds is
between exactly these two (for `ActiveAsSeen`). `TierOneBounded` needs only that the
ranking a run holds has at most `TopN` members.

**BackupProofs.** `IInv` adds to the properties what makes them inductive: a run
that uploads is about to add the newest object of all (`KeysPast`,
`UploadNewest`), and once the exit code is known to be zero, the object of the run
is complete, is the newest of daily/ and is the latest complete one
(`SweepNewest`), so that neither `Newest` nor `Beyond` can pick a
wrong one, however many truncated objects lie about. `RestorePoint`,
`PromotedComplete` and type correctness follow. `RetentionInv` is about the
deletions: `NewestSplit` shows that `objs[keep_n:]` of any set of times leaves at most `keep_n`,
and exactly so many newer ones if it takes anything; what the prefix at hand will be left with (`Left`)
does not change while objects go one by one (`StaysEnough`), the prefixes done
are within their retention (`DoneWithin`), and the dump stays where it is due (`DueThere`).
The action properties `OnlyBeyondRetention` and `SweepLeavesRetention` follow.

Where an argument needs a least or a greatest element (the first row of a key in a batch,
the oldest object kept, the least key waited for), it comes from the well-foundedness of `<` on the
naturals (`WFMin`), which takes no operator as a parameter.

Only model-checked: liveness (`CallEnds`, `SweepEnds`, `SavedCursorServesAll`,
`FailureUnwinds`, `FreshnessKeepsChecking`), which is out of the prover's
reach, and the five runs that are expected to fail.

## Not modelled

Metrics other than the freshness gauge, log lines, decimal arithmetic, HTTP details
and row payloads are left out of the models above. `flag_gap` has no caller.
`backfill_funding` is the loop of `backfill_ohlcv` over another table;
`backfill_universe` enters as the failure of the sweep, without its semaphore over
symbols. The exchange sends no trade twice in `Candles`: what ccxt delivers again after a
reconnect, if anything, is not modelled. `coinglass.funding_agg` and `coingecko.universe` are one fetch and one
batch without state of their own; `dead_letter.alert` is one count query and
one message. The REST clients enter by what a call gives its caller. APScheduler
is external: registration, persistence of schedules and misfires are not
modelled. Settings, domain types, protocols, logging and the two health-only
services have no behaviour to model.

## Plan

1. *(done)* write path, its abstract store and refinement; candles; round-robin jobs.
2. *(done)* stream supervisor with the freshness monitor; universe; backup.
3. *(done)* proofs of every invariant and action property of the passing runs.
   Left: the measures behind the other liveness properties, as for `SweepEnds`.
4. `Universe` composed with `RoundRobin`: its symbols table is what `Relist` changes.
