-------------------------- MODULE StreamSupervisor --------------------------
(***************************************************************************)
(* The data platform process: the lifespan of entrypoints/data_platform.py *)
(* around the scheduler and around the TaskGroup of                        *)
(* ingest/mexc/streams.py, with the stream loops, the heartbeat watchdog   *)
(* and the freshness alerter, which all meet in one gauge: the time of the *)
(* last write of each (dataset, symbol).                                   *)
(*                                                                         *)
(* Time is counted in heartbeat intervals of 30 seconds, gauges as ages    *)
(* that saturate at MaxAge.  A step is what a task does between two awaits *)
(* that another task can notice: a message and its COPY are one step,      *)
(* because here only the gauge shows it.  A reconnect leaves the gauge     *)
(* alone, and so is no step, except in the funding loop, which goes on to  *)
(* its next symbol.                                                        *)
(***************************************************************************)
EXTENDS Integers, Sequences, FiniteSets, Schema

CONSTANTS
    SymbolList,         \* `symbols` of mexc_ws_streams
    Loops,              \* the stream loops in the group, by dataset; the live
                        \* candle loop, in Candles, is like the one of the trades
    AtOnce,             \* the children that return at once: liquidations, when ccxt
                        \* has no watch_liquidations (its gauges are set to 0), and
                        \* divergence, when there are no tier-1 symbols
    HeartbeatTimeout,   \* HEARTBEAT_TIMEOUT_S
    FlushSeconds,       \* flush_seconds of trades_persist_loop
    Threshold,          \* 2 * EXPECTED_LAG of each dataset
    AlertInterval,      \* of freshness.check
    SendTicks,          \* how long the sends of one freshness.check may take
    MaxAge,             \* where ages saturate
    Unset               \* a gauge that was never set, or holds the sentinel 0

Direct == {"funding", "l2_top20", "liquidations"}
Polled == "oi"

ASSUME StreamsAssumption ==
    /\ Loops \subseteq Direct \cup {"trades"}
    /\ AtOnce \subseteq {"liquidations", "divergence"}
    /\ HeartbeatTimeout \in Nat \ {0} /\ FlushSeconds \in Nat \ {0}
    /\ Threshold \in [Loops \cup {Polled} -> Nat \ {0}]
    /\ AlertInterval \in Nat \ {0} /\ SendTicks \in Nat
    /\ MaxAge \in Nat /\ Unset \notin Nat
    /\ SymbolList \in Seq({SymbolList[i] : i \in DOMAIN SymbolList})

(* From one freshness.check to the next: the interval, or the sends of the   *)
(* run before if they take longer.                                           *)
LongestRound == IF AlertInterval >= SendTicks THEN AlertInterval ELSE SendTicks

\* Ages are told apart as far as the properties look.
ASSUME AgesAssumption ==
    /\ \A d \in Loops \cup {Polled} : Threshold[d] + LongestRound + SendTicks < MaxAge
    /\ HeartbeatTimeout + 1 < MaxAge

Symbols == {SymbolList[i] : i \in DOMAIN SymbolList}
Tasks == Loops \cup {"watchdog", "divergence"}
Watched == Loops \X Symbols         \* source mexc_native, stream_names
Series == Watched \cup ({Polled} \X Symbols)

VARIABLES
    phase,      \* of the lifespan; when it is unwound the process goes on, with
                \* /health and without streams and jobs, until the server stops
    event,      \* shutdown_event
    task,       \* the children of the TaskGroup
    sched,      \* the scheduler is running
    engine,     \* the engine of the lifespan is open
    spin,       \* a task keeps the event loop and never awaits
    age,        \* source_freshness_seconds
    buffer,     \* symbols in the buffer of trades_persist_loop
    unflushed,  \* time since its last flush
    turn,       \* position of funding_live_loop in the list
    sleep,      \* what is left of the watchdog's sleep
    alarm,      \* time until freshness.check is due
    job,        \* the run of freshness.check under way
    degraded,   \* _degraded_set
    alerts,     \* alerts a series got while stale, since its gauge was set (history)
    unseen      \* series whose gauge was set while the alerter took them for
                \* degraded, and that no check has found fresh since (history)

vars == <<phase, event, task, sched, engine, spin, age, buffer, unflushed, turn,
          sleep, alarm, job, degraded, alerts, unseen>>

group == <<phase, event, task, sched, engine, spin>>
gauges == <<age, alerts, unseen>>
streams == <<buffer, unflushed, turn>>
alerter == <<alarm, job, degraded>>

NoRun == [pending |-> {}, cur |-> {}, ticks |-> 0]

(* The group has started its children. *)
Init ==
    /\ phase = "run"
    /\ event = FALSE
    /\ task = [t \in Tasks |-> IF t \in AtOnce THEN "done" ELSE "run"]
    /\ sched = TRUE /\ engine = TRUE /\ spin = FALSE
    /\ age = [x \in Series |-> Unset]
    /\ buffer = {} /\ unflushed = 0
    /\ turn = 1
    /\ sleep = 1
    /\ alarm = AlertInterval
    /\ job = NoRun
    /\ degraded = {}
    /\ alerts = [x \in Series |-> 0]
    /\ unseen = {}
----------------------------------------------------------------------------

(* A child of the group can take a step: it has not ended, it is not being  *)
(* cancelled, and no other task keeps the event loop.                       *)
Runs(t) == t \in Tasks /\ task[t] = "run" /\ phase \in {"run", "join"} /\ ~spin

(* What the alerter takes for degraded: the set of the last run, or the one  *)
(* that the run under way will put in its place.                             *)
Known == IF job = NoRun THEN degraded ELSE job.cur

(* The gauges of X are set to time.time(). *)
SetGauge(X) ==
    /\ age' = [x \in Series |-> IF x \in X THEN 0 ELSE age[x]]
    /\ alerts' = [x \in Series |-> IF x \in X THEN 0 ELSE alerts[x]]
    /\ unseen' = unseen \cup (X \cap Known)

(* A child ends with an exception: the group cancels the others and the     *)
(* body of the context manager, whose finally clause sets the event.        *)
Raise(t) ==
    /\ task' = [task EXCEPT ![t] = "done"]
    /\ phase' = "abort"
    /\ event' = TRUE
    /\ UNCHANGED <<sched, engine, spin, gauges, streams, sleep, alerter>>

(* trades_persist_loop gets trades of the symbols S, and flushes the buffer *)
(* if the last flush is long enough ago.                                    *)
TradesMessage(S) ==
    /\ Runs("trades")
    /\ IF unflushed >= FlushSeconds
       THEN /\ buffer' = {} /\ unflushed' = 0
            /\ SetGauge({"trades"} \X (buffer \cup S))
       ELSE /\ buffer' = buffer \cup S
            /\ UNCHANGED <<unflushed, gauges>>
    /\ UNCHANGED <<group, turn, sleep, alerter>>

\* Mutant: the position runs off the list.
NextTurnRunsOff == turn' = turn + 1

NextTurn == turn' = IF turn < Len(SymbolList) THEN turn + 1 ELSE 1

(* funding_live_loop, l2_sample_loop (the samplers of all symbols as one     *)
(* task) and the liquidations loop store each message they get.             *)
DirectMessage(d, s) ==
    /\ Runs(d)
    /\ SetGauge({<<d, s>>})
    /\ IF d = "funding" THEN s = SymbolList[turn] /\ NextTurn ELSE UNCHANGED turn
    /\ UNCHANGED <<group, buffer, unflushed, sleep, alerter>>

\* Mutant: the loop does not sleep before it watches again, so that a watch
\* that fails at once keeps the event loop.
FundingReconnectBusy ==
    /\ Runs("funding")
    /\ spin' = TRUE
    /\ UNCHANGED <<phase, event, task, sched, engine, gauges, streams, sleep, alerter>>

(* The watch of funding_live_loop raised: it goes on with its next symbol.   *)
(* Without symbols its `while True` has no await in it.                      *)
FundingReconnect ==
    /\ Runs("funding")
    /\ IF SymbolList = << >> THEN spin' = TRUE /\ UNCHANGED turn
                             ELSE NextTurn /\ UNCHANGED spin
    /\ UNCHANGED <<phase, event, task, sched, engine, gauges, buffer, unflushed,
                   sleep, alerter>>

(* The flush of the trades is rejected, or a message is malformed (in the    *)
(* direct loops: or its COPY is rejected) and then so is its dead letter.    *)
DeadLetterAccepts == DeadLetterConflictColumns = DeadLetterPrimaryKey

LoopRaises(d) ==
    /\ Runs(d)
    /\ Symbols # {}
    /\ ~DeadLetterAccepts \/ (d = "trades" /\ unflushed >= FlushSeconds)
    /\ Raise(d)
----------------------------------------------------------------------------

\* Mutant: the loop over the samples is left at one that holds the sentinel,
\* instead of going on with the next.
StaleUntilSentinel ==
    {x \in Watched : (\A y \in Watched : age[y] # Unset) /\ age[x] > HeartbeatTimeout}

Stale == {x \in Watched : age[x] # Unset /\ age[x] > HeartbeatTimeout}

(* _heartbeat_watchdog wakes up, looks at the gauges, and goes to sleep      *)
(* again unless the event is set.                                            *)
WatchdogRaises ==
    /\ Runs("watchdog") /\ sleep = 0
    /\ Stale # {}
    /\ Raise("watchdog")

WatchdogSleeps ==
    /\ Runs("watchdog") /\ sleep = 0
    /\ Stale = {}
    /\ sleep' = 1
    /\ task' = [task EXCEPT !["watchdog"] = IF event THEN "done" ELSE "run"]
    /\ UNCHANGED <<phase, event, sched, engine, spin, gauges, streams, alerter>>

(* _cross_rest_divergence_check sees the event.  What it does before is in   *)
(* Candles.                                                                  *)
DivergenceEnds ==
    /\ Runs("divergence")
    /\ event
    /\ task' = [task EXCEPT !["divergence"] = "done"]
    /\ UNCHANGED <<phase, event, sched, engine, spin, gauges, streams, sleep, alerter>>
----------------------------------------------------------------------------

(* mexc.oi.poll stored rows of the symbol. *)
Poll(s) ==
    /\ sched /\ ~spin
    /\ SetGauge({<<Polled, s>>})
    /\ UNCHANGED <<group, streams, sleep, alerter>>

Behind == {x \in Series : age[x] # Unset /\ age[x] > Threshold[x[1]]}

\* Mutant: the set is cleared and not filled again.
FinishForgets(cur) == degraded' = {} /\ job' = NoRun

(* _degraded_set.clear(); _degraded_set.update(currently_degraded) *)
Finish(cur) == degraded' = cur /\ job' = NoRun

\* Mutant: what an earlier run found is never looked at again.
FreshnessCheckOnlyAdds ==
    /\ sched /\ ~spin
    /\ alarm = 0 /\ job = NoRun
    /\ alarm' = AlertInterval
    /\ LET cur == Behind \cup degraded
           new == cur \ degraded
       IN IF new = {} THEN Finish(cur)
          ELSE job' = [pending |-> new, cur |-> cur, ticks |-> 0] /\ UNCHANGED degraded
    /\ unseen' = unseen \cap Behind
    /\ UNCHANGED <<group, age, alerts, streams, sleep>>

(* freshness_check_job: it reads all gauges at once and then sends an alert  *)
(* for each series that it did not find degraded the last time.              *)
FreshnessCheck ==
    /\ sched /\ ~spin
    /\ alarm = 0 /\ job = NoRun
    /\ alarm' = AlertInterval
    /\ LET new == Behind \ degraded
       IN IF new = {} THEN Finish(Behind)
          ELSE job' = [pending |-> new, cur |-> Behind, ticks |-> 0] /\ UNCHANGED degraded
    /\ unseen' = unseen \cap Behind
    /\ UNCHANGED <<group, age, alerts, streams, sleep>>

(* One awaited send_telegram_alert, delivered or not; after the last one the *)
(* run ends.                                                                 *)
SendAlert(x) ==
    /\ sched /\ ~spin
    /\ x \in job.pending
    /\ alerts' = IF x \in Behind THEN [alerts EXCEPT ![x] = @ + 1] ELSE alerts
    /\ IF job.pending = {x} THEN Finish(job.cur)
       ELSE job' = [job EXCEPT !.pending = @ \ {x}] /\ UNCHANGED degraded
    /\ UNCHANGED <<group, age, streams, sleep, alarm, unseen>>
----------------------------------------------------------------------------

(* The server is told to stop: the body of the context manager ends, sets    *)
(* the event, and the group waits for its children.                          *)
Shutdown ==
    /\ phase = "run" /\ ~spin
    /\ phase' = "join"
    /\ event' = TRUE
    /\ UNCHANGED <<task, sched, engine, spin, gauges, streams, sleep, alerter>>

\* Mutant: the loop takes the cancellation for a failed watch.
CancelSwallowed(t) ==
    /\ phase = "abort" /\ ~spin
    /\ task[t] = "run" /\ t # "funding"
    /\ task' = [task EXCEPT ![t] = "done"]
    /\ UNCHANGED <<phase, event, sched, engine, spin, gauges, streams, sleep, alerter>>

(* A child that is cancelled ends at its await; `except Exception` does not  *)
(* hold a CancelledError.                                                    *)
Cancel(t) ==
    /\ phase = "abort" /\ ~spin
    /\ task[t] = "run"
    /\ task' = [task EXCEPT ![t] = "done"]
    /\ UNCHANGED <<phase, event, sched, engine, spin, gauges, streams, sleep, alerter>>

\* Mutant: the scheduler is the inner context.
StopSchedulerFirst ==
    /\ phase \in {"join", "abort"} /\ ~spin
    /\ phase' = "stop"
    /\ sched' = FALSE
    /\ job' = NoRun
    /\ UNCHANGED <<event, task, engine, spin, gauges, streams, sleep, alarm, degraded>>

(* When the group has ended, scheduler_lifespan is left, and a job that is   *)
(* still running is cancelled.                                               *)
StopScheduler ==
    /\ phase \in {"join", "abort"} /\ ~spin
    /\ \A t \in Tasks : task[t] = "done"
    /\ phase' = "stop"
    /\ sched' = FALSE
    /\ job' = NoRun
    /\ UNCHANGED <<event, task, engine, spin, gauges, streams, sleep, alarm, degraded>>

(* mexc_client.close(), engine.dispose(): the lifespan is unwound.  After a   *)
(* failure it is not entered again, and uvicorn does not end the process.    *)
Close ==
    /\ phase = "stop"
    /\ phase' = "unwound"
    /\ engine' = FALSE
    /\ UNCHANGED <<event, task, sched, spin, gauges, streams, sleep, alerter>>

Older(n) == IF n < MaxAge THEN n + 1 ELSE n
Sooner(n) == IF n > 0 THEN n - 1 ELSE 0

(* Time passes.  A sleep that is over is not slept on, a job that is due     *)
(* starts, and the sends of a run take at most SendTicks, unless the event   *)
(* loop is kept by a task.  The unwinding after a failure waits for nothing. *)
Tick ==
    /\ phase \in {"run", "join"}
    /\ spin \/ /\ ~(Runs("watchdog") /\ sleep = 0)
               /\ sched => alarm > 0 \/ job # NoRun
               /\ job # NoRun => job.ticks < SendTicks
    /\ age' = [x \in Series |-> IF age[x] = Unset THEN Unset ELSE Older(age[x])]
    /\ unflushed' = IF unflushed < FlushSeconds THEN unflushed + 1 ELSE unflushed
    /\ sleep' = Sooner(sleep)
    /\ alarm' = Sooner(alarm)
    /\ job' = IF job = NoRun \/ spin THEN job ELSE [job EXCEPT !.ticks = @ + 1]
    /\ UNCHANGED <<group, buffer, turn, degraded, alerts, unseen>>

Next ==
    \/ \E S \in SUBSET Symbols \ {{}} : TradesMessage(S)
    \/ \E d \in Direct, s \in Symbols : DirectMessage(d, s)
    \/ FundingReconnect
    \/ \E d \in Loops : LoopRaises(d)
    \/ WatchdogRaises \/ WatchdogSleeps
    \/ DivergenceEnds
    \/ \E s \in Symbols : Poll(s)
    \/ FreshnessCheck
    \/ \E x \in Series : SendAlert(x)
    \/ Shutdown
    \/ \E t \in Tasks : Cancel(t)
    \/ StopScheduler \/ Close
    \/ Tick

Spec == Init /\ [][Next]_vars

(* The event loop serves every task that is ready, and time passes.  Nothing *)
(* makes the exchange send, a request fail or the operator stop the server.  *)
Fairness ==
    /\ WF_vars(Tick)
    /\ WF_vars(WatchdogRaises \/ WatchdogSleeps)
    /\ WF_vars(DivergenceEnds)
    /\ WF_vars(FundingReconnect /\ SymbolList = << >>)
    /\ WF_vars(FreshnessCheck)
    /\ WF_vars(\E x \in Series : SendAlert(x))
    /\ \A t \in Tasks : WF_vars(Cancel(t))
    /\ WF_vars(StopScheduler) /\ WF_vars(Close)

FairSpec == Spec /\ Fairness
----------------------------------------------------------------------------
(* PROPERTIES *)

TypeOK ==
    /\ phase \in {"run", "join", "abort", "stop", "unwound"}
    /\ event \in BOOLEAN /\ sched \in BOOLEAN /\ engine \in BOOLEAN /\ spin \in BOOLEAN
    /\ task \in [Tasks -> {"run", "done"}]
    /\ age \in [Series -> (0..MaxAge) \cup {Unset}]
    /\ buffer \in SUBSET Symbols
    /\ unflushed \in 0..FlushSeconds
    /\ turn \in Nat \ {0} /\ (Symbols # {} => turn \in DOMAIN SymbolList)
    /\ sleep \in {0, 1}
    /\ alarm \in 0..AlertInterval
    /\ job \in [pending : SUBSET Series, cur : SUBSET Series, ticks : 0..SendTicks]
    /\ degraded \in SUBSET Series
    /\ alerts \in [Series -> Nat]
    /\ unseen \in SUBSET Series

(* A stream that has once written and then hangs is noticed: as long as the  *)
(* group is up, no watched gauge is older than the timeout and one interval  *)
(* of the watchdog.                                                          *)
NoSilentStream ==
    phase = "run" /\ ~spin =>
        \A x \in Watched : age[x] # Unset => age[x] <= HeartbeatTimeout + 1

(* However long a series stays stale, and whatever its gauge does while the  *)
(* alerts of a run are being sent, it is alerted at most once.               *)
AlertedOnce == \A x \in Series : alerts[x] <= 1

(* A series that is stale for the time from one check to the next and of the *)
(* sends is alerted, at any moment and however long the sends of a run take. *)
(* An alert is lost in one case only: the gauge was set while the alerter    *)
(* took the series for degraded, and became stale again before a check could *)
(* see it fresh, so that the alerter knows nothing of the new outage.        *)
StaleIsAlerted ==
    \A x \in Series \ unseen :
        sched /\ ~spin
            /\ age[x] # Unset /\ age[x] > Threshold[x[1]] + LongestRound + SendTicks
        => alerts[x] = 1

(* The engine is closed last, when no stream and no job can use it. *)
EngineClosedLast ==
    /\ ~engine => ~sched
    /\ ~sched => job = NoRun /\ \A t \in Tasks : task[t] = "done"

(* When a child of the group fails, the group, the scheduler and the engine  *)
(* come down, whatever the other children, a send or the watchdog are        *)
(* waiting for.  The process stays, without streams: streams.py:208 and 286  *)
(* expect the lifespan to respawn them, and data_platform.py does not.       *)
FailureUnwinds == phase = "abort" ~> phase = "unwound"

(* freshness.check runs again and again until the lifespan is unwound. *)
FreshnessKeepsChecking == []<>(phase = "unwound") \/ []<><<FreshnessCheck>>_vars

(* streams.py:271: leaving the context manager stops "all tasks ... before   *)
(* the TaskGroup joins them".                                                *)
ShutdownEnds == phase = "join" ~> phase = "unwound"
=============================================================================
