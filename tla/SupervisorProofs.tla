-------------------------- MODULE SupervisorProofs --------------------------
(***************************************************************************)
(* For any list of symbols, set of loops and timeouts: a stream that hangs *)
(* is noticed in time, a stale series is alerted once and not too late,    *)
(* and the engine outlives all who use it.                                 *)
(***************************************************************************)
EXTENDS StreamSupervisor, TLAPS

(* How far the lifespan is unwound. *)
Lifecycle ==
    /\ sched <=> phase \in {"run", "join", "abort"}
    /\ ~engine => phase = "unwound"
    /\ ~sched => job = NoRun /\ \A t \in Tasks : task[t] = "done"
    /\ phase = "run" => ~event /\ task["watchdog"] = "run"

(* A watchdog that sleeps has seen no gauge beyond the timeout. *)
WatchdogInTime ==
    phase = "run" /\ ~spin =>
        \A x \in Watched : age[x] # Unset => age[x] <= HeartbeatTimeout + 1 - sleep

RunShape == /\ job.pending = {} <=> job = NoRun
            /\ job.pending \subseteq job.cur

(* A series that was alerted is stale still, and the alerter knows it. *)
AlertKnown ==
    \A x \in Series :
        /\ alerts[x] <= 1
        /\ alerts[x] = 1 =>
              /\ x \in Behind
              /\ x \notin job.pending
              /\ sched => x \in (IF job = NoRun THEN degraded ELSE job.cur)

(* While a run sends, which began job.ticks ago: what it found stale is      *)
(* stale still, and alerted or about to be; nothing else was stale when it   *)
(* began, and what was stale a round before is alerted.                      *)
RunInTime(x) ==
    /\ x \in job.cur => age[x] > Threshold[x[1]] /\ (alerts[x] = 1 \/ x \in job.pending)
    /\ age[x] > Threshold[x[1]] + job.ticks => x \in job.cur
    /\ age[x] > Threshold[x[1]] + LongestRound + job.ticks => alerts[x] = 1

(* Between two runs: what the last one found stale, or was stale by then, is *)
(* alerted.                                                                  *)
PauseInTime(x) ==
    /\ x \in degraded => alerts[x] = 1
    /\ age[x] > Threshold[x[1]] + (IF alarm > 0 THEN AlertInterval - alarm
                                   ELSE LongestRound) => alerts[x] = 1

(* This holds of every series but those whose recovery no check has seen.    *)
AlertsInTime ==
    sched /\ ~spin =>
        /\ job # NoRun =>
              alarm = IF job.ticks < AlertInterval THEN AlertInterval - job.ticks ELSE 0
        /\ \A x \in Series \ unseen : age[x] # Unset =>
              IF job = NoRun THEN PauseInTime(x) ELSE RunInTime(x)
----------------------------------------------------------------------------

LEMMA Constants ==
    /\ HeartbeatTimeout \in Nat /\ AlertInterval \in Nat \ {0} /\ SendTicks \in Nat
    /\ FlushSeconds \in Nat /\ MaxAge \in Nat /\ LongestRound \in Nat
    /\ AlertInterval <= LongestRound /\ SendTicks <= LongestRound
    /\ \A x \in Series : Threshold[x[1]] \in Nat
    /\ Watched \subseteq Series
<1>1. \A x \in Series : x[1] \in Loops \cup {Polled}  BY DEF Series, Watched
<1> QED  BY <1>1, StreamsAssumption DEF LongestRound, Series

LEMMA SymbolsOfList ==
    /\ SymbolList \in Seq(Symbols)
    /\ Symbols # {} => 1 \in DOMAIN SymbolList
  BY StreamsAssumption DEF Symbols

(* What a step does to the clocks and the alerter, whichever task takes it. *)
Aside ==
    /\ UNCHANGED <<gauges, alarm, job, degraded>>
    /\ spin => spin'
    /\ sched' = sched

Gauged ==
    /\ \E X : SetGauge(X)
    /\ UNCHANGED <<group, sleep, alerter>>

LEMMA StepKinds ==
    ASSUME [Next]_vars
    PROVE  \/ Aside \/ Gauged \/ FreshnessCheck \/ StopScheduler \/ Tick
           \/ \E x \in Series : SendAlert(x)
<1>1. ASSUME NEW S \in SUBSET Symbols \ {{}}, TradesMessage(S) PROVE Aside \/ Gauged
  BY <1>1 DEF TradesMessage, Aside, Gauged, group, alerter, gauges
<1>2. ASSUME NEW d \in Direct, NEW s \in Symbols, DirectMessage(d, s) PROVE Gauged
  BY <1>2 DEF DirectMessage, Gauged
<1>3. ASSUME NEW s \in Symbols, Poll(s) PROVE Gauged
  BY <1>3 DEF Poll, Gauged
<1>4. ASSUME FundingReconnect PROVE Aside
  BY <1>4 DEF FundingReconnect, Aside, alerter, gauges
<1>5. ASSUME NEW d \in Loops, LoopRaises(d) PROVE Aside
  BY <1>5 DEF LoopRaises, Raise, Aside, alerter, gauges
<1>6. ASSUME WatchdogRaises \/ WatchdogSleeps \/ DivergenceEnds \/ Shutdown \/ Close
             \/ \E t \in Tasks : Cancel(t)
      PROVE  Aside
  BY <1>6 DEF WatchdogRaises, Raise, WatchdogSleeps, DivergenceEnds, Shutdown, Close, Cancel,
              Aside, alerter, gauges
<1>7. ASSUME UNCHANGED vars PROVE Aside  BY <1>7 DEF vars, Aside, gauges
<1> QED  BY <1>1, <1>2, <1>3, <1>4, <1>5, <1>6, <1>7 DEF Next

(* Who keeps the event loop keeps it, and a stopped scheduler stays stopped. *)
LEMMA Irrevocable ==
    ASSUME [Next]_vars PROVE (spin => spin') /\ (sched' => sched)
<1>1. ASSUME Aside PROVE (spin => spin') /\ (sched' => sched)
  BY <1>1, Zenon DEF Aside
<1>2. ASSUME Gauged \/ FreshnessCheck \/ Tick \/ \E x \in Series : SendAlert(x)
      PROVE  spin' = spin /\ sched' = sched
  BY <1>2 DEF Gauged, FreshnessCheck, Tick, SendAlert, group
<1>3. ASSUME StopScheduler PROVE spin' = spin /\ ~sched'
  BY <1>3 DEF StopScheduler
<1>4. CASE Aside  BY <1>1, <1>4
<1>5. CASE spin' = spin /\ sched' = sched  BY <1>5
<1>6. CASE spin' = spin /\ ~sched'  BY <1>6
<1> QED  BY <1>2, <1>3, <1>4, <1>5, <1>6, StepKinds
----------------------------------------------------------------------------
(* TYPES *)

LEMMA InitType == Init => TypeOK
<1> SUFFICES ASSUME Init PROVE TypeOK  OBVIOUS
<1> USE DEF Init
<1>1. /\ phase \in {"run", "join", "abort", "stop", "unwound"}
      /\ task \in [Tasks -> {"run", "done"}]
      /\ age \in [Series -> (0..MaxAge) \cup {Unset}]
      /\ buffer \in SUBSET Symbols
      /\ degraded \in SUBSET Series
      /\ alerts \in [Series -> Nat]
      /\ unseen \in SUBSET Series
  OBVIOUS
<1>2. event \in BOOLEAN /\ sched \in BOOLEAN /\ engine \in BOOLEAN /\ spin \in BOOLEAN
  BY Zenon
<1>3. unflushed \in 0..FlushSeconds /\ sleep \in {0, 1} /\ alarm \in 0..AlertInterval
  BY Constants
<1>4. turn \in Nat \ {0} /\ (Symbols # {} => turn \in DOMAIN SymbolList)
  BY SymbolsOfList
<1>5. job \in [pending : SUBSET Series, cur : SUBSET Series, ticks : 0..SendTicks]
  BY Constants DEF NoRun
<1> QED  BY <1>1, <1>2, <1>3, <1>4, <1>5 DEF TypeOK

LEMMA SetGaugeType ==
    ASSUME TypeOK, NEW X, SetGauge(X)
    PROVE  /\ age' \in [Series -> (0..MaxAge) \cup {Unset}] /\ alerts' \in [Series -> Nat]
           /\ unseen' \in SUBSET Series
<1>1. Known \subseteq Series  BY DEF Known, TypeOK
<1> QED  BY <1>1, Constants DEF SetGauge, TypeOK

LEMMA NextTurnType ==
    ASSUME TypeOK, NextTurn
    PROVE  turn' \in Nat \ {0} /\ (Symbols # {} => turn' \in DOMAIN SymbolList)
  BY SymbolsOfList DEF NextTurn, TypeOK

(* The four flags. *)
LEMMA FlagsType ==
    ASSUME TypeOK, [Next]_vars
    PROVE  event' \in BOOLEAN /\ sched' \in BOOLEAN /\ engine' \in BOOLEAN /\ spin' \in BOOLEAN
<1>1. event' \in {event, TRUE}
  BY Zenon DEF Next, TradesMessage, DirectMessage, FundingReconnect, LoopRaises, Raise,
     WatchdogRaises, WatchdogSleeps, DivergenceEnds, Poll, FreshnessCheck, SendAlert,
     Shutdown, Cancel, StopScheduler, Close, Tick, group, vars
<1>2. sched' \in {sched, FALSE}
  BY Zenon DEF Next, TradesMessage, DirectMessage, FundingReconnect, LoopRaises, Raise,
     WatchdogRaises, WatchdogSleeps, DivergenceEnds, Poll, FreshnessCheck, SendAlert,
     Shutdown, Cancel, StopScheduler, Close, Tick, group, vars
<1>3. engine' \in {engine, FALSE}
  BY Zenon DEF Next, TradesMessage, DirectMessage, FundingReconnect, LoopRaises, Raise,
     WatchdogRaises, WatchdogSleeps, DivergenceEnds, Poll, FreshnessCheck, SendAlert,
     Shutdown, Cancel, StopScheduler, Close, Tick, group, vars
<1>4. spin' \in {spin, TRUE}
  BY Zenon DEF Next, TradesMessage, DirectMessage, FundingReconnect, LoopRaises, Raise,
     WatchdogRaises, WatchdogSleeps, DivergenceEnds, Poll, FreshnessCheck, SendAlert,
     Shutdown, Cancel, StopScheduler, Close, Tick, group, vars
<1> QED  BY <1>1, <1>2, <1>3, <1>4, Zenon DEF TypeOK

LEMMA TypeStep == TypeOK /\ [Next]_vars => TypeOK'
<1> SUFFICES ASSUME TypeOK, [Next]_vars PROVE TypeOK'  OBVIOUS
<1>0. event' \in BOOLEAN /\ sched' \in BOOLEAN /\ engine' \in BOOLEAN /\ spin' \in BOOLEAN
  BY FlagsType
<1> DEFINE Rest ==
        /\ phase \in {"run", "join", "abort", "stop", "unwound"}
        /\ task \in [Tasks -> {"run", "done"}]
        /\ age \in [Series -> (0..MaxAge) \cup {Unset}]
        /\ buffer \in SUBSET Symbols
        /\ unflushed \in 0..FlushSeconds
        /\ turn \in Nat \ {0} /\ (Symbols # {} => turn \in DOMAIN SymbolList)
        /\ sleep \in {0, 1}
        /\ alarm \in 0..AlertInterval
        /\ job \in [pending : SUBSET Series, cur : SUBSET Series, ticks : 0..SendTicks]
        /\ degraded \in SUBSET Series
        /\ alerts \in [Series -> Nat]
        /\ unseen \in SUBSET Series
<1>r. Rest  BY DEF TypeOK
<1>n. NoRun \in [pending : SUBSET Series, cur : SUBSET Series, ticks : 0..SendTicks]
  BY Constants DEF NoRun
<1>1. ASSUME NEW S \in SUBSET Symbols \ {{}}, TradesMessage(S) PROVE Rest'
  <2>1. /\ age' \in [Series -> (0..MaxAge) \cup {Unset}] /\ alerts' \in [Series -> Nat]
        /\ unseen' \in SUBSET Series
    BY <1>1, <1>r, SetGaugeType DEF TradesMessage, gauges
  <2>2. buffer' \in SUBSET Symbols /\ unflushed' \in 0..FlushSeconds
    BY <1>1, <1>r, Constants DEF TradesMessage
  <2> QED  BY <1>1, <1>r, <2>1, <2>2 DEF TradesMessage, group, alerter, gauges
<1>2. ASSUME NEW d \in Direct, NEW s \in Symbols, DirectMessage(d, s) PROVE Rest'
  <2>1. /\ age' \in [Series -> (0..MaxAge) \cup {Unset}] /\ alerts' \in [Series -> Nat]
        /\ unseen' \in SUBSET Series
    BY <1>2, SetGaugeType DEF DirectMessage
  <2>2. turn' \in Nat \ {0} /\ (Symbols # {} => turn' \in DOMAIN SymbolList)
    BY <1>2, <1>r, NextTurnType DEF DirectMessage
  <2> QED  BY <1>2, <1>r, <2>1, <2>2 DEF DirectMessage, group, alerter, gauges
<1>3. ASSUME NEW s \in Symbols, Poll(s) PROVE Rest'
  <2>1. /\ age' \in [Series -> (0..MaxAge) \cup {Unset}] /\ alerts' \in [Series -> Nat]
        /\ unseen' \in SUBSET Series
    BY <1>3, SetGaugeType DEF Poll
  <2> QED  BY <1>3, <1>r, <2>1 DEF Poll, group, alerter, gauges, streams
<1>4. ASSUME FundingReconnect PROVE Rest'
  <2>1. turn' \in Nat \ {0} /\ (Symbols # {} => turn' \in DOMAIN SymbolList)
    BY <1>4, <1>r, NextTurnType DEF FundingReconnect
  <2> QED  BY <1>4, <1>r, <2>1 DEF FundingReconnect, alerter, gauges
<1>5. ASSUME NEW d \in Loops, LoopRaises(d) PROVE Rest'
  BY <1>5, <1>r DEF LoopRaises, Raise, alerter, gauges, streams
<1>6. ASSUME WatchdogRaises PROVE Rest'
  BY <1>6, <1>r DEF WatchdogRaises, Raise, alerter, gauges, streams
<1>7. ASSUME WatchdogSleeps PROVE Rest'
  BY <1>7, <1>r DEF WatchdogSleeps, alerter, gauges, streams
<1>8. ASSUME DivergenceEnds PROVE Rest'
  BY <1>8, <1>r DEF DivergenceEnds, alerter, gauges, streams
<1>9. ASSUME Shutdown \/ Close PROVE Rest'
  BY <1>9, <1>r DEF Shutdown, Close, alerter, gauges, streams
<1>10. ASSUME NEW t \in Tasks, Cancel(t) PROVE Rest'
  BY <1>10, <1>r DEF Cancel, alerter, gauges, streams
<1>11. ASSUME StopScheduler PROVE Rest'
  BY <1>11, <1>r, <1>n DEF StopScheduler, gauges, streams
<1>12. ASSUME FreshnessCheck PROVE Rest'
  <2>1. Behind \subseteq Series  BY DEF Behind
  <2>2. alarm' \in 0..AlertInterval  BY <1>12, Constants DEF FreshnessCheck
  <2>3. degraded' \in SUBSET Series  BY <1>12, <1>r, <2>1 DEF FreshnessCheck, Finish
  <2>4. job' \in [pending : SUBSET Series, cur : SUBSET Series, ticks : 0..SendTicks]
    BY <1>12, <1>n, <2>1, Constants DEF FreshnessCheck, Finish
  <2> QED  BY <1>12, <1>r, <2>2, <2>3, <2>4 DEF FreshnessCheck, group, streams
<1>13. ASSUME NEW x \in Series, SendAlert(x) PROVE Rest'
  <2>1. alerts' \in [Series -> Nat]  BY <1>13, <1>r DEF SendAlert
  <2>2. degraded' \in SUBSET Series  BY <1>13, <1>r DEF SendAlert, Finish
  <2>3. job' \in [pending : SUBSET Series, cur : SUBSET Series, ticks : 0..SendTicks]
    BY <1>13, <1>r, <1>n DEF SendAlert, Finish
  <2> QED  BY <1>13, <1>r, <2>1, <2>2, <2>3 DEF SendAlert, group, streams
<1>14. ASSUME Tick PROVE Rest'
  <2>1. age' \in [Series -> (0..MaxAge) \cup {Unset}]
    <3>1. \A n \in 0..MaxAge : Older(n) \in 0..MaxAge  BY Constants DEF Older
    <3>2. \A x \in Series : age[x] \in (0..MaxAge) \cup {Unset}  BY <1>r
    <3>3. age' = [x \in Series |-> IF age[x] = Unset THEN Unset ELSE Older(age[x])]
      BY <1>14 DEF Tick
    <3> QED  BY <3>1, <3>2, <3>3
  <2>2. unflushed' \in 0..FlushSeconds /\ sleep' \in {0, 1} /\ alarm' \in 0..AlertInterval
    BY <1>14, <1>r, Constants DEF Tick, Sooner
  <2>3. job' \in [pending : SUBSET Series, cur : SUBSET Series, ticks : 0..SendTicks]
    BY <1>14, <1>r, Constants DEF Tick
  <2> QED  BY <1>14, <1>r, <2>1, <2>2, <2>3 DEF Tick, group
<1>15. ASSUME UNCHANGED vars PROVE Rest'  BY <1>15, <1>r DEF vars
<1>16. Rest'
  BY <1>1, <1>2, <1>3, <1>4, <1>5, <1>6, <1>7, <1>8, <1>9, <1>10, <1>11, <1>12, <1>13,
     <1>14, <1>15 DEF Next
<1> QED  BY <1>0, <1>16 DEF TypeOK

(* Every gauge, clock and buffer of the process keeps its type, and the      *)
(* position of funding_live_loop stays within the list.                      *)
THEOREM TypeCorrect == Spec => []TypeOK
  BY InitType, TypeStep, PTL DEF Spec
----------------------------------------------------------------------------
(* THE LIFESPAN *)

LEMMA InitLifecycle == Init => Lifecycle
  BY StreamsAssumption DEF Init, Lifecycle, Tasks

LEMMA LifecycleStep == TypeOK /\ Lifecycle /\ [Next]_vars => Lifecycle'
<1> SUFFICES ASSUME TypeOK, Lifecycle, [Next]_vars PROVE Lifecycle'  OBVIOUS
<1> USE DEF Lifecycle
<1>1. ASSUME NEW t \in Tasks, Raise(t), Runs(t) PROVE Lifecycle'
  BY <1>1 DEF Raise, Runs, alerter
<1>2. ASSUME UNCHANGED <<phase, event, task, sched, engine>>, ~sched => job' = job
      PROVE  Lifecycle'
  BY <1>2
<1>3. ASSUME NEW t \in Tasks, Cancel(t) PROVE Lifecycle'
  BY <1>3 DEF Cancel, alerter, TypeOK
<1>4. ASSUME WatchdogSleeps \/ DivergenceEnds PROVE Lifecycle'
  BY <1>4 DEF WatchdogSleeps, DivergenceEnds, Runs, alerter, TypeOK, Tasks
<1>5. ASSUME Shutdown \/ StopScheduler \/ Close PROVE Lifecycle'
  BY <1>5 DEF Shutdown, StopScheduler, Close, alerter
<1>6. ASSUME NEW d \in Loops, LoopRaises(d) PROVE Lifecycle'
  BY <1>6, <1>1 DEF LoopRaises, Tasks
<1>7. ASSUME WatchdogRaises PROVE Lifecycle'
  BY <1>7, <1>1 DEF WatchdogRaises, Tasks
<1>8. ASSUME \/ \E S \in SUBSET Symbols \ {{}} : TradesMessage(S)
             \/ \E d \in Direct, s \in Symbols : DirectMessage(d, s)
             \/ FundingReconnect
             \/ \E s \in Symbols : Poll(s)
      PROVE  Lifecycle'
  BY <1>8, <1>2 DEF TradesMessage, DirectMessage, FundingReconnect, Poll, group, alerter
<1>9. ASSUME FreshnessCheck \/ (\E x \in Series : SendAlert(x)) PROVE Lifecycle'
  BY <1>9, <1>2 DEF FreshnessCheck, SendAlert, group
<1>10. ASSUME Tick PROVE Lifecycle'
  BY <1>10, <1>2 DEF Tick, group
<1>11. ASSUME UNCHANGED vars PROVE Lifecycle'  BY <1>11, <1>2 DEF vars
<1> QED  BY <1>3, <1>4, <1>5, <1>6, <1>7, <1>8, <1>9, <1>10, <1>11 DEF Next

(* The lifespan, the scheduler, the engine and the TaskGroup go down in one  *)
(* order, on a shutdown and on a failure.                                    *)
THEOREM LifecycleInvariant == Spec => []Lifecycle
  BY InitLifecycle, LifecycleStep, TypeCorrect, PTL DEF Spec

(* engine.dispose() comes after the scheduler has stopped, and that after    *)
(* the last child of the TaskGroup has ended, on both ways down.             *)
THEOREM EngineOutlives == Spec => []EngineClosedLast
<1>1. Lifecycle => EngineClosedLast  BY DEF Lifecycle, EngineClosedLast
<1> QED  BY <1>1, LifecycleInvariant, PTL
----------------------------------------------------------------------------
(* THE WATCHDOG *)

LEMMA WatchdogStep ==
    TypeOK /\ Lifecycle /\ WatchdogInTime /\ [Next]_vars => WatchdogInTime'
<1> SUFFICES ASSUME TypeOK, Lifecycle, WatchdogInTime, [Next]_vars, phase' = "run", ~spin',
                    NEW x \in Watched, age'[x] # Unset
             PROVE  age'[x] <= HeartbeatTimeout + 1 - sleep'
  BY DEF WatchdogInTime
<1>1. /\ x \in Series /\ HeartbeatTimeout \in Nat /\ MaxAge \in Nat
      /\ age[x] \in (0..MaxAge) \cup {Unset} /\ sleep \in {0, 1}
  BY Constants DEF TypeOK
<1>2. phase = "run" => ~spin /\ (age[x] # Unset => age[x] <= HeartbeatTimeout + 1 - sleep)
  <2>1. spin => spin'  BY Irrevocable, Zenon
  <2> QED  BY <2>1 DEF WatchdogInTime
<1>3. ASSUME Aside, UNCHANGED sleep, phase = "run"
      PROVE  age'[x] <= HeartbeatTimeout + 1 - sleep'
  BY <1>2, <1>3 DEF Aside, gauges
<1>4. ASSUME Gauged PROVE age'[x] <= HeartbeatTimeout + 1 - sleep'
  <2>1. phase = "run" /\ sleep' = sleep  BY <1>4 DEF Gauged, group
  <2>2. age'[x] \in {0, age[x]}  BY <1>1, <1>4 DEF Gauged, SetGauge
  <2> QED  BY <1>1, <1>2, <2>1, <2>2
<1>5. ASSUME WatchdogSleeps PROVE age'[x] <= HeartbeatTimeout + 1 - sleep'
  BY <1>1, <1>5 DEF WatchdogSleeps, Stale, gauges
<1>6. ASSUME FreshnessCheck \/ (\E y \in Series : SendAlert(y))
      PROVE  age'[x] <= HeartbeatTimeout + 1 - sleep'
  BY <1>2, <1>6 DEF FreshnessCheck, SendAlert, group
<1>7. ASSUME Tick PROVE age'[x] <= HeartbeatTimeout + 1 - sleep'
  <2>1. phase = "run" /\ ~spin  BY <1>2, <1>7 DEF Tick, group
  <2>2. Runs("watchdog")  BY <2>1 DEF Runs, Lifecycle, Tasks
  <2>3. sleep = 1 /\ sleep' = 0  BY <1>1, <1>7, <2>1, <2>2 DEF Tick, Sooner
  <2>4. age[x] # Unset /\ age'[x] = Older(age[x])  BY <1>1, <1>7 DEF Tick
  <2> QED  BY <1>1, <1>2, <2>1, <2>3, <2>4 DEF Older
<1>8. ASSUME StopScheduler \/ Shutdown \/ Close \/ WatchdogRaises
             \/ (\E d \in Loops : LoopRaises(d)) \/ (\E t \in Tasks : Cancel(t))
      PROVE  FALSE
  BY <1>8 DEF StopScheduler, Shutdown, Close, WatchdogRaises, LoopRaises, Raise, Cancel
<1>9. ASSUME FundingReconnect \/ DivergenceEnds PROVE Aside /\ UNCHANGED <<sleep, phase>>
  BY <1>9 DEF FundingReconnect, DivergenceEnds, Aside, alerter, gauges
<1>10. ASSUME NEW S \in SUBSET Symbols \ {{}}, TradesMessage(S)
       PROVE  Gauged \/ (Aside /\ UNCHANGED <<sleep, phase>>)
  BY <1>10 DEF TradesMessage, Aside, Gauged, group, alerter, gauges
<1>11. ASSUME \/ \E d \in Direct, s \in Symbols : DirectMessage(d, s)
              \/ \E s \in Symbols : Poll(s)
       PROVE  Gauged
  BY <1>11 DEF DirectMessage, Poll, Gauged
<1>12. ASSUME UNCHANGED vars PROVE Aside /\ UNCHANGED <<sleep, phase>>
  BY <1>12 DEF vars, Aside, gauges
<1> QED  BY <1>3, <1>4, <1>5, <1>6, <1>7, <1>8, <1>9, <1>10, <1>11, <1>12 DEF Next

(* A stream that has written once and then hangs brings the group down       *)
(* within the timeout and one interval of the watchdog, whatever the other   *)
(* streams, the alerter and the scheduler do meanwhile.                      *)
THEOREM SilentStreamNoticed == Spec => []NoSilentStream
<1>1. Init => WatchdogInTime  BY DEF Init, WatchdogInTime, Series
<1>2. Spec => []WatchdogInTime
  BY <1>1, WatchdogStep, TypeCorrect, LifecycleInvariant, PTL DEF Spec
<1>3. TypeOK /\ WatchdogInTime => NoSilentStream
  <2> SUFFICES ASSUME TypeOK, WatchdogInTime, phase = "run", ~spin, NEW x \in Watched,
                      age[x] # Unset
               PROVE  age[x] <= HeartbeatTimeout + 1
    BY DEF NoSilentStream
  <2>1. /\ age[x] \in Nat /\ HeartbeatTimeout \in Nat /\ sleep \in {0, 1}
        /\ age[x] <= HeartbeatTimeout + 1 - sleep
    BY Constants DEF TypeOK, WatchdogInTime
  <2> QED  BY <2>1
<1> QED  BY <1>2, <1>3, TypeCorrect, PTL
----------------------------------------------------------------------------
(* THE ALERTER *)

LEMMA InitAlerter == Init => RunShape /\ AlertKnown /\ AlertsInTime
<1> SUFFICES ASSUME Init PROVE RunShape /\ AlertKnown /\ AlertsInTime  OBVIOUS
<1>1. RunShape  BY DEF Init, RunShape, NoRun
<1>2. AlertKnown  BY DEF Init, AlertKnown
<1>3. AlertsInTime  BY DEF Init, AlertsInTime
<1> QED  BY <1>1, <1>2, <1>3

LEMMA RunShapeStep == TypeOK /\ RunShape /\ [Next]_vars => RunShape'
<1> SUFFICES ASSUME TypeOK, RunShape, [Next]_vars PROVE RunShape'  OBVIOUS
<1> USE DEF RunShape
<1>1. ASSUME job' \in {job, NoRun} PROVE RunShape'  BY <1>1 DEF NoRun
<1>2. ASSUME FreshnessCheck PROVE RunShape'
  <2>1. CASE Behind \ degraded = {}  BY <1>1, <1>2, <2>1 DEF FreshnessCheck, Finish
  <2>2. CASE Behind \ degraded # {}
    <3>1. job' = [pending |-> Behind \ degraded, cur |-> Behind, ticks |-> 0]
      BY <1>2, <2>2 DEF FreshnessCheck
    <3> QED  BY <2>2, <3>1 DEF NoRun
  <2> QED  BY <2>1, <2>2
<1>3. ASSUME NEW x \in Series, SendAlert(x) PROVE RunShape'
  <2>1. CASE job.pending = {x}  BY <1>1, <1>3, <2>1 DEF SendAlert, Finish
  <2>2. CASE job.pending # {x}
    <3>1. job' = [job EXCEPT !.pending = @ \ {x}] /\ x \in job.pending
      BY <1>3, <2>2 DEF SendAlert
    <3>2. job'.pending = job.pending \ {x} /\ job'.cur = job.cur  BY <3>1 DEF TypeOK
    <3> QED  BY <2>2, <3>1, <3>2 DEF NoRun
  <2> QED  BY <2>1, <2>2
<1>4. ASSUME Tick PROVE RunShape'
  <2>1. CASE job' = job  BY <1>1, <2>1
  <2>2. CASE job # NoRun /\ job' = [job EXCEPT !.ticks = @ + 1]
    <3>1. job'.pending = job.pending /\ job'.cur = job.cur  BY <2>2 DEF TypeOK
    <3> QED  BY <2>2, <3>1 DEF NoRun
  <2> QED  BY <1>4, <2>1, <2>2 DEF Tick
<1>5. ASSUME Aside \/ Gauged \/ StopScheduler PROVE RunShape'
  BY <1>1, <1>5 DEF Aside, Gauged, StopScheduler, alerter
<1> QED  BY <1>2, <1>3, <1>4, <1>5, StepKinds

(* A series stays stale until its gauge is set. *)
LEMMA BehindStays ==
    ASSUME TypeOK, NEW x \in Behind,
           \/ age' = age
           \/ age' = [y \in Series |-> IF age[y] = Unset THEN Unset ELSE Older(age[y])]
    PROVE  x \in Behind'
<1>1. /\ x \in Series /\ age[x] # Unset /\ age[x] > Threshold[x[1]]
      /\ age[x] \in 0..MaxAge /\ Threshold[x[1]] \in Nat /\ MaxAge \in Nat
  BY Constants DEF Behind, TypeOK
<1>2. age'[x] \in Nat /\ age'[x] > Threshold[x[1]]  BY <1>1 DEF Older
<1>3. age'[x] # Unset  BY <1>2, StreamsAssumption
<1> QED  BY <1>1, <1>2, <1>3 DEF Behind

LEMMA AlertKnownStep ==
    TypeOK /\ RunShape /\ AlertKnown /\ Lifecycle /\ [Next]_vars => AlertKnown'
<1> SUFFICES ASSUME TypeOK, RunShape, AlertKnown, Lifecycle, [Next]_vars,
                    NEW x \in Series
             PROVE  /\ alerts'[x] <= 1
                    /\ alerts'[x] = 1 =>
                          /\ x \in Behind'
                          /\ x \notin job'.pending
                          /\ sched' => x \in (IF job' = NoRun THEN degraded' ELSE job'.cur)
  BY DEF AlertKnown, NoRun
<1>0. /\ alerts[x] \in Nat /\ alerts[x] <= 1
      /\ alerts[x] = 1 =>
            /\ x \in Behind
            /\ x \notin job.pending
            /\ sched => x \in (IF job = NoRun THEN degraded ELSE job.cur)
  BY DEF TypeOK, AlertKnown
<1>1. CASE Aside
  BY <1>0, <1>1, BehindStays DEF Aside, gauges
<1>2. CASE Gauged
  <2>1. PICK X : SetGauge(X)  BY <1>2 DEF Gauged
  <2>2. UNCHANGED <<job, degraded, sched>>  BY <1>2 DEF Gauged, group, alerter
  <2>3. CASE x \in X  BY <2>1, <2>3 DEF SetGauge
  <2>4. CASE x \notin X
    <3>1. alerts'[x] = alerts[x] /\ age'[x] = age[x]  BY <2>1, <2>4 DEF SetGauge
    <3> QED  BY <1>0, <2>2, <3>1 DEF Behind
  <2> QED  BY <2>3, <2>4
<1>3. CASE FreshnessCheck
  <2>1. UNCHANGED <<alerts, age, sched>> /\ job = NoRun /\ sched
    BY <1>3 DEF FreshnessCheck, group
  <2>2. alerts[x] = 1 => x \in Behind /\ x \in degraded  BY <1>0, <2>1
  <2>3. x \in Behind => x \in Behind'  BY <2>1, BehindStays
  <2>4. CASE Behind \ degraded = {}
    <3>1. job' = NoRun /\ degraded' = Behind  BY <1>3, <2>4 DEF FreshnessCheck, Finish
    <3> QED  BY <1>0, <2>1, <2>2, <2>3, <3>1 DEF NoRun
  <2>5. CASE Behind \ degraded # {}
    <3>1. job' = [pending |-> Behind \ degraded, cur |-> Behind, ticks |-> 0]
      BY <1>3, <2>5 DEF FreshnessCheck
    <3>2. job' # NoRun  BY <2>5, <3>1 DEF NoRun
    <3> QED  BY <1>0, <2>1, <2>2, <2>3, <3>1, <3>2
  <2> QED  BY <2>4, <2>5
<1>4. ASSUME NEW y \in Series, SendAlert(y)
      PROVE  /\ alerts'[x] <= 1
             /\ alerts'[x] = 1 =>
                   /\ x \in Behind'
                   /\ x \notin job'.pending
                   /\ sched' => x \in (IF job' = NoRun THEN degraded' ELSE job'.cur)
  <2>1. /\ UNCHANGED <<age, sched>> /\ y \in job.pending
        /\ alerts' = IF y \in Behind THEN [alerts EXCEPT ![y] = @ + 1] ELSE alerts
    BY <1>4 DEF SendAlert, group
  <2>2. job # NoRun /\ job.pending \subseteq job.cur  BY <2>1 DEF RunShape
  <2>3. y = x => alerts[x] = 0  BY <1>0, <2>1
  <2>4. alerts'[x] <= 1 /\ (alerts'[x] = 1 => x \in Behind /\ (alerts[x] = 1 \/ x = y))
    BY <1>0, <2>1, <2>3 DEF TypeOK
  <2>5. alerts'[x] = 1 => x \in Behind'  BY <2>1, <2>4, BehindStays
  <2>6. alerts'[x] = 1 /\ sched => x \in job.cur  BY <1>0, <2>1, <2>2, <2>4
  <2>7. alerts'[x] = 1 => x \notin job.pending \ {y}  BY <1>0, <2>4
  <2>8. CASE job.pending = {y}
    <3>1. job' = NoRun /\ degraded' = job.cur  BY <1>4, <2>8 DEF SendAlert, Finish
    <3> QED  BY <2>1, <2>4, <2>5, <2>6, <3>1 DEF NoRun
  <2>9. CASE job.pending # {y}
    <3>1. job' = [job EXCEPT !.pending = @ \ {y}]  BY <1>4, <2>9 DEF SendAlert
    <3>2. job'.pending = job.pending \ {y} /\ job'.cur = job.cur  BY <3>1 DEF TypeOK
    <3>3. job' # NoRun  BY <2>1, <2>9, <3>2 DEF NoRun
    <3> QED  BY <2>1, <2>4, <2>5, <2>6, <2>7, <3>2, <3>3
  <2> QED  BY <2>8, <2>9
<1>5. CASE StopScheduler
  <2>1. UNCHANGED <<alerts, age>> /\ job' = NoRun /\ ~sched'
    BY <1>5 DEF StopScheduler, gauges
  <2> QED  BY <1>0, <2>1, BehindStays DEF NoRun
<1>6. CASE Tick
  <2>1. /\ UNCHANGED <<alerts, degraded, sched>>
        /\ age' = [y \in Series |-> IF age[y] = Unset THEN Unset ELSE Older(age[y])]
    BY <1>6 DEF Tick, group
  <2>2. job'.pending = job.pending /\ job'.cur = job.cur  BY <1>6 DEF Tick, TypeOK
  <2>3. job = NoRun <=> job' = NoRun
    <3>1. RunShape'  BY RunShapeStep
    <3> QED  BY <2>2, <3>1 DEF RunShape, NoRun
  <2> QED  BY <1>0, <2>1, <2>2, <2>3, BehindStays
<1> QED  BY <1>1, <1>2, <1>3, <1>4, <1>5, <1>6, StepKinds

LEMMA AlertsInTimeStep ==
    TypeOK /\ Lifecycle /\ RunShape /\ AlertKnown /\ AlertsInTime /\ [Next]_vars
        => AlertsInTime'
<1> SUFFICES ASSUME TypeOK, Lifecycle, RunShape, AlertKnown, AlertsInTime, [Next]_vars,
                    sched', ~spin'
             PROVE  AlertsInTime'
  BY DEF AlertsInTime
<1> DEFINE Due == IF job.ticks < AlertInterval THEN AlertInterval - job.ticks ELSE 0
           InTime == \A x \in Series \ unseen : age[x] # Unset =>
                        IF job = NoRun THEN PauseInTime(x) ELSE RunInTime(x)
<1>0. sched /\ ~spin
  BY Irrevocable, Zenon
<1>1. (job # NoRun => alarm = Due) /\ InTime  BY <1>0 DEF AlertsInTime
<1>2. /\ AlertInterval \in Nat \ {0} /\ SendTicks \in Nat /\ MaxAge \in Nat
      /\ LongestRound \in Nat /\ AlertInterval <= LongestRound /\ SendTicks <= LongestRound
      /\ \A x \in Series : Threshold[x[1]] \in Nat
      /\ \A x \in Series : age[x] \in Nat \cup {Unset} /\ alerts[x] \in Nat
      /\ job.ticks \in Nat /\ job.ticks <= SendTicks
      /\ alarm \in Nat /\ alarm <= AlertInterval
  BY Constants DEF TypeOK
<1>3. /\ Unset \notin Nat
      /\ RunShape'
  BY StreamsAssumption, RunShapeStep
<1> SUFFICES (job # NoRun => alarm = Due)' /\ InTime'
  <2>1. NoRun' = NoRun  BY DEF NoRun
  <2> QED  BY <2>1 DEF AlertsInTime
<1>4. CASE Aside
  <2>1. UNCHANGED <<age, alerts, unseen, alarm, job, degraded>>  BY <1>4 DEF Aside, gauges
  <2> QED  BY <1>1, <2>1 DEF PauseInTime, RunInTime, NoRun
<1>5. CASE Gauged
  <2>1. PICK X : SetGauge(X)  BY <1>5 DEF Gauged
  <2>2. UNCHANGED <<job, degraded, alarm>>  BY <1>5 DEF Gauged, alerter
  <2>3. ASSUME NEW x \in Series, x \notin unseen', age'[x] # Unset
        PROVE  IF job' = NoRun THEN PauseInTime(x)' ELSE RunInTime(x)'
    <3>0. x \notin unseen /\ (x \in X => x \notin Known)  BY <2>1, <2>3 DEF SetGauge
    <3>1. CASE x \in X
      <4>1. age'[x] = 0  BY <2>1, <3>1 DEF SetGauge
      <4>2. ~(age'[x] > Threshold[x[1]] + job'.ticks)
            /\ ~(age'[x] > Threshold[x[1]] + LongestRound + job'.ticks)
            /\ ~(age'[x] > Threshold[x[1]] + LongestRound)
            /\ ~(age'[x] > Threshold[x[1]] + (AlertInterval - alarm'))
        BY <1>2, <2>2, <4>1
      <4>3. IF job' = NoRun THEN x \notin degraded' ELSE x \notin job'.cur
        BY <2>2, <3>0, <3>1 DEF Known
      <4> QED  BY <4>2, <4>3 DEF PauseInTime, RunInTime
    <3>2. CASE x \notin X
      <4>1. age'[x] = age[x] /\ alerts'[x] = alerts[x]  BY <2>1, <3>2 DEF SetGauge
      <4> QED  BY <1>1, <2>2, <2>3, <3>0, <4>1 DEF PauseInTime, RunInTime
    <3> QED  BY <3>1, <3>2
  <2> QED  BY <1>1, <2>2, <2>3 DEF NoRun
<1>6. CASE FreshnessCheck
  <2>1. /\ UNCHANGED <<alerts, age>> /\ job = NoRun /\ alarm = 0 /\ alarm' = AlertInterval
        /\ unseen' = unseen \cap Behind
    BY <1>6 DEF FreshnessCheck
  <2>2. ASSUME NEW x \in Series \ unseen', age[x] # Unset, x \in Behind
        PROVE  /\ x \in degraded => alerts[x] = 1
               /\ age[x] > Threshold[x[1]] + LongestRound => alerts[x] = 1
    <3>1. x \notin unseen  BY <2>1, <2>2
    <3> QED  BY <1>1, <2>1, <2>2, <3>1 DEF PauseInTime
  <2>3. \A x \in Series : age[x] # Unset => (x \in Behind <=> age[x] > Threshold[x[1]])
    BY DEF Behind
  <2>4. CASE Behind \ degraded = {}
    <3>1. job' = NoRun /\ degraded' = Behind  BY <1>6, <2>4 DEF FreshnessCheck, Finish
    <3>2. ASSUME NEW x \in Series \ unseen', age'[x] # Unset PROVE PauseInTime(x)'
      <4>1. x \in Behind => alerts[x] = 1  BY <2>1, <2>2, <2>4, <3>2
      <4>2. AlertInterval - alarm' = 0 /\ alarm' > 0  BY <1>2, <2>1
      <4>3. age[x] > Threshold[x[1]] + 0 => x \in Behind  BY <1>2, <2>1, <2>3, <3>2
      <4> QED  BY <2>1, <3>1, <4>1, <4>2, <4>3 DEF PauseInTime
    <3> QED  BY <3>1, <3>2 DEF NoRun
  <2>5. CASE Behind \ degraded # {}
    <3>1. job' = [pending |-> Behind \ degraded, cur |-> Behind, ticks |-> 0]
      BY <1>6, <2>5 DEF FreshnessCheck
    <3>2. job' # NoRun /\ job'.ticks = 0 /\ job'.cur = Behind
          /\ job'.pending = Behind \ degraded
      BY <2>5, <3>1 DEF NoRun
    <3>3. ASSUME NEW x \in Series \ unseen', age'[x] # Unset PROVE RunInTime(x)'
      <4>1. x \in Behind => age[x] > Threshold[x[1]] /\ (alerts[x] = 1 \/ x \in job'.pending)
        BY <2>1, <2>2, <2>3, <3>2, <3>3
      <4>2. age[x] > Threshold[x[1]] + 0 => x \in Behind  BY <1>2, <2>1, <2>3, <3>3
      <4>3. age[x] > Threshold[x[1]] + LongestRound + 0 => alerts[x] = 1
        BY <1>2, <2>1, <2>2, <2>3, <3>3
      <4> QED  BY <2>1, <3>2, <4>1, <4>2, <4>3 DEF RunInTime
    <3>4. alarm' = Due'  BY <1>2, <2>1, <3>2
    <3> QED  BY <3>2, <3>3, <3>4 DEF NoRun
  <2> QED  BY <2>4, <2>5
<1>7. ASSUME NEW y \in Series, SendAlert(y) PROVE (job # NoRun => alarm = Due)' /\ InTime'
  <2>1. /\ UNCHANGED <<age, alarm, unseen>> /\ y \in job.pending
        /\ alerts' = IF y \in Behind THEN [alerts EXCEPT ![y] = @ + 1] ELSE alerts
    BY <1>7 DEF SendAlert
  <2>2. job # NoRun /\ alarm = Due  BY <1>1, <2>1 DEF RunShape
  <2>3. alerts[y] = 0  BY <1>2, <2>1 DEF AlertKnown
  <2>4. ASSUME NEW x \in Series, age[x] # Unset
        PROVE  /\ alerts[x] = 1 => alerts'[x] = 1
               /\ x = y /\ age[x] > Threshold[x[1]] => alerts'[x] = 1
    BY <1>2, <2>1, <2>3, <2>4 DEF Behind, TypeOK
  <2>5. ASSUME NEW x \in Series \ unseen, age[x] # Unset PROVE RunInTime(x)
    BY <1>1, <2>2, <2>5
  <2>6. CASE job.pending = {y}
    <3>1. job' = NoRun /\ degraded' = job.cur  BY <1>7, <2>6 DEF SendAlert, Finish
    <3>2. ASSUME NEW x \in Series \ unseen', age'[x] # Unset PROVE PauseInTime(x)'
      <4>1. RunInTime(x) /\ age'[x] = age[x] /\ age[x] # Unset  BY <2>1, <2>5, <3>2
      <4>2. x \in job.cur => alerts'[x] = 1
        BY <2>1, <2>4, <2>6, <3>2, <4>1 DEF RunInTime
      <4>3. age[x] > Threshold[x[1]] + job.ticks => alerts'[x] = 1
        BY <4>1, <4>2 DEF RunInTime
      <4>4. /\ alarm > 0 => AlertInterval - alarm = job.ticks
            /\ job.ticks <= LongestRound
        BY <1>2, <2>2
      <4>5. age[x] > Threshold[x[1]] + LongestRound => age[x] > Threshold[x[1]] + job.ticks
        BY <1>2, <3>2, <4>1, <4>4
      <4> QED  BY <2>1, <3>1, <4>1, <4>2, <4>3, <4>4, <4>5 DEF PauseInTime
    <3> QED  BY <3>1, <3>2 DEF NoRun
  <2>7. CASE job.pending # {y}
    <3>1. job' = [job EXCEPT !.pending = @ \ {y}]  BY <1>7, <2>7 DEF SendAlert
    <3>2. job'.pending = job.pending \ {y} /\ job'.cur = job.cur /\ job'.ticks = job.ticks
      BY <3>1 DEF TypeOK
    <3>3. job' # NoRun  BY <2>1, <2>7, <3>2 DEF NoRun
    <3>4. ASSUME NEW x \in Series \ unseen', age'[x] # Unset PROVE RunInTime(x)'
      BY <2>1, <2>4, <2>5, <3>2, <3>4 DEF RunInTime
    <3> QED  BY <2>1, <2>2, <3>2, <3>3, <3>4 DEF NoRun
  <2> QED  BY <2>6, <2>7
<1>8. CASE StopScheduler  BY <1>8 DEF StopScheduler
<1>9. CASE Tick
  <2>1. /\ UNCHANGED <<alerts, unseen, degraded>>
        /\ age' = [y \in Series |-> IF age[y] = Unset THEN Unset ELSE Older(age[y])]
        /\ alarm' = Sooner(alarm)
        /\ job = NoRun => alarm > 0 /\ job' = NoRun
        /\ job # NoRun => job' = [job EXCEPT !.ticks = @ + 1]
    BY <1>0, <1>9 DEF Tick
  <2>2. ASSUME NEW x \in Series, age'[x] # Unset
        PROVE  /\ age[x] # Unset /\ age[x] \in Nat /\ age'[x] \in Nat
               /\ age[x] <= age'[x] /\ age'[x] <= age[x] + 1
    <3>1. age[x] # Unset /\ age[x] \in Nat /\ age'[x] = Older(age[x])  BY <1>2, <2>1, <2>2
    <3> QED  BY <1>2, <3>1 DEF Older
  <2>3. CASE job = NoRun
    <3>1. ASSUME NEW x \in Series \ unseen', age'[x] # Unset PROVE PauseInTime(x)'
      <4>1. PauseInTime(x)  BY <1>1, <2>1, <2>2, <2>3, <3>1
      <4>2. alarm > 0 /\ alarm' = alarm - 1  BY <1>2, <2>1, <2>3 DEF Sooner
      <4>3. /\ x \in degraded => alerts[x] = 1
            /\ age[x] > Threshold[x[1]] + (AlertInterval - alarm) => alerts[x] = 1
        BY <4>1, <4>2 DEF PauseInTime
      <4>4. CASE alarm' > 0
        <5>1. age'[x] > Threshold[x[1]] + (AlertInterval - alarm') =>
                  age[x] > Threshold[x[1]] + (AlertInterval - alarm)
          BY <1>2, <2>2, <3>1, <4>2
        <5> QED  BY <2>1, <4>3, <4>4, <5>1 DEF PauseInTime
      <4>5. CASE ~(alarm' > 0)
        <5>1. alarm = 1  BY <1>2, <4>2, <4>5
        <5>2. age'[x] > Threshold[x[1]] + LongestRound =>
                  age[x] > Threshold[x[1]] + (AlertInterval - alarm)
          BY <1>2, <2>2, <3>1, <5>1
        <5> QED  BY <2>1, <4>3, <4>5, <5>2 DEF PauseInTime
      <4> QED  BY <4>4, <4>5
    <3> QED  BY <2>1, <2>3, <3>1 DEF NoRun
  <2>4. CASE job # NoRun
    <3>1. job'.ticks = job.ticks + 1 /\ job'.cur = job.cur /\ job'.pending = job.pending
      BY <2>1, <2>4 DEF TypeOK
    <3>2. job' # NoRun  BY <1>3, <2>4, <3>1 DEF RunShape, NoRun
    <3>3. ASSUME NEW x \in Series \ unseen', age'[x] # Unset PROVE RunInTime(x)'
      <4>1. RunInTime(x)  BY <1>1, <2>1, <2>2, <2>4, <3>3
      <4>2. /\ age[x] > Threshold[x[1]] => age'[x] > Threshold[x[1]]
            /\ age'[x] > Threshold[x[1]] + job'.ticks => age[x] > Threshold[x[1]] + job.ticks
            /\ age'[x] > Threshold[x[1]] + LongestRound + job'.ticks =>
                  age[x] > Threshold[x[1]] + LongestRound + job.ticks
        BY <1>2, <2>2, <3>1, <3>3
      <4> QED  BY <2>1, <3>1, <4>1, <4>2 DEF RunInTime
    <3>4. alarm' = Due'  BY <1>1, <1>2, <2>1, <2>4, <3>1 DEF Sooner
    <3> QED  BY <3>2, <3>3, <3>4 DEF NoRun
  <2> QED  BY <2>3, <2>4
<1> QED  BY <1>4, <1>5, <1>6, <1>7, <1>8, <1>9, StepKinds

(* freshness_check_job: the degraded set, the run that is sending and the    *)
(* ages of the gauges agree on who was alerted and who still will be in time. *)
THEOREM AlerterInvariant == Spec => [](RunShape /\ AlertKnown /\ AlertsInTime)
<1>1. /\ TypeOK /\ Lifecycle
      /\ RunShape /\ AlertKnown /\ AlertsInTime
      /\ [Next]_vars
      => (RunShape /\ AlertKnown /\ AlertsInTime)'
  BY RunShapeStep, AlertKnownStep, AlertsInTimeStep
<1> QED  BY <1>1, InitAlerter, TypeCorrect, LifecycleInvariant, PTL DEF Spec

(* However the sends of a run and the refreshes of the gauges interleave, a  *)
(* series gets at most one alert until its gauge is set again.               *)
THEOREM AlertedAtMostOnce == Spec => []AlertedOnce
<1>1. AlertKnown => AlertedOnce  BY DEF AlertKnown, AlertedOnce
<1> QED  BY <1>1, AlerterInvariant, PTL

(* However long the sends of freshness.check take: a series that is stale    *)
(* for longer than a round and its sends has been alerted, unless it was     *)
(* refreshed while the alerter took it for degraded and no run saw it fresh. *)
THEOREM StaleAlertedInTime == Spec => []StaleIsAlerted
<1>1. TypeOK /\ AlertsInTime => StaleIsAlerted
  <2> SUFFICES ASSUME TypeOK, AlertsInTime, NEW x \in Series \ unseen, sched, ~spin, age[x] # Unset,
                      age[x] > Threshold[x[1]] + LongestRound + SendTicks
               PROVE  alerts[x] = 1
    BY DEF StaleIsAlerted
  <2>1. /\ AlertInterval \in Nat \ {0} /\ SendTicks \in Nat /\ LongestRound \in Nat
        /\ AlertInterval <= LongestRound /\ Threshold[x[1]] \in Nat
        /\ age[x] \in Nat /\ job.ticks \in 0..SendTicks /\ alarm \in 0..AlertInterval
    BY Constants DEF TypeOK
  <2>2. CASE job = NoRun
    <3>1. PauseInTime(x)  BY <2>2 DEF AlertsInTime
    <3>2. age[x] > Threshold[x[1]] + (IF alarm > 0 THEN AlertInterval - alarm ELSE LongestRound)
      BY <2>1
    <3> QED  BY <3>1, <3>2 DEF PauseInTime
  <2>3. CASE job # NoRun
    <3>1. RunInTime(x)  BY <2>3 DEF AlertsInTime
    <3>2. age[x] > Threshold[x[1]] + LongestRound + job.ticks  BY <2>1
    <3> QED  BY <3>1, <3>2 DEF RunInTime
  <2> QED  BY <2>2, <2>3
<1> QED  BY <1>1, AlerterInvariant, TypeCorrect, PTL
=============================================================================
