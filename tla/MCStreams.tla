------------------------------ MODULE MCStreams ------------------------------
(***************************************************************************)
(* Instances of StreamSupervisor for TLC.  What is 60 seconds in the code  *)
(* (the timeout of the watchdog, the flush of the trades, the interval of  *)
(* the alerter and the threshold of l2_top20, the smallest) is one tick    *)
(* here, and so is the sleep of the watchdog, 30 seconds in the code.  All *)
(* datasets have the smallest threshold, and the sends of one check may    *)
(* take two ticks, longer than a gauge needs to become stale.              *)
(***************************************************************************)
EXTENDS StreamSupervisor, TLC

CONSTANT s1

OneSymbol == <<s1>>
NoSymbols == << >>

Thresholds == [d \in Loops \cup {Polled} |-> 1]
=============================================================================
