------------------------------- MODULE MCCopy -------------------------------
(***************************************************************************)
(* Instances of CopyIntoHypertable for TLC.                                *)
(*                                                                         *)
(* Two ingest coroutines write candles in batches that overlap, disagree   *)
(* on the value of a key, repeat a key and list keys in opposite orders:   *)
(* w1 is a backfill page, with ascending minutes of one symbol, and w2 the *)
(* buffer of the live loop, ascending as a rule and not after a late       *)
(* trade, which makes it finalize the old minute a second time.  A third   *)
(* coroutine writes a dead letter.                                         *)
(***************************************************************************)
EXTENDS CopyIntoHypertable, Schema, TLC

CONSTANTS w1, w2, w3, v1, v2, p1, p2

r(k, v) == [key |-> k, val |-> v]
toCandles(rows) == [rows |-> rows, target |-> Candles]
toDeadLetter(rows) == [rows |-> rows, target |-> DeadLetter]

SharedTables == {Candles, DeadLetter}
SharedPrimaryKey == [t \in SharedTables |-> SchemaPrimaryKey[t]]
SharedConflictColumns == [t \in SharedTables |-> SchemaConflictColumns[t]]

SharedCalls ==
    (w1 :> {toCandles(<<r(1, v1), r(2, v1)>>)})
    @@ (w2 :> {toCandles(<<r(2, v2), r(1, v2), r(2, v1)>>),
               toCandles(<<r(1, v2), r(2, v2)>>)})
    @@ (w3 :> {toDeadLetter(<<r(1, v1)>>), toDeadLetter(<< >>)})
=============================================================================
