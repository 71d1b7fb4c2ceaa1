------------------------------- MODULE Schema -------------------------------
(***************************************************************************)
(* The uniqueness rules of the tables, from the alembic migrations, beside *)
(* the ON CONFLICT columns that the writers of these tables pass to        *)
(* copy_into_hypertable.  A list of columns is a set of names.  PostgreSQL *)
(* accepts an INSERT only if a unique index has exactly these columns.     *)
(***************************************************************************)

Candles == "raw_mexc_candles_1m"
DeadLetter == "dead_letter"

(* sa.PrimaryKeyConstraint of each op.create_table. *)
CandlesPrimaryKey == {"symbol", "ts"}
CandlesDailyPrimaryKey == {"symbol", "ts"}
FundingPrimaryKey == {"symbol", "settlement_ts"}
OpenInterestPrimaryKey == {"symbol", "ts"}
TradesPrimaryKey == {"symbol", "ts", "exchange_trade_id"}
OrderBookPrimaryKey == {"symbol", "ts"}
LiquidationsPrimaryKey == {"symbol", "ts", "side", "qty", "price"}
FundingAggPrimaryKey == {"symbol", "ts", "source"}
CoinglassOiPrimaryKey == {"symbol", "ts", "source"}
CoinglassLiqPrimaryKey == {"symbol", "ts", "source", "side"}
CoinglassLsrPrimaryKey == {"symbol", "ts", "source"}
MarketPrimaryKey == {"symbol", "ts", "source"}
SnapshotsPrimaryKey == {"snapshot_date", "symbol"}
DeadLetterPrimaryKey == {"id", "ts"}

(* conflict_columns=... of the callers. *)
CandlesConflictColumns == {"symbol", "ts"}
BackfillConflictColumns == {"symbol", "ts"}
FundingConflictColumns == {"symbol", "settlement_ts"}
OpenInterestConflictColumns == {"symbol", "ts"}
TradesConflictColumns == {"symbol", "ts", "exchange_trade_id"}
OrderBookConflictColumns == {"symbol", "ts"}
LiquidationsConflictColumns == {"symbol", "ts", "side", "qty", "price"}
FundingAggConflictColumns == {"symbol", "ts", "source"}
CoinglassOiConflictColumns == {"symbol", "ts", "source"}
CoinglassLiqConflictColumns == {"symbol", "ts", "source", "side"}
CoinglassLsrConflictColumns == {"symbol", "ts", "source"}
MarketConflictColumns == {"symbol", "ts", "source"}
SnapshotsConflictColumns == {"snapshot_date", "symbol"}
DeadLetterConflictColumns == {"id"}

SchemaPrimaryKey ==
    [raw_mexc_candles_1m |-> CandlesPrimaryKey,
     raw_mexc_candles_1d |-> CandlesDailyPrimaryKey,
     raw_mexc_funding |-> FundingPrimaryKey,
     raw_mexc_oi |-> OpenInterestPrimaryKey,
     raw_mexc_trades |-> TradesPrimaryKey,
     raw_mexc_l2_top20 |-> OrderBookPrimaryKey,
     raw_mexc_liquidations |-> LiquidationsPrimaryKey,
     raw_coinglass_funding_agg |-> FundingAggPrimaryKey,
     raw_coinglass_oi |-> CoinglassOiPrimaryKey,
     raw_coinglass_liq |-> CoinglassLiqPrimaryKey,
     raw_coinglass_lsr |-> CoinglassLsrPrimaryKey,
     raw_coingecko_market |-> MarketPrimaryKey,
     universe_snapshots |-> SnapshotsPrimaryKey,
     dead_letter |-> DeadLetterPrimaryKey]

SchemaConflictColumns ==
    [raw_mexc_candles_1m |-> CandlesConflictColumns,
     raw_mexc_candles_1d |-> BackfillConflictColumns,
     raw_mexc_funding |-> FundingConflictColumns,
     raw_mexc_oi |-> OpenInterestConflictColumns,
     raw_mexc_trades |-> TradesConflictColumns,
     raw_mexc_l2_top20 |-> OrderBookConflictColumns,
     raw_mexc_liquidations |-> LiquidationsConflictColumns,
     raw_coinglass_funding_agg |-> FundingAggConflictColumns,
     raw_coinglass_oi |-> CoinglassOiConflictColumns,
     raw_coinglass_liq |-> CoinglassLiqConflictColumns,
     raw_coinglass_lsr |-> CoinglassLsrConflictColumns,
     raw_coingecko_market |-> MarketConflictColumns,
     universe_snapshots |-> SnapshotsConflictColumns,
     dead_letter |-> DeadLetterConflictColumns]

SchemaTables == DOMAIN SchemaPrimaryKey

\* The INSERT of every writer but write_to_dead_letter has its index.
ASSUME ArbiterAssumption ==
    \A t \in SchemaTables \ {DeadLetter} :
        SchemaConflictColumns[t] = SchemaPrimaryKey[t]
=============================================================================
