------------------------------ MODULE Candles ------------------------------
(***************************************************************************)
(* The life of raw_mexc_candles_1m.  Three coroutines of the data platform *)
(* share the table: the live loop, which builds candles from the trade     *)
(* stream (ingest/mexc/live_candles.py), the REST sweep of the backfill    *)
(* job (ingest/mexc/backfill.py, ingest/scheduler/jobs.py) and the         *)
(* cross-REST divergence check (ingest/mexc/streams.py).                   *)
(*                                                                         *)
(* The clock counts minutes.  Writes go through copy_into_hypertable,      *)
(* taken here as the atomic merge that module CopyIntoHypertable is shown  *)
(* to implement.  Prices are numbers further apart than the 0.5% of the    *)
(* divergence check, and every trade has quantity one.                     *)
(***************************************************************************)
EXTENDS Integers, Sequences, FiniteSets, Schema

CONSTANTS
    Symbols, Prices,
    NoRow,
    MaxMinute,      \* the clock stops here
    MaxTrades,      \* trades per symbol and minute
    PageLimit,      \* candles of one REST page
    Window,         \* minutes a sweep looks back (25 hours in the job)
    CheckSpan,      \* minutes the divergence check looks back
    Events          \* what may happen beside trading

Minutes == 0..MaxMinute
Keys == Symbols \X Minutes
Candle == [open : Prices, high : Prices, low : Prices, close : Prices, volume : Nat]
Bucket == [ts : Minutes, c : Candle]
Flags == {"ok", "ws_rest_divergence"}
Row == [c : Candle, flag : Flags]
Finalized == [key : Keys, val : [c : Candle, flag : {"ok"}]]

ASSUME CandlesAssumption ==
    /\ Prices \subseteq Nat \ {0}
    /\ NoRow \notin Candle \cup Bucket \cup Row
    /\ MaxMinute \in Nat /\ MaxTrades \in Nat
    /\ PageLimit \in Nat \ {0} /\ Window \in Nat \ {0} /\ CheckSpan \in Nat \ {0}
    /\ Events \subseteq {"late", "loss", "crash", "malformed", "sweep", "check"}

VARIABLES
    now,        \* the current minute
    book,       \* the candle the exchange has for each symbol and minute
    inbox,      \* trades on their way to the live loop
    pc,         \* "watch", "flush" or "dead": where the live loop is
    partial,    \* MinuteAggregator._partial
    buffer,     \* finalized candles waiting for the flush
    lastFlush,  \* the minute of the last flush
    rows,       \* raw_mexc_candles_1m
    sweep,      \* the REST sweep of one symbol
    page,       \* the candles of its last REST page, per minute
    check       \* the divergence check

exchange == <<now, book>>
live == <<inbox, pc, partial, buffer, lastFlush>>
backfill == <<sweep, page>>
vars == <<exchange, live, rows, backfill, check>>

NoPage == [m \in {} |-> 0]
NoSweep(s) == [pc |-> "idle", sym |-> s, since |-> 0, cursor |-> 0, until |-> 0]
NoCheck(s) == [pc |-> "idle", sym |-> s, ref |-> 0, close |-> 0]

Init ==
    /\ now = 0
    /\ book = [k \in Keys |-> NoRow]
    /\ inbox = << >>
    /\ pc = "watch"
    /\ partial = [s \in Symbols |-> NoRow]
    /\ buffer = << >>
    /\ lastFlush = 0
    /\ rows = [k \in Keys |-> NoRow]
    /\ sweep \in {NoSweep(s) : s \in Symbols}
    /\ page = NoPage
    /\ check \in {NoCheck(s) : s \in Symbols}
----------------------------------------------------------------------------
(* THE EXCHANGE *)

Traded(s, m) == book[<<s, m>>] # NoRow

(* The exchange's own candle of a minute, with one more trade at price p. *)
Published(c, p) ==
    IF c = NoRow
    THEN [open |-> p, high |-> p, low |-> p, close |-> p, volume |-> 1]
    ELSE [open |-> c.open,
          high |-> IF c.high >= p THEN c.high ELSE p,
          low |-> IF c.low <= p THEN c.low ELSE p,
          close |-> p,
          volume |-> c.volume + 1]

Trade(s, p) ==
    /\ Traded(s, now) => book[<<s, now>>].volume < MaxTrades
    /\ book' = [book EXCEPT ![<<s, now>>] = Published(book[<<s, now>>], p)]
    /\ inbox' = Append(inbox, [sym |-> s, ts |-> now, price |-> p])
    /\ UNCHANGED <<now, pc, partial, buffer, lastFlush, rows, backfill, check>>

Tick ==
    /\ now < MaxMinute
    /\ now' = now + 1
    /\ UNCHANGED <<book, live, rows, backfill, check>>
----------------------------------------------------------------------------
(* THE LIVE LOOP *)

Start(p) == [open |-> p, high |-> p, low |-> p, close |-> p, volume |-> 1]

Update(c, p) ==
    [open |-> c.open,
     high |-> IF p > c.high THEN p ELSE c.high,
     low |-> IF p < c.low THEN p ELSE c.low,
     close |-> p,
     volume |-> c.volume + 1]

\* Mutants of on_trade: the new bucket opens at the old close, or counts on
\* from the old volume; the first trade of a minute only closes the bucket
\* before; the finalized bucket takes the time of the new trade.
Rolled(t, bucket, ts) ==
    LET cur == partial[t.sym]
    IN IF cur # NoRow /\ t.ts # cur.ts
       THEN /\ partial' = [partial EXCEPT ![t.sym] = bucket]
            /\ buffer' = Append(buffer, [key |-> <<t.sym, ts>>,
                                         val |-> [c |-> cur.c, flag |-> "ok"]])
       ELSE /\ partial' = [partial EXCEPT ![t.sym] =
                            IF cur # NoRow THEN [cur EXCEPT !.c = Update(cur.c, t.price)]
                            ELSE [ts |-> t.ts, c |-> Start(t.price)]]
            /\ UNCHANGED buffer

OnTradeOpensAtClose(t) ==
    Rolled(t, [ts |-> t.ts, c |-> [Start(t.price) EXCEPT !.open = partial[t.sym].c.close]],
           partial[t.sym].ts)
OnTradeKeepsVolume(t) ==
    Rolled(t, [ts |-> t.ts,
               c |-> [Start(t.price) EXCEPT !.volume = partial[t.sym].c.volume + 1]],
           partial[t.sym].ts)
OnTradeDropsFirst(t) == Rolled(t, NoRow, partial[t.sym].ts)
OnTradeStampsNew(t) == Rolled(t, [ts |-> t.ts, c |-> Start(t.price)], t.ts)

(* MinuteAggregator.on_trade, and the append of the bucket it finalizes. *)
OnTrade(t) ==
    LET cur == partial[t.sym]
    IN /\ partial' = [partial EXCEPT ![t.sym] =
                        IF cur # NoRow /\ t.ts = cur.ts
                        THEN [cur EXCEPT !.c = Update(cur.c, t.price)]
                        ELSE [ts |-> t.ts, c |-> Start(t.price)]]
       /\ buffer' = IF cur # NoRow /\ t.ts # cur.ts
                    THEN Append(buffer, [key |-> <<t.sym, cur.ts>>,
                                         val |-> [c |-> cur.c, flag |-> "ok"]])
                    ELSE buffer

(* flush_seconds = 60 have passed since the last flush: certain two minutes *)
(* on, possible in the next minute, impossible within the same one.         *)
MayBeDue == now > lastFlush

Without(seq, i) ==
    [j \in 1..(Len(seq) - 1) |-> IF j < i THEN seq[j] ELSE seq[j + 1]]

\* Mutant: the loop notes when the next flush is due, not when this one was.
WatchNotesNext(i) ==
    /\ pc = "watch"
    /\ i \in DOMAIN inbox
    /\ i = 1 \/ (i = 2 /\ "late" \in Events)
    /\ OnTrade(inbox[i])
    /\ inbox' = Without(inbox, i)
    /\ \/ UNCHANGED <<pc, lastFlush>>
       \/ buffer' # << >> /\ MayBeDue /\ pc' = "flush" /\ lastFlush' = now + 1
    /\ UNCHANGED <<exchange, rows, backfill, check>>

(* One trade of what watch_trades_for_symbols returned.  At the end of a    *)
(* batch, which may be after any trade, the loop looks at its clock; the    *)
(* time of this look becomes last_flush once the COPY returns.  A trade may *)
(* overtake another on its way.                                             *)
Watch(i) ==
    /\ pc = "watch"
    /\ i \in DOMAIN inbox
    /\ i = 1 \/ (i = 2 /\ "late" \in Events)
    /\ OnTrade(inbox[i])
    /\ inbox' = Without(inbox, i)
    /\ \/ UNCHANGED <<pc, lastFlush>>
       \/ buffer' # << >> /\ MayBeDue /\ pc' = "flush" /\ lastFlush' = now
    /\ UNCHANGED <<exchange, rows, backfill, check>>

(* A candidate row is merged in, first write wins (HypertableStore). *)
Store == INSTANCE HypertableStore WITH
            Tables <- {Candles}, Vals <- Row, Batches <- {},
            table <- [t \in {Candles} |-> rows]

FlushEffect == rows' = Store!Merged(rows, buffer)

Flush ==
    /\ pc = "flush"
    /\ FlushEffect
    /\ buffer' = << >>
    /\ pc' = "watch"
    /\ UNCHANGED <<exchange, inbox, partial, lastFlush, backfill, check>>

(* An exception leaves the loop, and its TaskGroup cancels the siblings. *)
Die ==
    /\ pc' = "dead"
    /\ check' = NoCheck(check.sym)
    /\ UNCHANGED <<exchange, inbox, partial, buffer, lastFlush, backfill>>

FlushRaise == "crash" \in Events /\ pc = "flush" /\ Die /\ UNCHANGED rows
FlushLost == "crash" \in Events /\ pc = "flush" /\ Die /\ FlushEffect

(* watch_trades_for_symbols raises; after two seconds the loop subscribes   *)
(* again, without the trades of the pause, and keeps its buckets.           *)
Reconnect(n) ==
    /\ "loss" \in Events
    /\ pc = "watch"
    /\ n \in 1..Len(inbox)
    /\ inbox' = SubSeq(inbox, n + 1, Len(inbox))
    /\ UNCHANGED <<exchange, pc, partial, buffer, lastFlush, rows, backfill, check>>

(* A trade without a usable field: on_trade is not reached, the payload     *)
(* goes to write_to_dead_letter, whose INSERT needs an arbiter index.       *)
DeadLetterAccepts == DeadLetterConflictColumns = DeadLetterPrimaryKey

Malformed ==
    /\ "malformed" \in Events
    /\ pc = "watch"
    /\ ~DeadLetterAccepts
    /\ Die
    /\ UNCHANGED rows

(* The process is replaced, after an exception or for a deploy: all that    *)
(* was in memory is gone, and trades from before the subscription with it.  *)
Restart ==
    /\ {"crash", "malformed"} \cap Events # {}
    /\ inbox' = << >>
    /\ pc' = "watch"
    /\ partial' = [s \in Symbols |-> NoRow]
    /\ buffer' = << >>
    /\ lastFlush' = now
    /\ sweep' = NoSweep(sweep.sym)
    /\ page' = NoPage
    /\ check' = NoCheck(check.sym)
    /\ UNCHANGED <<exchange, rows>>
----------------------------------------------------------------------------
(* THE SWEEP: backfill_ohlcv for one symbol *)

Sweeping == sweep.pc \in {"fetch", "write"}

SweepStart(s) ==
    /\ "sweep" \in Events
    /\ ~Sweeping
    /\ LET since == IF now < Window THEN 0 ELSE now - Window + 1
       IN sweep' = [pc |-> "fetch", sym |-> s, since |-> since, cursor |-> since,
                    until |-> now]
    /\ page' = NoPage
    /\ UNCHANGED <<exchange, live, rows, check>>

(* What REST has from the cursor on: every minute with trades, the current *)
(* one included, whatever `until` says (fetch_ohlcv does not send it).     *)
Available == {m \in sweep.cursor..now : Traded(sweep.sym, m)}

(* The oldest PageLimit of them. *)
PageMinutes == {m \in Available : Cardinality({k \in Available : k <= m}) <= PageLimit}

SweepFetch ==
    /\ sweep.pc = "fetch"
    /\ sweep.cursor <= sweep.until
    /\ Available # {}
    /\ sweep' = [sweep EXCEPT !.pc = "write"]
    /\ page' = [m \in PageMinutes |-> book[<<sweep.sym, m>>]]
    /\ UNCHANGED <<exchange, live, rows, check>>

SweepEnd ==
    /\ sweep.pc = "fetch"
    /\ sweep.cursor > sweep.until \/ Available = {}
    /\ sweep' = [sweep EXCEPT !.pc = "done"]
    /\ UNCHANGED <<exchange, live, rows, page, check>>

\* Mutant: ON CONFLICT DO UPDATE.
PageUpserts ==
    rows' = [k \in Keys |->
                IF k[1] = sweep.sym /\ k[2] \in DOMAIN page
                THEN [c |-> page[k[2]], flag |-> "ok"]
                ELSE rows[k]]

PageEffect ==
    rows' = [k \in Keys |->
                IF rows[k] = NoRow /\ k[1] = sweep.sym /\ k[2] \in DOMAIN page
                THEN [c |-> page[k[2]], flag |-> "ok"]
                ELSE rows[k]]

IsLast(m) == m \in DOMAIN page /\ \A k \in DOMAIN page : k <= m

\* Mutant: the cursor stays at the last candle.
SweepWriteStays ==
    /\ sweep.pc = "write"
    /\ PageEffect
    /\ \E m \in Minutes :
          /\ IsLast(m)
          /\ sweep' = [sweep EXCEPT !.pc = "fetch", !.cursor = m]
    /\ page' = NoPage
    /\ UNCHANGED <<exchange, live, check>>

SweepWrite ==
    /\ sweep.pc = "write"
    /\ PageEffect
    /\ \E m \in Minutes :
          /\ IsLast(m)
          /\ sweep' = [sweep EXCEPT !.pc = "fetch", !.cursor = m + 1]
    /\ page' = NoPage
    /\ UNCHANGED <<exchange, live, check>>

\* Mutant: the exception of a page is swallowed and the sweep reported done.
SweepRaiseSwallowed ==
    /\ "crash" \in Events
    /\ Sweeping
    /\ UNCHANGED rows \/ (sweep.pc = "write" /\ PageEffect)
    /\ sweep' = [sweep EXCEPT !.pc = "done"]
    /\ page' = NoPage
    /\ UNCHANGED <<exchange, live, check>>

(* The REST call or the COPY raises: backfill_universe gives up. *)
SweepRaise ==
    /\ "crash" \in Events
    /\ Sweeping
    /\ UNCHANGED rows \/ (sweep.pc = "write" /\ PageEffect)
    /\ sweep' = NoSweep(sweep.sym)
    /\ page' = NoPage
    /\ UNCHANGED <<exchange, live, check>>
----------------------------------------------------------------------------
(* THE DIVERGENCE CHECK: _cross_rest_divergence_check, one round *)

Recent(s) == {m \in Minutes : now - CheckSpan < m /\ m <= now /\ Traded(s, m)}

\* Mutant: rest_candles[-1].
IsReferenceLast(s, m) ==
    /\ m \in Recent(s)
    /\ Cardinality({k \in Recent(s) : m < k}) = 0

(* rest_candles[-2]: "most-recent may be partial". *)
IsReference(s, m) ==
    /\ m \in Recent(s)
    /\ Cardinality({k \in Recent(s) : m < k}) = 1

CheckFetch(s) ==
    /\ "check" \in Events
    /\ pc # "dead"
    /\ check.pc = "idle"
    /\ \E m \in Minutes :
          /\ IsReference(s, m)
          /\ check' = [pc |-> "read", sym |-> s, ref |-> m,
                       close |-> book[<<s, m>>].close]
    /\ UNCHANGED <<exchange, live, rows, backfill>>

CheckRead ==
    /\ check.pc = "read"
    /\ LET row == rows[<<check.sym, check.ref>>]
       IN check' = IF row # NoRow /\ row.c.close # check.close
                   THEN [check EXCEPT !.pc = "update"]
                   ELSE NoCheck(check.sym)
    /\ UNCHANGED <<exchange, live, rows, backfill>>

(* UPDATE ... SET quality_flag WHERE ... quality_flag = 'ok'. *)
CheckUpdate ==
    /\ check.pc = "update"
    /\ LET k == <<check.sym, check.ref>>
       IN rows' = IF rows[k].flag = "ok"
                  THEN [rows EXCEPT ![k].flag = "ws_rest_divergence"]
                  ELSE rows
    /\ check' = NoCheck(check.sym)
    /\ UNCHANGED <<exchange, live, backfill>>

(* Any exception of the round is logged and the round is over. *)
CheckFail ==
    /\ "crash" \in Events
    /\ check.pc # "idle"
    /\ check' = NoCheck(check.sym)
    /\ UNCHANGED <<exchange, live, rows, backfill>>
----------------------------------------------------------------------------

SweepStep == SweepFetch \/ SweepEnd \/ SweepWrite

LiveNext ==
    \/ \E i \in {1, 2} : Watch(i)
    \/ Flush \/ FlushRaise \/ FlushLost
    \/ \E n \in 1..Len(inbox) : Reconnect(n)
    \/ Malformed
    \/ Restart

Next ==
    \/ Tick
    \/ \E s \in Symbols, p \in Prices : Trade(s, p)
    \/ LiveNext
    \/ \E s \in Symbols : SweepStart(s)
    \/ SweepStep \/ SweepRaise
    \/ \E s \in Symbols : CheckFetch(s)
    \/ CheckRead \/ CheckUpdate \/ CheckFail

Spec == Init /\ [][Next]_vars

(* REST and the database answer a sweep that is under way. *)
FairSpec == Spec /\ WF_vars(SweepStep)
----------------------------------------------------------------------------
(* PROPERTIES *)

TypeOK ==
    /\ now \in Minutes
    /\ book \in [Keys -> Candle \cup {NoRow}]
    /\ inbox \in Seq([sym : Symbols, ts : Minutes, price : Prices])
    /\ pc \in {"watch", "flush", "dead"}
    /\ partial \in [Symbols -> Bucket \cup {NoRow}]
    /\ buffer \in Seq(Finalized)
    /\ lastFlush \in Minutes
    /\ rows \in [Keys -> Row \cup {NoRow}]
    /\ sweep \in [pc : {"idle", "fetch", "write", "done"}, sym : Symbols,
                 since : Nat, cursor : Nat, until : Nat]
    /\ DOMAIN page \subseteq Minutes
    /\ page \in [DOMAIN page -> Candle]
    /\ check \in [pc : {"idle", "read", "update"}, sym : Symbols, ref : Minutes,
                 close : Nat]

(* D-62 over all three writers: a stored candle never changes and never     *)
(* goes away, and its flag moves only from ok to ws_rest_divergence.        *)
CandlesNeverRewritten ==
    [][\A k \in Keys : rows[k] # NoRow =>
          /\ rows'[k] # NoRow
          /\ rows'[k].c = rows[k].c
          /\ rows'[k].flag # rows[k].flag =>
                rows[k].flag = "ok" /\ rows'[k].flag = "ws_rest_divergence"]_vars

Inside(c, b) ==
    /\ b # NoRow
    /\ b.low <= c.low /\ c.high <= b.high
    /\ c.low <= c.open /\ c.open <= c.high
    /\ c.low <= c.close /\ c.close <= c.high

Within(c, k) == Inside(c, book[k])

(* Every stored candle lies within the exchange's candle of its own symbol  *)
(* and minute: late and lost trades, restarts and pages fetched in the      *)
(* middle of a minute leave trades out, and never move one to another       *)
(* minute.                                                                  *)
StoredWithinExchange == \A k \in Keys : rows[k] # NoRow => Within(rows[k].c, k)

(* No trade is counted twice, by a restart, a reconnect or a late trade     *)
(* that opens its minute's bucket again.                                    *)
VolumeNeverInflated ==
    \A k \in Keys : rows[k] # NoRow => rows[k].c.volume <= book[k].volume

(* A candle flagged ws_rest_divergence does differ from what the exchange   *)
(* published for its minute, although the check fetches, reads and updates  *)
(* in separate steps, and the two writers run between them.                 *)
FlagIsTrue ==
    \A k \in Keys : rows[k] # NoRow /\ rows[k].flag = "ws_rest_divergence" =>
        k[2] < now /\ rows[k].c.close # book[k].close

(* A sweep that ran to its end left no gap among the minutes of its window  *)
(* that were over when it began, across page boundaries and empty minutes.  *)
SweepCovers ==
    sweep.pc = "done" =>
        \A m \in sweep.since..(sweep.until - 1) :
            Traded(sweep.sym, m) => rows[<<sweep.sym, m>>] # NoRow

(* Each sweep comes to an end while trading goes on. *)
SweepEnds == Sweeping ~> ~Sweeping

(* A closed minute whose row says ok has the candle of the exchange.        *)
OkRowsExact ==
    \A k \in Keys : k[2] < now /\ rows[k] # NoRow /\ rows[k].flag = "ok" =>
        rows[k].c = book[k]

Carries(k) ==
    \/ rows[k] # NoRow /\ rows[k].c = book[k]
    \/ \E i \in DOMAIN buffer : buffer[i].key = k /\ buffer[i].val.c = book[k]
    \/ partial[k[1]] = [ts |-> k[2], c |-> book[k]]

(* While the loop runs undisturbed, a minute whose trades have all reached  *)
(* it is, whole, in its bucket, in the buffer or in the table: nothing      *)
(* falls between bucket, buffer and flush.                                  *)
NothingDropped ==
    \A k \in Keys :
        \/ book[k] = NoRow
        \/ \E i \in DOMAIN inbox : <<inbox[i].sym, inbox[i].ts>> = k
        \/ Carries(k)

(* The inductive invariant behind the theorems of CandlesProofs.  Trades on  *)
(* their way, buckets, buffered candles and the fetched page all lie within  *)
(* the exchange's candle of their minute.                                    *)
PipelineWithin ==
    /\ \A k \in Keys : book[k] # NoRow => Within(book[k], k)
    /\ \A i \in DOMAIN inbox : Within(Start(inbox[i].price), <<inbox[i].sym, inbox[i].ts>>)
    /\ \A s \in Symbols : partial[s] # NoRow => Within(partial[s].c, <<s, partial[s].ts>>)
    /\ \A i \in DOMAIN buffer : Within(buffer[i].val.c, buffer[i].key)
    /\ \A m \in DOMAIN page : Within(page[m], <<sweep.sym, m>>)

(* What a sweep has passed is stored, and its page skips no closed minute.   *)
SweepKeepsUp ==
    /\ sweep.until <= now
    /\ Sweeping =>
          \A m \in sweep.since..(sweep.cursor - 1) :
              m < sweep.until /\ Traded(sweep.sym, m) => rows[<<sweep.sym, m>>] # NoRow
    /\ sweep.pc = "write" =>
          \A m \in DOMAIN page : \A k \in sweep.cursor..m :
              k < sweep.until /\ Traded(sweep.sym, k) => k \in DOMAIN page

(* The check compares with the final close of a minute that is over.         *)
CheckRefersBack ==
    /\ check.pc # "idle" =>
          /\ check.ref < now
          /\ Traded(check.sym, check.ref)
          /\ check.close = book[<<check.sym, check.ref>>].close
    /\ check.pc = "update" =>
          /\ rows[<<check.sym, check.ref>>] # NoRow
          /\ rows[<<check.sym, check.ref>>].c.close # check.close

CandlesInv ==
    /\ TypeOK
    /\ PipelineWithin
    /\ StoredWithinExchange
    /\ SweepKeepsUp
    /\ SweepCovers
    /\ CheckRefersBack
    /\ FlagIsTrue
=============================================================================
