--------------------------- MODULE CandlesProofs ---------------------------
(***************************************************************************)
(* The invariants of Candles, for every set of symbols and prices, every   *)
(* length of the history and every page size.                              *)
(***************************************************************************)
EXTENDS Candles, FiniteSetTheorems, WellFoundedInduction, TLAPS

(* The assumptions on the constants, as the provers use them. *)
LEMMA Constants ==
    /\ Prices \subseteq Nat
    /\ NoRow \notin Candle /\ NoRow \notin Bucket /\ NoRow \notin Row
    /\ MaxMinute \in Nat /\ PageLimit \in Nat \ {0} /\ Window \in Nat \ {0}
    /\ CheckSpan \in Nat \ {0}
  BY CandlesAssumption DEF CandlesAssumption

LEMMA CandleFields ==
    ASSUME NEW c \in Candle
    PROVE  /\ c.open \in Nat /\ c.high \in Nat /\ c.low \in Nat /\ c.close \in Nat
           /\ c # NoRow
  BY Constants DEF Candle

(* A candle as the aggregator starts and updates it is a candle again, and  *)
(* stays within a wider one.                                                *)
LEMMA StartType ==
    ASSUME NEW p \in Prices PROVE Start(p) \in Candle
  BY Constants DEF Start, Candle

LEMMA UpdateType ==
    ASSUME NEW c \in Candle, NEW p \in Prices PROVE Update(c, p) \in Candle
  BY Constants DEF Update, Candle

LEMMA PublishedType ==
    ASSUME NEW c \in Candle \cup {NoRow}, NEW p \in Prices
    PROVE  Published(c, p) \in Candle
  BY Constants DEF Published, Candle

Grows(b, c) == b # NoRow => c # NoRow /\ c.low <= b.low /\ b.high <= c.high

LEMMA PublishedGrows ==
    ASSUME NEW c \in Candle \cup {NoRow}, NEW p \in Prices
    PROVE  /\ Grows(c, Published(c, p))
           /\ Inside(Start(p), Published(c, p))
           /\ c # NoRow /\ Inside(c, c) => Inside(Published(c, p), Published(c, p))
           /\ c = NoRow => Inside(Published(c, p), Published(c, p))
<1> Published(c, p) # NoRow
  BY PublishedType, Constants
<1> QED
  BY Constants, CandleFields DEF Published, Candle, Grows, Inside, Start

LEMMA InsideGrows ==
    ASSUME NEW c \in Candle, NEW b \in Candle \cup {NoRow}, NEW d \in Candle \cup {NoRow},
           Inside(c, b), Grows(b, d)
    PROVE  Inside(c, d)
  BY CandleFields DEF Grows, Inside

LEMMA UpdateInside ==
    ASSUME NEW c \in Candle, NEW b \in Candle \cup {NoRow}, NEW p \in Prices,
           Inside(c, b), Inside(Start(p), b)
    PROVE  Inside(Update(c, p), b)
  BY Constants, CandleFields DEF Candle, Inside, Start, Update
----------------------------------------------------------------------------
(* Sequences: what is left of the inbox, and what an append adds. *)

LEMMA EmptyType == ASSUME NEW S PROVE << >> \in Seq(S)
  OBVIOUS

LEMMA ElementType ==
    ASSUME NEW S, NEW seq \in Seq(S), NEW i \in DOMAIN seq PROVE seq[i] \in S
  OBVIOUS

LEMMA WithoutType ==
    ASSUME NEW S, NEW seq \in Seq(S), NEW i \in DOMAIN seq
    PROVE  /\ Without(seq, i) \in Seq(S)
           /\ \A j \in DOMAIN Without(seq, i) :
                 \E n \in DOMAIN seq : Without(seq, i)[j] = seq[n]
  BY DEF Without

LEMMA SubSeqType ==
    ASSUME NEW S, NEW seq \in Seq(S), NEW n \in 1..Len(seq)
    PROVE  /\ SubSeq(seq, n + 1, Len(seq)) \in Seq(S)
           /\ \A j \in DOMAIN SubSeq(seq, n + 1, Len(seq)) :
                 \E l \in DOMAIN seq : SubSeq(seq, n + 1, Len(seq))[j] = seq[l]
  OBVIOUS

LEMMA AppendType ==
    ASSUME NEW S, NEW seq \in Seq(S), NEW e \in S
    PROVE  /\ Append(seq, e) \in Seq(S)
           /\ \A j \in DOMAIN Append(seq, e) :
                 Append(seq, e)[j] = e \/ \E n \in DOMAIN seq : Append(seq, e)[j] = seq[n]
  OBVIOUS
----------------------------------------------------------------------------
(* The two writes: a stored row stays, and a new one comes from the batch. *)

LEMMA FinalizedFields ==
    ASSUME NEW f \in Finalized
    PROVE  f.key \in Keys /\ f.val \in Row /\ f.val.c \in Candle /\ f.val.flag = "ok"
  BY DEF Finalized, Row, Flags

LEMMA FirstExists ==
    ASSUME NEW batch \in Seq(Finalized), NEW k \in Keys,
           \E i \in DOMAIN batch : batch[i].key = k
    PROVE  \E i \in DOMAIN batch : Store!IsFirst(batch, i, k)
<1> DEFINE T == {i \in DOMAIN batch : batch[i].key = k}
           R == OpToRel(<, Nat)
<1>1. T \subseteq Nat /\ T # {}
  OBVIOUS
<1>2. IsWellFoundedOn(R, Nat)
  BY NatLessThanWellFounded
<1> HIDE DEF T, R
<1>3. PICK x \in T : \A y \in T : <<y, x>> \notin R
  BY <1>1, <1>2, WFMin
<1>4. \A y \in T : ~(y < x)
  BY <1>1, <1>3 DEF R, OpToRel
<1>5. x \in DOMAIN batch /\ batch[x].key = k
  BY <1>3 DEF T
<1>6. \A j \in 1..(x - 1) : batch[j].key # k
  BY <1>4, <1>5 DEF T
<1> QED
  BY <1>5, <1>6 DEF Store!IsFirst

LEMMA MergedRow ==
    ASSUME NEW old \in [Keys -> Row \cup {NoRow}],
           NEW batch \in Seq(Finalized),
           NEW k \in Keys
    PROVE  /\ Store!Merged(old, batch)[k] \in Row \cup {NoRow}
           /\ old[k] # NoRow => Store!Merged(old, batch)[k] = old[k]
           /\ Store!Merged(old, batch)[k] # old[k] =>
                 \E i \in DOMAIN batch : /\ batch[i].key = k
                                         /\ batch[i].val = Store!Merged(old, batch)[k]
<1>1. CASE old[k] = NoRow /\ \E i \in DOMAIN batch : batch[i].key = k
  <2>1. PICK n \in DOMAIN batch :
            /\ Store!IsFirst(batch, n, k)
            /\ n = CHOOSE i \in DOMAIN batch : Store!IsFirst(batch, i, k)
    BY <1>1, FirstExists
  <2>2. batch[n] \in Finalized
    BY <2>1, ElementType
  <2>3. batch[n].key = k /\ batch[n].val \in Row
    BY <2>1, <2>2, FinalizedFields DEF Store!IsFirst
  <2>4. Store!Merged(old, batch)[k] = batch[n].val
    BY <1>1, <2>1 DEF Store!Merged
  <2> QED
    BY <1>1, <2>1, <2>3, <2>4
<1>2. CASE ~(old[k] = NoRow /\ \E i \in DOMAIN batch : batch[i].key = k)
  BY <1>2 DEF Store!Merged
<1> QED
  BY <1>1, <1>2
----------------------------------------------------------------------------
(* The exchange's candles only widen, and only in the current minute. *)

Widens ==
    /\ now' \in Minutes /\ now <= now'
    /\ book' \in [Keys -> Candle \cup {NoRow}]
    /\ \A k \in Keys : Grows(book[k], book'[k])
    /\ \A k \in Keys : k[2] # now => book'[k] = book[k]

LEMMA GrowsSelf ==
    ASSUME NEW b \in Candle \cup {NoRow} PROVE Grows(b, b)
  BY CandleFields DEF Grows

LEMMA StillWidens ==
    ASSUME TypeOK, UNCHANGED exchange PROVE Widens
  BY Constants, GrowsSelf DEF TypeOK, Widens, exchange, Minutes

LEMMA BookStep ==
    ASSUME TypeOK, [Next]_vars PROVE Widens
<1>1. CASE Tick
  BY <1>1, Constants, GrowsSelf DEF Tick, TypeOK, Widens, Minutes
<1>2. ASSUME NEW s \in Symbols, NEW p \in Prices, Trade(s, p) PROVE Widens
  <2> DEFINE k == <<s, now>>
  <2>1. k \in Keys
    BY DEF TypeOK, Keys
  <2>2. /\ book[k] \in Candle \cup {NoRow}
        /\ Published(book[k], p) \in Candle
        /\ Grows(book[k], Published(book[k], p))
    BY <2>1, PublishedType, PublishedGrows DEF TypeOK
  <2>3. book' = [book EXCEPT ![k] = Published(book[k], p)] /\ now' = now
    BY <1>2 DEF Trade
  <2> HIDE DEF k
  <2>4. book' \in [Keys -> Candle \cup {NoRow}]
    BY <2>1, <2>2, <2>3 DEF TypeOK
  <2>5. \A j \in Keys : Grows(book[j], book'[j])
    BY <2>1, <2>2, <2>3, GrowsSelf DEF TypeOK
  <2>6. \A j \in Keys : j[2] # now => book'[j] = book[j]
    <3>1. k[2] = now
      BY DEF k
    <3> QED
      BY <2>1, <2>3, <3>1 DEF TypeOK
  <2> QED
    BY <2>3, <2>4, <2>5, <2>6, Constants DEF TypeOK, Widens, Minutes
<1>3. CASE UNCHANGED exchange
  BY <1>3, StillWidens
<1>4. [Next]_vars => \/ Tick
                     \/ \E s \in Symbols, p \in Prices : Trade(s, p)
                     \/ UNCHANGED exchange
  BY DEF Next, LiveNext, SweepStep, Watch, Flush, FlushRaise, FlushLost, Die, Reconnect,
         Malformed, Restart, SweepStart, SweepFetch, SweepEnd, SweepWrite, SweepRaise,
         CheckFetch, CheckRead, CheckUpdate, CheckFail, vars, exchange
<1> QED
  BY <1>1, <1>2, <1>3, <1>4
----------------------------------------------------------------------------
(* A stored candle stays; what is new comes from the buffer or the page. *)

KeptRow(k) ==
    rows[k] # NoRow =>
        /\ rows'[k] # NoRow
        /\ rows'[k].c = rows[k].c
        /\ rows'[k].flag # rows[k].flag =>
              /\ rows[k].flag = "ok" /\ rows'[k].flag = "ws_rest_divergence"
              /\ check.pc = "update" /\ k = <<check.sym, check.ref>>

NewRow(k) ==
    rows[k] = NoRow /\ rows'[k] # NoRow =>
        \/ \E i \in DOMAIN buffer : buffer[i].key = k /\ buffer[i].val = rows'[k]
        \/ /\ k[1] = sweep.sym /\ k[2] \in DOMAIN page
           /\ rows'[k] = [c |-> page[k[2]], flag |-> "ok"]

RowsKept ==
    /\ rows' \in [Keys -> Row \cup {NoRow}]
    /\ \A k \in Keys : KeptRow(k) /\ NewRow(k)

LEMMA FlushKeeps ==
    ASSUME TypeOK, FlushEffect PROVE RowsKept
<1>1. rows' = Store!Merged(rows, buffer)
  BY DEF FlushEffect
<1>2. rows' \in [Keys -> Row \cup {NoRow}]
  <2>1. \A k \in Keys : Store!Merged(rows, buffer)[k] \in Row \cup {NoRow}
    BY MergedRow DEF TypeOK
  <2> QED
    BY <1>1, <2>1 DEF Store!Merged
<1>3. \A k \in Keys : KeptRow(k) /\ NewRow(k)
  <2> TAKE k \in Keys
  <2> DEFINE new == Store!Merged(rows, buffer)
  <2>1. /\ rows[k] # NoRow => new[k] = rows[k]
        /\ new[k] # rows[k] =>
              \E i \in DOMAIN buffer : buffer[i].key = k /\ buffer[i].val = new[k]
    <3>1. rows \in [Keys -> Row \cup {NoRow}] /\ buffer \in Seq(Finalized)
      BY DEF TypeOK
    <3> QED
      BY <3>1, MergedRow, Zenon
  <2> HIDE DEF new
  <2>2. rows'[k] = new[k]
    BY <1>1 DEF new
  <2> QED
    BY <2>1, <2>2 DEF KeptRow, NewRow
<1> QED
  BY <1>2, <1>3 DEF RowsKept

LEMMA PageKeeps ==
    ASSUME TypeOK, PageEffect PROVE RowsKept
<1>1. \A m \in DOMAIN page : page[m] \in Candle
  BY DEF TypeOK
<1>2. \A m \in DOMAIN page : [c |-> page[m], flag |-> "ok"] \in Row
  BY <1>1 DEF Row, Flags
<1> QED
  BY <1>2, Constants DEF TypeOK, PageEffect, RowsKept, KeptRow, NewRow

LEMMA UpdateKeeps ==
    ASSUME TypeOK, CheckRefersBack, CheckUpdate PROVE RowsKept
<1> DEFINE k == <<check.sym, check.ref>>
<1>1. k \in Keys /\ rows[k] # NoRow
  BY DEF TypeOK, CheckRefersBack, CheckUpdate, Keys
<1>2. rows[k] \in Row
  BY <1>1 DEF TypeOK
<1>3. [rows[k] EXCEPT !.flag = "ws_rest_divergence"]
        = [c |-> rows[k].c, flag |-> "ws_rest_divergence"]
  BY <1>2 DEF Row
<1>4. [c |-> rows[k].c, flag |-> "ws_rest_divergence"] \in Row
  BY <1>2 DEF Row, Flags
<1>5. \/ UNCHANGED rows
      \/ /\ rows[k].flag = "ok"
         /\ rows' = [rows EXCEPT ![k] = [c |-> rows[k].c, flag |-> "ws_rest_divergence"]]
  BY <1>3 DEF CheckUpdate
<1> DEFINE row == [c |-> rows[k].c, flag |-> "ws_rest_divergence"]
<1>6. row.c = rows[k].c /\ row.flag = "ws_rest_divergence" /\ row # NoRow
  BY <1>4, Constants
<1>7. CASE UNCHANGED rows
  BY <1>7 DEF TypeOK, RowsKept, KeptRow, NewRow
<1>8. CASE rows[k].flag = "ok" /\ rows' = [rows EXCEPT ![k] = row]
  <2> HIDE DEF row, k
  <2>1. rows' \in [Keys -> Row \cup {NoRow}]
    BY <1>1, <1>4, <1>8 DEF TypeOK, row
  <2>2. \A j \in Keys : rows'[j] = IF j = k THEN row ELSE rows[j]
    BY <1>1, <1>8 DEF TypeOK
  <2> QED
    BY <1>1, <1>6, <1>8, <2>1, <2>2 DEF RowsKept, KeptRow, NewRow, CheckUpdate, k
<1> QED
  BY <1>5, <1>7, <1>8

LEMMA RowsStep ==
    ASSUME TypeOK, CheckRefersBack, [Next]_vars PROVE RowsKept
<1>1. \/ FlushEffect \/ PageEffect \/ CheckUpdate \/ UNCHANGED rows
  BY DEF Next, LiveNext, SweepStep, Watch, Flush, FlushRaise, FlushLost, Die, Reconnect,
         Malformed, Restart, SweepStart, SweepFetch, SweepEnd, SweepWrite, SweepRaise,
         CheckFetch, CheckRead, CheckFail, Tick, Trade, vars
<1>2. CASE UNCHANGED rows
  BY <1>2 DEF TypeOK, RowsKept, KeptRow, NewRow
<1> QED
  BY <1>1, <1>2, FlushKeeps, PageKeeps, UpdateKeeps
----------------------------------------------------------------------------
(* Types of the coroutines' own state. *)

TradeMsg == [sym : Symbols, ts : Minutes, price : Prices]

LiveType ==
    /\ inbox \in Seq(TradeMsg)
    /\ pc \in {"watch", "flush", "dead"}
    /\ partial \in [Symbols -> Bucket \cup {NoRow}]
    /\ buffer \in Seq(Finalized)
    /\ lastFlush \in Minutes

SweepType ==
    /\ sweep \in [pc : {"idle", "fetch", "write", "done"}, sym : Symbols,
                  since : Nat, cursor : Nat, until : Nat]
    /\ DOMAIN page \subseteq Minutes
    /\ page \in [DOMAIN page -> Candle]

CheckType ==
    check \in [pc : {"idle", "read", "update"}, sym : Symbols, ref : Minutes, close : Nat]

LEMMA TypeParts ==
    TypeOK <=> /\ now \in Minutes
               /\ book \in [Keys -> Candle \cup {NoRow}]
               /\ rows \in [Keys -> Row \cup {NoRow}]
               /\ LiveType /\ SweepType /\ CheckType
  BY DEF TypeOK, LiveType, SweepType, CheckType, TradeMsg

(* What on_trade makes of the bucket, and what it appends. *)
LEMMA OnTradeEffect ==
    ASSUME LiveType, NEW t \in TradeMsg, OnTrade(t)
    PROVE  LET cur == partial[t.sym]
               fin == [key |-> <<t.sym, cur.ts>>, val |-> [c |-> cur.c, flag |-> "ok"]]
           IN /\ \A s \in Symbols \ {t.sym} : partial'[s] = partial[s]
              /\ \/ partial'[t.sym] = [ts |-> t.ts, c |-> Start(t.price)]
                 \/ /\ cur \in Bucket /\ cur.ts = t.ts
                    /\ partial'[t.sym] = [ts |-> cur.ts, c |-> Update(cur.c, t.price)]
              /\ \/ UNCHANGED buffer
                 \/ cur \in Bucket /\ buffer' = Append(buffer, fin)
              /\ DOMAIN partial' = Symbols
<1> DEFINE cur == partial[t.sym]
<1>1. t.sym \in Symbols /\ t.ts \in Minutes /\ t.price \in Prices
  BY DEF TradeMsg
<1>2. cur \in Bucket \cup {NoRow}
  BY <1>1 DEF LiveType
<1>3. cur \in Bucket => [cur EXCEPT !.c = Update(cur.c, t.price)]
                          = [ts |-> cur.ts, c |-> Update(cur.c, t.price)]
  BY DEF Bucket
<1> QED
  BY <1>1, <1>2, <1>3 DEF OnTrade, LiveType

LEMMA OnTradeType ==
    ASSUME LiveType, NEW t \in TradeMsg, OnTrade(t)
    PROVE  /\ partial' \in [Symbols -> Bucket \cup {NoRow}]
           /\ buffer' \in Seq(Finalized)
<1> DEFINE cur == partial[t.sym]
           fin == [key |-> <<t.sym, cur.ts>>, val |-> [c |-> cur.c, flag |-> "ok"]]
<1>1. t.sym \in Symbols /\ t.ts \in Minutes /\ t.price \in Prices
  BY DEF TradeMsg
<1>2. [ts |-> t.ts, c |-> Start(t.price)] \in Bucket
  BY <1>1, StartType DEF Bucket
<1>3. ASSUME cur \in Bucket
      PROVE  /\ [ts |-> cur.ts, c |-> Update(cur.c, t.price)] \in Bucket
             /\ fin \in Finalized
  <2>1. cur.ts \in Minutes /\ cur.c \in Candle
    BY <1>3 DEF Bucket
  <2>2. Update(cur.c, t.price) \in Candle
    BY <1>1, <2>1, UpdateType
  <2>3. <<t.sym, cur.ts>> \in Keys
    BY <1>1, <2>1 DEF Keys
  <2> QED
    BY <2>1, <2>2, <2>3 DEF Bucket, Finalized
<1> HIDE DEF fin, cur
<1>4. /\ \A s \in Symbols \ {t.sym} : partial'[s] = partial[s]
      /\ partial'[t.sym] \in Bucket
      /\ UNCHANGED buffer \/ (cur \in Bucket /\ buffer' = Append(buffer, fin))
      /\ DOMAIN partial' = Symbols
  BY <1>2, <1>3, OnTradeEffect DEF fin, cur
<1>5. buffer' \in Seq(Finalized)
  <2>1. buffer \in Seq(Finalized)
    BY DEF LiveType
  <2>2. cur \in Bucket => Append(buffer, fin) \in Seq(Finalized)
    BY <1>3, <2>1, AppendType
  <2> QED
    BY <1>4, <2>1, <2>2
<1>6. \A s \in Symbols : partial'[s] \in Bucket \cup {NoRow}
  BY <1>4 DEF LiveType
<1>7. partial' = [s \in Symbols |-> partial'[s]]
  BY DEF OnTrade, LiveType
<1> QED
  BY <1>5, <1>6, <1>7

LEMMA LiveTypeStep ==
    ASSUME TypeOK, [Next]_vars PROVE LiveType'
<1>0. LiveType /\ now \in Minutes
  BY TypeParts
<1>1. ASSUME NEW s \in Symbols, NEW p \in Prices, Trade(s, p) PROVE LiveType'
  <2> DEFINE t == [sym |-> s, ts |-> now, price |-> p]
  <2>1. t \in TradeMsg /\ inbox \in Seq(TradeMsg)
    BY <1>0 DEF TradeMsg, LiveType
  <2>2. Append(inbox, t) \in Seq(TradeMsg)
    BY <2>1, AppendType
  <2> QED
    BY <1>0, <1>1, <2>2 DEF Trade, LiveType
<1>2. ASSUME NEW i \in {1, 2}, Watch(i) PROVE LiveType'
  <2>1. i \in DOMAIN inbox /\ inbox \in Seq(TradeMsg)
    BY <1>0, <1>2 DEF Watch, LiveType
  <2>2. inbox[i] \in TradeMsg /\ OnTrade(inbox[i])
    BY <1>2, <2>1, ElementType DEF Watch
  <2>3. inbox' \in Seq(TradeMsg)
    BY <1>2, <2>1, WithoutType DEF Watch
  <2>4. /\ partial' \in [Symbols -> Bucket \cup {NoRow}]
        /\ buffer' \in Seq(Finalized)
    BY <1>0, <2>2, OnTradeType
  <2>5. pc' \in {"watch", "flush", "dead"} /\ lastFlush' \in Minutes
    BY <1>0, <1>2 DEF Watch, LiveType
  <2> QED
    BY <2>3, <2>4, <2>5 DEF LiveType
<1>3. ASSUME NEW n \in 1..Len(inbox), Reconnect(n) PROVE LiveType'
  <2>1. inbox' \in Seq(TradeMsg)
    BY <1>0, <1>3, SubSeqType DEF Reconnect, LiveType
  <2> QED
    BY <1>0, <1>3, <2>1 DEF Reconnect, LiveType
<1>4. CASE Flush \/ FlushRaise \/ FlushLost \/ Malformed
  <2>1. CASE Flush
    BY <1>0, <2>1, EmptyType DEF Flush, LiveType
  <2>2. CASE ~Flush
    BY <1>0, <1>4, <2>2 DEF FlushRaise, FlushLost, Malformed, Die, LiveType
  <2> QED
    BY <2>1, <2>2
<1>5. CASE Restart
  BY <1>0, <1>5, EmptyType DEF Restart, LiveType
<1>6. CASE UNCHANGED live
  BY <1>0, <1>6 DEF live, LiveType
<1>7. \/ \E s \in Symbols, p \in Prices : Trade(s, p)
      \/ \E i \in {1, 2} : Watch(i)
      \/ \E n \in 1..Len(inbox) : Reconnect(n)
      \/ Flush \/ FlushRaise \/ FlushLost \/ Malformed
      \/ Restart
      \/ UNCHANGED live
  BY DEF Next, LiveNext, SweepStep, SweepStart, SweepFetch, SweepEnd, SweepWrite,
         SweepRaise, CheckFetch, CheckRead, CheckUpdate, CheckFail, Tick, vars, live
<1> QED
  BY <1>1, <1>2, <1>3, <1>4, <1>5, <1>6, <1>7

LEMMA NoPageType == DOMAIN NoPage = {} /\ NoPage \in [DOMAIN NoPage -> Candle]
  BY DEF NoPage

(* Sweeps only fetch minutes on the clock. *)
LEMMA AvailableTyped ==
    ASSUME TypeOK, NEW m \in Available
    PROVE  /\ m \in Minutes /\ m \in Nat /\ sweep.cursor <= m /\ m <= now
           /\ <<sweep.sym, m>> \in Keys /\ book[<<sweep.sym, m>>] \in Candle
<1>1. sweep.cursor \in Nat /\ sweep.sym \in Symbols /\ now \in Minutes
  BY DEF TypeOK
<1>2. m \in Minutes /\ m \in Nat /\ sweep.cursor <= m /\ m <= now
  BY <1>1, Constants DEF Available, Minutes
<1>3. <<sweep.sym, m>> \in Keys
  BY <1>1, <1>2 DEF Keys
<1>4. book[<<sweep.sym, m>>] # NoRow
  BY DEF Available, Traded
<1> QED
  BY <1>2, <1>3, <1>4 DEF TypeOK

LEMMA SweepTypeStep ==
    ASSUME TypeOK, [Next]_vars PROVE SweepType'
<1>0. SweepType /\ now \in Minutes /\ now \in Nat
  BY TypeParts, Constants DEF Minutes
<1>1. ASSUME NEW s \in Symbols, SweepStart(s) PROVE SweepType'
  <2> DEFINE since == IF now < Window THEN 0 ELSE now - Window + 1
  <2>1. since \in Nat
    BY <1>0, Constants
  <2>2. sweep' = [pc |-> "fetch", sym |-> s, since |-> since, cursor |-> since,
                  until |-> now]
    BY <1>1 DEF SweepStart
  <2> HIDE DEF since
  <2>3. page' = NoPage
    BY <1>1 DEF SweepStart
  <2> QED
    BY <1>0, <2>1, <2>2, <2>3, NoPageType DEF SweepType
<1>2. CASE SweepFetch
  <2>1. \A m \in PageMinutes : m \in Minutes /\ book[<<sweep.sym, m>>] \in Candle
    BY AvailableTyped DEF PageMinutes
  <2>2. page' = [m \in PageMinutes |-> book[<<sweep.sym, m>>]]
    BY <1>2 DEF SweepFetch
  <2>3. DOMAIN page' \subseteq Minutes /\ page' \in [DOMAIN page' -> Candle]
    BY <2>1, <2>2
  <2>4. sweep' = [sweep EXCEPT !.pc = "write"]
    BY <1>2 DEF SweepFetch
  <2> QED
    BY <1>0, <2>3, <2>4 DEF SweepType
<1>3. CASE SweepEnd
  BY <1>0, <1>3 DEF SweepEnd, SweepType
<1>4. CASE SweepWrite
  <2>1. PICK m \in Minutes : sweep' = [sweep EXCEPT !.pc = "fetch", !.cursor = m + 1]
    BY <1>4 DEF SweepWrite
  <2>2. m + 1 \in Nat
    BY Constants DEF Minutes
  <2>3. page' = NoPage
    BY <1>4 DEF SweepWrite
  <2> QED
    BY <1>0, <2>1, <2>2, <2>3, NoPageType DEF SweepType
<1>5. CASE SweepRaise \/ Restart
  <2>1. sweep' = NoSweep(sweep.sym) /\ page' = NoPage
    BY <1>5 DEF SweepRaise, Restart
  <2> QED
    BY <1>0, <2>1, NoPageType DEF SweepType, NoSweep
<1>6. CASE UNCHANGED backfill
  BY <1>0, <1>6 DEF backfill, SweepType
<1>7. \/ \E s \in Symbols : SweepStart(s)
      \/ SweepFetch \/ SweepEnd \/ SweepWrite \/ SweepRaise \/ Restart
      \/ UNCHANGED backfill
  BY DEF Next, LiveNext, SweepStep, Watch, Flush, FlushRaise, FlushLost, Die, Reconnect,
         Malformed, CheckFetch, CheckRead, CheckUpdate, CheckFail, Tick, Trade, vars, backfill
<1> QED
  BY <1>1, <1>2, <1>3, <1>4, <1>5, <1>6, <1>7

LEMMA CheckTypeStep ==
    ASSUME TypeOK, [Next]_vars PROVE CheckType'
<1>0. CheckType
  BY TypeParts
<1>1. ASSUME NEW s \in Symbols, CheckFetch(s) PROVE CheckType'
  <2>1. PICK m \in Minutes :
          /\ IsReference(s, m)
          /\ check' = [pc |-> "read", sym |-> s, ref |-> m, close |-> book[<<s, m>>].close]
    BY <1>1 DEF CheckFetch
  <2>2. book[<<s, m>>] \in Candle
    BY <2>1 DEF IsReference, Recent, Traded, TypeOK, Keys
  <2> QED
    BY <2>1, <2>2, CandleFields DEF CheckType
<1>2. CASE CheckRead
  BY <1>0, <1>2, Constants DEF CheckRead, CheckType, NoCheck, Minutes
<1>3. CASE CheckUpdate \/ CheckFail \/ FlushRaise \/ FlushLost \/ Malformed \/ Restart
  <2>1. check' = NoCheck(check.sym)
    BY <1>3 DEF CheckUpdate, CheckFail, FlushRaise, FlushLost, Malformed, Die, Restart
  <2>2. 0 \in Minutes
    BY Constants DEF Minutes
  <2> QED
    BY <1>0, <2>1, <2>2 DEF CheckType, NoCheck
<1>4. CASE UNCHANGED check
  BY <1>0, <1>4 DEF CheckType
<1>5. \/ \E s \in Symbols : CheckFetch(s)
      \/ CheckRead
      \/ CheckUpdate \/ CheckFail \/ FlushRaise \/ FlushLost \/ Malformed \/ Restart
      \/ UNCHANGED check
  BY DEF Next, LiveNext, SweepStep, Watch, Flush, Reconnect, SweepStart, SweepFetch,
         SweepEnd, SweepWrite, SweepRaise, Tick, Trade, vars
<1> QED
  BY <1>1, <1>2, <1>3, <1>4, <1>5

LEMMA TypeStep ==
    ASSUME TypeOK, CheckRefersBack, [Next]_vars PROVE TypeOK'
<1>1. Widens /\ RowsKept /\ LiveType' /\ SweepType' /\ CheckType'
  BY BookStep, RowsStep, LiveTypeStep, SweepTypeStep, CheckTypeStep
<1> QED
  BY <1>1, TypeParts DEF Widens, RowsKept, TypeOK, LiveType, SweepType, CheckType, TradeMsg
----------------------------------------------------------------------------
(* Everything on its way to the table stays within the exchange's candles. *)

LEMMA WithinStays ==
    ASSUME TypeOK, Widens
    PROVE  \A c \in Candle, k \in Keys : Inside(c, book[k]) => Inside(c, book'[k])
  BY InsideGrows DEF TypeOK, Widens

LEMMA BookWithinStep ==
    ASSUME TypeOK, PipelineWithin, [Next]_vars
    PROVE  \A k \in Keys : book'[k] # NoRow => Inside(book'[k], book'[k])
<1>0. \A k \in Keys : book[k] # NoRow => Inside(book[k], book[k])
  BY DEF PipelineWithin, Within
<1>1. ASSUME NEW s \in Symbols, NEW p \in Prices, Trade(s, p),
             NEW k \in Keys, book'[k] # NoRow
      PROVE  Inside(book'[k], book'[k])
  <2>1. k = <<s, now>> => book'[k] = Published(book[k], p)
    BY <1>1 DEF Trade, TypeOK
  <2>2. k # <<s, now>> => book'[k] = book[k]
    BY <1>1 DEF Trade, TypeOK
  <2>3. book[k] \in Candle \cup {NoRow}
    BY DEF TypeOK
  <2> QED
    BY <1>0, <1>1, <2>1, <2>2, <2>3, PublishedGrows
<1>2. CASE UNCHANGED book
  BY <1>0, <1>2
<1>3. (\E s \in Symbols, p \in Prices : Trade(s, p)) \/ UNCHANGED book
  BY DEF Next, LiveNext, SweepStep, Watch, Flush, FlushRaise, FlushLost, Die, Reconnect,
         Malformed, Restart, SweepStart, SweepFetch, SweepEnd, SweepWrite, SweepRaise,
         CheckFetch, CheckRead, CheckUpdate, CheckFail, Tick, vars, exchange
<1> QED
  BY <1>1, <1>2, <1>3

InboxFrom ==
    \A i \in DOMAIN inbox' :
        \/ \E j \in DOMAIN inbox : inbox'[i] = inbox[j]
        \/ \E s \in Symbols, p \in Prices :
              Trade(s, p) /\ inbox'[i] = [sym |-> s, ts |-> now, price |-> p]

LEMMA InboxStep ==
    ASSUME TypeOK, [Next]_vars PROVE InboxFrom
<1>0. inbox \in Seq(TradeMsg) /\ now \in Minutes
  BY DEF TypeOK, TradeMsg
<1>1. ASSUME NEW s \in Symbols, NEW p \in Prices, Trade(s, p) PROVE InboxFrom
  <2> DEFINE t == [sym |-> s, ts |-> now, price |-> p]
  <2>1. t \in TradeMsg /\ inbox' = Append(inbox, t)
    BY <1>0, <1>1 DEF TradeMsg, Trade
  <2>2. \A i \in DOMAIN Append(inbox, t) :
           Append(inbox, t)[i] = t \/ \E j \in DOMAIN inbox : Append(inbox, t)[i] = inbox[j]
    BY <1>0, <2>1, AppendType
  <2> QED
    BY <1>1, <2>1, <2>2 DEF InboxFrom
<1>2. ASSUME NEW i \in {1, 2}, Watch(i) PROVE InboxFrom
  <2>1. i \in DOMAIN inbox /\ inbox' = Without(inbox, i)
    BY <1>2 DEF Watch
  <2>2. \A j \in DOMAIN Without(inbox, i) :
           \E n \in DOMAIN inbox : Without(inbox, i)[j] = inbox[n]
    BY <1>0, <2>1, WithoutType
  <2> QED
    BY <2>1, <2>2 DEF InboxFrom
<1>3. ASSUME NEW n \in 1..Len(inbox), Reconnect(n) PROVE InboxFrom
  <2>1. inbox' = SubSeq(inbox, n + 1, Len(inbox))
    BY <1>3 DEF Reconnect
  <2>2. \A j \in DOMAIN SubSeq(inbox, n + 1, Len(inbox)) :
           \E l \in DOMAIN inbox : SubSeq(inbox, n + 1, Len(inbox))[j] = inbox[l]
    BY <1>0, SubSeqType
  <2> QED
    BY <2>1, <2>2 DEF InboxFrom
<1>4. CASE Restart
  BY <1>4 DEF Restart, InboxFrom
<1>5. CASE UNCHANGED inbox
  BY <1>5 DEF InboxFrom
<1>6. \/ \E s \in Symbols, p \in Prices : Trade(s, p)
      \/ \E i \in {1, 2} : Watch(i)
      \/ \E n \in 1..Len(inbox) : Reconnect(n)
      \/ Restart
      \/ UNCHANGED inbox
  BY DEF Next, LiveNext, SweepStep, SweepStart, SweepFetch, SweepEnd, SweepWrite, Flush,
         FlushRaise, FlushLost, Malformed, Die, SweepRaise, CheckFetch, CheckRead,
         CheckUpdate, CheckFail, Tick, vars, live
<1> QED
  BY <1>1, <1>2, <1>3, <1>4, <1>5, <1>6

LEMMA InboxWithinStep ==
    ASSUME TypeOK, PipelineWithin, [Next]_vars, Widens,
           NEW i \in DOMAIN inbox'
    PROVE  Inside(Start(inbox'[i].price), book'[<<inbox'[i].sym, inbox'[i].ts>>])
<1>1. ASSUME NEW j \in DOMAIN inbox, inbox'[i] = inbox[j]
      PROVE  Inside(Start(inbox'[i].price), book'[<<inbox'[i].sym, inbox'[i].ts>>])
  <2>1. inbox[j] \in TradeMsg
    <3>1. inbox \in Seq(TradeMsg)
      BY DEF TypeOK, TradeMsg
    <3> QED
      BY <3>1, ElementType
  <2>2. <<inbox[j].sym, inbox[j].ts>> \in Keys /\ Start(inbox[j].price) \in Candle
    BY <2>1, StartType DEF TradeMsg, Keys
  <2>3. Inside(Start(inbox[j].price), book[<<inbox[j].sym, inbox[j].ts>>])
    BY DEF PipelineWithin, Within
  <2> QED
    BY <1>1, <2>2, <2>3, WithinStays
<1>2. ASSUME NEW s \in Symbols, NEW p \in Prices, Trade(s, p),
             inbox'[i] = [sym |-> s, ts |-> now, price |-> p]
      PROVE  Inside(Start(inbox'[i].price), book'[<<inbox'[i].sym, inbox'[i].ts>>])
  <2>1. <<s, now>> \in Keys
    BY DEF TypeOK, Keys
  <2>2. book'[<<s, now>>] = Published(book[<<s, now>>], p)
    BY <1>2, <2>1 DEF Trade, TypeOK
  <2>3. Inside(Start(p), book'[<<s, now>>])
    <3>1. book[<<s, now>>] \in Candle \cup {NoRow}
      BY <2>1 DEF TypeOK
    <3>2. Inside(Start(p), Published(book[<<s, now>>], p))
      BY <3>1, PublishedGrows
    <3> QED
      BY <2>2, <3>2
  <2> QED
    BY <1>2, <2>3
<1> QED
  BY <1>1, <1>2, InboxStep DEF InboxFrom

LEMMA BucketWithinStep ==
    ASSUME TypeOK, PipelineWithin, [Next]_vars, Widens
    PROVE  /\ \A s \in Symbols : partial'[s] # NoRow =>
                  Inside(partial'[s].c, book'[<<s, partial'[s].ts>>])
           /\ \A i \in DOMAIN buffer' : Inside(buffer'[i].val.c, book'[buffer'[i].key])
<1> DEFINE Buckets == \A s \in Symbols : partial'[s] # NoRow =>
                          Inside(partial'[s].c, book'[<<s, partial'[s].ts>>])
           Buffered == \A i \in DOMAIN buffer' :
                          Inside(buffer'[i].val.c, book'[buffer'[i].key])
<1>0. LiveType
  BY TypeParts
<1>1. ASSUME NEW s \in Symbols, partial[s] # NoRow
      PROVE  /\ partial[s] \in Bucket /\ partial[s].c \in Candle
             /\ <<s, partial[s].ts>> \in Keys
             /\ Inside(partial[s].c, book[<<s, partial[s].ts>>])
             /\ Inside(partial[s].c, book'[<<s, partial[s].ts>>])
  <2>1. partial[s] \in Bucket
    BY <1>0, <1>1 DEF LiveType
  <2>2. partial[s].c \in Candle /\ <<s, partial[s].ts>> \in Keys
    BY <2>1 DEF Bucket, Keys
  <2>3. Inside(partial[s].c, book[<<s, partial[s].ts>>])
    BY <1>1 DEF PipelineWithin, Within
  <2> QED
    BY <2>1, <2>2, <2>3, WithinStays
<1>2. ASSUME NEW i \in DOMAIN buffer
      PROVE  Inside(buffer[i].val.c, book'[buffer[i].key])
  <2>1. buffer[i] \in Finalized
    BY <1>0, ElementType DEF LiveType
  <2>2. buffer[i].val.c \in Candle /\ buffer[i].key \in Keys
    BY <2>1, FinalizedFields
  <2>3. Inside(buffer[i].val.c, book[buffer[i].key])
    BY DEF PipelineWithin, Within
  <2> QED
    BY <2>2, <2>3, WithinStays
<1>3. UNCHANGED partial => Buckets
  BY <1>1
<1>4. UNCHANGED buffer => Buffered
  BY <1>2
<1>5. ASSUME NEW i \in {1, 2}, Watch(i) PROVE Buckets /\ Buffered
  <2> DEFINE t == inbox[i]
             cur == partial[t.sym]
             fin == [key |-> <<t.sym, cur.ts>>, val |-> [c |-> cur.c, flag |-> "ok"]]
  <2>1. t \in TradeMsg
    BY <1>0, <1>5, ElementType DEF Watch, LiveType
  <2>2. t.sym \in Symbols /\ t.ts \in Minutes /\ t.price \in Prices
    BY <2>1 DEF TradeMsg
  <2>3. Inside(Start(t.price), book[<<t.sym, t.ts>>])
    BY <1>5 DEF Watch, PipelineWithin, Within
  <2>4. UNCHANGED book
    BY <1>5 DEF Watch, exchange
  <2>5. OnTrade(t)
    BY <1>5 DEF Watch
  <2>6. /\ \A s \in Symbols \ {t.sym} : partial'[s] = partial[s]
        /\ \/ partial'[t.sym] = [ts |-> t.ts, c |-> Start(t.price)]
           \/ /\ cur \in Bucket /\ cur.ts = t.ts
              /\ partial'[t.sym] = [ts |-> cur.ts, c |-> Update(cur.c, t.price)]
        /\ UNCHANGED buffer \/ (cur \in Bucket /\ buffer' = Append(buffer, fin))
    BY <1>0, <2>1, <2>5, OnTradeEffect
  <2> HIDE DEF t, cur, fin
  <2>7. cur \in Bucket => /\ Inside(cur.c, book[<<t.sym, cur.ts>>])
                          /\ cur.c \in Candle
                          /\ <<t.sym, cur.ts>> \in Keys
    BY <1>1, <2>2, Constants DEF cur
  <2>8. Buckets
    <3>1. ASSUME cur \in Bucket, cur.ts = t.ts
          PROVE  Inside(Update(cur.c, t.price), book[<<t.sym, cur.ts>>])
      <4>1. book[<<t.sym, cur.ts>>] \in Candle \cup {NoRow}
        BY <3>1, <2>7 DEF TypeOK
      <4> QED
        BY <2>2, <2>3, <2>7, <3>1, <4>1, UpdateInside
    <3>2. partial'[t.sym] # NoRow =>
             Inside(partial'[t.sym].c, book'[<<t.sym, partial'[t.sym].ts>>])
      BY <2>3, <2>4, <2>6, <3>1
    <3> QED
      BY <1>1, <2>2, <2>6, <3>2
  <2>9. Buffered
    <3>1. ASSUME cur \in Bucket, buffer' = Append(buffer, fin) PROVE Buffered
      <4>1. fin \in Finalized
        BY <2>7, <3>1 DEF fin, Finalized
      <4>2. \A j \in DOMAIN Append(buffer, fin) :
              \/ Append(buffer, fin)[j] = fin
              \/ \E n \in DOMAIN buffer : Append(buffer, fin)[j] = buffer[n]
        BY <1>0, <4>1, AppendType DEF LiveType
      <4>3. Inside(fin.val.c, book'[fin.key])
        BY <2>4, <2>7, <3>1 DEF fin
      <4> QED
        BY <1>2, <3>1, <4>2, <4>3
    <3> QED
      BY <1>4, <2>6, <3>1
  <2> QED
    BY <2>8, <2>9
<1>6. CASE Flush
  BY <1>3, <1>6 DEF Flush
<1>7. CASE Restart
  BY <1>7 DEF Restart
<1>8. \/ \E i \in {1, 2} : Watch(i)
      \/ Flush \/ Restart
      \/ UNCHANGED partial /\ UNCHANGED buffer
  BY DEF Next, LiveNext, SweepStep, SweepStart, SweepFetch, SweepEnd, SweepWrite,
         FlushRaise, FlushLost, Malformed, Die, Reconnect, SweepRaise, CheckFetch,
         CheckRead, CheckUpdate, CheckFail, Tick, Trade, vars, live
<1> QED
  BY <1>3, <1>4, <1>5, <1>6, <1>7, <1>8

LEMMA PageWithinStep ==
    ASSUME TypeOK, PipelineWithin, [Next]_vars, Widens
    PROVE  \A m \in DOMAIN page' : Inside(page'[m], book'[<<sweep'.sym, m>>])
<1> DEFINE Fetched == \A m \in DOMAIN page' : Inside(page'[m], book'[<<sweep'.sym, m>>])
<1>0. SweepType
  BY TypeParts
<1>1. ASSUME UNCHANGED page, sweep'.sym = sweep.sym PROVE Fetched
  <2> TAKE m \in DOMAIN page'
  <2>1. page[m] \in Candle /\ <<sweep.sym, m>> \in Keys
    BY <1>0, <1>1 DEF SweepType, Keys
  <2>2. Inside(page[m], book[<<sweep.sym, m>>])
    BY <1>1 DEF PipelineWithin, Within
  <2> QED
    BY <1>1, <2>1, <2>2, WithinStays
<1>2. CASE SweepFetch
  <2>1. \A m \in PageMinutes : /\ <<sweep.sym, m>> \in Keys
                               /\ book[<<sweep.sym, m>>] # NoRow
    BY AvailableTyped, CandleFields DEF PageMinutes
  <2>2. \A m \in PageMinutes : Inside(book[<<sweep.sym, m>>], book[<<sweep.sym, m>>])
    BY <2>1 DEF PipelineWithin, Within
  <2>3. /\ page' = [m \in PageMinutes |-> book[<<sweep.sym, m>>]]
        /\ sweep'.sym = sweep.sym
        /\ UNCHANGED book
    BY <1>0, <1>2 DEF SweepFetch, SweepType, exchange
  <2> QED
    BY <2>2, <2>3
<1>3. CASE page' = NoPage
  BY <1>3, NoPageType
<1>4. SweepFetch \/ page' = NoPage \/ (UNCHANGED page /\ sweep'.sym = sweep.sym)
  BY <1>0 DEF Next, LiveNext, SweepStep, Watch, Flush, FlushRaise, FlushLost, Die,
         Reconnect, Malformed, Restart, SweepStart, SweepEnd, SweepWrite, SweepRaise,
         CheckFetch, CheckRead, CheckUpdate, CheckFail, Tick, Trade, vars, backfill, SweepType
<1> QED
  BY <1>1, <1>2, <1>3, <1>4

LEMMA PipelineStep ==
    ASSUME TypeOK, PipelineWithin, [Next]_vars PROVE PipelineWithin'
<1>1. Widens
  BY BookStep
<1> QED
  BY <1>1, BookWithinStep, InboxWithinStep, BucketWithinStep, PageWithinStep
  DEF PipelineWithin, Within

LEMMA StoredStep ==
    ASSUME TypeOK, PipelineWithin, CheckRefersBack, StoredWithinExchange, [Next]_vars
    PROVE  StoredWithinExchange'
<1>1. Widens /\ RowsKept
  BY BookStep, RowsStep
<1>2. SUFFICES ASSUME NEW k \in Keys, rows'[k] # NoRow
               PROVE  Inside(rows'[k].c, book'[k])
  BY DEF StoredWithinExchange, Within
<1>3. CASE rows[k] # NoRow
  <2>1. rows'[k].c = rows[k].c
    BY <1>1, <1>3 DEF RowsKept, KeptRow
  <2>2. rows[k].c \in Candle
    BY <1>3 DEF TypeOK, Row
  <2>3. Inside(rows[k].c, book[k])
    BY <1>3 DEF StoredWithinExchange, Within
  <2> QED
    BY <1>1, <2>1, <2>2, <2>3, WithinStays
<1>4. CASE rows[k] = NoRow
  <2>1. NewRow(k)
    BY <1>1 DEF RowsKept
  <2>2. ASSUME NEW i \in DOMAIN buffer, buffer[i].key = k, buffer[i].val = rows'[k]
        PROVE  Inside(rows'[k].c, book'[k])
    <3>1. buffer[i] \in Finalized
      <4>1. buffer \in Seq(Finalized)
        BY DEF TypeOK
      <4> QED
        BY <4>1, ElementType
    <3>2. buffer[i].val.c \in Candle
      BY <3>1, FinalizedFields
    <3>3. Inside(buffer[i].val.c, book[k])
      BY <2>2 DEF PipelineWithin, Within
    <3> QED
      BY <1>1, <2>2, <3>2, <3>3, WithinStays
  <2>3. ASSUME k[1] = sweep.sym, k[2] \in DOMAIN page,
               rows'[k] = [c |-> page[k[2]], flag |-> "ok"]
        PROVE  Inside(rows'[k].c, book'[k])
    <3>1. k = <<sweep.sym, k[2]>>
      BY <2>3 DEF Keys
    <3>2. page[k[2]] \in Candle
      BY <2>3 DEF TypeOK
    <3>3. Inside(page[k[2]], book[k])
      BY <2>3, <3>1 DEF PipelineWithin, Within
    <3>4. Inside(page[k[2]], book'[k])
      BY <1>1, <3>2, <3>3, WithinStays
    <3> QED
      BY <2>3, <3>4
  <2> QED
    BY <1>2, <1>4, <2>1, <2>2, <2>3 DEF NewRow
<1> QED
  BY <1>3, <1>4
----------------------------------------------------------------------------
(* The divergence check. *)

LEMMA ClosedFixed ==
    ASSUME TypeOK, Widens, NEW s \in Symbols, NEW m \in Minutes, m < now
    PROVE  book'[<<s, m>>] = book[<<s, m>>] /\ m < now'
<1>1. <<s, m>> \in Keys /\ <<s, m>>[2] = m /\ m # now
  BY DEF Keys, Minutes, TypeOK
<1>2. m < now'
  BY Constants DEF Widens, TypeOK, Minutes
<1> QED
  BY <1>1, <1>2 DEF Widens

LEMMA ReferenceClosed ==
    ASSUME TypeOK, NEW s \in Symbols, NEW m \in Minutes, IsReference(s, m)
    PROVE  m < now /\ Traded(s, m)
<1> DEFINE Later == {k \in Recent(s) : m < k}
<1>1. Later # {}
  BY FS_EmptySet DEF IsReference
<1>2. PICK k \in Later : TRUE
  BY <1>1
<1>3. k \in Minutes /\ k <= now /\ m < k
  BY <1>2 DEF Recent
<1>4. Traded(s, m)
  BY DEF IsReference, Recent
<1> QED
  BY <1>3, <1>4, Constants DEF TypeOK, Minutes

LEMMA CheckStep ==
    ASSUME TypeOK, CheckRefersBack, [Next]_vars PROVE CheckRefersBack'
<1>0. Widens /\ RowsKept /\ CheckType
  BY BookStep, RowsStep, TypeParts
<1>1. ASSUME NEW s \in Symbols, CheckFetch(s) PROVE CheckRefersBack'
  <2>1. PICK m \in Minutes :
          /\ IsReference(s, m)
          /\ check' = [pc |-> "read", sym |-> s, ref |-> m, close |-> book[<<s, m>>].close]
    BY <1>1 DEF CheckFetch
  <2>2. m < now /\ Traded(s, m)
    BY <2>1, ReferenceClosed
  <2>3. UNCHANGED <<now, book>>
    BY <1>1 DEF CheckFetch, exchange
  <2> QED
    BY <2>1, <2>2, <2>3 DEF CheckRefersBack, Traded
<1>2. CASE CheckRead
  <2>1. UNCHANGED <<now, book, rows>>
    BY <1>2 DEF CheckRead, exchange
  <2>2. CASE check' = NoCheck(check.sym)
    BY <2>2 DEF CheckRefersBack, NoCheck
  <2>3. CASE check' # NoCheck(check.sym)
    <3> DEFINE row == rows[<<check.sym, check.ref>>]
    <3>1. /\ row # NoRow /\ row.c.close # check.close
          /\ check' = [check EXCEPT !.pc = "update"]
      BY <1>2, <2>3 DEF CheckRead
    <3>2. /\ check'.pc = "update" /\ check'.sym = check.sym
          /\ check'.ref = check.ref /\ check'.close = check.close
      BY <1>0, <3>1 DEF CheckType
    <3>3. check.pc # "idle"
      BY <1>2 DEF CheckRead
    <3> QED
      BY <2>1, <3>1, <3>2, <3>3 DEF CheckRefersBack, Traded
  <2> QED
    BY <2>2, <2>3
<1>3. CASE check' = NoCheck(check.sym)
  BY <1>3 DEF CheckRefersBack, NoCheck
<1>4. CASE UNCHANGED check
  <2> DEFINE k == <<check.sym, check.ref>>
  <2>1. check.sym \in Symbols /\ check.ref \in Minutes /\ k \in Keys
    BY <1>0 DEF CheckType, Keys
  <2>2. check.pc # "idle" => book'[k] = book[k] /\ check.ref < now'
    BY <1>0, <2>1, ClosedFixed DEF CheckRefersBack
  <2>3. rows[k] # NoRow => rows'[k] # NoRow /\ rows'[k].c = rows[k].c
    BY <1>0, <2>1 DEF RowsKept, KeptRow
  <2> QED
    BY <1>4, <2>2, <2>3 DEF CheckRefersBack, Traded
<1>5. \/ \E s \in Symbols : CheckFetch(s)
      \/ CheckRead
      \/ check' = NoCheck(check.sym)
      \/ UNCHANGED check
  BY DEF Next, LiveNext, SweepStep, Watch, Flush, Reconnect, SweepStart, SweepFetch,
         SweepEnd, SweepWrite, SweepRaise, Tick, Trade, vars, FlushRaise, FlushLost,
         Malformed, Die, Restart, CheckUpdate, CheckFail
<1> QED
  BY <1>1, <1>2, <1>3, <1>4, <1>5

LEMMA FlagStep ==
    ASSUME TypeOK, CheckRefersBack, FlagIsTrue, [Next]_vars PROVE FlagIsTrue'
<1>1. Widens /\ RowsKept /\ CheckType
  BY BookStep, RowsStep, TypeParts
<1>2. SUFFICES ASSUME NEW k \in Keys, rows'[k] # NoRow,
                      rows'[k].flag = "ws_rest_divergence"
               PROVE  k[2] < now' /\ rows'[k].c.close # book'[k].close
  BY DEF FlagIsTrue
<1>3. rows[k] # NoRow
  <2>1. ASSUME rows[k] = NoRow PROVE rows'[k].flag = "ok"
    <3>1. \A i \in DOMAIN buffer : buffer[i].val.flag = "ok"
      <4>1. buffer \in Seq(Finalized)
        BY DEF TypeOK
      <4> QED
        BY <4>1, ElementType, FinalizedFields
    <3> QED
      BY <1>1, <1>2, <2>1, <3>1 DEF RowsKept, NewRow
  <2> QED
    BY <1>2, <2>1
<1>4. rows'[k].c = rows[k].c
  BY <1>1, <1>3 DEF RowsKept, KeptRow
<1>5. k[2] < now /\ rows[k].c.close # book[k].close
  <2>1. CASE rows[k].flag = "ws_rest_divergence"
    BY <1>3, <2>1 DEF FlagIsTrue
  <2>2. CASE rows[k].flag # "ws_rest_divergence"
    <3>1. check.pc = "update" /\ k = <<check.sym, check.ref>>
      BY <1>1, <1>2, <1>3, <2>2 DEF RowsKept, KeptRow
    <3> QED
      BY <3>1 DEF CheckRefersBack
  <2> QED
    BY <2>1, <2>2
<1>6. k[1] \in Symbols /\ k[2] \in Minutes /\ k = <<k[1], k[2]>>
  BY DEF Keys
<1>7. book'[k] = book[k] /\ k[2] < now'
  BY <1>1, <1>5, <1>6, ClosedFixed
<1> QED
  BY <1>4, <1>5, <1>7
----------------------------------------------------------------------------
(* The sweep. *)

LEMMA ClosedKept ==
    ASSUME TypeOK, Widens, RowsKept, NEW s \in Symbols, NEW m \in Nat, m < now
    PROVE  /\ book'[<<s, m>>] = book[<<s, m>>]
           /\ rows[<<s, m>>] # NoRow => rows'[<<s, m>>] # NoRow
<1>1. m \in Minutes
  BY Constants DEF TypeOK, Minutes
<1>2. <<s, m>> \in Keys
  BY <1>1 DEF Keys
<1> QED
  BY <1>1, <1>2, ClosedFixed DEF RowsKept, KeptRow

(* A page has every available minute up to any of its own. *)
LEMMA PageDownClosed ==
    ASSUME TypeOK, NEW m \in PageMinutes, NEW k \in Available, k <= m
    PROVE  k \in PageMinutes
<1> DEFINE Upto(j) == {i \in Available : i <= j}
<1>1. sweep.cursor \in Nat /\ now \in Nat
  BY Constants DEF TypeOK, Minutes
<1>2. \A i \in Available : i \in Nat
  BY AvailableTyped
<1>3. m \in Available /\ Cardinality(Upto(m)) <= PageLimit
  BY DEF PageMinutes
<1>4. IsFiniteSet(sweep.cursor..now)
  BY <1>1, FS_Interval
<1>5. Upto(m) \subseteq sweep.cursor..now
  BY DEF Available
<1>6. IsFiniteSet(Upto(m))
  BY <1>4, <1>5, FS_Subset
<1>7. Upto(k) \subseteq Upto(m)
  BY <1>2, <1>3
<1> HIDE DEF Upto
<1>8. /\ Cardinality(Upto(k)) <= Cardinality(Upto(m))
      /\ Cardinality(Upto(k)) \in Nat /\ Cardinality(Upto(m)) \in Nat
  BY <1>6, <1>7, FS_Subset, FS_CardinalityType
<1>9. Cardinality(Upto(k)) <= PageLimit
  BY <1>3, <1>8, Constants
<1> QED
  BY <1>9 DEF PageMinutes, Upto

SweepInv == SweepKeepsUp /\ SweepCovers

LEMMA SweepInvStep ==
    ASSUME TypeOK, CheckRefersBack, SweepInv, [Next]_vars PROVE SweepInv'
<1>0. /\ Widens /\ RowsKept /\ SweepType /\ now \in Nat /\ now' \in Nat /\ now <= now'
      /\ sweep.since \in Nat /\ sweep.cursor \in Nat /\ sweep.until \in Nat
      /\ sweep.sym \in Symbols /\ sweep.until <= now
  <2>1. Widens /\ RowsKept /\ SweepType /\ now \in Minutes
    BY BookStep, RowsStep, TypeParts
  <2> QED
    BY <2>1, Constants DEF Widens, SweepType, Minutes, SweepInv, SweepKeepsUp
<1>1. \A m \in Nat : m < sweep.until =>
         /\ book'[<<sweep.sym, m>>] = book[<<sweep.sym, m>>]
         /\ rows[<<sweep.sym, m>>] # NoRow => rows'[<<sweep.sym, m>>] # NoRow
  BY <1>0, ClosedKept
<1>2. CASE UNCHANGED backfill
  <2>1. sweep' = sweep /\ page' = page
    BY <1>2 DEF backfill
  <2>2. \A m \in sweep.since..(sweep.cursor - 1) : m \in Nat
    BY <1>0
  <2>3. \A m \in DOMAIN page : \A k \in sweep.cursor..m : k \in Nat
    BY <1>0
  <2>4. \A m \in sweep.since..(sweep.until - 1) : m \in Nat /\ m < sweep.until
    BY <1>0
  <2>5. SweepKeepsUp'
    BY <1>0, <1>1, <2>1, <2>2, <2>3 DEF SweepInv, SweepKeepsUp, Sweeping, Traded
  <2>6. SweepCovers'
    BY <1>0, <1>1, <2>1, <2>4 DEF SweepInv, SweepCovers, Traded
  <2> QED
    BY <2>5, <2>6 DEF SweepInv
<1>3. ASSUME NEW s \in Symbols, SweepStart(s) PROVE SweepInv'
  <2> DEFINE since == IF now < Window THEN 0 ELSE now - Window + 1
  <2>1. since \in Nat
    BY <1>0, Constants
  <2>2. sweep' = [pc |-> "fetch", sym |-> s, since |-> since, cursor |-> since,
                  until |-> now]
    BY <1>3 DEF SweepStart
  <2> HIDE DEF since
  <2>3. \A m \in sweep'.since..(sweep'.cursor - 1) : FALSE
    BY <2>1, <2>2
  <2> QED
    BY <1>0, <2>2, <2>3 DEF SweepInv, SweepKeepsUp, SweepCovers, Sweeping
<1>4. CASE SweepFetch
  <2>1. /\ sweep'.pc = "write" /\ sweep'.sym = sweep.sym /\ sweep'.since = sweep.since
        /\ sweep'.cursor = sweep.cursor /\ sweep'.until = sweep.until
        /\ sweep.pc = "fetch"
        /\ UNCHANGED <<now, book, rows>>
    BY <1>0, <1>4 DEF SweepFetch, SweepType, exchange
  <2>2. DOMAIN page' = PageMinutes
    BY <1>4 DEF SweepFetch
  <2>3. \A m \in PageMinutes : \A k \in sweep.cursor..m :
           k < sweep.until /\ Traded(sweep.sym, k) => k \in PageMinutes
    <3> TAKE m \in PageMinutes
    <3> TAKE k \in sweep.cursor..m
    <3> HAVE k < sweep.until /\ Traded(sweep.sym, k)
    <3>1. m \in Nat
      BY AvailableTyped DEF PageMinutes
    <3>2. k \in Available /\ k <= m
      BY <1>0, <3>1 DEF Available
    <3> QED
      BY <3>2, PageDownClosed
  <2> QED
    BY <1>0, <2>1, <2>2, <2>3 DEF SweepInv, SweepKeepsUp, SweepCovers, Sweeping, Traded
<1>5. CASE SweepEnd
  <2>1. /\ sweep'.pc = "done" /\ sweep'.sym = sweep.sym /\ sweep'.since = sweep.since
        /\ sweep'.cursor = sweep.cursor /\ sweep'.until = sweep.until
        /\ sweep.pc = "fetch" /\ (sweep.cursor > sweep.until \/ Available = {})
        /\ UNCHANGED <<now, book, rows>>
    BY <1>0, <1>5 DEF SweepEnd, SweepType, exchange
  <2>2. ASSUME NEW m \in sweep.since..(sweep.until - 1), Traded(sweep.sym, m)
        PROVE  rows[<<sweep.sym, m>>] # NoRow
    <3>1. m < sweep.cursor
      <4>1. m \in Nat /\ m < sweep.until
        BY <1>0
      <4>2. CASE Available = {}
        BY <1>0, <2>2, <4>1, <4>2 DEF Available
      <4>3. CASE sweep.cursor > sweep.until
        BY <1>0, <4>1, <4>3
      <4> QED
        BY <2>1, <4>2, <4>3
    <3> QED
      BY <1>0, <2>1, <2>2, <3>1 DEF SweepInv, SweepKeepsUp, Sweeping
  <2> QED
    BY <1>0, <2>1, <2>2 DEF SweepInv, SweepKeepsUp, SweepCovers, Sweeping, Traded
<1>6. CASE SweepWrite
  <2>1. PICK l \in Minutes :
          /\ IsLast(l)
          /\ sweep' = [sweep EXCEPT !.pc = "fetch", !.cursor = l + 1]
    BY <1>6 DEF SweepWrite
  <2>2. /\ sweep'.pc = "fetch" /\ sweep'.sym = sweep.sym /\ sweep'.since = sweep.since
        /\ sweep'.cursor = l + 1 /\ sweep'.until = sweep.until
        /\ sweep.pc = "write" /\ l \in Nat
        /\ UNCHANGED <<now, book>>
    <3>1. sweep.pc = "write" /\ UNCHANGED <<now, book>>
      BY <1>6 DEF SweepWrite, exchange
    <3>2. l \in Nat
      BY Constants DEF Minutes
    <3>3. sweep \in [pc : {"idle", "fetch", "write", "done"}, sym : Symbols,
                    since : Nat, cursor : Nat, until : Nat]
      BY <1>0 DEF SweepType
    <3> QED
      BY <2>1, <3>1, <3>2, <3>3
  <2>3. ASSUME NEW m \in sweep.since..l, m < sweep.until, Traded(sweep.sym, m)
        PROVE  rows'[<<sweep.sym, m>>] # NoRow
    <3>1. m \in Nat /\ l \in DOMAIN page
      BY <1>0, <2>1, <2>2 DEF IsLast
    <3>2. CASE m < sweep.cursor
      <4>1. rows[<<sweep.sym, m>>] # NoRow
        BY <1>0, <2>2, <2>3, <3>1, <3>2 DEF SweepInv, SweepKeepsUp, Sweeping
      <4> QED
        BY <1>1, <2>3, <3>1, <4>1
    <3>3. CASE ~(m < sweep.cursor)
      <4>1. m \in sweep.cursor..l
        BY <1>0, <2>2, <3>1, <3>3
      <4>2. m \in DOMAIN page
        BY <2>2, <2>3, <3>1, <4>1 DEF SweepInv, SweepKeepsUp
      <4>3. <<sweep.sym, m>> \in Keys
        BY <1>0, <4>2 DEF SweepType, Keys
      <4>4. page[m] \in Candle
        BY <1>0, <4>2 DEF SweepType
      <4>5. [c |-> page[m], flag |-> "ok"] # NoRow
        BY <4>4, Constants DEF Row, Flags
      <4> QED
        BY <1>6, <4>2, <4>3, <4>5 DEF SweepWrite, PageEffect
    <3> QED
      BY <3>2, <3>3
  <2>4. \A m \in sweep'.since..(sweep'.cursor - 1) : m \in sweep.since..l
    BY <1>0, <2>2
  <2>5. ASSUME NEW m \in sweep'.since..(sweep'.cursor - 1), m < sweep'.until,
               book'[<<sweep'.sym, m>>] # NoRow
        PROVE  rows'[<<sweep'.sym, m>>] # NoRow
    BY <2>2, <2>3, <2>4, <2>5 DEF Traded
  <2>6. SweepKeepsUp'
    BY <1>0, <2>2, <2>5 DEF SweepKeepsUp, Sweeping, Traded
  <2>7. SweepCovers'
    BY <2>2 DEF SweepCovers
  <2> QED
    BY <2>6, <2>7 DEF SweepInv
<1>7. CASE sweep' = NoSweep(sweep.sym)
  BY <1>0, <1>7 DEF SweepInv, SweepKeepsUp, SweepCovers, Sweeping, NoSweep
<1>8. \/ \E s \in Symbols : SweepStart(s)
      \/ SweepFetch \/ SweepEnd \/ SweepWrite \/ sweep' = NoSweep(sweep.sym)
      \/ UNCHANGED backfill
  BY DEF Next, LiveNext, SweepStep, Watch, Flush, FlushRaise, FlushLost, Die, Reconnect,
         Malformed, Restart, SweepRaise, CheckFetch, CheckRead, CheckUpdate, CheckFail,
         Tick, Trade, vars, backfill
<1> QED
  BY <1>2, <1>3, <1>4, <1>5, <1>6, <1>7, <1>8
----------------------------------------------------------------------------
LEMMA InitCandles == Init => CandlesInv
<1> SUFFICES ASSUME Init PROVE CandlesInv
  OBVIOUS
<1>1. 0 \in Minutes /\ now = 0
  BY Constants DEF Minutes, Init
<1>2. PICK s \in Symbols : sweep = NoSweep(s)
  BY DEF Init
<1>3. PICK r \in Symbols : check = NoCheck(r)
  BY DEF Init
<1>4. LiveType
  BY <1>1, EmptyType DEF Init, LiveType
<1>5. SweepType
  BY <1>2, NoPageType DEF Init, SweepType, NoSweep
<1>6. CheckType
  BY <1>1, <1>3 DEF CheckType, NoCheck
<1>7. TypeOK
  BY <1>1, <1>4, <1>5, <1>6, TypeParts DEF Init
<1>8. PipelineWithin
  BY NoPageType DEF Init, PipelineWithin
<1>9. StoredWithinExchange /\ FlagIsTrue
  BY DEF Init, StoredWithinExchange, FlagIsTrue
<1>10. SweepKeepsUp /\ SweepCovers
  BY <1>1, <1>2 DEF NoSweep, SweepKeepsUp, SweepCovers, Sweeping
<1>11. CheckRefersBack
  BY <1>3 DEF NoCheck, CheckRefersBack
<1> QED
  BY <1>7, <1>8, <1>9, <1>10, <1>11 DEF CandlesInv

LEMMA CandlesInvStep == CandlesInv /\ [Next]_vars => CandlesInv'
<1> SUFFICES ASSUME CandlesInv, [Next]_vars PROVE CandlesInv'
  OBVIOUS
<1>1. /\ TypeOK /\ PipelineWithin /\ StoredWithinExchange /\ CheckRefersBack
      /\ FlagIsTrue /\ SweepInv
  BY DEF CandlesInv, SweepInv
<1>2. TypeOK' /\ PipelineWithin' /\ StoredWithinExchange' /\ CheckRefersBack'
  BY <1>1, TypeStep, PipelineStep, StoredStep, CheckStep
<1>3. FlagIsTrue' /\ SweepInv'
  BY <1>1, FlagStep, SweepInvStep
<1> QED
  BY <1>2, <1>3 DEF CandlesInv, SweepInv

(* The inductive invariant: the pipeline lies within the exchange's candles, *)
(* the sweep has stored what it passed, the check refers to closed minutes.  *)
THEOREM CandlesInvariant == Spec => []CandlesInv
  BY InitCandles, CandlesInvStep, PTL DEF Spec

(* Type correctness of the live loop, the sweep, the check and the table. *)
THEOREM CandlesTypeCorrect == Spec => []TypeOK
<1>1. CandlesInv => TypeOK
  BY DEF CandlesInv
<1> QED
  BY <1>1, CandlesInvariant, PTL

(* live_candles.py, backfill.py: no stored candle reaches outside the         *)
(* exchange's candle of its symbol and minute, whatever is late, lost or      *)
(* restarted.                                                                 *)
THEOREM StoredWithinExchangeAlways == Spec => []StoredWithinExchange
<1>1. CandlesInv => StoredWithinExchange
  BY DEF CandlesInv
<1> QED
  BY <1>1, CandlesInvariant, PTL

(* streams.py: the flag ws_rest_divergence is only ever put on a candle that  *)
(* differs from the final candle of the exchange.                             *)
THEOREM FlagIsTrueAlways == Spec => []FlagIsTrue
<1>1. CandlesInv => FlagIsTrue
  BY DEF CandlesInv
<1> QED
  BY <1>1, CandlesInvariant, PTL

(* backfill.py: the pagination leaves no gap, for every page size.            *)
THEOREM SweepCoversAlways == Spec => []SweepCovers
<1>1. CandlesInv => SweepCovers
  BY DEF CandlesInv
<1> QED
  BY <1>1, CandlesInvariant, PTL

(* D-62 over the live loop, the sweep and the check together. *)
THEOREM CandlesNeverRewrittenAlways == Spec => CandlesNeverRewritten
<1>1. ASSUME CandlesInv, [Next]_vars
      PROVE  [\A k \in Keys : rows[k] # NoRow =>
                /\ rows'[k] # NoRow
                /\ rows'[k].c = rows[k].c
                /\ rows'[k].flag # rows[k].flag =>
                      rows[k].flag = "ok" /\ rows'[k].flag = "ws_rest_divergence"]_vars
  BY <1>1, RowsStep DEF CandlesInv, RowsKept, KeptRow
<1> QED
  BY <1>1, CandlesInvariant, PTL DEF Spec, CandlesNeverRewritten

(* A fetched page has nothing from before the cursor. *)
PageAhead == sweep.pc = "write" => \A m \in DOMAIN page : sweep.cursor <= m

LEMMA PageAheadAlways == Spec => []PageAhead
<1>1. Init => PageAhead
  BY DEF Init, PageAhead, NoSweep
<1>2. CandlesInv /\ PageAhead /\ [Next]_vars => PageAhead'
  <2> SUFFICES ASSUME TypeOK, PageAhead, [Next]_vars PROVE PageAhead'
    BY DEF CandlesInv
  <2>1. CASE SweepFetch
    <3>1. /\ page' = [m \in PageMinutes |-> book[<<sweep.sym, m>>]]
          /\ sweep'.cursor = sweep.cursor
      BY <2>1 DEF SweepFetch, TypeOK
    <3>2. \A m \in PageMinutes : sweep.cursor <= m
      BY AvailableTyped DEF PageMinutes
    <3> QED
      BY <3>1, <3>2 DEF PageAhead
  <2>2. CASE sweep'.pc # "write"
    BY <2>2 DEF PageAhead
  <2>3. CASE UNCHANGED backfill
    BY <2>3 DEF PageAhead, backfill
  <2>4. SweepFetch \/ sweep'.pc # "write" \/ UNCHANGED backfill
    <3>1. SweepType
      BY TypeParts
    <3>2. \/ SweepFetch \/ UNCHANGED backfill
          \/ sweep' = NoSweep(sweep.sym) \/ sweep' = [sweep EXCEPT !.pc = "done"]
          \/ \E s \in Symbols : SweepStart(s)
          \/ SweepWrite
      BY DEF Next, LiveNext, SweepStep, Watch, Flush, FlushRaise, FlushLost, Die, Reconnect,
             Malformed, Restart, SweepEnd, SweepRaise, CheckFetch, CheckRead, CheckUpdate,
             CheckFail, Tick, Trade, vars
    <3>3. CASE SweepWrite
      BY <3>1, <3>3 DEF SweepWrite, SweepType
    <3>4. CASE \E s \in Symbols : SweepStart(s)
      BY <3>4 DEF SweepStart
    <3>5. CASE sweep' = NoSweep(sweep.sym)
      BY <3>5 DEF NoSweep
    <3>6. CASE sweep' = [sweep EXCEPT !.pc = "done"]
      BY <3>1, <3>6 DEF SweepType
    <3> QED
      BY <3>2, <3>3, <3>4, <3>5, <3>6
  <2> QED
    BY <2>1, <2>2, <2>3, <2>4
<1> QED
  BY <1>1, <1>2, CandlesInvariant, PTL DEF Spec

(* Each page moves the cursor on, and no further than past the clock. *)
SweepAdvances ==
    [][SweepWrite => sweep.cursor < sweep'.cursor /\ sweep'.cursor <= MaxMinute + 1]_vars

(* backfill.py: the cursor of a sweep grows with every page, so a sweep      *)
(* fetches no more pages than its window has minutes, however long trading   *)
(* goes on beside it: the measure behind SweepEnds.                          *)
THEOREM SweepAdvancesAlways == Spec => SweepAdvances
<1>1. CandlesInv /\ PageAhead /\ [Next]_vars =>
         [SweepWrite => sweep.cursor < sweep'.cursor /\ sweep'.cursor <= MaxMinute + 1]_vars
  <2> SUFFICES ASSUME TypeOK, PageAhead, SweepWrite
               PROVE  sweep.cursor < sweep'.cursor /\ sweep'.cursor <= MaxMinute + 1
    BY DEF CandlesInv
  <2>1. PICK m \in Minutes : m \in DOMAIN page /\ sweep'.cursor = m + 1
    BY DEF SweepWrite, IsLast, TypeOK
  <2>2. m \in Nat /\ m <= MaxMinute /\ sweep.cursor \in Nat /\ MaxMinute \in Nat
    BY Constants DEF Minutes, TypeOK
  <2>3. sweep.cursor <= m
    BY <2>1 DEF PageAhead, SweepWrite
  <2> QED
    BY <2>1, <2>2, <2>3
<1> QED
  BY <1>1, CandlesInvariant, PageAheadAlways, PTL DEF Spec, SweepAdvances
=============================================================================
