------------------------- MODULE LiveCandlesProofs -------------------------
(***************************************************************************)
(* Where the trades go: no trade is counted twice whatever happens to the  *)
(* live loop, and while nothing happens to it the candles it stores are    *)
(* those of the exchange and no minute is lost.                            *)
(***************************************************************************)
EXTENDS CandlesProofs

TradeKey(t) == <<t.sym, t.ts>>

(* The positions of the trades of one symbol and minute. *)
At(seq, k) == {i \in DOMAIN seq : TradeKey(seq[i]) = k}

(* Trades of k still on their way, and all that the exchange counted. *)
Count(k) == Cardinality(At(inbox, k))
Vol(k) == IF book[k] = NoRow THEN 0 ELSE book[k].volume

(* A trade is in at most one of the inbox and the bucket of its minute. *)
InboxCounted == \A k \in Keys : Count(k) <= Vol(k)
BucketCounted ==
    \A s \in Symbols : partial[s] # NoRow =>
        partial[s].c.volume + Count(<<s, partial[s].ts>>) <= Vol(<<s, partial[s].ts>>)
BufferCounted == \A i \in DOMAIN buffer : buffer[i].val.c.volume <= Vol(buffer[i].key)
PageCounted == \A m \in DOMAIN page : page[m].volume <= Vol(<<sweep.sym, m>>)
RowsCounted == \A k \in Keys : rows[k] # NoRow => rows[k].c.volume <= Vol(k)

Counted == InboxCounted /\ BucketCounted /\ BufferCounted /\ PageCounted /\ RowsCounted
----------------------------------------------------------------------------
(* COUNTING THE TRADES OF A MINUTE *)

LEMMA AtFinite ==
    ASSUME NEW S, NEW seq \in Seq(S), NEW k
    PROVE  IsFiniteSet(At(seq, k)) /\ Cardinality(At(seq, k)) \in Nat
<1>1. Len(seq) \in Nat /\ DOMAIN seq = 1..Len(seq)  OBVIOUS
<1>2. IsFiniteSet(1..Len(seq))  BY <1>1, FS_Interval
<1>3. At(seq, k) \in SUBSET (1..Len(seq))  BY <1>1 DEF At
<1> QED  BY <1>2, <1>3, FS_Subset, FS_CardinalityType

LEMMA CountEmpty == ASSUME NEW k PROVE Cardinality(At(<< >>, k)) = 0
<1>1. At(<< >>, k) = {}  BY DEF At
<1> QED  BY <1>1, FS_EmptySet

(* A trade that arrives adds one to its own minute and to no other. *)
LEMMA CountAppend ==
    ASSUME NEW S, NEW seq \in Seq(S), NEW t \in S, NEW k
    PROVE  Cardinality(At(Append(seq, t), k)) =
              Cardinality(At(seq, k)) + (IF k = TradeKey(t) THEN 1 ELSE 0)
<1> DEFINE n == Len(seq) + 1
           A == At(seq, k)
<1>1. /\ n \in Nat /\ DOMAIN seq = 1..Len(seq) /\ DOMAIN Append(seq, t) = 1..n
      /\ Append(seq, t)[n] = t
      /\ \A i \in 1..Len(seq) : Append(seq, t)[i] = seq[i]
  OBVIOUS
<1>2. n \notin A  BY <1>1 DEF At
<1>3. IsFiniteSet(A) /\ Cardinality(A) \in Nat  BY AtFinite
<1>4. CASE k = TradeKey(t)
  <2>1. At(Append(seq, t), k) = A \cup {n}
    <3>1. ASSUME NEW i PROVE i \in 1..n <=> i \in 1..Len(seq) \/ i = n  BY <1>1
    <3> QED  BY <1>1, <1>4, <3>1 DEF At
  <2> HIDE DEF n, A
  <2> QED  BY <1>2, <1>3, <1>4, <2>1, FS_AddElement DEF A
<1>5. CASE k # TradeKey(t)
  <2>1. At(Append(seq, t), k) = A
    <3>1. ASSUME NEW i PROVE i \in 1..n <=> i \in 1..Len(seq) \/ i = n  BY <1>1
    <3> QED  BY <1>1, <1>5, <3>1 DEF At
  <2> QED  BY <1>3, <1>5, <2>1
<1> QED  BY <1>4, <1>5

(* The trade that is taken out is no longer counted, and no other is added.  *)
LEMMA CountWithout ==
    ASSUME NEW S, NEW seq \in Seq(S), NEW i \in DOMAIN seq, NEW k
    PROVE  Cardinality(At(Without(seq, i), k)) <=
              Cardinality(At(seq, k)) - (IF k = TradeKey(seq[i]) THEN 1 ELSE 0)
<1> DEFINE W == Without(seq, i)
           A == At(seq, k)
           f == [j \in At(W, k) |-> IF j < i THEN j ELSE j + 1]
<1>1. /\ Len(seq) \in Nat /\ DOMAIN seq = 1..Len(seq) /\ i \in 1..Len(seq)
      /\ DOMAIN W = 1..(Len(seq) - 1)
      /\ \A j \in 1..(Len(seq) - 1) : W[j] = IF j < i THEN seq[j] ELSE seq[j + 1]
  BY DEF Without
<1>2. \A j \in At(W, k) : /\ j \in 1..(Len(seq) - 1)
                          /\ f[j] \in A \ {i}
  <2> TAKE j \in At(W, k)
  <2>1. j \in 1..(Len(seq) - 1) /\ TradeKey(W[j]) = k  BY <1>1 DEF At
  <2>2. CASE j < i
    <3>1. f[j] = j /\ j \in 1..Len(seq) /\ seq[j] = W[j] /\ j # i  BY <1>1, <2>1, <2>2
    <3> QED  BY <1>1, <2>1, <3>1 DEF At
  <2>3. CASE ~(j < i)
    <3>1. f[j] = j + 1 /\ j + 1 \in 1..Len(seq) /\ seq[j + 1] = W[j] /\ j + 1 # i
      BY <1>1, <2>1, <2>3
    <3> QED  BY <1>1, <2>1, <3>1 DEF At
  <2> QED  BY <2>2, <2>3
<1>3. \A a, b \in At(W, k) : f[a] = f[b] => a = b
  <2> TAKE a \in At(W, k), b \in At(W, k)
  <2>1. a \in Int /\ b \in Int /\ i \in Int  BY <1>1, <1>2
  <2> QED  BY <2>1
<1>4. f \in Injection(At(W, k), A \ {i})
  <2>1. f \in [At(W, k) -> A \ {i}]  BY <1>2
  <2> HIDE DEF f
  <2> QED  BY <1>3, <2>1 DEF Injection, IsInjective
<1>5. IsFiniteSet(A) /\ Cardinality(A) \in Nat  BY AtFinite
<1>6. i \in A <=> k = TradeKey(seq[i])  BY DEF At
<1> HIDE DEF f, A, W
<1>7. /\ IsFiniteSet(A \ {i})
      /\ Cardinality(A \ {i}) = Cardinality(A) - (IF k = TradeKey(seq[i]) THEN 1 ELSE 0)
  BY <1>5, <1>6, FS_RemoveElement
<1>8. Cardinality(At(W, k)) <= Cardinality(A \ {i})  BY <1>4, <1>7, FS_Injection
<1> QED  BY <1>7, <1>8 DEF W, A

(* What a reconnect loses is not counted either. *)
LEMMA CountSubSeq ==
    ASSUME NEW S, NEW seq \in Seq(S), NEW n \in 1..Len(seq), NEW k
    PROVE  Cardinality(At(SubSeq(seq, n + 1, Len(seq)), k)) <= Cardinality(At(seq, k))
<1> DEFINE W == SubSeq(seq, n + 1, Len(seq))
           f == [j \in At(W, k) |-> j + n]
<1>1. /\ Len(seq) \in Nat /\ DOMAIN seq = 1..Len(seq) /\ n \in 1..Len(seq)
      /\ DOMAIN W = 1..(Len(seq) - n)
      /\ \A j \in 1..(Len(seq) - n) : W[j] = seq[j + n]
  OBVIOUS
<1>2. \A j \in At(W, k) : j \in Nat /\ f[j] \in At(seq, k)
  <2> TAKE j \in At(W, k)
  <2>1. j \in 1..(Len(seq) - n) /\ TradeKey(W[j]) = k  BY <1>1 DEF At
  <2>2. f[j] = j + n /\ j + n \in 1..Len(seq) /\ seq[j + n] = W[j]  BY <1>1, <2>1
  <2> QED  BY <1>1, <2>1, <2>2 DEF At
<1>3. \A a, b \in At(W, k) : f[a] = f[b] => a = b
  <2> TAKE a \in At(W, k), b \in At(W, k)
  <2>1. a \in Int /\ b \in Int /\ n \in Int  BY <1>1, <1>2
  <2> QED  BY <2>1
<1>4. f \in Injection(At(W, k), At(seq, k))
  <2>1. f \in [At(W, k) -> At(seq, k)]  BY <1>2
  <2> HIDE DEF f
  <2> QED  BY <1>3, <2>1 DEF Injection, IsInjective
<1>5. IsFiniteSet(At(seq, k))  BY AtFinite
<1> HIDE DEF f, W
<1>6. Cardinality(At(W, k)) <= Cardinality(At(seq, k))  BY <1>4, <1>5, FS_Injection
<1> QED  BY <1>6 DEF W
----------------------------------------------------------------------------
(* NO TRADE TWICE *)

LEMMA Volumes ==
    ASSUME NEW c \in Candle \cup {NoRow}, NEW p \in Prices
    PROVE  /\ Start(p).volume = 1
           /\ Published(c, p).volume = IF c = NoRow THEN 1 ELSE c.volume + 1
           /\ c # NoRow => c.volume \in Nat /\ Update(c, p).volume = c.volume + 1
  BY DEF Candle, Start, Published, Update

LEMMA VolType ==
    ASSUME TypeOK, NEW k \in Keys PROVE Vol(k) \in Nat
  BY DEF TypeOK, Candle, Vol

(* What the exchange counted only grows, by one for the trade it reports.    *)
LEMMA VolTrade ==
    ASSUME TypeOK, NEW s \in Symbols, NEW p \in Prices, Trade(s, p), NEW k \in Keys
    PROVE  Vol(k)' = Vol(k) + (IF k = <<s, now>> THEN 1 ELSE 0)
<1>1. <<s, now>> \in Keys  BY DEF TypeOK, Keys
<1>2. book[k] \in Candle \cup {NoRow}  BY DEF TypeOK
<1>3. CASE k = <<s, now>>
  <2>1. book'[k] = Published(book[k], p)  BY <1>1, <1>3 DEF Trade, TypeOK
  <2>2. Published(book[k], p) # NoRow  BY <1>2, PublishedType, Constants
  <2> QED  BY <1>2, <1>3, <2>1, <2>2, Volumes DEF Vol
<1>4. CASE k # <<s, now>>
  <2>1. book'[k] = book[k]  BY <1>1, <1>4 DEF Trade, TypeOK
  <2> QED  BY <1>4, <2>1, VolType DEF Vol
<1> QED  BY <1>3, <1>4

LEMMA NotATrade ==
    ASSUME TypeOK, [Next]_vars, ~\E s \in Symbols, p \in Prices : Trade(s, p)
    PROVE  UNCHANGED book
  BY DEF Next, LiveNext, SweepStep, Watch, Flush, FlushRaise, FlushLost, Die, Reconnect,
         Malformed, Restart, SweepStart, SweepFetch, SweepEnd, SweepWrite, SweepRaise,
         CheckFetch, CheckRead, CheckUpdate, CheckFail, Tick, vars, exchange

LEMMA VolGrows ==
    ASSUME TypeOK, TypeOK', [Next]_vars, NEW k \in Keys
    PROVE  Vol(k) \in Nat /\ Vol(k)' \in Nat /\ Vol(k) <= Vol(k)'
<1>1. Vol(k) \in Nat  BY VolType
<1>2. CASE UNCHANGED book  BY <1>1, <1>2 DEF Vol
<1>3. ASSUME NEW s \in Symbols, NEW p \in Prices, Trade(s, p)
      PROVE  Vol(k)' \in Nat /\ Vol(k) <= Vol(k)'
  BY <1>1, <1>3, VolTrade
<1> QED  BY <1>1, <1>2, <1>3, NotATrade

(* Every step either reports a trade, hands one to the aggregator, or loses  *)
(* some of those on their way.                                               *)
LEMMA InboxSteps ==
    ASSUME TypeOK, [Next]_vars
    PROVE  \/ \E s \in Symbols, p \in Prices : Trade(s, p)
           \/ \E i \in {1, 2} : Watch(i)
           \/ /\ \A k \in Keys : Count(k)' <= Count(k)
              /\ \A s \in Symbols : partial'[s] \in {partial[s], NoRow}
<1>0. inbox \in Seq(TradeMsg) /\ partial \in [Symbols -> Bucket \cup {NoRow}]
  BY TypeParts DEF LiveType
<1>1. \A k \in Keys : Count(k) \in Nat  BY <1>0, AtFinite DEF Count
<1>2. CASE UNCHANGED <<inbox, partial>>  BY <1>1, <1>2 DEF Count
<1>3. ASSUME NEW n \in 1..Len(inbox), Reconnect(n)
      PROVE  (\A k \in Keys : Count(k)' <= Count(k)) /\ UNCHANGED partial
  BY <1>0, <1>3, CountSubSeq DEF Reconnect, Count
<1>4. CASE Restart
  <2>1. inbox' = << >> /\ partial' = [s \in Symbols |-> NoRow]  BY <1>4 DEF Restart
  <2>2. \A k \in Keys : Count(k)' = 0  BY <2>1, CountEmpty DEF Count
  <2> QED  BY <1>1, <2>1, <2>2
<1>5. \/ \E s \in Symbols, p \in Prices : Trade(s, p)
      \/ \E i \in {1, 2} : Watch(i)
      \/ \E n \in 1..Len(inbox) : Reconnect(n)
      \/ Restart
      \/ UNCHANGED <<inbox, partial>>
  BY DEF Next, LiveNext, SweepStep, Flush, FlushRaise, FlushLost, Die, Malformed,
         SweepStart, SweepFetch, SweepEnd, SweepWrite, SweepRaise,
         CheckFetch, CheckRead, CheckUpdate, CheckFail, Tick, vars, live
<1> QED  BY <1>2, <1>3, <1>4, <1>5

LEMMA WatchCounts ==
    ASSUME TypeOK, NEW i, Watch(i), NEW k
    PROVE  /\ i \in DOMAIN inbox /\ inbox[i] \in TradeMsg /\ OnTrade(inbox[i])
           /\ Count(k) \in Nat
           /\ Count(k)' \in Nat
           /\ Count(k)' <= Count(k) - (IF k = TradeKey(inbox[i]) THEN 1 ELSE 0)
<1>1. inbox \in Seq(TradeMsg) /\ i \in DOMAIN inbox /\ OnTrade(inbox[i])
  BY TypeParts DEF LiveType, Watch
<1>2. inbox' = Without(inbox, i)  BY DEF Watch
<1>3. Without(inbox, i) \in Seq(TradeMsg)  BY <1>1, WithoutType
<1>4. Count(k)' \in Nat /\ Count(k) \in Nat  BY <1>1, <1>2, <1>3, AtFinite DEF Count
<1> QED  BY <1>1, <1>2, <1>4, ElementType, CountWithout DEF Count

LEMMA InboxCountedStep ==
    ASSUME TypeOK, TypeOK', Counted, [Next]_vars PROVE InboxCounted'
<1>0. inbox \in Seq(TradeMsg) /\ now \in Minutes  BY TypeParts DEF LiveType
<1>1. \A k \in Keys : /\ Vol(k) \in Nat /\ Vol(k)' \in Nat /\ Vol(k) <= Vol(k)'
                      /\ Count(k) \in Nat /\ Count(k) <= Vol(k) /\ Count(k)' \in Nat
  <2>1. inbox' \in Seq(TradeMsg)  BY TypeParts DEF LiveType, TypeOK, TradeMsg
  <2> QED  BY <1>0, <2>1, VolGrows, AtFinite DEF Count, Counted, InboxCounted
<1>2. ASSUME NEW s \in Symbols, NEW p \in Prices, Trade(s, p), NEW k \in Keys
      PROVE  Count(k)' <= Vol(k)'
  <2> DEFINE t == [sym |-> s, ts |-> now, price |-> p]
  <2>1. t \in TradeMsg /\ TradeKey(t) = <<s, now>>  BY <1>0 DEF TradeMsg, TradeKey
  <2>2. inbox' = Append(inbox, t)  BY <1>2 DEF Trade
  <2> HIDE DEF t
  <2>3. Count(k)' = Count(k) + (IF k = <<s, now>> THEN 1 ELSE 0)
    BY <1>0, <2>1, <2>2, CountAppend DEF Count
  <2>4. Vol(k)' = Vol(k) + (IF k = <<s, now>> THEN 1 ELSE 0)  BY <1>2, VolTrade
  <2> QED  BY <1>1, <2>3, <2>4
<1>3. ASSUME NEW i \in {1, 2}, Watch(i), NEW k \in Keys PROVE Count(k)' <= Vol(k)'
  <2>1. Count(k)' <= Count(k) - (IF k = TradeKey(inbox[i]) THEN 1 ELSE 0)
    BY <1>3, WatchCounts
  <2> QED  BY <1>1, <2>1
<1>4. ASSUME \A k \in Keys : Count(k)' <= Count(k) PROVE \A k \in Keys : Count(k)' <= Vol(k)'
  BY <1>1, <1>4
<1> QED  BY <1>2, <1>3, <1>4, InboxSteps DEF InboxCounted

(* A bucket and the trades of its minute that are still to come. *)
LEMMA BucketKeys ==
    ASSUME TypeOK, NEW s \in Symbols, partial[s] # NoRow
    PROVE  /\ partial[s] \in Bucket /\ partial[s].c \in Candle
           /\ partial[s].c.volume \in Nat
           /\ <<s, partial[s].ts>> \in Keys
<1>1. partial[s] \in Bucket  BY DEF TypeOK
<1> QED  BY <1>1 DEF Bucket, Candle, Keys

LEMMA BucketCountedStep ==
    ASSUME TypeOK, TypeOK', Counted, [Next]_vars PROVE BucketCounted'
<1>0. inbox \in Seq(TradeMsg) /\ now \in Minutes /\ LiveType  BY TypeParts DEF LiveType
<1>1. \A k \in Keys : /\ Vol(k) \in Nat /\ Vol(k)' \in Nat /\ Vol(k) <= Vol(k)'
                      /\ Count(k) \in Nat /\ Count(k) <= Vol(k) /\ Count(k)' \in Nat
  <2>1. inbox' \in Seq(TradeMsg)  BY TypeParts DEF LiveType, TypeOK, TradeMsg
  <2> QED  BY <1>0, <2>1, VolGrows, AtFinite DEF Count, Counted, InboxCounted
<1> DEFINE Fits(s) == partial'[s] # NoRow =>
               partial'[s].c.volume + Cardinality(At(inbox', <<s, partial'[s].ts>>))
                  <= IF book'[<<s, partial'[s].ts>>] = NoRow THEN 0
                     ELSE book'[<<s, partial'[s].ts>>].volume
<1>2. ASSUME NEW s \in Symbols, partial'[s] = partial[s],
             partial[s] # NoRow =>
                LET k == <<s, partial[s].ts>>
                IN  Count(k)' - Count(k) <= Vol(k)' - Vol(k)
      PROVE  Fits(s)
  <2>1. CASE partial[s] = NoRow  BY <1>2, <2>1
  <2>2. CASE partial[s] # NoRow
    <3>1. PICK k \in Keys : k = <<s, partial[s].ts>>  BY <2>2, BucketKeys
    <3>2. partial[s].c.volume \in Nat /\ partial[s].c.volume + Count(k) <= Vol(k)
      BY <2>2, <3>1, BucketKeys DEF Counted, BucketCounted
    <3>3. Count(k)' - Count(k) <= Vol(k)' - Vol(k)  BY <1>2, <2>2, <3>1
    <3>4. partial[s].c.volume + Count(k)' <= Vol(k)'  BY <1>1, <3>2, <3>3
    <3> QED  BY <1>2, <3>1, <3>4 DEF Count, Vol
  <2> QED  BY <2>1, <2>2
<1>3. ASSUME NEW r \in Symbols, NEW p \in Prices, Trade(r, p), NEW s \in Symbols
      PROVE  Fits(s)
  <2> DEFINE t == [sym |-> r, ts |-> now, price |-> p]
  <2>1. t \in TradeMsg /\ TradeKey(t) = <<r, now>>  BY <1>0 DEF TradeMsg, TradeKey
  <2>2. inbox' = Append(inbox, t) /\ UNCHANGED partial  BY <1>3 DEF Trade
  <2> HIDE DEF t
  <2>3. ASSUME NEW k \in Keys PROVE Count(k)' - Count(k) <= Vol(k)' - Vol(k)
    <3>1. Count(k)' = Count(k) + (IF k = <<r, now>> THEN 1 ELSE 0)
      BY <1>0, <2>1, <2>2, CountAppend DEF Count
    <3>2. Vol(k)' = Vol(k) + (IF k = <<r, now>> THEN 1 ELSE 0)  BY <1>3, VolTrade
    <3> QED  BY <1>1, <3>1, <3>2
  <2> HIDE DEF Fits
  <2> QED  BY <1>2, <2>2, <2>3, BucketKeys
<1>4. ASSUME NEW i \in {1, 2}, Watch(i), NEW s \in Symbols PROVE Fits(s)
  <2>0. PICK t \in TradeMsg : t = inbox[i] /\ OnTrade(t)  BY <1>4, WatchCounts
  <2>1. UNCHANGED book  BY <1>4 DEF Watch, exchange
  <2>2. \A k \in Keys : Vol(k)' = Vol(k)  BY <2>1 DEF Vol
  <2>3. \A k \in Keys : Count(k)' <= Count(k) - (IF k = TradeKey(t) THEN 1 ELSE 0)
    BY <1>4, <2>0, WatchCounts
  <2>4. t.sym \in Symbols /\ t.ts \in Minutes /\ t.price \in Prices
    BY DEF TradeMsg
  <2>5. CASE s # t.sym
    <3>1. partial'[s] = partial[s]  BY <1>0, <2>0, <2>5, OnTradeEffect
    <3>2. \A k \in Keys : Count(k)' - Count(k) <= Vol(k)' - Vol(k)
      BY <1>1, <2>2, <2>3
    <3> HIDE DEF Fits
    <3> QED  BY <1>2, <3>1, <3>2, BucketKeys
  <2>6. CASE s = t.sym
    <3>1. PICK k \in Keys : k = <<s, t.ts>>  BY <2>4 DEF Keys
    <3>2. Count(k)' <= Count(k) - 1 /\ Vol(k)' = Vol(k)
      BY <2>2, <2>3, <2>6, <3>1 DEF TradeKey
    <3>3. \/ partial'[s] = [ts |-> t.ts, c |-> Start(t.price)]
          \/ /\ partial[s] \in Bucket /\ partial[s].ts = t.ts
             /\ partial'[s] = [ts |-> t.ts, c |-> Update(partial[s].c, t.price)]
      BY <1>0, <2>0, <2>6, OnTradeEffect
    <3>4. CASE partial'[s] = [ts |-> t.ts, c |-> Start(t.price)]
      <4>1. partial'[s].c.volume = 1 /\ partial'[s].ts = t.ts
        BY <2>4, <3>4 DEF Start
      <4>2. 1 + Count(k)' <= Vol(k)'  BY <1>1, <3>2
      <4> QED  BY <3>1, <4>1, <4>2 DEF Count, Vol
    <3>5. CASE /\ partial[s] \in Bucket /\ partial[s].ts = t.ts
               /\ partial'[s] = [ts |-> t.ts, c |-> Update(partial[s].c, t.price)]
      <4>1. /\ partial[s] # NoRow /\ partial[s].c \in Candle
            /\ partial[s].c.volume \in Nat
        BY <3>5, BucketKeys, Constants
      <4>2. /\ partial'[s].c.volume = partial[s].c.volume + 1
            /\ partial'[s].ts = t.ts
        BY <2>4, <3>5, <4>1, Volumes, CandleFields
      <4>3. partial[s].c.volume + Count(k) <= Vol(k)
        BY <3>1, <3>5, <4>1 DEF Counted, BucketCounted
      <4>4. partial'[s].c.volume + Count(k)' <= Vol(k)'
        BY <1>1, <3>2, <4>1, <4>2, <4>3
      <4> QED  BY <3>1, <4>2, <4>4 DEF Count, Vol
    <3> QED  BY <3>3, <3>4, <3>5
  <2> QED  BY <2>5, <2>6
<1>5. ASSUME \A k \in Keys : Count(k)' <= Count(k), NEW s \in Symbols,
             partial'[s] \in {partial[s], NoRow}
      PROVE  Fits(s)
  <2>1. CASE partial'[s] = NoRow  BY <2>1
  <2>2. CASE partial'[s] = partial[s]
    <3>1. \A k \in Keys : Count(k)' - Count(k) <= Vol(k)' - Vol(k)  BY <1>1, <1>5
    <3> HIDE DEF Fits
    <3> QED  BY <1>2, <2>2, <3>1, BucketKeys
  <2> QED  BY <1>5, <2>1, <2>2
<1>6. \A s \in Symbols : Fits(s)
  <2> HIDE DEF Fits
  <2> QED  BY <1>3, <1>4, <1>5, InboxSteps
<1> QED  BY <1>6 DEF BucketCounted, Count, Vol

(* What is new in the buffer is the bucket that a trade closed. *)
LEMMA BufferSteps ==
    ASSUME TypeOK, [Next]_vars, NEW n \in DOMAIN buffer'
    PROVE  \/ \E m \in DOMAIN buffer : buffer'[n] = buffer[m]
           \/ \E s \in Symbols :
                 /\ partial[s] \in Bucket
                 /\ buffer'[n] = [key |-> <<s, partial[s].ts>>,
                                  val |-> [c |-> partial[s].c, flag |-> "ok"]]
<1>0. LiveType  BY TypeParts
<1>1. ASSUME NEW i \in {1, 2}, Watch(i)
      PROVE  \/ \E m \in DOMAIN buffer : buffer'[n] = buffer[m]
             \/ \E s \in Symbols :
                   /\ partial[s] \in Bucket
                   /\ buffer'[n] = [key |-> <<s, partial[s].ts>>,
                                    val |-> [c |-> partial[s].c, flag |-> "ok"]]
  <2>0. PICK t \in TradeMsg : t = inbox[i] /\ OnTrade(t)  BY <1>1, WatchCounts
  <2> DEFINE cur == partial[t.sym]
             fin == [key |-> <<t.sym, cur.ts>>, val |-> [c |-> cur.c, flag |-> "ok"]]
  <2>1. UNCHANGED buffer \/ (cur \in Bucket /\ buffer' = Append(buffer, fin))
    BY <1>0, <2>0, OnTradeEffect
  <2>2. CASE UNCHANGED buffer  BY <2>2
  <2>3. CASE cur \in Bucket /\ buffer' = Append(buffer, fin)
    <3>1. t.sym \in Symbols /\ cur.ts \in Minutes /\ cur.c \in Candle
      BY <2>3 DEF TradeMsg, Bucket
    <3>2. fin \in Finalized  BY <3>1 DEF Finalized, Keys
    <3> HIDE DEF fin, cur
    <3>3. buffer'[n] = fin \/ \E m \in DOMAIN buffer : buffer'[n] = buffer[m]
      BY <1>0, <2>3, <3>2, AppendType DEF LiveType
    <3> QED  BY <2>3, <3>1, <3>3 DEF fin, cur
  <2> QED  BY <2>1, <2>2, <2>3
<1>2. CASE buffer' = << >>  BY <1>2
<1>3. CASE UNCHANGED buffer  BY <1>3
<1>4. (\E i \in {1, 2} : Watch(i)) \/ buffer' = << >> \/ UNCHANGED buffer
  BY DEF Next, LiveNext, SweepStep, SweepStart, SweepFetch, SweepEnd, SweepWrite,
         Flush, Restart, FlushRaise, FlushLost, Malformed, Die, Reconnect, SweepRaise,
         CheckFetch, CheckRead, CheckUpdate, CheckFail, Tick, Trade, vars, live
<1> QED  BY <1>1, <1>2, <1>3, <1>4

LEMMA BufferCountedStep ==
    ASSUME TypeOK, TypeOK', Counted, [Next]_vars PROVE BufferCounted'
<1>0. LiveType  BY TypeParts
<1> SUFFICES ASSUME NEW n \in DOMAIN buffer' PROVE buffer'[n].val.c.volume <= Vol(buffer[n].key)'
  BY DEF BufferCounted
<1>1. ASSUME NEW m \in DOMAIN buffer, buffer'[n] = buffer[m]
      PROVE  buffer'[n].val.c.volume <= Vol(buffer[n].key)'
  <2>1. buffer[m] \in Finalized  BY <1>0, ElementType DEF LiveType
  <2>2. PICK k \in Keys : k = buffer[m].key  BY <2>1, FinalizedFields
  <2>3. buffer[m].val.c.volume \in Nat  BY <2>1, FinalizedFields DEF Candle
  <2>4. buffer[m].val.c.volume <= Vol(k)  BY <2>2 DEF Counted, BufferCounted
  <2>5. Vol(k) \in Nat /\ Vol(k)' \in Nat /\ Vol(k) <= Vol(k)'  BY VolGrows
  <2>6. buffer[m].val.c.volume <= Vol(k)'  BY <2>3, <2>4, <2>5
  <2> QED  BY <1>1, <2>2, <2>6 DEF Vol
<1>2. ASSUME NEW s \in Symbols, partial[s] \in Bucket,
             buffer'[n] = [key |-> <<s, partial[s].ts>>,
                           val |-> [c |-> partial[s].c, flag |-> "ok"]]
      PROVE  buffer'[n].val.c.volume <= Vol(buffer[n].key)'
  <2>1. partial[s] # NoRow  BY <1>2, Constants
  <2>2. PICK k \in Keys : k = <<s, partial[s].ts>>  BY <2>1, BucketKeys
  <2>3. partial[s].c.volume \in Nat /\ partial[s].c.volume + Count(k) <= Vol(k)
    BY <2>1, <2>2, BucketKeys DEF Counted, BucketCounted
  <2>4. Count(k) \in Nat  BY <1>0, AtFinite DEF Count, LiveType
  <2>5. Vol(k) \in Nat /\ Vol(k)' \in Nat /\ Vol(k) <= Vol(k)'  BY VolGrows
  <2>6. partial[s].c.volume <= Vol(k)'  BY <2>3, <2>4, <2>5
  <2>7. buffer'[n].key = k /\ buffer'[n].val.c = partial[s].c  BY <1>2, <2>2
  <2> QED  BY <2>6, <2>7 DEF Vol
<1> QED  BY <1>1, <1>2, BufferSteps

LEMMA PageCountedStep ==
    ASSUME TypeOK, TypeOK', Counted, [Next]_vars PROVE PageCounted'
<1>0. SweepType  BY TypeParts
<1>1. CASE UNCHANGED page /\ sweep'.sym = sweep.sym
  <2> SUFFICES ASSUME NEW m \in DOMAIN page PROVE page[m].volume <= Vol(<<sweep.sym, m>>)'
    BY <1>1 DEF PageCounted
  <2>1. page[m] \in Candle  BY <1>0 DEF SweepType
  <2>2. PICK k \in Keys : k = <<sweep.sym, m>>  BY <1>0 DEF SweepType, Keys
  <2>3. page[m].volume \in Nat /\ page[m].volume <= Vol(k)
    BY <2>1, <2>2 DEF Candle, Counted, PageCounted
  <2>4. Vol(k) \in Nat /\ Vol(k)' \in Nat /\ Vol(k) <= Vol(k)'  BY VolGrows
  <2>5. page[m].volume <= Vol(k)'  BY <2>3, <2>4
  <2> QED  BY <1>1, <2>2, <2>5 DEF Vol
<1>2. CASE SweepFetch
  <2>1. /\ page' = [m \in PageMinutes |-> book[<<sweep.sym, m>>]]
        /\ sweep'.sym = sweep.sym
        /\ UNCHANGED book
    BY <1>0, <1>2 DEF SweepFetch, SweepType, exchange
  <2>2. \A m \in PageMinutes : book[<<sweep.sym, m>>] \in Candle
    BY AvailableTyped DEF PageMinutes
  <2>3. \A m \in PageMinutes : /\ book[<<sweep.sym, m>>] # NoRow
                               /\ book[<<sweep.sym, m>>].volume \in Nat
    BY <2>2, Constants DEF Candle
  <2> QED  BY <2>1, <2>3 DEF PageCounted, Vol
<1>3. CASE page' = NoPage  BY <1>3, NoPageType DEF PageCounted
<1>4. SweepFetch \/ page' = NoPage \/ (UNCHANGED page /\ sweep'.sym = sweep.sym)
  BY <1>0 DEF Next, LiveNext, SweepStep, Watch, Flush, FlushRaise, FlushLost, Die,
         Reconnect, Malformed, Restart, SweepStart, SweepEnd, SweepWrite, SweepRaise,
         CheckFetch, CheckRead, CheckUpdate, CheckFail, Tick, Trade, vars, backfill, SweepType
<1> QED  BY <1>1, <1>2, <1>3, <1>4

LEMMA RowsCountedStep ==
    ASSUME TypeOK, TypeOK', CheckRefersBack, Counted, [Next]_vars PROVE RowsCounted'
<1>0. LiveType /\ SweepType  BY TypeParts
<1> SUFFICES ASSUME NEW k \in Keys, rows'[k] # NoRow PROVE rows'[k].c.volume <= Vol(k)'
  BY DEF RowsCounted
<1>1. KeptRow(k) /\ NewRow(k)  BY RowsStep DEF RowsKept
<1>2. Vol(k) \in Nat /\ Vol(k)' \in Nat /\ Vol(k) <= Vol(k)'  BY VolGrows
<1>3. rows'[k].c.volume \in Nat  BY DEF TypeOK, Row, Candle
<1>4. rows'[k].c.volume <= Vol(k)
  <2>1. CASE rows[k] # NoRow  BY <1>1, <2>1 DEF KeptRow, Counted, RowsCounted
  <2>2. ASSUME NEW i \in DOMAIN buffer, buffer[i].key = k, buffer[i].val = rows'[k]
        PROVE  rows'[k].c.volume <= Vol(k)
    BY <2>2 DEF Counted, BufferCounted
  <2>3. CASE /\ k[1] = sweep.sym /\ k[2] \in DOMAIN page
             /\ rows'[k] = [c |-> page[k[2]], flag |-> "ok"]
    <3>1. k = <<sweep.sym, k[2]>>  BY <2>3 DEF Keys
    <3> QED  BY <2>3, <3>1 DEF Counted, PageCounted
  <2> QED  BY <1>1, <2>1, <2>2, <2>3 DEF NewRow
<1> QED  BY <1>2, <1>3, <1>4

LEMMA InitCounted == Init => Counted
<1> SUFFICES ASSUME Init PROVE Counted  OBVIOUS
<1>1. \A k \in Keys : Vol(k) = 0 /\ Count(k) = 0  BY CountEmpty DEF Init, Vol, Count
<1>2. InboxCounted  BY <1>1 DEF InboxCounted
<1> QED  BY <1>2, NoPageType
      DEF Init, Counted, BucketCounted, BufferCounted, PageCounted, RowsCounted

LEMMA CountedStep == CandlesInv /\ CandlesInv' /\ Counted /\ [Next]_vars => Counted'
  BY InboxCountedStep, BucketCountedStep, BufferCountedStep, PageCountedStep, RowsCountedStep
  DEF CandlesInv, Counted

(* Each trade the exchange counted is in at most one place between the       *)
(* inbox and the buckets, and no candle has more trades than the exchange's. *)
THEOREM CountedInvariant == Spec => []Counted
  BY InitCounted, CountedStep, CandlesInvariant, PTL DEF Spec

(* live_candles.py: restarts, reconnects, flushes that are repeated and      *)
(* trades that come late never make a candle count a trade twice, nor does   *)
(* a REST page that is stored beside the live candles.                       *)
THEOREM NeverInflated == Spec => []VolumeNeverInflated
<1>1. CandlesInv /\ Counted => VolumeNeverInflated
  <2> SUFFICES ASSUME CandlesInv, Counted, NEW k \in Keys, rows[k] # NoRow
               PROVE  rows[k].c.volume <= book[k].volume
    BY DEF VolumeNeverInflated
  <2>1. book[k] # NoRow
    BY DEF CandlesInv, StoredWithinExchange, Within, Inside
  <2> QED  BY <2>1 DEF Counted, RowsCounted, Vol
<1> QED  BY <1>1, CandlesInvariant, CountedInvariant, PTL
----------------------------------------------------------------------------
(* THE UNDISTURBED LOOP *)

(* Nothing but trading and the divergence check goes on. *)
Undisturbed == Events \subseteq {"check"}

Book == [Keys -> Candle \cup {NoRow}]

(* rep[i] is the exchange's book after the first i trades of the inbox, and  *)
(* rep[0] therefore what the live loop has seen of it.                       *)
Replay(rep) ==
    /\ \A i \in DOMAIN inbox :
          rep[i] = [rep[i - 1] EXCEPT ![TradeKey(inbox[i])] = Published(@, inbox[i].price)]
    /\ \A i \in 0..Len(inbox), k \in Keys :
          (\A j \in DOMAIN inbox : j > i => TradeKey(inbox[j]) # k) => rep[i][k] = book[k]

(* The loop is past the minute of k. *)
Behind(k) == partial[k[1]] # NoRow /\ k[2] < partial[k[1]].ts

(* Buckets, buffer and table hold what was seen, all of it, and the buffer   *)
(* and the table only minutes the loop is past.                              *)
Holds(seen) ==
    /\ \A s \in Symbols : partial[s] # NoRow => partial[s].c = seen[<<s, partial[s].ts>>]
    /\ \A i \in DOMAIN buffer : Behind(buffer[i].key) /\ buffer[i].val.c = seen[buffer[i].key]
    /\ \A k \in Keys : rows[k] # NoRow => Behind(k) /\ rows[k].c = seen[k]
    /\ \A k \in Keys : seen[k] # NoRow =>
          \/ rows[k] # NoRow
          \/ \E i \in DOMAIN buffer : buffer[i].key = k
          \/ partial[k[1]] # NoRow /\ partial[k[1]].ts = k[2]

(* Trades reach the loop in the order of their time. *)
InOrder ==
    /\ \A i, j \in DOMAIN inbox : i <= j => inbox[i].ts <= inbox[j].ts
    /\ \A i \in DOMAIN inbox :
          /\ inbox[i].ts <= now
          /\ partial[inbox[i].sym] # NoRow => partial[inbox[i].sym].ts <= inbox[i].ts
    /\ \A s \in Symbols : partial[s] # NoRow => partial[s].ts <= now

NoSweepYet == sweep.pc = "idle" /\ page = NoPage

Exact ==
    /\ NoSweepYet
    /\ InOrder
    /\ \E rep \in [0..Len(inbox) -> Book] : Replay(rep) /\ Holds(rep[0])

(* All that happens then. *)
LEMMA UndisturbedSteps ==
    ASSUME Undisturbed, NoSweepYet, [Next]_vars
    PROVE  /\ NoSweepYet'
           /\ \/ \E s \in Symbols, p \in Prices : Trade(s, p)
              \/ Watch(1)
              \/ Flush
              \/ Tick
              \/ UNCHANGED <<exchange, live>>
<1>1. Events \cap {"late", "loss", "crash", "malformed", "sweep"} = {}
  BY DEF Undisturbed
<1>2. /\ ~FlushRaise /\ ~FlushLost /\ ~Malformed /\ ~Restart /\ ~SweepStep /\ ~SweepRaise
      /\ \A n \in 1..Len(inbox) : ~Reconnect(n)
      /\ \A s \in Symbols : ~SweepStart(s)
      /\ ~Watch(2)
  BY <1>1 DEF FlushRaise, FlushLost, Malformed, Restart, Reconnect, SweepStart, SweepStep,
              SweepFetch, SweepEnd, SweepWrite, SweepRaise, Sweeping, NoSweepYet, Watch
<1>3. \/ \E s \in Symbols, p \in Prices : Trade(s, p)
      \/ Watch(1)
      \/ Flush
      \/ Tick
      \/ UNCHANGED <<exchange, live, backfill>>
  BY <1>2 DEF Next, LiveNext, CheckFetch, CheckRead, CheckUpdate, CheckFail, vars
<1>4. UNCHANGED backfill
  BY <1>3 DEF Trade, Watch, Flush, Tick
<1> QED  BY <1>3, <1>4 DEF backfill, NoSweepYet

LEMMA OrderTypes ==
    ASSUME TypeOK
    PROVE  /\ now \in Nat /\ Minutes \subseteq Nat
           /\ Len(inbox) \in Nat /\ DOMAIN inbox = 1..Len(inbox)
           /\ \A i \in DOMAIN inbox : inbox[i] \in TradeMsg
           /\ \A t \in TradeMsg : /\ t.sym \in Symbols /\ t.ts \in Nat /\ t.ts \in Minutes
                                  /\ t.price \in Prices /\ TradeKey(t) \in Keys
           /\ \A s \in Symbols : partial[s] # NoRow =>
                 partial[s].ts \in Nat /\ <<s, partial[s].ts>> \in Keys
<1>1. now \in Nat /\ Minutes \subseteq Nat  BY Constants DEF TypeOK, Minutes
<1>2. inbox \in Seq(TradeMsg)  BY DEF TypeOK, TradeMsg
<1>3. \A t \in TradeMsg : /\ t.sym \in Symbols /\ t.ts \in Nat /\ t.ts \in Minutes
                          /\ t.price \in Prices /\ TradeKey(t) \in Keys
  BY <1>1 DEF TradeMsg, TradeKey, Keys
<1>4. \A s \in Symbols : partial[s] # NoRow => partial[s] \in Bucket  BY DEF TypeOK
<1>5. \A b \in Bucket : b.ts \in Nat /\ b.ts \in Minutes  BY <1>1 DEF Bucket
<1> QED  BY <1>1, <1>2, <1>3, <1>4, <1>5 DEF Keys

(* The exchange and the aggregator agree on what a trade does to a candle. *)
LEMMA SameCandle ==
    ASSUME NEW p \in Prices, NEW c \in Candle
    PROVE  Published(NoRow, p) = Start(p) /\ Published(c, p) = Update(c, p)
<1>1. c # NoRow /\ c.high \in Int /\ c.low \in Int /\ p \in Int
  BY CandleFields, Constants
<1> QED  BY <1>1 DEF Published, Start, Update

(* What the loop has seen of a symbol ends with its bucket. *)
LEMMA SeenUpTo ==
    ASSUME TypeOK, NEW seen \in Book, Holds(seen), NEW k \in Keys, seen[k] # NoRow
    PROVE  partial[k[1]] # NoRow /\ k[2] <= partial[k[1]].ts
<1>1. k[1] \in Symbols /\ k[2] \in Nat /\ k = <<k[1], k[2]>>
  BY OrderTypes DEF Keys
<1>2. partial[k[1]] # NoRow => partial[k[1]].ts \in Nat  BY <1>1, OrderTypes
<1> QED  BY <1>1, <1>2 DEF Holds, Behind

(* on_trade, for a trade that is not behind its bucket. *)
LEMMA TradeSeen ==
    ASSUME TypeOK, NEW seen \in Book, Holds(seen), NEW t \in TradeMsg, OnTrade(t),
           partial[t.sym] # NoRow => partial[t.sym].ts <= t.ts, UNCHANGED rows
    PROVE  Holds([seen EXCEPT ![TradeKey(t)] = Published(@, t.price)])'
<1>0. PICK cur : cur = partial[t.sym]  OBVIOUS
<1> DEFINE key == TradeKey(t)
           new == [seen EXCEPT ![key] = Published(@, t.price)]
           closes == cur # NoRow /\ t.ts # cur.ts
           fin == [key |-> <<t.sym, cur.ts>>, val |-> [c |-> cur.c, flag |-> "ok"]]
<1>1. /\ t.sym \in Symbols /\ t.ts \in Nat /\ t.price \in Prices
      /\ key \in Keys /\ key = <<t.sym, t.ts>>
  BY OrderTypes DEF TradeKey
<1>2. /\ new[key] = Published(seen[key], t.price)
      /\ \A k \in Keys : k # key => new[k] = seen[k]
  BY <1>1 DEF Book
<1>3. cur # NoRow => /\ cur \in Bucket /\ cur.c \in Candle /\ cur.ts \in Nat /\ cur.ts <= t.ts
                     /\ <<t.sym, cur.ts>> \in Keys /\ cur.c = seen[<<t.sym, cur.ts>>]
  BY <1>0, <1>1, BucketKeys, OrderTypes DEF Holds
<1>4. /\ \A s \in Symbols \ {t.sym} : partial'[s] = partial[s]
      /\ partial'[t.sym].ts = t.ts /\ partial'[t.sym] # NoRow
      /\ partial'[t.sym].c = IF cur # NoRow /\ t.ts = cur.ts THEN Update(cur.c, t.price)
                             ELSE Start(t.price)
  <2>1. partial' = [partial EXCEPT ![t.sym] =
                      IF cur # NoRow /\ t.ts = cur.ts
                      THEN [cur EXCEPT !.c = Update(cur.c, t.price)]
                      ELSE [ts |-> t.ts, c |-> Start(t.price)]]
    BY <1>0 DEF OnTrade
  <2>2. cur \in Bucket => [cur EXCEPT !.c = Update(cur.c, t.price)]
                            = [ts |-> cur.ts, c |-> Update(cur.c, t.price)]
    BY DEF Bucket
  <2>3. partial'[t.sym] # NoRow
    <3>1. partial'[t.sym] \in Bucket
      <4>1. cur # NoRow => [ts |-> cur.ts, c |-> Update(cur.c, t.price)] \in Bucket
        BY <1>1, <1>3, UpdateType DEF Bucket
      <4>2. [ts |-> t.ts, c |-> Start(t.price)] \in Bucket
        BY <1>1, StartType DEF Bucket, TradeMsg
      <4> QED  BY <1>1, <1>3, <2>1, <2>2, <4>1, <4>2 DEF TypeOK
    <3> QED  BY <3>1, Constants
  <2> QED  BY <1>1, <1>3, <2>1, <2>2, <2>3 DEF TypeOK
<1>5. buffer' = IF closes THEN Append(buffer, fin) ELSE buffer
  BY <1>0 DEF OnTrade
<1> HIDE DEF key, new, fin
<1>6. \A s \in Symbols : partial'[s] # NoRow => partial'[s].c = new[<<s, partial'[s].ts>>]
  <2> SUFFICES ASSUME NEW s \in Symbols, partial'[s] # NoRow
               PROVE  partial'[s].c = new[<<s, partial'[s].ts>>]
    OBVIOUS
  <2>1. CASE s # t.sym
    <3>1. partial'[s] = partial[s] /\ partial[s].c = seen[<<s, partial[s].ts>>]
      BY <1>4, <2>1 DEF Holds
    <3>2. <<s, partial[s].ts>> \in Keys /\ <<s, partial[s].ts>> # key
      BY <1>1, <2>1, <3>1, BucketKeys
    <3> QED  BY <1>2, <3>1, <3>2
  <2>2. CASE s = t.sym
    <3>1. CASE cur # NoRow /\ t.ts = cur.ts
      <4>1. seen[key] = cur.c /\ cur.c \in Candle  BY <1>1, <1>3, <3>1
      <4> QED  BY <1>1, <1>2, <1>4, <2>2, <3>1, <4>1, SameCandle
    <3>2. CASE ~(cur # NoRow /\ t.ts = cur.ts)
      <4>1. seen[key] = NoRow
        <5> SUFFICES ASSUME seen[key] # NoRow PROVE FALSE  OBVIOUS
        <5>1. cur # NoRow /\ t.ts <= cur.ts  BY <1>0, <1>1, SeenUpTo
        <5> QED  BY <1>1, <1>3, <3>2, <5>1
      <4>2. Published(NoRow, t.price) = Start(t.price)  BY DEF Published, Start
      <4> QED  BY <1>1, <1>2, <1>4, <2>2, <3>2, <4>1, <4>2
    <3> QED  BY <3>1, <3>2
  <2> QED  BY <2>1, <2>2
<1>7. \A k \in Keys : Behind(k) => Behind(k)' /\ new[k] = seen[k]
  <2> SUFFICES ASSUME NEW k \in Keys, Behind(k) PROVE Behind(k)' /\ new[k] = seen[k]
    OBVIOUS
  <2>0. k[1] \in Symbols /\ k[2] \in Nat  BY OrderTypes DEF Keys
  <2>1. CASE k[1] # t.sym
    <3>1. k # key  BY <1>1, <2>1
    <3> QED  BY <1>2, <1>4, <2>0, <2>1, <3>1 DEF Behind
  <2>2. CASE k[1] = t.sym
    <3>1. cur # NoRow /\ k[2] < cur.ts  BY <1>0, <2>2 DEF Behind
    <3>2. k[2] < t.ts  BY <1>1, <1>3, <2>0, <3>1
    <3>3. k # key  BY <1>1, <3>2
    <3> QED  BY <1>2, <1>4, <2>2, <3>2, <3>3 DEF Behind
  <2> QED  BY <2>1, <2>2
<1>8. /\ \A i \in DOMAIN buffer : /\ i \in DOMAIN buffer' /\ buffer'[i] = buffer[i]
                                  /\ buffer[i].key \in Keys
      /\ \A i \in DOMAIN buffer' : i \in DOMAIN buffer \/ (closes /\ buffer'[i] = fin)
      /\ closes => \E i \in DOMAIN buffer' : buffer'[i] = fin
  <2>0. buffer \in Seq(Finalized)  BY DEF TypeOK
  <2>1. \A i \in DOMAIN buffer : buffer[i].key \in Keys
    BY <2>0, ElementType, FinalizedFields
  <2>2. /\ DOMAIN buffer = 1..Len(buffer) /\ Len(buffer) \in Nat
        /\ DOMAIN Append(buffer, fin) = 1..(Len(buffer) + 1)
        /\ Append(buffer, fin)[Len(buffer) + 1] = fin
        /\ \A i \in 1..Len(buffer) : Append(buffer, fin)[i] = buffer[i]
    BY <2>0
  <2> HIDE DEF closes
  <2> QED  BY <1>5, <2>1, <2>2
<1>9. closes => /\ fin.key = <<t.sym, cur.ts>> /\ fin.val.c = cur.c
                /\ fin.key \in Keys /\ Behind(fin.key)' /\ new[fin.key] = cur.c
  <2> SUFFICES ASSUME closes
               PROVE  /\ fin.key = <<t.sym, cur.ts>> /\ fin.val.c = cur.c
                      /\ fin.key \in Keys /\ Behind(fin.key)' /\ new[fin.key] = cur.c
    OBVIOUS
  <2>1. PICK k \in Keys : k = <<t.sym, cur.ts>>  BY <1>3
  <2>2. fin.key = k /\ fin.val.c = cur.c  BY <2>1 DEF fin
  <2>3. cur.ts < t.ts  BY <1>1, <1>3
  <2>4. k # key /\ k[1] = t.sym /\ k[2] = cur.ts  BY <1>1, <2>1
  <2>5. new[k] = cur.c  BY <1>2, <1>3, <2>1, <2>4
  <2>6. partial'[k[1]] # NoRow /\ k[2] < partial'[k[1]].ts  BY <1>4, <2>3, <2>4
  <2> QED  BY <2>1, <2>2, <2>5, <2>6 DEF Behind
<1>10. \A k \in Keys : new[k] # NoRow =>
          \/ rows'[k] # NoRow
          \/ \E i \in DOMAIN buffer' : buffer'[i].key = k
          \/ partial'[k[1]] # NoRow /\ partial'[k[1]].ts = k[2]
  <2> SUFFICES ASSUME NEW k \in Keys, new[k] # NoRow
               PROVE  \/ rows'[k] # NoRow
                      \/ \E i \in DOMAIN buffer' : buffer'[i].key = k
                      \/ partial'[k[1]] # NoRow /\ partial'[k[1]].ts = k[2]
    OBVIOUS
  <2>0. k[1] \in Symbols /\ k[2] \in Nat /\ k = <<k[1], k[2]>>  BY OrderTypes DEF Keys
  <2>1. CASE k = key  BY <1>1, <1>4, <2>1
  <2>2. CASE k # key
    <3>1. \/ rows[k] # NoRow
          \/ \E i \in DOMAIN buffer : buffer[i].key = k
          \/ partial[k[1]] # NoRow /\ partial[k[1]].ts = k[2]
      BY <1>2, <2>2 DEF Holds
    <3>2. CASE partial[k[1]] # NoRow /\ partial[k[1]].ts = k[2]
      <4>1. CASE k[1] # t.sym  BY <1>4, <2>0, <3>2, <4>1
      <4>2. CASE k[1] = t.sym
        <5>1. cur # NoRow /\ cur.ts = k[2] /\ t.ts # cur.ts  BY <1>0, <1>1, <2>0, <2>2, <3>2, <4>2
        <5>2. closes /\ fin.key = k  BY <1>9, <2>0, <4>2, <5>1
        <5> QED  BY <1>8, <5>2
      <4> QED  BY <4>1, <4>2
    <3> QED  BY <1>8, <3>1, <3>2
  <2> QED  BY <2>1, <2>2
<1>11. \A i \in DOMAIN buffer' : Behind(buffer[i].key)' /\ buffer'[i].val.c = new[buffer'[i].key]
  <2> SUFFICES ASSUME NEW i \in DOMAIN buffer'
               PROVE  Behind(buffer[i].key)' /\ buffer'[i].val.c = new[buffer'[i].key]
    OBVIOUS
  <2>1. CASE i \in DOMAIN buffer
    <3>1. PICK k \in Keys : k = buffer[i].key  BY <1>8, <2>1
    <3>2. Behind(k) /\ buffer[i].val.c = seen[k]  BY <2>1, <3>1 DEF Holds
    <3>3. Behind(k)' /\ new[k] = seen[k]  BY <1>7, <3>2
    <3> QED  BY <1>8, <2>1, <3>1, <3>2, <3>3 DEF Behind
  <2>2. CASE closes /\ buffer'[i] = fin
    BY <1>9, <2>2 DEF Behind
  <2> QED  BY <1>8, <2>1, <2>2
<1>12. \A k \in Keys : rows'[k] # NoRow => Behind(k)' /\ rows'[k].c = new[k]
  BY <1>7 DEF Holds
<1>13. Holds(new)'
  BY <1>6, <1>10, <1>11, <1>12 DEF Holds
<1> QED  BY <1>13 DEF new, key

(* The flush stores every candle it takes from the buffer. *)
LEMMA FlushTakes ==
    ASSUME TypeOK, FlushEffect, NEW i \in DOMAIN buffer
    PROVE  rows'[buffer[i].key] # NoRow
<1>0. buffer \in Seq(Finalized) /\ rows \in [Keys -> Row \cup {NoRow}]  BY DEF TypeOK
<1>1. PICK k \in Keys : k = buffer[i].key  BY <1>0, ElementType, FinalizedFields
<1>2. rows' = Store!Merged(rows, buffer)  BY DEF FlushEffect
<1>3. CASE rows[k] # NoRow
  <2>1. Store!Merged(rows, buffer)[k] = rows[k]  BY <1>0, <1>3, MergedRow
  <2> QED  BY <1>1, <1>2, <1>3, <2>1
<1>4. CASE rows[k] = NoRow
  <2>1. PICK n \in DOMAIN buffer :
            n = CHOOSE j \in DOMAIN buffer : Store!IsFirst(buffer, j, k)
    BY <1>0, <1>1, FirstExists
  <2>2. rows'[k] = buffer[n].val
    BY <1>1, <1>2, <1>4, <2>1 DEF Store!Merged
  <2>3. buffer[n].val \in Row  BY <1>0, ElementType, FinalizedFields
  <2> QED  BY <1>1, <2>2, <2>3, Constants
<1> QED  BY <1>3, <1>4

(* A step that writes rows and leaves the buckets. *)
LEMMA StoredSeen ==
    ASSUME TypeOK, RowsKept, NoSweepYet, NEW seen \in Book, Holds(seen), UNCHANGED partial,
           \/ UNCHANGED buffer
           \/ buffer' = << >> /\ \A i \in DOMAIN buffer : rows'[buffer[i].key] # NoRow
    PROVE  Holds(seen)'
<1>1. \A k : Behind(k)' <=> Behind(k)  BY DEF Behind
<1>2. DOMAIN page = {}  BY NoPageType DEF NoSweepYet
<1>3. \A k \in Keys : rows'[k] # NoRow => Behind(k) /\ rows'[k].c = seen[k]
  <2> SUFFICES ASSUME NEW k \in Keys, rows'[k] # NoRow PROVE Behind(k) /\ rows'[k].c = seen[k]
    OBVIOUS
  <2>1. KeptRow(k) /\ NewRow(k)  BY DEF RowsKept
  <2>2. CASE rows[k] # NoRow  BY <2>1, <2>2 DEF KeptRow, Holds
  <2>3. CASE rows[k] = NoRow
    <3>1. PICK i \in DOMAIN buffer : buffer[i].key = k /\ buffer[i].val = rows'[k]
      BY <1>2, <2>1, <2>3 DEF NewRow
    <3> QED  BY <3>1 DEF Holds
  <2> QED  BY <2>2, <2>3
<1>4. \A k \in Keys : rows[k] # NoRow => rows'[k] # NoRow  BY DEF RowsKept, KeptRow
<1>5. \A i \in DOMAIN buffer' : Behind(buffer'[i].key) /\ buffer'[i].val.c = seen[buffer'[i].key]
  <2>1. CASE UNCHANGED buffer  BY <2>1 DEF Holds
  <2>2. CASE buffer' = << >>  BY <2>2
  <2> QED  BY <2>1, <2>2
<1>6. \A k \in Keys : seen[k] # NoRow =>
          \/ rows'[k] # NoRow
          \/ \E i \in DOMAIN buffer' : buffer'[i].key = k
          \/ partial'[k[1]] # NoRow /\ partial'[k[1]].ts = k[2]
  BY <1>4 DEF Holds
<1>7. \A s \in Symbols : partial'[s] # NoRow => partial'[s].c = seen[<<s, partial'[s].ts>>]
  BY DEF Holds
<1> QED  BY <1>1, <1>3, <1>5, <1>6, <1>7 DEF Holds, Behind

(* One more trade at the end of the replay. *)
LEMMA TradeReplays ==
    ASSUME TypeOK, TypeOK', NEW s \in Symbols, NEW p \in Prices, Trade(s, p),
           NEW rep \in [0..Len(inbox) -> Book], Replay(rep)
    PROVE  \E new \in [0..Len(inbox') -> Book] : Replay(new)' /\ new[0] = rep[0]
<1> DEFINE n == Len(inbox)
           t == [sym |-> s, ts |-> now, price |-> p]
<1>0. PICK new : new = [i \in 0..(n + 1) |-> IF i <= n THEN rep[i] ELSE book']  OBVIOUS
<1>1. n \in Nat /\ DOMAIN inbox = 1..n  BY OrderTypes
<1>2. inbox' = Append(inbox, t) /\ inbox \in Seq(TradeMsg)
  BY DEF Trade, TypeOK, TradeMsg
<1>3. /\ Len(inbox') = n + 1 /\ DOMAIN inbox' = 1..(n + 1)
      /\ inbox'[n + 1] = t /\ \A i \in 1..n : inbox'[i] = inbox[i]
  BY <1>1, <1>2
<1>4. TradeKey(t) = <<s, now>> /\ <<s, now>> \in Keys /\ t.price = p
  BY DEF TradeKey, TypeOK, Keys
<1>5. book \in Book /\ book' \in Book /\ book' = [book EXCEPT ![<<s, now>>] = Published(@, p)]
  BY DEF TypeOK, Book, Trade
<1>6. rep[n] = book
  <2>1. rep[n] \in Book  BY <1>1
  <2>2. \A k \in Keys : rep[n][k] = book[k]
    <3>1. \A j \in DOMAIN inbox : ~(j > n)  BY <1>1
    <3>2. n \in 0..Len(inbox)  BY <1>1
    <3> QED  BY <3>1, <3>2 DEF Replay
  <2> QED  BY <1>5, <2>1, <2>2 DEF Book
<1>7. new \in [0..(n + 1) -> Book]  BY <1>0, <1>1, <1>5
<1>8. new[n + 1] = book' /\ \A i \in 0..n : new[i] = rep[i]  BY <1>0, <1>1
<1> HIDE DEF t
<1>9. ASSUME NEW i \in DOMAIN inbox'
      PROVE  new[i] = [new[i - 1] EXCEPT ![TradeKey(inbox'[i])] = Published(@, inbox'[i].price)]
  <2>1. CASE i = n + 1
    <3>1. new[i] = book' /\ new[i - 1] = book  BY <1>1, <1>6, <1>8, <2>1
    <3>2. TradeKey(inbox'[i]) = <<s, now>> /\ inbox'[i].price = p
      BY <1>3, <1>4, <2>1
    <3> QED  BY <1>5, <3>1, <3>2
  <2>2. CASE i \in 1..n
    <3>1. new[i] = rep[i] /\ new[i - 1] = rep[i - 1] /\ inbox'[i] = inbox[i]
      <4>1. i \in 0..n /\ i - 1 \in 0..n  BY <1>1, <2>2
      <4> QED  BY <1>3, <1>8, <2>2, <4>1
    <3> QED  BY <1>1, <2>2, <3>1 DEF Replay
  <2>3. i = n + 1 \/ i \in 1..n  BY <1>1, <1>3
  <2> QED  BY <2>1, <2>2, <2>3
<1>10. ASSUME NEW i \in 0..(n + 1), NEW k \in Keys,
              \A j \in DOMAIN inbox' : j > i => TradeKey(inbox'[j]) # k
       PROVE  new[i][k] = book'[k]
  <2>1. CASE i = n + 1  BY <1>8, <2>1
  <2>2. CASE i \in 0..n
    <3>1. n + 1 \in DOMAIN inbox' /\ n + 1 > i  BY <1>1, <1>3, <2>2
    <3>2. k # <<s, now>>  BY <1>3, <1>4, <1>10, <3>1
    <3>3. book'[k] = book[k]  BY <1>4, <1>5, <3>2 DEF Book
    <3>4. \A j \in DOMAIN inbox : j > i => TradeKey(inbox[j]) # k
      <4>1. \A j \in DOMAIN inbox : j \in DOMAIN inbox' /\ inbox'[j] = inbox[j]
        BY <1>1, <1>3
      <4> QED  BY <1>10, <4>1
    <3>5. rep[i][k] = book[k]  BY <2>2, <3>4 DEF Replay
    <3> QED  BY <1>8, <2>2, <3>3, <3>5
  <2>3. i = n + 1 \/ i \in 0..n  BY <1>1
  <2> QED  BY <2>1, <2>2, <2>3
<1>11. new[0] = rep[0]  BY <1>1, <1>8
<1>12. Replay(new)'  BY <1>3, <1>9, <1>10 DEF Replay
<1>13. new \in [0..Len(inbox') -> Book]  BY <1>3, <1>7
<1> QED  BY <1>11, <1>12, <1>13

(* The first trade of the inbox is taken: the replay goes on from there. *)
LEMMA WatchReplays ==
    ASSUME TypeOK, Watch(1), NEW rep \in [0..Len(inbox) -> Book], Replay(rep)
    PROVE  /\ \E new \in [0..Len(inbox') -> Book] : Replay(new)' /\ new[0] = rep[1]
           /\ rep[1] = [rep[0] EXCEPT ![TradeKey(inbox[1])] = Published(@, inbox[1].price)]
           /\ \A j \in DOMAIN inbox' : j + 1 \in DOMAIN inbox /\ inbox'[j] = inbox[j + 1]
<1>0. PICK n, new : n = Len(inbox) /\ new = [i \in 0..(n - 1) |-> rep[i + 1]]  OBVIOUS
<1>1. n \in Nat /\ DOMAIN inbox = 1..n  BY <1>0, OrderTypes
<1>2. 1 \in 1..n /\ inbox' = Without(inbox, 1) /\ UNCHANGED book
  BY <1>1 DEF Watch, exchange
<1>3. /\ DOMAIN inbox' = 1..(n - 1) /\ \A j \in 1..(n - 1) : inbox'[j] = inbox[j + 1]
  BY <1>1, <1>2 DEF Without
<1>4. Len(inbox') = n - 1  BY <1>0, <1>1, <1>2, <1>3 DEF Without
<1>5. new \in [0..(n - 1) -> Book] /\ \A i \in 0..(n - 1) : new[i] = rep[i + 1]
  BY <1>0, <1>1, <1>2
<1>6. \A j \in DOMAIN inbox' : j + 1 \in DOMAIN inbox /\ inbox'[j] = inbox[j + 1]
  BY <1>1, <1>2, <1>3
<1>7. ASSUME NEW i \in DOMAIN inbox'
      PROVE  new[i] = [new[i - 1] EXCEPT ![TradeKey(inbox'[i])] = Published(@, inbox'[i].price)]
  <2>1. i + 1 \in DOMAIN inbox /\ i \in 0..(n - 1) /\ i - 1 \in 0..(n - 1) /\ (i - 1) + 1 = i
        /\ (i + 1) - 1 = i
    BY <1>1, <1>3, <1>6
  <2>2. new[i] = rep[i + 1] /\ new[i - 1] = rep[i] /\ inbox'[i] = inbox[i + 1]
    BY <1>5, <1>6, <2>1
  <2>3. rep[i + 1] = [rep[(i + 1) - 1] EXCEPT ![TradeKey(inbox[i + 1])] = Published(@, inbox[i + 1].price)]
    BY <2>1 DEF Replay
  <2> QED  BY <2>1, <2>2, <2>3
<1>8. ASSUME NEW i \in 0..(n - 1), NEW k \in Keys,
             \A j \in DOMAIN inbox' : j > i => TradeKey(inbox'[j]) # k
      PROVE  new[i][k] = book'[k]
  <2>1. ASSUME NEW j \in DOMAIN inbox, j > i + 1 PROVE TradeKey(inbox[j]) # k
    <3>1. j - 1 \in 1..(n - 1) /\ j - 1 > i /\ (j - 1) + 1 = j  BY <1>1, <2>1
    <3>2. inbox'[j - 1] = inbox[j]  BY <1>3, <3>1
    <3> QED  BY <1>3, <1>8, <3>1, <3>2
  <2>2. i + 1 \in 0..Len(inbox)  BY <1>0, <1>1, <1>2
  <2>3. rep[i + 1][k] = book[k]  BY <2>1, <2>2 DEF Replay
  <2> QED  BY <1>2, <1>5, <2>3
<1>9. Replay(new)'  BY <1>3, <1>4, <1>7, <1>8 DEF Replay
<1>10. new[0] = rep[1]
  <2>1. 0 \in 0..(n - 1) /\ 0 + 1 = 1  BY <1>1, <1>2
  <2> QED  BY <1>5, <2>1
<1>11. rep[1] = [rep[0] EXCEPT ![TradeKey(inbox[1])] = Published(@, inbox[1].price)]
  <2>1. 1 \in DOMAIN inbox /\ 1 - 1 = 0  BY <1>1, <1>2
  <2>2. rep[1] = [rep[1 - 1] EXCEPT ![TradeKey(inbox[1])] = Published(@, inbox[1].price)]
    BY <2>1 DEF Replay
  <2> QED  BY <2>1, <2>2
<1>12. new \in [0..Len(inbox') -> Book]  BY <1>4, <1>5
<1> QED  BY <1>6, <1>9, <1>10, <1>11, <1>12

LEMMA InOrderStep ==
    ASSUME TypeOK, TypeOK', Undisturbed, NoSweepYet, InOrder, [Next]_vars
    PROVE  InOrder'
<1>1. ASSUME NEW s \in Symbols, NEW p \in Prices, Trade(s, p) PROVE InOrder'
  <2> DEFINE n == Len(inbox)
             t == [sym |-> s, ts |-> now, price |-> p]
  <2>1. n \in Nat /\ DOMAIN inbox = 1..n /\ now \in Nat  BY OrderTypes
  <2>2. inbox' = Append(inbox, t) /\ inbox \in Seq(TradeMsg) /\ UNCHANGED <<now, partial>>
    BY <1>1 DEF Trade, TypeOK, TradeMsg
  <2>3. /\ DOMAIN inbox' = 1..(n + 1)
        /\ inbox'[n + 1] = t /\ \A i \in 1..n : inbox'[i] = inbox[i]
    BY <2>1, <2>2
  <2>4. t.ts = now /\ t.sym = s  OBVIOUS
  <2> HIDE DEF t
  <2>5. \A i \in DOMAIN inbox : inbox[i].ts \in Nat  BY OrderTypes
  <2>6. \A i \in DOMAIN inbox' : (i \in DOMAIN inbox /\ inbox'[i] = inbox[i]) \/ (i = n + 1 /\ inbox'[i] = t)
    BY <2>1, <2>3
  <2>7. \A i, j \in DOMAIN inbox' : i <= j => inbox'[i].ts <= inbox'[j].ts
    BY <2>1, <2>4, <2>5, <2>6 DEF InOrder
  <2>8. \A i \in DOMAIN inbox' :
          /\ inbox'[i].ts <= now
          /\ partial[inbox'[i].sym] # NoRow => partial[inbox'[i].sym].ts <= inbox'[i].ts
    BY <2>1, <2>4, <2>6 DEF InOrder
  <2> QED  BY <2>2, <2>7, <2>8 DEF InOrder
<1>2. CASE Watch(1)
  <2>1. /\ inbox \in Seq(TradeMsg) /\ 1 \in DOMAIN inbox /\ OnTrade(inbox[1]) /\ UNCHANGED now
        /\ inbox' = Without(inbox, 1)
    BY <1>2 DEF Watch, exchange, TypeOK, TradeMsg
  <2>2. Len(inbox) \in Nat /\ DOMAIN inbox = 1..Len(inbox)  BY OrderTypes
  <2>3. \A j \in DOMAIN inbox' : j \in Nat /\ j + 1 \in DOMAIN inbox /\ inbox'[j] = inbox[j + 1]
    BY <2>1, <2>2 DEF Without
  <2>4. PICK t \in TradeMsg : t = inbox[1]  BY <2>1, OrderTypes
  <2>5. /\ t.sym \in Symbols /\ t.ts \in Nat /\ t.ts <= now
        /\ \A j \in DOMAIN inbox : t.ts <= inbox[j].ts
    BY <2>1, <2>2, <2>4, OrderTypes DEF InOrder
  <2>6. /\ \A s \in Symbols \ {t.sym} : partial'[s] = partial[s]
        /\ partial'[t.sym].ts = t.ts
    <3>1. LiveType  BY TypeParts
    <3>2. /\ \A s \in Symbols \ {t.sym} : partial'[s] = partial[s]
          /\ \/ partial'[t.sym] = [ts |-> t.ts, c |-> Start(t.price)]
             \/ /\ partial[t.sym].ts = t.ts
                /\ partial'[t.sym] = [ts |-> partial[t.sym].ts,
                                      c |-> Update(partial[t.sym].c, t.price)]
      BY <2>1, <2>4, <3>1, OnTradeEffect
    <3> QED  BY <3>2
  <2>7. \A j \in DOMAIN inbox : inbox[j].sym \in Symbols  BY OrderTypes
  <2>8. \A i, j \in DOMAIN inbox' : i <= j => inbox'[i].ts <= inbox'[j].ts
    BY <2>3 DEF InOrder
  <2>9. \A i \in DOMAIN inbox' :
          /\ inbox'[i].ts <= now
          /\ partial'[inbox'[i].sym] # NoRow => partial'[inbox'[i].sym].ts <= inbox'[i].ts
    BY <2>3, <2>5, <2>6, <2>7 DEF InOrder
  <2>10. \A s \in Symbols : partial'[s] # NoRow => partial'[s].ts <= now
    BY <2>5, <2>6 DEF InOrder
  <2> QED  BY <2>1, <2>8, <2>9, <2>10 DEF InOrder
<1>3. CASE Flush  BY <1>3 DEF Flush, exchange, InOrder
<1>4. CASE Tick
  <2>1. now \in Nat /\ now' = now + 1 /\ UNCHANGED <<inbox, partial>>
    BY <1>4, OrderTypes DEF Tick, live
  <2>2. /\ \A i \in DOMAIN inbox : inbox[i].ts \in Nat
        /\ \A s \in Symbols : partial[s] # NoRow => partial[s].ts \in Nat
    BY OrderTypes
  <2> QED  BY <2>1, <2>2 DEF InOrder
<1>5. CASE UNCHANGED <<exchange, live>>  BY <1>5 DEF exchange, live, InOrder
<1> QED  BY <1>1, <1>2, <1>3, <1>4, <1>5, UndisturbedSteps

LEMMA InitExact == Init => Exact
<1> SUFFICES ASSUME Init PROVE Exact  OBVIOUS
<1>1. inbox = << >> /\ Len(inbox) = 0 /\ DOMAIN inbox = {}  BY DEF Init
<1>2. book \in Book  BY DEF Init, Book
<1> DEFINE rep == [i \in 0..0 |-> book]
<1>3. rep \in [0..0 -> Book] /\ rep[0] = book /\ 0..0 = {0}  BY <1>2
<1> HIDE DEF rep
<1>4. Replay(rep)  BY <1>1, <1>3 DEF Replay
<1>5. Holds(rep[0])  BY <1>3 DEF Init, Holds
<1>6. InOrder  BY <1>1 DEF Init, InOrder
<1>7. NoSweepYet  BY DEF Init, NoSweepYet, NoSweep
<1>8. rep \in [0..Len(inbox) -> Book]  BY <1>1, <1>3
<1> QED  BY <1>4, <1>5, <1>6, <1>7, <1>8 DEF Exact

LEMMA ExactStep ==
    ASSUME Undisturbed, CandlesInv, CandlesInv', Exact, [Next]_vars
    PROVE  Exact'
<1>0. TypeOK /\ TypeOK' /\ CheckRefersBack /\ NoSweepYet /\ InOrder
  BY DEF CandlesInv, Exact
<1>1. PICK rep \in [0..Len(inbox) -> Book] : Replay(rep) /\ Holds(rep[0])  BY DEF Exact
<1>2. RowsKept  BY <1>0, RowsStep
<1>3. Len(inbox) \in Nat /\ DOMAIN inbox = 1..Len(inbox)  BY <1>0, OrderTypes
<1>4. rep[0] \in Book  BY <1>1, <1>3
<1> DEFINE Goes == \E new \in [0..Len(inbox') -> Book] : Replay(new)' /\ Holds(new[0])'
<1>5. ASSUME NEW s \in Symbols, NEW p \in Prices, Trade(s, p) PROVE Goes
  <2>1. PICK new \in [0..Len(inbox') -> Book] : Replay(new)' /\ new[0] = rep[0]
    BY <1>0, <1>1, <1>5, TradeReplays
  <2>2. UNCHANGED <<partial, buffer, rows>>  BY <1>5 DEF Trade
  <2>3. Holds(rep[0])'  BY <1>0, <1>1, <1>2, <1>4, <2>2, StoredSeen
  <2>4. Holds(new[0])'  BY <2>1, <2>3 DEF Holds
  <2> QED  BY <2>1, <2>4
<1>6. ASSUME Watch(1) PROVE Goes
  <2>1. /\ \E new \in [0..Len(inbox') -> Book] : Replay(new)' /\ new[0] = rep[1]
        /\ rep[1] = [rep[0] EXCEPT ![TradeKey(inbox[1])] = Published(@, inbox[1].price)]
    BY <1>0, <1>1, <1>6, WatchReplays
  <2>2. PICK t \in TradeMsg : t = inbox[1] /\ OnTrade(t)  BY <1>0, <1>6, WatchCounts
  <2>3. UNCHANGED rows /\ 1 \in DOMAIN inbox  BY <1>6 DEF Watch
  <2>4. partial[t.sym] # NoRow => partial[t.sym].ts <= t.ts
    BY <1>0, <2>2, <2>3 DEF InOrder
  <2>5. Holds([rep[0] EXCEPT ![TradeKey(t)] = Published(@, t.price)])'
    BY <1>0, <1>1, <1>4, <2>2, <2>3, <2>4, TradeSeen
  <2>6. PICK new \in [0..Len(inbox') -> Book] : Replay(new)' /\ new[0] = rep[1]
    BY <2>1
  <2>7. new[0] = [rep[0] EXCEPT ![TradeKey(t)] = Published(@, t.price)]
    BY <2>1, <2>2, <2>6
  <2>8. Holds(new[0])'  BY <2>5, <2>7 DEF Holds
  <2> QED  BY <2>6, <2>8
<1>7. ASSUME UNCHANGED <<book, inbox>>, Holds(rep[0])' PROVE Goes
  <2>1. Replay(rep)'  BY <1>1, <1>7 DEF Replay
  <2>2. rep \in [0..Len(inbox') -> Book]  BY <1>1, <1>7
  <2> QED  BY <1>7, <2>1, <2>2
<1>8. ASSUME Flush PROVE Goes
  <2>1. FlushEffect /\ buffer' = << >> /\ UNCHANGED <<partial, book, inbox>>
    BY <1>8 DEF Flush, exchange
  <2>2. \A i \in DOMAIN buffer : rows'[buffer[i].key] # NoRow
    BY <1>0, <2>1, FlushTakes
  <2>3. Holds(rep[0])'  BY <1>0, <1>1, <1>2, <1>4, <2>1, <2>2, StoredSeen
  <2> HIDE DEF Goes
  <2> QED  BY <1>7, <2>1, <2>3
<1>9. ASSUME Tick \/ UNCHANGED <<exchange, live>> PROVE Goes
  <2>1. UNCHANGED <<partial, buffer, book, inbox>>
    BY <1>9 DEF Tick, exchange, live
  <2>2. Holds(rep[0])'  BY <1>0, <1>1, <1>2, <1>4, <2>1, StoredSeen
  <2> HIDE DEF Goes
  <2> QED  BY <1>7, <2>1, <2>2
<1>10. Goes
  <2> HIDE DEF Goes
  <2> QED  BY <1>0, <1>5, <1>6, <1>8, <1>9, UndisturbedSteps
<1>11. NoSweepYet'  BY <1>0, UndisturbedSteps
<1>12. InOrder'  BY <1>0, InOrderStep
<1> QED  BY <1>10, <1>11, <1>12 DEF Exact

(* While nothing but trading and the check goes on, the trades on their way  *)
(* lead from what buckets, buffer and table hold to the exchange's book.     *)
THEOREM ExactInvariant == ASSUME Undisturbed PROVE Spec => []Exact
<1>1. CandlesInv /\ CandlesInv' /\ Exact /\ [Next]_vars => Exact'  BY ExactStep
<1> QED  BY <1>1, InitExact, CandlesInvariant, PTL DEF Spec

(* A minute none of whose trades is still to come has been seen whole. *)
LEMMA SeenWhole ==
    ASSUME CandlesInv, NEW rep \in [0..Len(inbox) -> Book], Replay(rep), NEW k \in Keys,
           \A i \in DOMAIN inbox : TradeKey(inbox[i]) # k
    PROVE  rep[0][k] = book[k]
<1>1. 0 \in 0..Len(inbox)  BY OrderTypes DEF CandlesInv
<1> QED  BY <1>1 DEF Replay

(* live_candles.py: the undisturbed loop stores the exchange's candles,      *)
(* exactly.  No candle is written before all trades of its minute have been  *)
(* taken, however far the loop is behind the exchange.                       *)
THEOREM LiveRowsExact == ASSUME Undisturbed PROVE Spec => []OkRowsExact
<1>1. CandlesInv /\ Exact => OkRowsExact
  <2> SUFFICES ASSUME CandlesInv, Exact, NEW k \in Keys, rows[k] # NoRow
               PROVE  rows[k].c = book[k]
    BY DEF OkRowsExact
  <2>0. TypeOK /\ InOrder  BY DEF CandlesInv, Exact
  <2>1. PICK rep \in [0..Len(inbox) -> Book] : Replay(rep) /\ Holds(rep[0])  BY DEF Exact
  <2>2. k[1] \in Symbols /\ k[2] \in Nat  BY <2>0, OrderTypes DEF Keys
  <2>3. Behind(k) /\ rows[k].c = rep[0][k]  BY <2>1 DEF Holds
  <2>4. ASSUME NEW i \in DOMAIN inbox PROVE TradeKey(inbox[i]) # k
    <3>1. inbox[i].ts \in Nat /\ (inbox[i].sym = k[1] => partial[k[1]].ts <= inbox[i].ts)
      BY <2>0, <2>3, OrderTypes DEF InOrder, Behind
    <3>2. partial[k[1]].ts \in Nat /\ k[2] < partial[k[1]].ts
      BY <2>0, <2>2, <2>3, OrderTypes DEF Behind
    <3> QED  BY <2>2, <3>1, <3>2 DEF TradeKey
  <2> QED  BY <2>1, <2>3, <2>4, SeenWhole
<1> QED  BY <1>1, CandlesInvariant, ExactInvariant, PTL

(* live_candles.py: no minute falls between bucket, buffer and flush, for    *)
(* any number of symbols and whatever the batches and the flushes are.       *)
THEOREM NothingFallsThrough == ASSUME Undisturbed PROVE Spec => []NothingDropped
<1>1. CandlesInv /\ Exact => NothingDropped
  <2> SUFFICES ASSUME CandlesInv, Exact, NEW k \in Keys, book[k] # NoRow,
                      \A i \in DOMAIN inbox : TradeKey(inbox[i]) # k
               PROVE  Carries(k)
    BY DEF NothingDropped, TradeKey
  <2>1. PICK rep \in [0..Len(inbox) -> Book] : Replay(rep) /\ Holds(rep[0])  BY DEF Exact
  <2>2. rep[0][k] = book[k]  BY <2>1, SeenWhole
  <2>3. k[1] \in Symbols /\ k = <<k[1], k[2]>>  BY DEF Keys
  <2>4. CASE rows[k] # NoRow  BY <2>1, <2>2, <2>4 DEF Holds, Carries
  <2>5. ASSUME NEW i \in DOMAIN buffer, buffer[i].key = k PROVE Carries(k)
    BY <2>1, <2>2, <2>5 DEF Holds, Carries
  <2>6. CASE partial[k[1]] # NoRow /\ partial[k[1]].ts = k[2]
    <3>1. partial[k[1]] \in Bucket  BY <2>3, <2>6 DEF CandlesInv, TypeOK
    <3>2. partial[k[1]] = [ts |-> partial[k[1]].ts, c |-> partial[k[1]].c]
      BY <3>1 DEF Bucket
    <3>3. partial[k[1]].c = book[k]  BY <2>1, <2>2, <2>3, <2>6 DEF Holds
    <3> QED  BY <2>6, <3>2, <3>3 DEF Carries
  <2> QED  BY <2>1, <2>2, <2>4, <2>5, <2>6 DEF Holds
<1> QED  BY <1>1, CandlesInvariant, ExactInvariant, PTL
=============================================================================
