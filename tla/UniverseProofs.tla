--------------------------- MODULE UniverseProofs ---------------------------
(***************************************************************************)
(* For any set of symbols, number of days and number of runs a day: what   *)
(* universe_at answers for a day that is over does not change, the symbols *)
(* table is never ahead of the snapshots, and the daily differences add up *)
(* as long as every day has its run.                                       *)
(***************************************************************************)
EXTENDS Universe, FiniteSetTheorems, TLAPS

(* The date of a run is the day it began on, and no snapshot is of a day to  *)
(* come.                                                                     *)
Dated ==
    /\ run.date <= day
    /\ run.pc \in {"fetch", "copy", "diff", "symbols"} => run.since = run.date
    /\ run.pc = "idle" => run = NoJob
    /\ \A d \in Days : d > day => snapshots[d] = Nothing

(* What a run is about to enter in the symbols table is in a snapshot. *)
FetchedStored ==
    /\ run.pc \in {"diff", "symbols"} =>
          \A s \in Symbols : run.got[s] # "none" => snapshots[run.date][s] # "none"
    /\ run.pc = "symbols" => run.new \subseteq In(run.got)

Before == IF day = 0 THEN {} ELSE In(snapshots[day - 1])

(* The day so far, if every day had one run: first nothing is of today, then *)
(* there is the snapshot, then the symbols that agree with it.               *)
CleanDay ==
    /\ Active = last
    /\ last = IF committed THEN In(snapshots[day]) ELSE Before
    /\ ~committed /\ run.pc \notin {"diff", "symbols"} => snapshots[day] = Nothing
    /\ run.pc = "idle" => (committed <=> began > 0)
    /\ run.pc # "idle" => began > 0
    /\ run.pc \in {"fetch", "copy", "diff", "symbols"} => ~committed /\ run.date = day
    /\ run.pc \in {"diff", "symbols"} => snapshots[day] = run.got
    /\ run.pc = "symbols" => /\ run.new = In(run.got) \ Before
                             /\ run.gone = Before \ In(run.got)
    /\ run.pc \in {"rank", "tier"} => committed

IInv == /\ TypeOK /\ Dated /\ SymbolsBehindSnapshots /\ FetchedStored
        /\ clean => CleanDay
----------------------------------------------------------------------------

LEMMA DaysInt == Days \subseteq Nat /\ 0 \in Days
  BY UniverseAssumption DEF Days

(* Before anything runs. *)
LEMMA InitIInv == Init => IInv
<1> SUFFICES ASSUME Init PROVE IInv  OBVIOUS
<1> USE DEF Init, NoJob
<1>1. Nothing \in Entries  BY DEF Nothing, Entries, Entry
<1>2. TypeOK
  <2>1. began \in 0..RunsPerDay  BY UniverseAssumption
  <2>2. committed \in BOOLEAN /\ clean \in BOOLEAN  BY Zenon
  <2>3. run \in [pc : {"idle", "fetch", "copy", "diff", "symbols", "rank", "tier"},
                 since : Days, date : Days, got : Entries,
                 new : SUBSET Symbols, gone : SUBSET Symbols, top : SUBSET Symbols]
    BY <1>1, DaysInt
  <2>4. day \in Days /\ snapshots \in [Days -> Entries] /\ tier \in [Symbols -> {1, 2}]
    BY <1>1, DaysInt
  <2>5. /\ exchange \in [Symbols -> Volumes \cup {NoTicker}]
        /\ status \in [Symbols -> {"unknown", "active", "delisted"}]
        /\ last \in SUBSET Symbols
    OBVIOUS
  <2> QED  BY <2>1, <2>2, <2>3, <2>4, <2>5 DEF TypeOK
<1>3. Dated  BY DaysInt DEF Dated
<1>4. SymbolsBehindSnapshots /\ FetchedStored
  BY DEF SymbolsBehindSnapshots, FetchedStored
<1>5. CleanDay  BY DaysInt DEF CleanDay, Active, Before
<1> QED  BY <1>2, <1>3, <1>4, <1>5 DEF IInv

(* Nothing in IInv is about the exchange. *)
LEMMA TradeIInv ==
    ASSUME IInv, NEW s \in Symbols, NEW v \in Volumes \cup {NoTicker}, Trade(s, v)
    PROVE  IInv'
<1> USE DEF IInv, Trade, tables, past
<1>1. TypeOK'  BY DEF TypeOK
<1>2. Dated'  BY DEF Dated
<1>3. SymbolsBehindSnapshots' /\ FetchedStored'
  BY DEF SymbolsBehindSnapshots, FetchedStored, In
<1>4. clean' => CleanDay'  BY DEF CleanDay, Active, Before, In
<1> QED  BY <1>1, <1>2, <1>3, <1>4

LEMMA NextDayIInv == IInv /\ NextDay => IInv'
<1> SUFFICES ASSUME IInv, NextDay PROVE IInv'  OBVIOUS
<1> USE DEF IInv, NextDay, tables
<1>0. day \in Days /\ day' \in Days /\ day' = day + 1 /\ day \in Nat
  BY UniverseAssumption DEF TypeOK, Days
<1>1. TypeOK'
  <2>1. clean' \in BOOLEAN  BY Zenon
  <2>2. began' \in 0..RunsPerDay  BY UniverseAssumption
  <2> QED  BY <1>0, <2>1, <2>2 DEF TypeOK
<1>2. Dated'
  <2>1. run.date \in Nat  BY DaysInt DEF TypeOK
  <2> QED  BY <1>0, <2>1, DaysInt DEF Dated
<1>3. SymbolsBehindSnapshots' /\ FetchedStored'
  BY DEF SymbolsBehindSnapshots, FetchedStored, In
<1>4. ASSUME clean' PROVE CleanDay'
  <2>1. clean /\ committed /\ run = NoJob /\ ~committed'  BY <1>4
  <2>2. CleanDay  BY <2>1
  <2>3. last = In(snapshots[day]) /\ Active = last  BY <2>1, <2>2 DEF CleanDay
  <2>4. day' # 0 /\ day' - 1 = day  BY <1>0
  <2>5. Before' = In(snapshots[day])  BY <2>4 DEF Before, In
  <2>6. snapshots[day'] = Nothing  BY <1>0 DEF Dated
  <2>7. Active' = Active  BY DEF Active
  <2> QED  BY <2>1, <2>3, <2>5, <2>6, <2>7 DEF CleanDay, NoJob
<1> QED  BY <1>1, <1>2, <1>3, <1>4

LEMMA StartIInv == IInv /\ Start => IInv'
<1> SUFFICES ASSUME IInv, Start PROVE IInv'  OBVIOUS
<1> USE DEF IInv, Start, Begin, tables
<1>0. /\ run' = [pc |-> "fetch", since |-> day, date |-> day, got |-> Nothing,
                new |-> {}, gone |-> {}, top |-> {}]
      /\ day \in Days /\ day \in Nat /\ began \in Nat
  <2>1. day \in Days /\ day \in Nat /\ began \in Nat
    BY DaysInt, UniverseAssumption DEF TypeOK
  <2> QED  BY <2>1 DEF NoJob
<1>1. TypeOK'
  <2>1. clean' \in BOOLEAN  BY Zenon
  <2>2. began' \in 0..RunsPerDay  BY <1>0, UniverseAssumption
  <2>3. Nothing \in Entries  BY DEF Nothing, Entries, Entry
  <2> QED  BY <1>0, <2>1, <2>2, <2>3 DEF TypeOK
<1>2. Dated'  BY <1>0 DEF Dated
<1>3. SymbolsBehindSnapshots' /\ FetchedStored'
  BY <1>0 DEF SymbolsBehindSnapshots, FetchedStored
<1>4. ASSUME clean' PROVE CleanDay'
  <2>1. clean /\ began = 0  BY <1>4
  <2>2. CleanDay /\ run.pc = "idle"  BY <2>1 DEF NoJob
  <2>3. ~committed /\ snapshots[day] = Nothing  BY <2>1, <2>2 DEF CleanDay
  <2>4. began' > 0  BY <1>0
  <2>5. Before' = Before /\ Active' = Active  BY DEF Before, Active, In
  <2> QED  BY <1>0, <2>2, <2>3, <2>4, <2>5 DEF CleanDay
<1> QED  BY <1>1, <1>2, <1>3, <1>4

LEMMA FilterEntries ==
    ASSUME NEW tickers PROVE Filter(tickers) \in Entries
  BY DEF Filter, Entries, Entry

(* Without tickers the run goes on to the tiers; the day is not clean. *)
LEMMA RankingIInv ==
    ASSUME IInv, run' = Ranking, clean' = FALSE,
           UNCHANGED <<world, tables, committed, last>>
    PROVE  IInv'
<1> USE DEF IInv, world, tables
<1>0. run' = [pc |-> "rank", since |-> run.since, date |-> 0, got |-> Nothing,
              new |-> {}, gone |-> {}, top |-> {}]
  BY DEF Ranking, NoJob
<1>1. Nothing \in Entries  BY DEF Nothing, Entries, Entry
<1>2. TypeOK'
  <2>1. clean' \in BOOLEAN /\ committed' \in BOOLEAN  BY Zenon DEF TypeOK
  <2>2. run.since \in Days  BY DEF TypeOK
  <2> QED  BY <1>0, <1>1, <2>1, <2>2, DaysInt DEF TypeOK
<1>3. Dated'  BY <1>0, DaysInt DEF Dated, TypeOK
<1>4. SymbolsBehindSnapshots' /\ FetchedStored'
  BY <1>0 DEF SymbolsBehindSnapshots, FetchedStored
<1> QED  BY <1>2, <1>3, <1>4

LEMMA FetchIInv == IInv /\ Fetch => IInv'
<1> SUFFICES ASSUME IInv, Fetch PROVE IInv'  OBVIOUS
<1> USE DEF IInv
<1> DEFINE got == Filter(exchange)
<1>1. CASE In(got) = {}
  BY <1>1, RankingIInv DEF Fetch
<1>2. CASE In(got) # {}
  <2> USE DEF world, tables
  <2>1. /\ run.pc = "fetch"
        /\ run' = [run EXCEPT !.pc = "copy", !.got = got]
        /\ UNCHANGED <<day, exchange, began, snapshots, status, tier, committed, last>>
    BY <1>2 DEF Fetch
  <2>2. clean' = clean  BY <1>2, Zenon DEF Fetch, TypeOK
  <2>3. got \in Entries  BY FilterEntries
  <2> HIDE DEF got
  <2>4. TypeOK'
    <3>1. clean' \in BOOLEAN /\ committed' \in BOOLEAN  BY <2>1, <2>2, Zenon DEF TypeOK
    <3> QED  BY <2>1, <2>3, <3>1 DEF TypeOK
  <2>5. /\ run'.pc = "copy" /\ run'.date = run.date /\ run'.since = run.since
    BY <2>1 DEF TypeOK
  <2>6. Dated'  BY <2>1, <2>5 DEF Dated
  <2>7. SymbolsBehindSnapshots' /\ FetchedStored'
    BY <2>1, <2>5 DEF SymbolsBehindSnapshots, FetchedStored
  <2>8. ASSUME clean' PROVE CleanDay'
    <3>1. CleanDay  BY <2>2, <2>8
    <3>2. Before' = Before /\ Active' = Active  BY <2>1 DEF Before, Active, In
    <3> QED  BY <2>1, <2>5, <3>1, <3>2 DEF CleanDay, In
  <2> QED  BY <2>4, <2>6, <2>7, <2>8
<1> QED  BY <1>1, <1>2

LEMMA FetchFailsIInv == IInv /\ FetchFails => IInv'
  BY RankingIInv DEF FetchFails

(* The rows of the date of the run that are not there yet. *)
LEMMA StoredFacts ==
    ASSUME TypeOK
    PROVE  /\ Stored \in Entries
           /\ \A s \in Symbols : run.got[s] # "none" => Stored[s] # "none"
           /\ \A s \in Symbols : snapshots[run.date][s] # "none" => Stored[s] # "none"
           /\ snapshots[run.date] = Nothing => Stored = run.got
<1>1. run.date \in Days /\ run.got \in Entries /\ snapshots[run.date] \in Entries
  BY DEF TypeOK
<1> QED  BY <1>1 DEF Stored, Entries, Nothing

LEMMA CopyIInv == IInv /\ Copy => IInv'
<1> SUFFICES ASSUME IInv, Copy PROVE IInv'  OBVIOUS
<1> USE DEF IInv
<1>1. /\ run.pc = "copy"
      /\ snapshots' = [snapshots EXCEPT ![run.date] = Stored]
      /\ run' = [run EXCEPT !.pc = "diff"]
      /\ UNCHANGED <<day, exchange, began, status, tier, committed, last, clean>>
  BY DEF Copy, world, past
<1>2. /\ run.date \in Days /\ run.got \in Entries /\ snapshots \in [Days -> Entries]
      /\ day \in Days /\ run.date \in Nat /\ day \in Nat
  BY DaysInt DEF TypeOK
<1>3. /\ run'.pc = "diff" /\ run'.date = run.date /\ run'.since = run.since
      /\ run'.got = run.got /\ run'.new = run.new
  BY <1>1 DEF TypeOK
<1>4. TypeOK'
  <2>1. clean' \in BOOLEAN /\ committed' \in BOOLEAN  BY <1>1, Zenon DEF TypeOK
  <2>2. snapshots' \in [Days -> Entries]  BY <1>1, <1>2, StoredFacts
  <2> QED  BY <1>1, <2>1, <2>2 DEF TypeOK
<1>5. /\ snapshots'[run.date] = Stored
      /\ \A d \in Days \ {run.date} : snapshots'[d] = snapshots[d]
  BY <1>1, <1>2
<1>6. Dated'
  <2>1. run'.date <= day' /\ run'.since = run'.date  BY <1>1, <1>3 DEF Dated
  <2>2. ASSUME NEW d \in Days, d > day' PROVE snapshots'[d] = Nothing
    <3>1. d # run.date  BY <1>1, <1>2, <2>2, DaysInt DEF Dated
    <3> QED  BY <1>1, <1>5, <2>2, <3>1 DEF Dated
  <2> QED  BY <1>3, <2>1, <2>2 DEF Dated, Nothing
<1>7. SymbolsBehindSnapshots'
  <2> SUFFICES ASSUME NEW s \in Symbols, status[s] # "unknown"
               PROVE  \E d \in Days : snapshots'[d][s] # "none"
    BY <1>1 DEF SymbolsBehindSnapshots
  <2>1. PICK d \in Days : snapshots[d][s] # "none"  BY DEF SymbolsBehindSnapshots
  <2> QED  BY <1>2, <1>5, <2>1, StoredFacts
<1>8. FetchedStored'  BY <1>3, <1>5, StoredFacts DEF FetchedStored
<1>9. ASSUME clean' PROVE CleanDay'
  <2>1. CleanDay  BY <1>1, <1>9
  <2>2. ~committed /\ run.date = day /\ snapshots[day] = Nothing  BY <1>1, <2>1 DEF CleanDay
  <2>3. snapshots'[day] = run.got  BY <1>5, <2>2, StoredFacts
  <2>4. Active' = Active  BY <1>1 DEF Active
  <2>5. Before' = Before
    <3>1. CASE day = 0  BY <1>1, <3>1 DEF Before
    <3>2. CASE day # 0
      <4>1. day - 1 \in Days /\ day - 1 # run.date
        BY <1>2, <2>2, <3>2, UniverseAssumption DEF Days
      <4>2. snapshots'[day - 1] = snapshots[day - 1]  BY <1>5, <4>1
      <4> QED  BY <1>1, <3>2, <4>2 DEF Before, In
    <3> QED  BY <3>1, <3>2
  <2> QED  BY <1>1, <1>3, <2>1, <2>2, <2>3, <2>4, <2>5 DEF CleanDay
<1> QED  BY <1>4, <1>6, <1>7, <1>8, <1>9

LEMMA DiffIInv == IInv /\ Diff => IInv'
<1> SUFFICES ASSUME IInv, Diff PROVE IInv'  OBVIOUS
<1> USE DEF IInv
<1>1. /\ run.pc = "diff"
      /\ run' = [run EXCEPT !.pc = "symbols", !.new = In(run.got) \ Yesterday,
                            !.gone = Yesterday \ In(run.got)]
      /\ UNCHANGED <<day, exchange, began, snapshots, status, tier, committed, last, clean>>
  BY DEF Diff, world, tables, past
<1>2. In(run.got) \subseteq Symbols /\ Yesterday \subseteq Symbols  BY DEF In, Yesterday
<1>3. /\ run'.pc = "symbols" /\ run'.date = run.date /\ run'.since = run.since
      /\ run'.got = run.got /\ run'.new = In(run.got) \ Yesterday
      /\ run'.gone = Yesterday \ In(run.got)
  BY <1>1 DEF TypeOK
<1>4. TypeOK'
  <2>1. clean' \in BOOLEAN /\ committed' \in BOOLEAN  BY <1>1, Zenon DEF TypeOK
  <2> QED  BY <1>1, <1>2, <2>1 DEF TypeOK
<1>5. Dated'  BY <1>1, <1>3 DEF Dated
<1>6. SymbolsBehindSnapshots'  BY <1>1 DEF SymbolsBehindSnapshots
<1>7. FetchedStored'  BY <1>1, <1>3 DEF FetchedStored, In
<1>8. ASSUME clean' PROVE CleanDay'
  <2>1. CleanDay  BY <1>1, <1>8
  <2>2. ~committed /\ run.date = day /\ snapshots[day] = run.got  BY <1>1, <2>1 DEF CleanDay
  <2>3. Yesterday = Before  BY <2>2 DEF Yesterday, Before
  <2>4. Before' = Before /\ Active' = Active /\ In(run.got)' = In(run.got)
    BY <1>1, <1>3 DEF Before, Active, In
  <2> QED  BY <1>1, <1>3, <2>1, <2>2, <2>3, <2>4 DEF CleanDay
<1> QED  BY <1>4, <1>5, <1>6, <1>7, <1>8

(* The differences turn the symbols of the day before into those fetched. *)
LEMMA UpdateIInv == IInv /\ Update => IInv'
<1> SUFFICES ASSUME IInv, Update PROVE IInv'  OBVIOUS
<1> USE DEF IInv
<1>1. /\ run.pc = "symbols"
      /\ status' = [s \in Symbols |-> StatusAfter(s)]
      /\ tier' = [s \in Symbols |-> IF Inserted(s) THEN 2 ELSE tier[s]]
      /\ last' = In(run.got)
      /\ UNCHANGED <<day, exchange, began, snapshots, clean>>
  BY DEF Update, world
<1>2. committed'  BY DEF Update
<1>3. run' = [pc |-> "rank", since |-> run.since, date |-> 0, got |-> Nothing,
              new |-> {}, gone |-> {}, top |-> {}]
  BY DEF Update, Ranking, NoJob
<1>4. TypeOK'
  <2>1. clean' \in BOOLEAN  BY <1>1, Zenon DEF TypeOK
  <2>2. committed' \in BOOLEAN  BY Zenon DEF Update
  <2>3. status' \in [Symbols -> {"unknown", "active", "delisted"}]
    BY <1>1 DEF TypeOK, StatusAfter
  <2>4. tier' \in [Symbols -> {1, 2}]  BY <1>1 DEF TypeOK
  <2>5. Nothing \in Entries  BY DEF Nothing, Entries, Entry
  <2>6. run.since \in Days  BY DEF TypeOK
  <2>7. last' \in SUBSET Symbols  BY <1>1 DEF In
  <2> QED  BY <1>1, <1>3, <2>1, <2>2, <2>3, <2>4, <2>5, <2>6, <2>7, DaysInt DEF TypeOK
<1>5. Dated'  BY <1>1, <1>3, DaysInt DEF Dated, TypeOK
<1>6. SymbolsBehindSnapshots'
  <2> SUFFICES ASSUME NEW s \in Symbols, status'[s] # "unknown"
               PROVE  \E d \in Days : snapshots[d][s] # "none"
    BY <1>1 DEF SymbolsBehindSnapshots
  <2>1. CASE s \in run.new
    <3>1. snapshots[run.date][s] # "none"  BY <1>1, <2>1 DEF FetchedStored, In
    <3> QED  BY <3>1 DEF TypeOK
  <2>2. CASE s \notin run.new
    <3>1. status[s] # "unknown"  BY <1>1, <2>2 DEF StatusAfter
    <3> QED  BY <3>1 DEF SymbolsBehindSnapshots
  <2> QED  BY <2>1, <2>2
<1>7. FetchedStored'  BY <1>3 DEF FetchedStored
<1>8. ASSUME clean' PROVE CleanDay'
  <2>1. CleanDay  BY <1>1, <1>8
  <2>2. /\ ~committed /\ Active = Before /\ snapshots[day] = run.got
        /\ run.new = In(run.got) \ Before /\ run.gone = Before \ In(run.got)
    BY <1>1, <2>1 DEF CleanDay
  <2>3. Active' = In(run.got)
    <3>1. Active' = {s \in Symbols : StatusAfter(s) = "active"}  BY <1>1 DEF Active
    <3>2. ASSUME NEW s \in Symbols PROVE StatusAfter(s) = "active" <=> s \in In(run.got)
      <4>1. status[s] = "active" <=> s \in Before  BY <2>2 DEF Active
      <4> QED  BY <2>2, <4>1 DEF StatusAfter
    <3>3. In(run.got) \subseteq Symbols  BY DEF In
    <3> QED  BY <3>1, <3>2, <3>3
  <2>4. In(snapshots[day])' = In(run.got)  BY <1>1, <2>2 DEF In
  <2>5. began > 0  BY <1>1, <2>1 DEF CleanDay
  <2> QED  BY <1>1, <1>2, <1>3, <2>3, <2>4, <2>5 DEF CleanDay
<1> QED  BY <1>4, <1>5, <1>6, <1>7, <1>8

(* A run that ends, at its regular end or before; a clean day stays clean if *)
(* the symbols are committed.                                                *)
LEMMA EndIInv ==
    ASSUME IInv, run' = NoJob, clean' \in BOOLEAN,
           clean' => clean /\ run.pc \in {"rank", "tier"},
           tier' \in [Symbols -> {1, 2}],
           UNCHANGED <<world, snapshots, status, committed, last>>
    PROVE  IInv'
<1> USE DEF IInv, world
<1>1. run'.pc = "idle" /\ run'.date = 0 /\ run' = NoJob'  BY DEF NoJob, Nothing
<1>2. TypeOK'
  <2>1. committed' \in BOOLEAN  BY Zenon DEF TypeOK
  <2>2. Nothing \in Entries  BY DEF Nothing, Entries, Entry
  <2>3. run' \in [pc : {"idle", "fetch", "copy", "diff", "symbols", "rank", "tier"},
                  since : Days, date : Days, got : Entries,
                  new : SUBSET Symbols, gone : SUBSET Symbols, top : SUBSET Symbols]
    BY <2>2, DaysInt DEF NoJob
  <2> QED  BY <2>1, <2>3 DEF TypeOK
<1>3. Dated'  BY <1>1, DaysInt DEF Dated, TypeOK
<1>4. SymbolsBehindSnapshots' /\ FetchedStored'
  BY <1>1 DEF SymbolsBehindSnapshots, FetchedStored
<1>5. ASSUME clean' PROVE CleanDay'
  <2>1. CleanDay /\ run.pc \in {"rank", "tier"}  BY <1>5
  <2>2. committed /\ began > 0  BY <2>1 DEF CleanDay
  <2>3. Before' = Before /\ Active' = Active /\ In(snapshots[day])' = In(snapshots[day])
    BY DEF Before, Active, In
  <2> QED  BY <1>1, <2>1, <2>2, <2>3 DEF CleanDay
<1> QED  BY <1>2, <1>3, <1>4, <1>5

LEMMA RankReadIInv ==
    ASSUME IInv, NEW top \in SUBSET Symbols, RankRead(top) PROVE IInv'
<1> USE DEF IInv
<1>0. /\ run.pc = "rank"
      /\ UNCHANGED <<day, exchange, began, snapshots, status, tier, committed, last, clean>>
  BY DEF RankRead, world, tables, past
<1>1. CASE top = {}
  <2>1. run' = NoJob  BY <1>1 DEF RankRead
  <2>2. clean' \in BOOLEAN  BY <1>0, Zenon DEF TypeOK
  <2>3. tier' \in [Symbols -> {1, 2}]  BY <1>0 DEF TypeOK
  <2>4. clean' => clean /\ run.pc \in {"rank", "tier"}  BY <1>0
  <2> QED  BY <1>0, <2>1, <2>2, <2>3, <2>4, EndIInv DEF world
<1>2. CASE top # {}
  <2>1. run' = [run EXCEPT !.pc = "tier", !.top = top]  BY <1>2 DEF RankRead
  <2>2. run'.pc = "tier" /\ run'.date = run.date /\ run'.since = run.since
    BY <2>1 DEF TypeOK
  <2>3. TypeOK'
    <3>1. clean' \in BOOLEAN /\ committed' \in BOOLEAN  BY <1>0, Zenon DEF TypeOK
    <3> QED  BY <1>0, <2>1, <3>1 DEF TypeOK
  <2>4. Dated'  BY <1>0, <2>2 DEF Dated
  <2>5. SymbolsBehindSnapshots' /\ FetchedStored'
    BY <1>0, <2>2 DEF SymbolsBehindSnapshots, FetchedStored
  <2>6. ASSUME clean' PROVE CleanDay'
    <3>1. CleanDay  BY <1>0, <2>6
    <3>2. Before' = Before /\ Active' = Active /\ In(snapshots[day])' = In(snapshots[day])
      BY <1>0 DEF Before, Active, In
    <3> QED  BY <1>0, <2>2, <3>1, <3>2 DEF CleanDay
  <2> QED  BY <2>3, <2>4, <2>5, <2>6
<1> QED  BY <1>1, <1>2

LEMMA RankWriteIInv == IInv /\ RankWrite => IInv'
<1> SUFFICES ASSUME IInv, RankWrite PROVE IInv'  OBVIOUS
<1>1. /\ run.pc = "tier" /\ run' = NoJob
      /\ UNCHANGED <<world, snapshots, status, committed, last, clean>>
  BY DEF RankWrite, past
<1>2. clean' \in BOOLEAN  BY <1>1, Zenon DEF IInv, TypeOK
<1>3. tier' \in [Symbols -> {1, 2}]  BY DEF RankWrite, TierAfter, IInv, TypeOK
<1>4. clean' => clean /\ run.pc \in {"rank", "tier"}  BY <1>1
<1> QED  BY <1>1, <1>2, <1>3, <1>4, EndIInv

LEMMA FailIInv == IInv /\ Fail => IInv'
<1> SUFFICES ASSUME IInv, Fail PROVE IInv'  OBVIOUS
<1>1. run' = NoJob /\ UNCHANGED <<world, snapshots, status, tier, committed, last>>
  BY DEF Fail, tables
<1>2. clean' \in BOOLEAN  BY Zenon DEF Fail
<1>3. tier' \in [Symbols -> {1, 2}]  BY <1>1 DEF IInv, TypeOK
<1>4. clean' => clean /\ run.pc \in {"rank", "tier"}  BY Zenon DEF Fail
<1> QED  BY <1>1, <1>2, <1>3, <1>4, EndIInv

LEMMA StutterIInv == IInv /\ UNCHANGED vars => IInv'
<1> SUFFICES ASSUME IInv, UNCHANGED vars PROVE IInv'  OBVIOUS
<1> USE DEF IInv, vars
<1>1. TypeOK'
  <2>1. clean' \in BOOLEAN /\ committed' \in BOOLEAN  BY Zenon DEF TypeOK
  <2> QED  BY <2>1 DEF TypeOK
<1>2. Dated' /\ SymbolsBehindSnapshots' /\ FetchedStored'
  BY DEF Dated, SymbolsBehindSnapshots, FetchedStored
<1>3. clean' => CleanDay'  BY DEF CleanDay, Active, Before, In
<1> QED  BY <1>1, <1>2, <1>3
----------------------------------------------------------------------------

(* The run of the job, its failures and the days preserve IInv. *)
THEOREM Invariance == Spec => []IInv
<1>1. IInv /\ [Next]_vars => IInv'
  BY TradeIInv, NextDayIInv, StartIInv, FetchIInv, FetchFailsIInv, CopyIInv, DiffIInv,
     UpdateIInv, RankReadIInv, RankWriteIInv, FailIInv, StutterIInv DEF Next
<1> QED  BY InitIInv, <1>1, PTL DEF Spec

(* Every field of the job and every column keeps its type. *)
THEOREM TypeCorrect == Spec => []TypeOK
  BY Invariance, PTL DEF IInv

(* No crash between the two transactions of universe_snapshot_job leaves a   *)
(* symbol in the symbols table that is in no snapshot.                       *)
THEOREM SymbolsNeverAhead == Spec => []SymbolsBehindSnapshots
  BY Invariance, PTL DEF IInv

(* The daily differences add up to the symbols that the latest run has seen, *)
(* over any number of days on which the job ran once and committed.          *)
THEOREM DifferencesAddUp == Spec => []ActiveAsSeen
<1>1. IInv => ActiveAsSeen  BY DEF IInv, CleanDay, ActiveAsSeen
<1> QED  BY Invariance, <1>1, PTL

(* Only the write of a run changes a snapshot, and it is of the day that the *)
(* run began on: universe_at is final once that day and its runs are over.   *)
THEOREM HistoryFinal == Spec => UniverseAtStable
<1> DEFINE Final == \A d \in Days :
              d < day /\ ~(run # NoJob /\ run.since = d) => UniverseAt(d)' = UniverseAt(d)
<1>1. IInv /\ [Next]_vars => [Final]_vars
  <2> SUFFICES ASSUME IInv, Next, NEW d \in Days, d < day, ~(run # NoJob /\ run.since = d)
               PROVE  UniverseAt(d)' = UniverseAt(d)
    OBVIOUS
  <2>1. CASE Copy
    <3>1. run.pc = "copy" /\ snapshots' = [snapshots EXCEPT ![run.date] = Stored]
      BY <2>1 DEF Copy
    <3>2. run # NoJob  BY <3>1 DEF NoJob
    <3>3. run.since = run.date  BY <3>1 DEF IInv, Dated
    <3>4. snapshots'[d] = snapshots[d]  BY <3>1, <3>2, <3>3 DEF IInv, TypeOK
    <3> QED  BY <3>4 DEF UniverseAt
  <2>2. CASE ~Copy
    <3>1. snapshots' = snapshots
      BY <2>2 DEF Next, Trade, NextDay, Start, Begin, Fetch, FetchFails, Diff, Update,
                  RankRead, RankWrite, Fail, tables
    <3> QED  BY <3>1 DEF UniverseAt
  <2> QED  BY <2>1, <2>2
<1> QED  BY Invariance, <1>1, PTL DEF Spec, UniverseAtStable

(* The ranking that a run has read and not yet written. *)
TopBounded == run.pc = "tier" => Cardinality(run.top) <= TopN

LEMMA TopBoundedStep == TypeOK /\ TopBounded /\ [Next]_vars => TopBounded'
<1> SUFFICES ASSUME TypeOK, TopBounded, [Next]_vars PROVE TopBounded'  OBVIOUS
<1>1. CASE run' = run  BY <1>1 DEF TopBounded
<1>2. CASE run'.pc # "tier"  BY <1>2 DEF TopBounded
<1>3. ASSUME NEW top \in SUBSET Symbols, RankRead(top) PROVE TopBounded'
  <2>1. CASE top = {}
    <3>1. run'.pc = "idle"  BY <1>3, <2>1 DEF RankRead, NoJob
    <3> QED  BY <3>1 DEF TopBounded
  <2>2. CASE top # {}
    <3>1. run'.top = top /\ Cardinality(top) <= TopN
      BY <1>3, <2>2 DEF RankRead, TypeOK
    <3> QED  BY <3>1 DEF TopBounded
  <2> QED  BY <2>1, <2>2
<1>4. ASSUME Start PROVE run'.pc # "tier"  BY <1>4 DEF Start, Begin, NoJob
<1>5. ASSUME run' = Ranking PROVE run'.pc # "tier"  BY <1>5 DEF Ranking, NoJob
<1>6. ASSUME run' = NoJob PROVE run'.pc # "tier"  BY <1>6 DEF NoJob
<1>7. ASSUME Copy \/ Diff PROVE run'.pc # "tier"  BY <1>7 DEF Copy, Diff, TypeOK
<1>8. ASSUME Fetch PROVE run'.pc # "tier"
  <2>1. CASE run' = Ranking  BY <2>1, <1>5
  <2>2. CASE run' = [run EXCEPT !.pc = "copy", !.got = Filter(exchange)]
    BY <2>2 DEF TypeOK
  <2> QED  BY <1>8, <2>1, <2>2 DEF Fetch
<1>9. ASSUME FetchFails \/ Update PROVE run' = Ranking  BY <1>9 DEF FetchFails, Update
<1>10. ASSUME RankWrite \/ Fail PROVE run' = NoJob  BY <1>10 DEF RankWrite, Fail
<1>11. ASSUME NEW s \in Symbols, NEW v \in Volumes \cup {NoTicker}, Trade(s, v)
       PROVE  run' = run
  BY <1>11 DEF Trade
<1>12. ASSUME NextDay \/ UNCHANGED vars PROVE run' = run  BY <1>12 DEF NextDay, vars
<1> QED  BY <1>1, <1>2, <1>3, <1>4, <1>5, <1>6, <1>7, <1>8, <1>9, <1>10, <1>11, <1>12
         DEF Next

(* Whoever was in tier 1 before, was delisted and came back: the UPDATE      *)
(* of recompute_tier1 leaves at most TopN active symbols in it.              *)
THEOREM TierOneNeverOverfull == Spec => TierOneBounded
<1> DEFINE One == {s \in Symbols : status'[s] = "active" /\ tier'[s] = 1}
<1>1. Init => TopBounded  BY DEF Init, NoJob, TopBounded
<1>2. Spec => []TopBounded  BY <1>1, TopBoundedStep, TypeCorrect, PTL DEF Spec
<1>3. TypeOK /\ TopBounded => [RankWrite => Cardinality(One) <= TopN]_vars
  <2> SUFFICES ASSUME TypeOK, TopBounded, RankWrite PROVE Cardinality(One) <= TopN
    OBVIOUS
  <2>1. One \subseteq run.top  BY DEF RankWrite, TierAfter
  <2>2. run.top \subseteq Symbols /\ IsFiniteSet(Symbols)
    BY UniverseAssumption DEF TypeOK
  <2>3. IsFiniteSet(run.top)  BY <2>2, FS_Subset
  <2>4. Cardinality(One) <= Cardinality(run.top)  BY <2>1, <2>3, FS_Subset
  <2>5. Cardinality(run.top) <= TopN  BY DEF TopBounded, RankWrite
  <2>6. Cardinality(One) \in Nat /\ Cardinality(run.top) \in Nat
    BY <2>1, <2>3, FS_Subset, FS_CardinalityType
  <2> HIDE DEF One
  <2> QED  BY <2>4, <2>5, <2>6, UniverseAssumption
<1> QED  BY <1>2, <1>3, TypeCorrect, PTL DEF Spec, TierOneBounded
=============================================================================
