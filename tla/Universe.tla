------------------------------ MODULE Universe ------------------------------
(***************************************************************************)
(* The daily universe.snapshot job of ingest/scheduler/jobs.py:            *)
(* universe_snapshot_job of ingest/universe/snapshot.py, which stores the  *)
(* tickers of the day in universe_snapshots and then brings the symbols    *)
(* table up to date from the difference to the snapshot of the day before, *)
(* and recompute_tier1 of ingest/universe/tier1.py.                        *)
(*                                                                         *)
(* The two tables are written in two transactions, and the scheduler does  *)
(* not repeat a run that failed.  Symbols come and go at the exchange at   *)
(* any time.                                                               *)
(***************************************************************************)
EXTENDS Integers, FiniteSets

CONSTANTS
    Symbols,
    Volumes,            \* 24h volumes of a ticker
    QualifyingVolume,   \* QUALIFYING_VOLUME_USD
    TopN,               \* top_n of recompute_tier1
    MaxDay,
    RunsPerDay,         \* the cron run, and runs by hand on the same day
    NoTicker

ASSUME UniverseAssumption ==
    /\ Volumes \subseteq Nat /\ QualifyingVolume \in Nat
    /\ TopN \in Nat \ {0}
    /\ MaxDay \in Nat /\ RunsPerDay \in Nat
    /\ NoTicker \notin Nat
    /\ IsFiniteSet(Symbols)

Days == 0..MaxDay
Entry == {"none", "other", "qualifying"}        \* no row, is_qualifying
Entries == [Symbols -> Entry]

VARIABLES
    day,        \* the date, UTC
    exchange,   \* what fetch_tickers would return: volumes
    snapshots,  \* universe_snapshots, by date
    status,     \* symbols: no row, delisted_at IS NULL, delisted_at set
    tier,       \* symbols.tier
    run,        \* the run of the job under way; since is when it began (history)
    began,      \* runs begun today
    committed,  \* a run of today has committed its symbols (history)
    last,       \* the symbols that the latest such run had fetched (history)
    clean       \* every day so far had one run, and it committed (history)

vars == <<day, exchange, snapshots, status, tier, run, began, committed, last, clean>>

world == <<day, exchange, began>>
tables == <<snapshots, status, tier>>
past == <<committed, last, clean>>

Nothing == [s \in Symbols |-> "none"]
NoJob == [pc |-> "idle", since |-> 0, date |-> 0, got |-> Nothing, new |-> {}, gone |-> {}, top |-> {}]

In(entries) == {s \in Symbols : entries[s] # "none"}
Active == {s \in Symbols : status[s] = "active"}

(* universe_at *)
UniverseAt(d) == {s \in Symbols : snapshots[d][s] = "qualifying"}

Init ==
    /\ day = 0
    /\ exchange \in [Symbols -> Volumes \cup {NoTicker}]
    /\ snapshots = [d \in Days |-> Nothing]
    /\ status = [s \in Symbols |-> "unknown"]
    /\ tier = [s \in Symbols |-> 2]
    /\ run = NoJob
    /\ began = 0
    /\ committed = FALSE /\ last = {} /\ clean = TRUE
----------------------------------------------------------------------------

(* A symbol is listed, is delisted or changes its volume. *)
Trade(s, v) ==
    /\ exchange[s] # v
    /\ exchange' = [exchange EXCEPT ![s] = v]
    /\ UNCHANGED <<day, began, tables, run, past>>

NextDay ==
    /\ day < MaxDay
    /\ day' = day + 1
    /\ began' = 0
    /\ committed' = FALSE
    /\ clean' = (clean /\ committed /\ run = NoJob)
    /\ UNCHANGED <<exchange, tables, run, last>>

(* The run begins, and notes the date in UTC. *)
Begin(date) ==
    /\ run = NoJob
    /\ began < RunsPerDay
    /\ began' = began + 1
    /\ run' = [NoJob EXCEPT !.pc = "fetch", !.since = day, !.date = date]
    /\ clean' = (clean /\ began = 0)
    /\ UNCHANGED <<day, exchange, tables, committed, last>>

\* Mutant: the local date of a container west of Greenwich.
StartLocal == \E date \in {day, day - 1} \cap Days : Begin(date)

Start == Begin(day)

(* filter_qualifying_tickers keeps all tickers and marks those above the    *)
(* threshold.                                                               *)
Filter(tickers) ==
    [s \in Symbols |-> IF tickers[s] = NoTicker THEN "none"
                       ELSE IF tickers[s] > QualifyingVolume THEN "qualifying"
                       ELSE "other"]

(* universe_snapshot_job has returned: its locals are gone. *)
Ranking == [NoJob EXCEPT !.pc = "rank", !.since = run.since]

(* Without tickers the job goes straight on to the tiers. *)
Fetch ==
    /\ run.pc = "fetch"
    /\ LET got == Filter(exchange)
           empty == In(got) = {}
       IN /\ run' = IF empty THEN Ranking ELSE [run EXCEPT !.pc = "copy", !.got = got]
          /\ clean' = (clean /\ ~empty)
    /\ UNCHANGED <<world, tables, committed, last>>

(* fetch_tickers raised; so does the dead letter, and both are swallowed. *)
FetchFails ==
    /\ run.pc = "fetch"
    /\ run' = Ranking
    /\ clean' = FALSE
    /\ UNCHANGED <<world, tables, committed, last>>

Stored == [s \in Symbols |-> IF snapshots[run.date][s] = "none" THEN run.got[s]
                             ELSE snapshots[run.date][s]]

\* Mutant: the write of the snapshot fails and is swallowed.
CopySwallowed ==
    /\ run.pc = "copy"
    /\ snapshots' \in {snapshots, [snapshots EXCEPT ![run.date] = Stored]}
    /\ run' = [run EXCEPT !.pc = "diff"]
    /\ UNCHANGED <<world, status, tier, past>>

(* copy_into_hypertable: the rows of the date that are new. *)
Copy ==
    /\ run.pc = "copy"
    /\ snapshots' = [snapshots EXCEPT ![run.date] = Stored]
    /\ run' = [run EXCEPT !.pc = "diff"]
    /\ UNCHANGED <<world, status, tier, past>>

(* SELECT symbol FROM universe_snapshots WHERE snapshot_date = :y *)
Yesterday == IF run.date = 0 THEN {} ELSE In(snapshots[run.date - 1])

(* What is fetched is compared with what was stored the day before. *)
Diff ==
    /\ run.pc = "diff"
    /\ run' = [run EXCEPT !.pc = "symbols", !.new = In(run.got) \ Yesterday,
                          !.gone = Yesterday \ In(run.got)]
    /\ UNCHANGED <<world, tables, past>>

Inserted(s) == s \in run.new /\ status[s] = "unknown"

\* Mutant: a symbol that comes back hits ON CONFLICT DO NOTHING.
StatusStays(s) ==
    IF Inserted(s) THEN "active"
    ELSE IF s \in run.gone /\ status[s] = "active" THEN "delisted"
    ELSE status[s]

(* INSERT ... ON CONFLICT DO UPDATE SET delisted_at = NULL for the new       *)
(* symbols, UPDATE ... SET delisted_at for those that are gone.              *)
StatusAfter(s) ==
    IF s \in run.new THEN "active"
    ELSE IF s \in run.gone /\ status[s] = "active" THEN "delisted"
    ELSE status[s]

\* Mutant: the tier of a new symbol is left to the column default of another
\* migration.
UpdateUntiered ==
    /\ run.pc = "symbols"
    /\ status' = [s \in Symbols |-> StatusAfter(s)]
    /\ tier' = [s \in Symbols |-> IF Inserted(s) THEN 0 ELSE tier[s]]
    /\ run' = Ranking
    /\ committed' = TRUE
    /\ last' = In(run.got)
    /\ UNCHANGED <<world, snapshots, clean>>

(* One transaction for all symbols. *)
Update ==
    /\ run.pc = "symbols"
    /\ status' = [s \in Symbols |-> StatusAfter(s)]
    /\ tier' = [s \in Symbols |-> IF Inserted(s) THEN 2 ELSE tier[s]]
    /\ run' = Ranking
    /\ committed' = TRUE
    /\ last' = In(run.got)
    /\ UNCHANGED <<world, snapshots, clean>>

(* recompute_tier1 reads the symbols with the largest volumes of the last   *)
(* days; without candles it returns.                                        *)
RankRead(top) ==
    /\ run.pc = "rank"
    /\ Cardinality(top) <= TopN
    /\ run' = IF top = {} THEN NoJob ELSE [run EXCEPT !.pc = "tier", !.top = top]
    /\ UNCHANGED <<world, tables, past>>

\* Mutant: the rest is not moved to tier 2.
TierPromotes(s) == IF s \in run.top /\ status[s] = "active" THEN 1 ELSE tier[s]

TierAfter(s) ==
    IF status[s] # "active" THEN tier[s] ELSE IF s \in run.top THEN 1 ELSE 2

RankWrite ==
    /\ run.pc = "tier"
    /\ tier' = [s \in Symbols |-> TierAfter(s)]
    /\ run' = NoJob
    /\ UNCHANGED <<world, snapshots, status, past>>

(* A statement fails or the process is replaced: the run is over, and so is  *)
(* the transaction it was in.                                                *)
Fail ==
    /\ run # NoJob
    /\ run' = NoJob
    /\ clean' = (clean /\ run.pc \in {"rank", "tier"})
    /\ UNCHANGED <<world, tables, committed, last>>

Next ==
    \/ \E s \in Symbols, v \in Volumes \cup {NoTicker} : Trade(s, v)
    \/ NextDay
    \/ Start \/ Fetch \/ FetchFails \/ Copy \/ Diff \/ Update
    \/ \E top \in SUBSET Symbols : RankRead(top)
    \/ RankWrite
    \/ Fail

Spec == Init /\ [][Next]_vars
----------------------------------------------------------------------------
(* PROPERTIES *)

TypeOK ==
    /\ day \in Days
    /\ exchange \in [Symbols -> Volumes \cup {NoTicker}]
    /\ snapshots \in [Days -> Entries]
    /\ status \in [Symbols -> {"unknown", "active", "delisted"}]
    /\ tier \in [Symbols -> {1, 2}]
    /\ run \in [pc : {"idle", "fetch", "copy", "diff", "symbols", "rank", "tier"},
                since : Days, date : Days, got : Entries,
                new : SUBSET Symbols, gone : SUBSET Symbols, top : SUBSET Symbols]
    /\ began \in 0..RunsPerDay
    /\ committed \in BOOLEAN /\ last \in SUBSET Symbols /\ clean \in BOOLEAN

(* UNIV-03: what universe_at(d) answers does not change once the day d and   *)
(* the runs begun on it are over, whatever fails or is repeated later.       *)
UniverseAtStable ==
    [][\A d \in Days :
          d < day /\ ~(run # NoJob /\ run.since = d) => UniverseAt(d)' = UniverseAt(d)]_vars

(* A crash between the two transactions leaves the symbols table behind the  *)
(* snapshots, never ahead: every symbol in it is in some snapshot.           *)
SymbolsBehindSnapshots ==
    \A s \in Symbols : status[s] # "unknown" => \E d \in Days : snapshots[d][s] # "none"

(* As long as every day has its run and no run fails before its commit, the  *)
(* active symbols are those the latest run has seen at the exchange: the     *)
(* differences add up, also for symbols that leave and come back.            *)
ActiveAsSeen == clean => Active = last

(* A ranking leaves at most TopN active symbols in tier 1, whoever was there *)
(* before and came back since.                                               *)
TierOneBounded ==
    [][RankWrite => Cardinality({s \in Symbols : status'[s] = "active" /\ tier'[s] = 1}) <= TopN]_vars

(* UNIV-04: a symbol that a completed run of today has seen at the exchange  *)
(* is known and active after it.                                             *)
NewListingDetected == committed => last \subseteq Active
=============================================================================
