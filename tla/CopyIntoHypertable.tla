------------------------- MODULE CopyIntoHypertable -------------------------
(***************************************************************************)
(* ingest/storage/copy.py: copy_into_hypertable, the only write path into  *)
(* the hypertables.  A call takes a pooled connection, opens a             *)
(* transaction, fills the staging table that belongs to the connection's   *)
(* backend pid and merges it into the target with INSERT ... SELECT ... ON *)
(* CONFLICT DO NOTHING.  Every await of the function is a step, so that    *)
(* the calls of several coroutines interleave between any two of them, and *)
(* each step may fail or be cancelled.                                     *)
(*                                                                         *)
(* The INSERT takes its rows one at a time: PostgreSQL makes a transaction *)
(* that meets a key inserted by an unfinished transaction wait for it, so  *)
(* two batches can wait for each other.                                    *)
(***************************************************************************)
EXTENDS Integers, Sequences, FiniteSets

CONSTANTS
    Tables, Keys, Vals, NoRow,
    Writers,            \* coroutines that call copy_into_hypertable
    Pids,               \* backend process ids PostgreSQL may hand out
    NoPid,              \* no connection
    PoolSize,           \* connections the engine keeps open at most
    Calls,              \* the calls each writer can make
    PrimaryKey,         \* the primary-key columns of each table
    ConflictColumns     \* the columns its writer names in ON CONFLICT

Row == [key : Keys, val : Vals]
Call == [target : Tables, rows : Seq(Row)]

ASSUME CopyAssumption ==
    /\ NoRow \notin Vals
    /\ NoPid \notin Pids
    /\ PoolSize \in Nat
    /\ Calls \in [Writers -> SUBSET Call]

(* ON CONFLICT (cols) needs a unique index on exactly these columns, or the *)
(* statement is rejected.  Each hypertable's only one is its primary key.   *)
HasArbiter(t) == ConflictColumns[t] = PrimaryKey[t]

VARIABLES
    table,      \* committed rows of the hypertables
    staging,    \* committed rows of the staging table of each target and pid
    phase,      \* where each writer is in its call
    call,       \* the arguments of its current or last call
    conn,       \* the backend pid of the connection it holds
    view,       \* the rows of its staging table, as its transaction sees them
    pos,        \* the next row of the staging table the INSERT looks at
    ins,        \* rows its transaction inserted
    ret         \* what the last finished call returned

vars == <<table, staging, phase, call, conn, view, pos, ins, ret>>

Phases == {"idle", "connect", "create", "truncate", "copy", "insert",
           "returned", "raised"}

NothingInserted == [k \in Keys |-> NoRow]

TypeOK ==
    /\ table \in [Tables -> [Keys -> Vals \cup {NoRow}]]
    /\ staging \in [Tables \X Pids -> Seq(Row)]
    /\ phase \in [Writers -> Phases]
    /\ call \in [Writers -> Call]
    /\ conn \in [Writers -> Pids \cup {NoPid}]
    /\ view \in [Writers -> Seq(Row)]
    /\ pos \in [Writers -> Nat \ {0}]
    /\ ins \in [Writers -> [Keys -> Vals \cup {NoRow}]]
    /\ ret \in [Writers -> Nat]

Init ==
    /\ table = [t \in Tables |-> [k \in Keys |-> NoRow]]
    /\ staging = [s \in Tables \X Pids |-> << >>]
    /\ phase = [w \in Writers |-> "idle"]
    /\ call \in {[w \in Writers |-> [target |-> t, rows |-> << >>]] : t \in Tables}
    /\ conn = [w \in Writers |-> NoPid]
    /\ view = [w \in Writers |-> << >>]
    /\ pos = [w \in Writers |-> 1]
    /\ ins = [w \in Writers |-> NothingInserted]
    /\ ret = [w \in Writers |-> 0]
----------------------------------------------------------------------------

Idle(w) == phase[w] \in {"idle", "returned", "raised"}
InTransaction(w) == phase[w] \in {"create", "truncate", "copy", "insert"}
Staging(w) == <<call[w].target, conn[w]>>
InUse == {p \in Pids : \E w \in Writers : conn[w] = p}

(* copy_into_hypertable(engine, target, records): an empty batch returns 0 *)
(* before any connection is taken.                                         *)
Begin(w, c) ==
    /\ Idle(w)
    /\ call' = [call EXCEPT ![w] = c]
    /\ phase' = [phase EXCEPT ![w] = IF c.rows = << >> THEN "returned" ELSE "connect"]
    /\ ret' = [ret EXCEPT ![w] = 0]
    /\ ins' = [ins EXCEPT ![w] = NothingInserted]
    /\ UNCHANGED <<table, staging, conn, view, pos>>

(* async with engine.connect(): the pool hands out an open connection, or    *)
(* opens one; a recycled or replaced connection comes with another pid, and  *)
(* a pid may come back after its first backend is gone.  The transaction     *)
(* starts, and sees the staging rows its pid left behind.                    *)
Connect(w, p) ==
    /\ phase[w] = "connect"
    /\ p \notin InUse
    /\ Cardinality(InUse) < PoolSize
    /\ conn' = [conn EXCEPT ![w] = p]
    /\ view' = [view EXCEPT ![w] = staging[<<call[w].target, p>>]]
    /\ phase' = [phase EXCEPT ![w] = "create"]
    /\ UNCHANGED <<table, staging, call, pos, ins, ret>>

(* CREATE UNLOGGED TABLE IF NOT EXISTS: a new staging table is empty, and    *)
(* an existing one, which is never dropped, is left as it is.                *)
Create(w) ==
    /\ phase[w] = "create"
    /\ phase' = [phase EXCEPT ![w] = "truncate"]
    /\ UNCHANGED <<table, staging, call, conn, view, pos, ins, ret>>

\* Mutant: the staging table is not emptied before the COPY.
TruncateForgotten(w) ==
    /\ phase[w] = "truncate"
    /\ phase' = [phase EXCEPT ![w] = "copy"]
    /\ UNCHANGED <<table, staging, call, conn, view, pos, ins, ret>>

(* TRUNCATE TABLE {staging}. *)
Truncate(w) ==
    /\ phase[w] = "truncate"
    /\ view' = [view EXCEPT ![w] = << >>]
    /\ phase' = [phase EXCEPT ![w] = "copy"]
    /\ UNCHANGED <<table, staging, call, conn, pos, ins, ret>>

\* Mutant: the INSERT starts one row before the staged ones.
CopyRecordsFromZero(w) ==
    /\ phase[w] = "copy"
    /\ view' = [view EXCEPT ![w] = view[w] \o call[w].rows]
    /\ pos' = [pos EXCEPT ![w] = 0]
    /\ phase' = [phase EXCEPT ![w] = "insert"]
    /\ UNCHANGED <<table, staging, call, conn, ins, ret>>

\* Mutant: the rows reach the INSERT in no particular order.
CopyRecordsUnordered(w) ==
    /\ phase[w] = "copy"
    /\ LET rows == call[w].rows
           n == Len(rows)
       IN \E read \in {rows, [i \in 1..n |-> rows[n + 1 - i]]} :
             view' = [view EXCEPT ![w] = read]
    /\ pos' = [pos EXCEPT ![w] = 1]
    /\ phase' = [phase EXCEPT ![w] = "insert"]
    /\ UNCHANGED <<table, staging, call, conn, ins, ret>>

(* copy_records_to_table(staging, records): one COPY, all rows or none. *)
CopyRecords(w) ==
    /\ phase[w] = "copy"
    /\ view' = [view EXCEPT ![w] = view[w] \o call[w].rows]
    /\ pos' = [pos EXCEPT ![w] = 1]
    /\ phase' = [phase EXCEPT ![w] = "insert"]
    /\ UNCHANGED <<table, staging, call, conn, ins, ret>>

(* x holds key k of table t: its open transaction inserted a row there. *)
Holds(x, t, k) == InTransaction(x) /\ call[x].target = t /\ ins[x][k] # NoRow

Inserting(w) ==
    /\ phase[w] = "insert"
    /\ HasArbiter(call[w].target)
    /\ pos[w] <= Len(view[w])

NextRow(w) == view[w][pos[w]]

(* The next row of w has to wait for the outcome of x's transaction. *)
Waits(w, x) ==
    /\ x # w
    /\ Inserting(w)
    /\ Holds(x, call[w].target, NextRow(w).key)

\* Mutants of the INSERT: it does not wait for another transaction's row, and
\* takes the key for free or for taken; it updates a committed row, or the
\* batch's own earlier row.
InsertedBy(w, free) ==
    /\ ins' = IF free THEN [ins EXCEPT ![w][NextRow(w).key] = NextRow(w).val] ELSE ins
    /\ pos' = [pos EXCEPT ![w] = pos[w] + 1]
    /\ UNCHANGED <<table, staging, phase, call, conn, view, ret>>

NoneWaits(w) == \A x \in Writers : ~Waits(w, x)
NotStored(w) == table[call[w].target][NextRow(w).key] = NoRow
NotHeld(w) == ins[w][NextRow(w).key] = NoRow

InsertRowBlind(w) == Inserting(w) /\ InsertedBy(w, NotStored(w) /\ NotHeld(w))
InsertRowSkipsHeld(w) ==
    Inserting(w) /\ InsertedBy(w, NotStored(w) /\ NotHeld(w) /\ NoneWaits(w))
InsertRowUpserts(w) == Inserting(w) /\ NoneWaits(w) /\ InsertedBy(w, NotHeld(w))

(* INSERT ... SELECT ... ON CONFLICT (cols) DO NOTHING, one row of it: the *)
(* row is skipped when its key is taken by a committed row or by an        *)
(* earlier row of the same statement, inserted when it is free.            *)
InsertRow(w) ==
    /\ Inserting(w)
    /\ \A x \in Writers : ~Waits(w, x)
    /\ LET t == call[w].target
           r == NextRow(w)
       IN ins' = IF table[t][r.key] = NoRow /\ ins[w][r.key] = NoRow
                 THEN [ins EXCEPT ![w][r.key] = r.val]
                 ELSE ins
    /\ pos' = [pos EXCEPT ![w] = pos[w] + 1]
    /\ UNCHANGED <<table, staging, phase, call, conn, view, ret>>

(* COMMIT on the server: the inserted rows and the staging table appear. *)
CommitEffect(w) ==
    /\ phase[w] = "insert"
    /\ HasArbiter(call[w].target)
    /\ pos[w] > Len(view[w])
    /\ table' = [table EXCEPT ![call[w].target] =
                    [k \in Keys |-> IF ins[w][k] # NoRow THEN ins[w][k]
                                    ELSE table[call[w].target][k]]]
    /\ staging' = [staging EXCEPT ![Staging(w)] = view[w]]
    /\ conn' = [conn EXCEPT ![w] = NoPid]
    /\ view' = [view EXCEPT ![w] = << >>]
    /\ pos' = [pos EXCEPT ![w] = 1]
    /\ UNCHANGED <<call, ins>>

(* The transaction block and the connection block end; the length of the *)
(* batch is returned, however many rows conflicted.                      *)
Commit(w) ==
    /\ CommitEffect(w)
    /\ phase' = [phase EXCEPT ![w] = "returned"]
    /\ ret' = [ret EXCEPT ![w] = Len(call[w].rows)]

(* The COMMIT reached the server, its answer did not reach the caller: the *)
(* connection broke or the task was cancelled while it waited.             *)
CommitLost(w) ==
    /\ CommitEffect(w)
    /\ phase' = [phase EXCEPT ![w] = "raised"]
    /\ UNCHANGED ret

\* Mutant: no transaction block, every inserted row is committed at once.
RollbackAutocommitted(w) ==
    /\ phase' = [phase EXCEPT ![w] = "raised"]
    /\ conn' = [conn EXCEPT ![w] = NoPid]
    /\ view' = [view EXCEPT ![w] = << >>]
    /\ pos' = [pos EXCEPT ![w] = 1]
    /\ table' = [table EXCEPT ![call[w].target] =
                    [k \in Keys |-> IF ins[w][k] # NoRow THEN ins[w][k]
                                    ELSE table[call[w].target][k]]]
    /\ ins' = [ins EXCEPT ![w] = NothingInserted]
    /\ UNCHANGED <<staging, call, ret>>

(* Leaving the transaction block through an exception rolls it back and the *)
(* connection block gives the connection back.                              *)
Rollback(w) ==
    /\ phase' = [phase EXCEPT ![w] = "raised"]
    /\ conn' = [conn EXCEPT ![w] = NoPid]
    /\ view' = [view EXCEPT ![w] = << >>]
    /\ pos' = [pos EXCEPT ![w] = 1]
    /\ ins' = [ins EXCEPT ![w] = NothingInserted]
    /\ UNCHANGED <<table, staging, call, ret>>

(* A statement fails (a bad row, a lost connection) or the task is cancelled *)
(* at one of the awaits.                                                     *)
Raise(w) == InTransaction(w) /\ Rollback(w)

(* The pool has no connection to give before its timeout. *)
ConnectTimeout(w) == phase[w] = "connect" /\ Rollback(w)

(* PostgreSQL rejects the INSERT: no unique index matches ON CONFLICT. *)
NoArbiter(w) ==
    /\ phase[w] = "insert"
    /\ ~HasArbiter(call[w].target)
    /\ Rollback(w)

(* A writer that waits for itself through others. *)
IsCycle(S) ==
    /\ \A x \in S : \E y \in S : Waits(x, y)
    /\ \A y \in S : \E x \in S : Waits(x, y)

InDeadlock(w) == \E S \in SUBSET Writers : w \in S /\ IsCycle(S)

\* Mutant: nobody breaks a cycle of waiting transactions.
DeadlockIgnored(w) == InDeadlock(w) /\ FALSE /\ Rollback(w)

(* PostgreSQL's deadlock detector aborts one transaction of the cycle. *)
DeadlockVictim(w) == InDeadlock(w) /\ Rollback(w)

(* The database restarts: open transactions are gone, and crash recovery *)
(* empties UNLOGGED tables.                                              *)
DatabaseRestart ==
    /\ \E w \in Writers : InTransaction(w)
    /\ phase' = [w \in Writers |-> IF InTransaction(w) THEN "raised" ELSE phase[w]]
    /\ conn' = [w \in Writers |-> NoPid]
    /\ view' = [w \in Writers |-> << >>]
    /\ ins' = [w \in Writers |-> IF InTransaction(w) THEN NothingInserted ELSE ins[w]]
    /\ pos' = [w \in Writers |-> 1]
    /\ staging' = [s \in Tables \X Pids |-> << >>]
    /\ UNCHANGED <<table, call, ret>>

(* Steps a call takes by itself once it has begun. *)
Step(w) ==
    \/ \E p \in Pids : Connect(w, p)
    \/ Create(w) \/ Truncate(w) \/ CopyRecords(w)
    \/ InsertRow(w) \/ Commit(w)
    \/ ConnectTimeout(w) \/ NoArbiter(w) \/ DeadlockVictim(w)

Next ==
    \/ \E w \in Writers : \E c \in Calls[w] : Begin(w, c)
    \/ \E w \in Writers : Step(w) \/ CommitLost(w) \/ Raise(w)
    \/ DatabaseRestart

(* A coroutine that is not waiting is resumed by the event loop, and the     *)
(* server answers; a transaction that waits for a key is woken when the      *)
(* holder ends, so its turn is not put off for ever.                         *)
Fairness == \A w \in Writers : WF_vars(Step(w)) /\ SF_vars(InsertRow(w))

Spec == Init /\ [][Next]_vars
FairSpec == Spec /\ Fairness
----------------------------------------------------------------------------
(* PROPERTIES *)

(* D-62: no step of any call, failed ones and restarts included, removes or *)
(* replaces a row of a hypertable.                                          *)
FirstWriteWins ==
    [][\A t \in Tables, k \in Keys :
          table[t][k] # NoRow => table'[t][k] = table[t][k]]_vars

(* CR-02: when the INSERT reads the staging table it holds exactly the      *)
(* call's own records, although the table keeps the rows of every earlier   *)
(* call that ran on a backend with this pid.                                *)
StagedIsOwn == \A w \in Writers : phase[w] = "insert" => view[w] = call[w].rows

(* A call that returned normally left a row under every key of its batch,   *)
(* whatever concurrent calls on the same keys did: a row is skipped only    *)
(* for a row that is there to stay.                                         *)
ReturnedIsStored ==
    \A w \in Writers : phase[w] = "returned" =>
        \A i \in DOMAIN call[w].rows :
            table[call[w].target][call[w].rows[i].key] # NoRow

(* Two open transactions never hold the same key, and none holds a key that *)
(* is committed: at commit the merge has nothing to overwrite.              *)
HeldOnce ==
    \A w \in Writers, t \in Tables, k \in Keys : Holds(w, t, k) =>
        /\ table[t][k] = NoRow
        /\ \A x \in Writers \ {w} : ~Holds(x, t, k)

Descends(w) ==
    \E i, j \in DOMAIN call[w].rows :
        i < j /\ call[w].rows[i].key > call[w].rows[j].key

(* Which candle writers can deadlock: a cycle of transactions that wait for *)
(* each other's keys needs a batch that lists two minutes of a symbol in    *)
(* descending order.  A page of backfill_ohlcv never does.  The buffer of   *)
(* the live loop does after a late trade: MinuteAggregator finalizes the    *)
(* new minute for it and later the old one again, so the batch [m1, m0] can *)
(* deadlock with a page [m0, m1], and one of the two is aborted.            *)
DeadlockNeedsDisorder ==
    \A S \in SUBSET Writers : S # {} /\ IsCycle(S) => \E w \in S : Descends(w)

(* Every call ends: it returns, or its caller gets an exception. *)
CallEnds == \A w \in Writers : ~Idle(w) ~> Idle(w)

(* The write path implements the abstract store: each step merges one whole *)
(* batch, first write winning, or leaves every hypertable as it is.         *)
AllBatches == {c.rows : c \in UNION {Calls[w] : w \in Writers}}
Store == INSTANCE HypertableStore WITH Batches <- AllBatches
ImplementsStore == Store!Spec

(* What the open transaction of w has done so far explains what it holds.   *)
Explained(w) ==
    /\ phase[w] \in {"connect", "create", "truncate", "copy"} => ins[w] = NothingInserted
    /\ phase[w] = "copy" => view[w] = << >>
    /\ phase[w] = "insert" =>
          /\ pos[w] <= Len(view[w]) + 1
          /\ \A i \in 1..(pos[w] - 1) :
                \/ ins[w][view[w][i].key] # NoRow
                \/ table[call[w].target][view[w][i].key] # NoRow
          /\ \A k \in Keys : ins[w][k] # NoRow =>
                \E i \in 1..(pos[w] - 1) :
                    Store!IsFirst(view[w], i, k) /\ ins[w][k] = view[w][i].val

(* Rows of a batch up to the INSERT's cursor are stored or held by its own   *)
(* transaction, a held row is the first of its key in the batch, and before  *)
(* the INSERT nothing is held: what makes the properties above inductive.    *)
CursorExplainsHeld == \A w \in Writers : Explained(w)

(* The inductive invariant behind the theorems of CopyProofs. *)
CopyInv ==
    /\ TypeOK
    /\ StagedIsOwn
    /\ HeldOnce
    /\ CursorExplainsHeld
    /\ ReturnedIsStored
=============================================================================
