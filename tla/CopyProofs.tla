----------------------------- MODULE CopyProofs -----------------------------
(***************************************************************************)
(* The theorems about copy_into_hypertable, for any number of coroutines,  *)
(* tables, keys and connections and for any batches.                       *)
(***************************************************************************)
EXTENDS CopyIntoHypertable, WellFoundedInduction, TLAPS

(* The batches are sequences of rows. *)
LEMMA CallType == \A w \in Writers : \A c \in Calls[w] : c \in Call
  BY CopyAssumption

LEMMA CallFields == \A c \in Call : c.target \in Tables /\ c.rows \in Seq(Row)
  BY DEF Call

LEMMA RowFields == \A s \in Seq(Row) : \A i \in 1..Len(s) : s[i].key \in Keys /\ s[i].val \in Vals
  <1> SUFFICES ASSUME NEW s \in Seq(Row), NEW i \in 1..Len(s)
               PROVE  s[i].key \in Keys /\ s[i].val \in Vals
    OBVIOUS
  <1>1. s[i] \in Row
    OBVIOUS
  <1> QED
    BY <1>1 DEF Row

LEMMA EmptyCall ==
  ASSUME NEW t \in Tables PROVE [target |-> t, rows |-> << >>] \in Call
  BY DEF Call

LEMMA ConcatType == \A s, u \in Seq(Row) : s \o u \in Seq(Row)
  OBVIOUS

LEMMA EmptyConcat == ASSUME NEW S, NEW s \in Seq(S) PROVE << >> \o s = s
  OBVIOUS

(* Init establishes the invariant. *)
LEMMA InitInv == Init => CopyInv
  <1> SUFFICES ASSUME Init PROVE CopyInv
    OBVIOUS
  <1> USE CopyAssumption DEF Init, NothingInserted
  <1>1. TypeOK
    BY EmptyCall DEF TypeOK, Phases
  <1>2. StagedIsOwn /\ CursorExplainsHeld /\ ReturnedIsStored
    BY DEF StagedIsOwn, CursorExplainsHeld, Explained, ReturnedIsStored
  <1>3. HeldOnce
    BY DEF HeldOnce, Holds, InTransaction
  <1> QED
    BY <1>1, <1>2, <1>3 DEF CopyInv

(* Every step preserves the types. *)
LEMMA TypeStep == TypeOK /\ [Next]_vars => TypeOK'
  <1> SUFFICES ASSUME TypeOK, [Next]_vars PROVE TypeOK'
    OBVIOUS
  <1> USE CopyAssumption DEF TypeOK
  <1>1. ASSUME NEW w \in Writers, NEW c \in Calls[w], Begin(w, c) PROVE TypeOK'
    <2>1. c \in Call
      BY CallType
    <2> QED
      BY <1>1, <2>1 DEF Begin, NothingInserted, Phases
  <1>2. ASSUME NEW w \in Writers, NEW p \in Pids, Connect(w, p) PROVE TypeOK'
    BY <1>2, CallFields DEF Connect, Phases
  <1>3. ASSUME NEW w \in Writers, Create(w) PROVE TypeOK'
    BY <1>3 DEF Create, Phases
  <1>4. ASSUME NEW w \in Writers, Truncate(w) PROVE TypeOK'
    BY <1>4 DEF Truncate, Phases
  <1>5. ASSUME NEW w \in Writers, CopyRecords(w) PROVE TypeOK'
    BY <1>5, CallFields, ConcatType DEF CopyRecords, Phases
  <1>6. ASSUME NEW w \in Writers, InsertRow(w) PROVE TypeOK'
    <2>1. NextRow(w).key \in Keys /\ NextRow(w).val \in Vals
      BY <1>6, RowFields DEF InsertRow, Inserting, NextRow
    <2>2. ins' \in [Writers -> [Keys -> Vals \cup {NoRow}]]
      BY <1>6, <2>1 DEF InsertRow
    <2> QED
      BY <1>6, <2>2 DEF InsertRow
  <1>7. ASSUME NEW w \in Writers, CommitEffect(w)
        PROVE  /\ table' \in [Tables -> [Keys -> Vals \cup {NoRow}]]
               /\ staging' \in [Tables \X Pids -> Seq(Row)]
               /\ conn' \in [Writers -> Pids \cup {NoPid}]
               /\ view' \in [Writers -> Seq(Row)]
               /\ call' \in [Writers -> Call]
               /\ pos' \in [Writers -> Nat \ {0}]
               /\ ins' \in [Writers -> [Keys -> Vals \cup {NoRow}]]
    <2>1. call[w].target \in Tables
      BY CallFields
    <2>2. table' \in [Tables -> [Keys -> Vals \cup {NoRow}]]
      BY <1>7, <2>1 DEF CommitEffect
    <2>3. staging' \in [Tables \X Pids -> Seq(Row)]
      BY <1>7 DEF CommitEffect
    <2> QED
      BY <1>7, <2>2, <2>3 DEF CommitEffect
  <1>8. ASSUME NEW w \in Writers, Commit(w) \/ CommitLost(w) PROVE TypeOK'
    <2>1. CommitEffect(w)
      BY <1>8 DEF Commit, CommitLost
    <2>2. phase' \in [Writers -> Phases]
      BY <1>8 DEF Commit, CommitLost, Phases
    <2>3. Len(call[w].rows) \in Nat
      BY CallFields
    <2>4. ret' \in [Writers -> Nat]
      BY <1>8, <2>3 DEF Commit, CommitLost
    <2> QED
      BY <1>7, <2>1, <2>2, <2>4
  <1>9. ASSUME NEW w \in Writers, Rollback(w) PROVE TypeOK'
    BY <1>9 DEF Rollback, NothingInserted, Phases
  <1>10. ASSUME DatabaseRestart PROVE TypeOK'
    BY <1>10 DEF DatabaseRestart, NothingInserted, Phases
  <1>11. ASSUME UNCHANGED vars PROVE TypeOK'
    BY <1>11 DEF vars
  <1> QED
    BY <1>1, <1>2, <1>3, <1>4, <1>5, <1>6, <1>8, <1>9, <1>10, <1>11
    DEF Next, Step, Raise, ConnectTimeout, NoArbiter, DeadlockVictim

(* Steps that leave the hypertables alone and either stay outside the INSERT *)
(* or roll the transaction back: nothing is held afterwards by w.            *)
LEMMA QuietStep ==
  ASSUME CopyInv, TypeOK', NEW w \in Writers,
         UNCHANGED table,
         \A x \in Writers \ {w} : /\ phase'[x] = phase[x] /\ call'[x] = call[x]
                                  /\ view'[x] = view[x] /\ pos'[x] = pos[x]
                                  /\ ins'[x] = ins[x],
         phase'[w] \notin {"insert", "returned"},
         ins'[w] = NothingInserted,
         phase'[w] = "copy" => view'[w] = << >>
  PROVE  CopyInv'
  <1> USE CopyAssumption DEF CopyInv
  <1>1. StagedIsOwn'
    BY DEF StagedIsOwn, TypeOK
  <1>2. HeldOnce'
    <2>1. \A t \in Tables, k \in Keys : ~Holds(w, t, k)'
      BY DEF Holds, NothingInserted
    <2>2. \A x \in Writers \ {w} : \A t \in Tables, k \in Keys :
             Holds(x, t, k)' <=> Holds(x, t, k)
      BY DEF Holds, InTransaction
    <2> QED
      BY <2>1, <2>2 DEF HeldOnce
  <1>3. CursorExplainsHeld'
    <2>1. Explained(w)'
      BY DEF Explained
    <2>2. \A x \in Writers \ {w} : Explained(x)'
      BY DEF CursorExplainsHeld, Explained
    <2> QED
      BY <2>1, <2>2 DEF CursorExplainsHeld
  <1>4. ReturnedIsStored'
    BY DEF ReturnedIsStored
  <1> QED
    BY <1>1, <1>2, <1>3, <1>4

(* The copy into staging: the INSERT starts on exactly the call's records. *)
LEMMA CopyStep ==
  ASSUME CopyInv, TypeOK', NEW w \in Writers, CopyRecords(w)
  PROVE  CopyInv'
  <1> USE CopyAssumption DEF CopyInv
  <1>1. view'[w] = call[w].rows /\ phase'[w] = "insert" /\ pos'[w] = 1
    <2>1. view[w] = << >> /\ call[w].rows \in Seq(Row)
      BY CallFields DEF CopyRecords, CursorExplainsHeld, Explained, TypeOK
    <2> QED
      BY <2>1, EmptyConcat DEF CopyRecords, TypeOK
  <1>2. /\ \A x \in Writers \ {w} : phase'[x] = phase[x] /\ view'[x] = view[x] /\ pos'[x] = pos[x]
        /\ call' = call /\ ins' = ins /\ table' = table
    BY DEF CopyRecords, TypeOK
  <1>3. ins[w] = NothingInserted
    BY DEF CopyRecords, CursorExplainsHeld, Explained
  <1>4. StagedIsOwn'
    BY <1>1, <1>2 DEF StagedIsOwn
  <1>5. HeldOnce'
    <2>1. \A x \in Writers : InTransaction(x)' <=> InTransaction(x)
      BY <1>1, <1>2 DEF InTransaction, CopyRecords
    <2> QED
      BY <1>2, <2>1 DEF HeldOnce, Holds
  <1>6. CursorExplainsHeld'
    <2>1. Explained(w)'
      BY <1>1, <1>2, <1>3 DEF Explained, NothingInserted, TypeOK
    <2>2. \A x \in Writers \ {w} : Explained(x)'
      BY <1>2 DEF CursorExplainsHeld, Explained
    <2> QED
      BY <2>1, <2>2 DEF CursorExplainsHeld
  <1>7. ReturnedIsStored'
    BY <1>1, <1>2 DEF ReturnedIsStored
  <1> QED
    BY <1>4, <1>5, <1>6, <1>7

(* One row of the INSERT: it is skipped for a row that is stored or that the *)
(* transaction itself inserted, and it takes a key that nobody holds.        *)
LEMMA InsertStep ==
  ASSUME CopyInv, TypeOK', NEW w \in Writers, InsertRow(w)
  PROVE  CopyInv'
  <1> USE CopyAssumption DEF CopyInv
  <1> DEFINE t == call[w].target
             r == view[w][pos[w]]
  <1>1. /\ phase[w] = "insert" /\ pos[w] <= Len(view[w]) /\ pos[w] \in Nat \ {0}
        /\ t \in Tables /\ view[w] \in Seq(Row) /\ r.key \in Keys /\ r.val \in Vals
    BY CallFields, RowFields DEF InsertRow, Inserting, TypeOK
  <1>2. /\ table' = table /\ phase' = phase /\ call' = call /\ view' = view
        /\ pos'[w] = pos[w] + 1
        /\ \A x \in Writers \ {w} : pos'[x] = pos[x] /\ ins'[x] = ins[x]
    BY DEF InsertRow, TypeOK
  <1>3. \A k \in Keys : ins'[w][k] =
            IF k = r.key /\ table[t][k] = NoRow /\ ins[w][k] = NoRow THEN r.val ELSE ins[w][k]
    BY <1>1 DEF InsertRow, NextRow, TypeOK
  <1>4. \A x \in Writers \ {w} : ~Holds(x, t, r.key)
    BY DEF InsertRow, Waits, NextRow
  <1>5. StagedIsOwn' /\ ReturnedIsStored'
    BY <1>1, <1>2 DEF StagedIsOwn, ReturnedIsStored
  <1>6. HeldOnce'
    <2>1. \A x \in Writers \ {w} : \A u \in Tables, k \in Keys : Holds(x, u, k)' <=> Holds(x, u, k)
      BY <1>2 DEF Holds, InTransaction
    <2>2. \A u \in Tables, k \in Keys :
             Holds(w, u, k)' => Holds(w, u, k) \/ (u = t /\ k = r.key /\ table[u][k] = NoRow)
      BY <1>2, <1>3 DEF Holds, InTransaction
    <2> QED
      BY <1>2, <1>4, <2>1, <2>2 DEF HeldOnce
  <1>7. Explained(w)'
    <2>1. /\ \A i \in 1..(pos[w] - 1) :
                 ins[w][view[w][i].key] # NoRow \/ table[t][view[w][i].key] # NoRow
          /\ \A k \in Keys : ins[w][k] # NoRow =>
                 \E i \in 1..(pos[w] - 1) :
                     Store!IsFirst(view[w], i, k) /\ ins[w][k] = view[w][i].val
      BY <1>1 DEF CursorExplainsHeld, Explained
    <2>2. \A i \in 1..pos[w] : view[w][i].key \in Keys
      BY <1>1, RowFields
    <2>3. \A i \in 1..pos[w] : ins'[w][view[w][i].key] # NoRow \/ table[t][view[w][i].key] # NoRow
      BY <1>1, <1>3, <2>1, <2>2
    <2>4. ASSUME NEW k \in Keys, ins'[w][k] # NoRow
          PROVE  \E i \in 1..pos[w] :
                     Store!IsFirst(view[w], i, k) /\ ins'[w][k] = view[w][i].val
      <3>1. CASE ins[w][k] # NoRow
        BY <1>1, <1>3, <2>1, <3>1
      <3>2. CASE ins[w][k] = NoRow
        <4>1. k = r.key /\ table[t][k] = NoRow /\ ins'[w][k] = r.val
          BY <1>3, <2>4, <3>2
        <4>2. \A j \in 1..(pos[w] - 1) : view[w][j].key # k
          BY <2>1, <3>2, <4>1
        <4>3. Store!IsFirst(view[w], pos[w], k)
          BY <4>1, <4>2 DEF Store!IsFirst
        <4> QED
          BY <1>1, <4>1, <4>3
      <3> QED
        BY <3>1, <3>2
    <2>5. pos'[w] - 1 = pos[w] /\ pos'[w] <= Len(view[w]) + 1
      BY <1>1, <1>2
    <2>6. \A i \in 1..(pos'[w] - 1) :
             ins'[w][view'[w][i].key] # NoRow \/ table'[call'[w].target][view'[w][i].key] # NoRow
      BY <1>2, <2>3, <2>5
    <2>7. \A k \in Keys : ins'[w][k] # NoRow =>
             \E i \in 1..(pos'[w] - 1) :
                 Store!IsFirst(view'[w], i, k) /\ ins'[w][k] = view'[w][i].val
      BY <1>2, <2>4, <2>5
    <2> QED
      BY <1>1, <1>2, <2>5, <2>6, <2>7 DEF Explained
  <1>8. \A x \in Writers \ {w} : Explained(x)'
    BY <1>2 DEF CursorExplainsHeld, Explained
  <1> QED
    BY <1>5, <1>6, <1>7, <1>8 DEF CursorExplainsHeld

(* At commit every key of the batch is stored, and a row that was stored     *)
(* before is still the one under its key.                                    *)
LEMMA CommitMerges ==
  ASSUME CopyInv, NEW w \in Writers, CommitEffect(w)
  PROVE  /\ call[w].target \in Tables
         /\ Store!IsMerge(table[call[w].target], call[w].rows, table'[call[w].target])
         /\ \A u \in Tables \ {call[w].target} : table'[u] = table[u]
         /\ \A i \in DOMAIN call[w].rows :
               table'[call[w].target][call[w].rows[i].key] # NoRow
         /\ \A t \in Tables, k \in Keys : table[t][k] # NoRow => table'[t][k] = table[t][k]
  <1> USE CopyAssumption DEF CopyInv
  <1> DEFINE t == call[w].target
             rows == call[w].rows
  <1>1. /\ t \in Tables /\ rows \in Seq(Row) /\ phase[w] = "insert"
        /\ view[w] = rows /\ pos[w] > Len(rows) /\ pos[w] \in Nat
    BY CallFields DEF CommitEffect, StagedIsOwn, TypeOK
  <1>2. /\ \A u \in Tables \ {t} : table'[u] = table[u]
        /\ \A k \in Keys : table'[t][k] = IF ins[w][k] # NoRow THEN ins[w][k] ELSE table[t][k]
    BY <1>1 DEF CommitEffect, TypeOK
  <1>3. pos[w] - 1 = Len(rows)
    BY <1>1 DEF CursorExplainsHeld, Explained
  <1>4. \A i \in 1..Len(rows) : ins[w][rows[i].key] # NoRow \/ table[t][rows[i].key] # NoRow
    BY <1>1, <1>3 DEF CursorExplainsHeld, Explained
  <1>5. \A k \in Keys : ins[w][k] # NoRow =>
           \E i \in 1..Len(rows) : Store!IsFirst(rows, i, k) /\ ins[w][k] = rows[i].val
    BY <1>1, <1>3 DEF CursorExplainsHeld, Explained
  <1>6. \A k \in Keys : ins[w][k] # NoRow => table[t][k] = NoRow
    BY <1>1 DEF HeldOnce, Holds, InTransaction
  <1>7. DOMAIN rows = 1..Len(rows) /\ \A i \in 1..Len(rows) : rows[i].key \in Keys
    BY <1>1, RowFields
  <1>8. \A i \in DOMAIN rows : table'[t][rows[i].key] # NoRow
    BY <1>2, <1>4, <1>7
  <1>9. Store!IsMerge(table[t], rows, table'[t])
    <2> SUFFICES ASSUME NEW k \in Keys
                 PROVE  IF table[t][k] = NoRow /\ \E i \in DOMAIN rows : rows[i].key = k
                        THEN \E i \in DOMAIN rows :
                                Store!IsFirst(rows, i, k) /\ table'[t][k] = rows[i].val
                        ELSE table'[t][k] = table[t][k]
      BY DEF Store!IsMerge
    <2>1. CASE table[t][k] = NoRow /\ \E i \in DOMAIN rows : rows[i].key = k
      <3>1. ins[w][k] # NoRow
        BY <1>4, <1>7, <2>1
      <3> QED
        BY <1>2, <1>5, <1>7, <2>1, <3>1
    <2>2. CASE ~(table[t][k] = NoRow /\ \E i \in DOMAIN rows : rows[i].key = k)
      <3>1. ins[w][k] = NoRow
        BY <1>5, <1>6, <1>7, <2>2 DEF Store!IsFirst
      <3> QED
        BY <1>2, <2>2, <3>1
    <2> QED
      BY <2>1, <2>2
  <1>10. \A u \in Tables, k \in Keys : table[u][k] # NoRow => table'[u][k] = table[u][k]
    BY <1>1, <1>2, <1>6
  <1> QED
    BY <1>1, <1>2, <1>8, <1>9, <1>10

(* The commit, whether its answer arrives or not, preserves the invariant. *)
LEMMA CommitStep ==
  ASSUME CopyInv, TypeOK', NEW w \in Writers, Commit(w) \/ CommitLost(w)
  PROVE  CopyInv'
  <1> USE CopyAssumption DEF CopyInv
  <1> DEFINE t == call[w].target
  <1>1. CommitEffect(w)
    BY DEF Commit, CommitLost
  <1>2. /\ t \in Tables /\ phase[w] = "insert"
        /\ phase'[w] \in {"returned", "raised"} /\ call' = call /\ ins' = ins
        /\ \A x \in Writers \ {w} : phase'[x] = phase[x] /\ view'[x] = view[x] /\ pos'[x] = pos[x]
    BY <1>1, CallFields DEF Commit, CommitLost, CommitEffect, TypeOK
  <1>3. /\ \A u \in Tables \ {t} : table'[u] = table[u]
        /\ \A k \in Keys : table'[t][k] = IF ins[w][k] # NoRow THEN ins[w][k] ELSE table[t][k]
    BY <1>1, <1>2 DEF CommitEffect, TypeOK
  <1>4. \A u \in Tables, k \in Keys : table[u][k] # NoRow => table'[u][k] # NoRow
    BY <1>1, CommitMerges
  <1>5. StagedIsOwn'
    BY <1>2 DEF StagedIsOwn
  <1>6. HeldOnce'
    <2>1. /\ \A x \in Writers \ {w} : \A u \in Tables, k \in Keys : Holds(x, u, k)' <=> Holds(x, u, k)
          /\ \A u \in Tables, k \in Keys : ~Holds(w, u, k)'
      BY <1>2 DEF Holds, InTransaction
    <2>2. \A x \in Writers \ {w} : \A u \in Tables, k \in Keys :
             Holds(x, u, k) => table'[u][k] = NoRow
      <3> SUFFICES ASSUME NEW x \in Writers \ {w}, NEW u \in Tables, NEW k \in Keys, Holds(x, u, k)
                   PROVE  table'[u][k] = NoRow
        OBVIOUS
      <3>1. table[u][k] = NoRow /\ ~Holds(w, u, k)
        BY DEF HeldOnce
      <3>2. u = t => ins[w][k] = NoRow
        BY <1>2, <3>1 DEF Holds, InTransaction
      <3> QED
        BY <1>3, <3>1, <3>2
    <2> QED
      BY <2>1, <2>2 DEF HeldOnce
  <1>7. CursorExplainsHeld'
    <2>1. Explained(w)'
      BY <1>2 DEF Explained
    <2>2. ASSUME NEW x \in Writers \ {w} PROVE Explained(x)'
      <3>1. phase[x] = "insert" => \A i \in 1..(pos[x] - 1) : view[x][i].key \in Keys
        BY RowFields DEF CursorExplainsHeld, Explained, TypeOK
      <3>2. call[x].target \in Tables
        BY CallFields DEF TypeOK
      <3> QED
        BY <1>2, <1>4, <3>1, <3>2 DEF CursorExplainsHeld, Explained
    <2> QED
      BY <2>1, <2>2 DEF CursorExplainsHeld
  <1>8. ReturnedIsStored'
    <2>1. \A i \in DOMAIN call[w].rows : table'[t][call[w].rows[i].key] # NoRow
      BY <1>1, CommitMerges
    <2>2. \A x \in Writers : call[x].target \in Tables
            /\ \A i \in DOMAIN call[x].rows : call[x].rows[i].key \in Keys
      BY CallFields, RowFields DEF TypeOK
    <2>3. ASSUME NEW x \in Writers \ {w}, phase'[x] = "returned", NEW i \in DOMAIN call[x].rows
          PROVE  table'[call[x].target][call[x].rows[i].key] # NoRow
      BY <1>2, <1>4, <2>2, <2>3 DEF ReturnedIsStored
    <2> QED
      BY <1>2, <2>1, <2>3 DEF ReturnedIsStored
  <1> QED
    BY <1>5, <1>6, <1>7, <1>8

(* After a restart of the database no transaction is open. *)
LEMMA RestartStep ==
  ASSUME CopyInv, TypeOK', DatabaseRestart
  PROVE  CopyInv'
  <1> USE CopyAssumption DEF CopyInv
  <1>1. \A w \in Writers :
          /\ phase'[w] \notin {"create", "truncate", "copy", "insert"}
          /\ phase'[w] = phase[w] \/ phase'[w] = "raised"
          /\ phase'[w] = phase[w] => ins'[w] = ins[w]
    BY DEF DatabaseRestart, InTransaction, TypeOK
  <1>2. table' = table /\ call' = call
    BY DEF DatabaseRestart
  <1>3. StagedIsOwn' /\ ReturnedIsStored'
    BY <1>1, <1>2 DEF StagedIsOwn, ReturnedIsStored
  <1>4. HeldOnce'
    BY <1>1 DEF HeldOnce, Holds, InTransaction
  <1>5. CursorExplainsHeld'
    BY <1>1, <1>2 DEF CursorExplainsHeld, Explained
  <1> QED
    BY <1>3, <1>4, <1>5

(* The empty batch: the call returns with nothing to store. *)
LEMMA BeginStep ==
  ASSUME CopyInv, TypeOK', NEW w \in Writers, NEW c \in Calls[w], Begin(w, c)
  PROVE  CopyInv'
  <1> USE CopyAssumption DEF CopyInv
  <1>1. /\ UNCHANGED table
        /\ \A x \in Writers \ {w} : /\ phase'[x] = phase[x] /\ call'[x] = call[x]
                                     /\ view'[x] = view[x] /\ pos'[x] = pos[x]
                                     /\ ins'[x] = ins[x]
        /\ ins'[w] = NothingInserted /\ call'[w] = c
        /\ phase'[w] = IF c.rows = << >> THEN "returned" ELSE "connect"
    BY DEF Begin, TypeOK
  <1>2. CASE c.rows # << >>
    BY <1>1, <1>2, QuietStep
  <1>3. CASE c.rows = << >>
    <2>1. StagedIsOwn'
      BY <1>1, <1>3 DEF StagedIsOwn
    <2>2. HeldOnce'
      <3>1. \A t \in Tables, k \in Keys : ~Holds(w, t, k)'
        BY <1>1 DEF Holds, NothingInserted
      <3>2. \A x \in Writers \ {w} : \A t \in Tables, k \in Keys :
               Holds(x, t, k)' <=> Holds(x, t, k)
        BY <1>1 DEF Holds, InTransaction
      <3> QED
        BY <1>1, <3>1, <3>2 DEF HeldOnce
    <2>3. CursorExplainsHeld'
      <3>1. Explained(w)'
        BY <1>1, <1>3 DEF Explained
      <3>2. \A x \in Writers \ {w} : Explained(x)'
        BY <1>1 DEF CursorExplainsHeld, Explained
      <3> QED
        BY <3>1, <3>2 DEF CursorExplainsHeld
    <2>4. ReturnedIsStored'
      <3>1. DOMAIN c.rows = {}
        BY <1>3
      <3> QED
        BY <1>1, <3>1 DEF ReturnedIsStored
    <2> QED
      BY <2>1, <2>2, <2>3, <2>4
  <1> QED
    BY <1>2, <1>3

(* The invariant is inductive. *)
LEMMA InvStep == CopyInv /\ [Next]_vars => CopyInv'
  <1> SUFFICES ASSUME CopyInv, [Next]_vars PROVE CopyInv'
    OBVIOUS
  <1>0. TypeOK'
    BY TypeStep DEF CopyInv
  <1>0a. TypeOK
    BY DEF CopyInv
  <1>1. ASSUME NEW w \in Writers, NEW c \in Calls[w], Begin(w, c) PROVE CopyInv'
    BY <1>0, <1>1, BeginStep
  <1>2. ASSUME NEW w \in Writers, NEW p \in Pids, Connect(w, p) PROVE CopyInv'
    <2>1. ins[w] = NothingInserted
      BY <1>2 DEF Connect, CopyInv, CursorExplainsHeld, Explained
    <2> QED
      BY <1>0, <1>0a, <1>2, <2>1, QuietStep DEF Connect, TypeOK
  <1>3. ASSUME NEW w \in Writers, Create(w) PROVE CopyInv'
    <2>1. ins[w] = NothingInserted
      BY <1>3 DEF Create, CopyInv, CursorExplainsHeld, Explained
    <2> QED
      BY <1>0, <1>0a, <1>3, <2>1, QuietStep DEF Create, TypeOK
  <1>4. ASSUME NEW w \in Writers, Truncate(w) PROVE CopyInv'
    <2>1. ins[w] = NothingInserted
      BY <1>4 DEF Truncate, CopyInv, CursorExplainsHeld, Explained
    <2> QED
      BY <1>0, <1>0a, <1>4, <2>1, QuietStep DEF Truncate, TypeOK
  <1>5. ASSUME NEW w \in Writers, CopyRecords(w) PROVE CopyInv'
    BY <1>0, <1>5, CopyStep
  <1>6. ASSUME NEW w \in Writers, InsertRow(w) PROVE CopyInv'
    BY <1>0, <1>6, InsertStep
  <1>7. ASSUME NEW w \in Writers, Commit(w) \/ CommitLost(w) PROVE CopyInv'
    BY <1>0, <1>7, CommitStep
  <1>8. ASSUME NEW w \in Writers, Rollback(w) PROVE CopyInv'
    BY <1>0, <1>0a, <1>8, QuietStep DEF Rollback, TypeOK
  <1>9. ASSUME DatabaseRestart PROVE CopyInv'
    BY <1>0, <1>9, RestartStep
  <1>10. ASSUME UNCHANGED vars PROVE CopyInv'
    <2>1. /\ table' = table /\ staging' = staging /\ phase' = phase /\ call' = call
          /\ conn' = conn /\ view' = view /\ pos' = pos /\ ins' = ins /\ ret' = ret
      BY <1>10 DEF vars
    <2>2. StagedIsOwn' /\ HeldOnce' /\ ReturnedIsStored'
      BY <2>1 DEF CopyInv, StagedIsOwn, HeldOnce, Holds, InTransaction, ReturnedIsStored
    <2>3. CursorExplainsHeld'
      BY <2>1 DEF CopyInv, CursorExplainsHeld, Explained
    <2> QED
      BY <1>0, <2>2, <2>3 DEF CopyInv
  <1> QED
    BY <1>1, <1>2, <1>3, <1>4, <1>5, <1>6, <1>7, <1>8, <1>9, <1>10
    DEF Next, Step, Raise, ConnectTimeout, NoArbiter, DeadlockVictim

(* The inductive invariant holds in every reachable state. *)
THEOREM CopyInvariant == Spec => []CopyInv
  BY InitInv, InvStep, PTL DEF Spec

(* Type correctness of the write path. *)
THEOREM CopyTypeCorrect == Spec => []TypeOK
  <1>1. CopyInv => TypeOK
    BY DEF CopyInv
  <1> QED
    BY <1>1, CopyInvariant, PTL

(* The INSERT of a call reads exactly the call's own records, whatever its   *)
(* staging table held before.                                                *)
THEOREM StagedIsOwnAlways == Spec => []StagedIsOwn
  <1>1. CopyInv => StagedIsOwn
    BY DEF CopyInv
  <1> QED
    BY <1>1, CopyInvariant, PTL

(* A call that returned has a stored row under every key of its batch. *)
THEOREM ReturnedIsStoredAlways == Spec => []ReturnedIsStored
  <1>1. CopyInv => ReturnedIsStored
    BY DEF CopyInv
  <1> QED
    BY <1>1, CopyInvariant, PTL

(* No key is held by two open transactions, nor held and committed. *)
THEOREM HeldOnceAlways == Spec => []HeldOnce
  <1>1. CopyInv => HeldOnce
    BY DEF CopyInv
  <1> QED
    BY <1>1, CopyInvariant, PTL

(* The only steps that touch a hypertable are commits. *)
LEMMA OnlyCommits ==
  ASSUME [Next]_vars
  PROVE  UNCHANGED table \/ \E w \in Writers : CommitEffect(w)
  BY DEF Next, Step, vars, Begin, Connect, Create, Truncate, CopyRecords, InsertRow, Commit,
         CommitLost, Raise, ConnectTimeout, NoArbiter, DeadlockVictim, Rollback, DatabaseRestart

(* D-62, first write wins, for every step of every behaviour. *)
THEOREM FirstWriteWinsAlways == Spec => FirstWriteWins
  <1>1. CopyInv /\ [Next]_vars =>
          [\A t \in Tables, k \in Keys : table[t][k] # NoRow => table'[t][k] = table[t][k]]_vars
    BY OnlyCommits, CommitMerges
  <1> QED
    BY <1>1, CopyInvariant, PTL DEF Spec, FirstWriteWins

(* The call in flight is one its caller made. *)
CallIsGiven ==
    \A w \in Writers : InTransaction(w) \/ phase[w] = "connect" => call[w] \in Calls[w]

LEMMA CallIsGivenAlways == Spec => []CallIsGiven
  <1>1. Init => CallIsGiven
    BY DEF Init, CallIsGiven, InTransaction
  <1>2. CallIsGiven /\ CopyInv /\ [Next]_vars => CallIsGiven'
    <2> SUFFICES ASSUME CallIsGiven, TypeOK, [Next]_vars PROVE CallIsGiven'
      BY DEF CopyInv
    <2> USE DEF CallIsGiven, InTransaction, TypeOK
    <2>1. ASSUME NEW w \in Writers, NEW c \in Calls[w], Begin(w, c) PROVE CallIsGiven'
      BY <2>1 DEF Begin
    <2>2. ASSUME NEW w \in Writers, Rollback(w) PROVE CallIsGiven'
      BY <2>2 DEF Rollback
    <2>3. ASSUME NEW w \in Writers, Commit(w) \/ CommitLost(w) PROVE CallIsGiven'
      BY <2>3 DEF Commit, CommitLost, CommitEffect
    <2>4. ASSUME NEW w \in Writers, NEW p \in Pids, Connect(w, p) PROVE CallIsGiven'
      BY <2>4 DEF Connect
    <2>5. ASSUME DatabaseRestart PROVE CallIsGiven'
      BY <2>5 DEF DatabaseRestart
    <2>6. ASSUME NEW w \in Writers, Create(w) \/ Truncate(w) \/ CopyRecords(w) \/ InsertRow(w)
          PROVE  CallIsGiven'
      BY <2>6 DEF Create, Truncate, CopyRecords, InsertRow, Inserting
    <2>7. CASE UNCHANGED vars
      BY <2>7 DEF vars
    <2> QED
      BY <2>1, <2>2, <2>3, <2>4, <2>5, <2>6, <2>7
      DEF Next, Step, Raise, ConnectTimeout, NoArbiter, DeadlockVictim
  <1> QED
    BY <1>1, <1>2, CopyInvariant, PTL DEF Spec

(* copy_into_hypertable implements the abstract store: every step of every   *)
(* behaviour merges one whole batch of a caller, or changes no hypertable.   *)
THEOREM CopyImplementsStore == Spec => ImplementsStore
  <1>1. Init => Store!Init
    BY DEF Init, Store!Init
  <1>2. CopyInv /\ CopyInv' /\ CallIsGiven /\ [Next]_vars => [Store!Next]_table
    <2> SUFFICES ASSUME CopyInv, CopyInv', CallIsGiven, [Next]_vars, table' # table
                 PROVE  Store!Next
      OBVIOUS
    <2>1. PICK w \in Writers : CommitEffect(w)
      BY OnlyCommits
    <2>2. call[w].rows \in AllBatches
      BY <2>1 DEF CommitEffect, CallIsGiven, InTransaction, AllBatches
    <2>3. Store!TypeOK'
      BY DEF CopyInv, TypeOK, Store!TypeOK
    <2>4. Store!Merge(call[w].target, call[w].rows)
      BY <2>1, <2>3, CommitMerges DEF Store!Merge
    <2> QED
      BY <2>1, <2>2, <2>4, CommitMerges DEF Store!Next
  <1> QED
    BY <1>1, <1>2, CopyInvariant, CallIsGivenAlways, PTL DEF Spec, ImplementsStore, Store!Spec

(* A waiting writer whose batch ascends holds only keys before the one it    *)
(* waits for.                                                                *)
LEMMA HeldBeforeWaited ==
  ASSUME CopyInv, Keys \subseteq Nat,
         NEW w \in Writers, NEW x \in Writers, NEW y \in Writers,
         Waits(w, x), Waits(x, y), ~Descends(x)
  PROVE  /\ NextRow(w).key \in Keys /\ NextRow(x).key \in Keys
         /\ NextRow(w).key < NextRow(x).key
  <1> DEFINE k == NextRow(w).key
             l == NextRow(x).key
             t == call[x].target
  <1>0. TypeOK /\ StagedIsOwn /\ HeldOnce /\ Explained(x)
    BY DEF CopyInv, CursorExplainsHeld
  <1>1. /\ phase[w] = "insert" /\ pos[w] \in 1..Len(view[w])
        /\ phase[x] = "insert" /\ pos[x] \in 1..Len(view[x])
    BY <1>0 DEF Waits, Inserting, TypeOK
  <1>2. k \in Keys /\ l \in Keys /\ t \in Tables
    BY <1>0, <1>1, RowFields, CallFields DEF NextRow, TypeOK
  <1>3. Holds(x, t, k) /\ ins[x][k] # NoRow /\ Holds(y, t, l) /\ y # x
    BY DEF Waits, Holds
  <1>4. k # l
    BY <1>0, <1>2, <1>3 DEF HeldOnce
  <1>5. PICK i \in 1..(pos[x] - 1) : view[x][i].key = k
    BY <1>0, <1>1, <1>2, <1>3 DEF Explained, Store!IsFirst
  <1>6. i \in DOMAIN call[x].rows /\ pos[x] \in DOMAIN call[x].rows /\ i < pos[x]
    BY <1>0, <1>1, <1>5 DEF StagedIsOwn, TypeOK
  <1>7. call[x].rows[i].key = k /\ call[x].rows[pos[x]].key = l
    BY <1>0, <1>1, <1>5 DEF StagedIsOwn, NextRow
  <1>8. ~(k > l)
    BY <1>6, <1>7 DEF Descends
  <1> HIDE DEF k, l
  <1>9. k < l
    BY <1>2, <1>4, <1>8
  <1> QED
    BY <1>2, <1>9 DEF k, l

(* Transactions that wait for each other need a batch that lists keys in     *)
(* descending order, for any number of writers: among the writers of a cycle *)
(* the one that waits for the least key would be waited for with a lesser.   *)
THEOREM AscendingNeverDeadlocks ==
  ASSUME Keys \subseteq Nat PROVE Spec => []DeadlockNeedsDisorder
  <1>1. CopyInv => DeadlockNeedsDisorder
    <2> SUFFICES ASSUME CopyInv, NEW S \in SUBSET Writers, S # {}, IsCycle(S),
                        \A w \in S : ~Descends(w)
                 PROVE  FALSE
      BY DEF DeadlockNeedsDisorder
    <2> DEFINE T == {NextRow(w).key : w \in S}
               R == OpToRel(<, Nat)
    <2>1. ASSUME NEW x \in S
          PROVE  \E w \in S : /\ NextRow(w).key \in Nat /\ NextRow(x).key \in Nat
                              /\ NextRow(w).key < NextRow(x).key
      <3>1. PICK w \in S, y \in S : Waits(w, x) /\ Waits(x, y)
        BY DEF IsCycle
      <3> QED
        BY <3>1, HeldBeforeWaited
    <2>2. T \subseteq Nat /\ T # {}
      BY <2>1
    <2>3. IsWellFoundedOn(R, Nat)
      BY NatLessThanWellFounded
    <2> HIDE DEF R
    <2>4. PICK k \in T : \A j \in T : <<j, k>> \notin R
      <3> HIDE DEF T
      <3> QED
        BY <2>2, <2>3, WFMin
    <2>5. PICK x \in S : NextRow(x).key = k
      BY <2>4
    <2>6. PICK w \in S : NextRow(w).key \in Nat /\ k \in Nat /\ NextRow(w).key < k
      BY <2>1, <2>5
    <2>7. <<NextRow(w).key, k>> \in R
      BY <2>6 DEF R, OpToRel
    <2> QED
      BY <2>4, <2>7
  <1> QED
    BY <1>1, CopyInvariant, PTL
=============================================================================
