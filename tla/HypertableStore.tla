-------------------------- MODULE HypertableStore --------------------------
(***************************************************************************)
(* What the one write path of the data platform promises its callers: a    *)
(* hypertable is a map from primary keys to rows; a batch is merged in one *)
(* atomic step in which the first row written under a key wins, or it is   *)
(* not merged at all.  Nothing ever removes or replaces a row (invariant   *)
(* D-62 in the header of ingest/storage/copy.py).                          *)
(***************************************************************************)
EXTENDS Integers, Sequences

CONSTANTS
    Tables,     \* the hypertables
    Keys,       \* primary-key values
    Vals,       \* the rest of a row
    NoRow,      \* no row under this key
    Batches     \* the batches callers can hand over, sequences of rows

VARIABLE table
----------------------------------------------------------------------------

(* The position of the first row of the batch with key k. *)
IsFirst(batch, i, k) ==
    /\ batch[i].key = k
    /\ \A j \in 1..(i - 1) : batch[j].key # k

(* `new` is `old` with the batch merged in: a key that has a row keeps it, a *)
(* key that has none takes the first row of the batch that bears it.         *)
IsMerge(old, batch, new) ==
    \A k \in Keys :
        IF old[k] = NoRow /\ \E i \in DOMAIN batch : batch[i].key = k
        THEN \E i \in DOMAIN batch : IsFirst(batch, i, k) /\ new[k] = batch[i].val
        ELSE new[k] = old[k]

(* The merge as a function of the table and the batch. *)
Merged(old, batch) ==
    [k \in Keys |->
        IF old[k] = NoRow /\ \E i \in DOMAIN batch : batch[i].key = k
        THEN batch[CHOOSE i \in DOMAIN batch : IsFirst(batch, i, k)].val
        ELSE old[k]]

TypeOK == table \in [Tables -> [Keys -> Vals \cup {NoRow}]]

Init == table = [t \in Tables |-> [k \in Keys |-> NoRow]]

(* One call's batch becomes visible. *)
Merge(t, batch) ==
    /\ IsMerge(table[t], batch, table'[t])
    /\ \A u \in Tables \ {t} : table'[u] = table[u]
    /\ TypeOK'

Next == \E t \in Tables, batch \in Batches : Merge(t, batch)

Spec == Init /\ [][Next]_table
=============================================================================
