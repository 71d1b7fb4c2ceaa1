---------------------------- MODULE BackupProofs ----------------------------
(***************************************************************************)
(* For every calendar and every retention: a complete dump once uploaded   *)
(* is not lost before a later complete one is there, only complete dumps   *)
(* are promoted, and a sweep deletes what is beyond the retention and      *)
(* nothing else.                                                           *)
(***************************************************************************)
EXTENDS Backup, FiniteSetTheorems, WellFoundedInduction, TLAPS

(* The pcs at which the exit code of pg_dump has been found to be zero. *)
Sweeping == {"list", "promote", "sweep"} \cup Swept

(* Every object is older than the next run. *)
KeysPast == /\ best < now
            /\ \A p \in Prefixes : \A k \in Keys(p) : k < now

(* A run that uploads is about to add the newest object of all. *)
UploadNewest ==
    run.pc = "upload" => /\ run.key < now /\ best < run.key
                         /\ \A k \in Keys("daily") : k < run.key

(* Until the exit code is known, the object is the newest of daily/. *)
WaitNewest ==
    run.pc = "wait" => /\ bucket["daily"][run.key] # "none"
                       /\ bucket["daily"][run.key] = "complete" => best = run.key
                       /\ \A k \in Keys("daily") : k <= run.key

(* A sweep works on the latest complete dump, and that is the newest object. *)
SweepNewest ==
    run.pc \in Sweeping => /\ bucket["daily"][run.key] = "complete"
                           /\ best = run.key
                           /\ \A k \in Keys("daily") : k <= run.key

(* Objects are deleted within one of the prefixes, never the newest dump. *)
Dead == /\ run.dead # {} => run.pc \in Swept
        /\ run.pc \in {"sweep"} \cup Swept => run.todo \subseteq Swept
        /\ run.pc = "daily" => run.key \notin run.dead

IInv == /\ TypeOK /\ RestorePoint /\ PromotedComplete
        /\ KeysPast /\ UploadNewest /\ WaitNewest /\ SweepNewest /\ Dead

----------------------------------------------------------------------------
(* First picks one of the prefixes it is given. *)
LEMMA FirstIn ==
    ASSUME NEW S \in SUBSET Prefixes, S # {}
    PROVE  First(S) \in S
<1> DEFINE Q(p) == \/ p = "daily"
                   \/ p = "weekly" /\ "daily" \notin S
                   \/ p = "monthly" /\ S \subseteq {"monthly", "annual"}
                   \/ p = "annual" /\ S = {"annual"}
<1>1. \E p \in S : Q(p)
  <2>1. CASE "daily" \in S  BY <2>1
  <2>2. CASE "daily" \notin S /\ "weekly" \in S  BY <2>2
  <2>3. CASE "daily" \notin S /\ "weekly" \notin S /\ "monthly" \in S
    <3>1. S \subseteq {"monthly", "annual"}  BY <2>3 DEF Prefixes, Swept
    <3> QED  BY <2>3, <3>1
  <2>4. CASE "daily" \notin S /\ "weekly" \notin S /\ "monthly" \notin S
    <3>1. S = {"annual"}  BY <2>4 DEF Prefixes, Swept
    <3> QED  BY <3>1
  <2> QED  BY <2>1, <2>2, <2>3, <2>4
<1>2. (CHOOSE p \in S : Q(p)) \in S  BY <1>1
<1> QED  BY <1>2 DEF First

(* The newest of the objects is not among those to delete. *)
LEMMA NewestKept ==
    ASSUME NEW p \in Swept, NEW k \in Keys(p), \A j \in Keys(p) : j <= k
    PROVE  k \notin Beyond(p)
<1>1. Keys(p) \subseteq Int  BY BackupAssumption DEF Keys, Times
<1>2. {j \in Keys(p) : j > k} = {}  BY <1>1
<1>3. Cardinality({j \in Keys(p) : j > k}) = 0  BY <1>2, FS_EmptySet
<1>4. retention_counts[p] \in Nat \ {0}
  BY BackupAssumption DEF retention_counts, Swept
<1> QED  BY <1>3, <1>4 DEF Beyond

(* What the sweep takes for the newest dump is the one just uploaded. *)
LEMMA NewestIs ==
    ASSUME NEW k \in Keys("daily"), \A j \in Keys("daily") : j <= k
    PROVE  Newest = k
<1>1. Keys("daily") \subseteq Int  BY BackupAssumption DEF Keys, Times
<1>2. \A i \in Keys("daily") : (\A j \in Keys("daily") : j <= i) => i = k  BY <1>1
<1> QED  BY <1>2 DEF Newest

(* The empty bucket satisfies the invariant, and each action preserves it. *)
LEMMA InitIInv == Init => IInv
<1> SUFFICES ASSUME Init PROVE IInv  OBVIOUS
<1> USE DEF Init, NoJob
<1>1. TypeOK  BY BackupAssumption DEF TypeOK, Times, Object, Prefixes, Swept
<1>2. \A p \in Prefixes : Keys(p) = {}  BY DEF Keys
<1>3. PromotedComplete  BY DEF PromotedComplete
<1>4. KeysPast  BY <1>2 DEF KeysPast
<1> QED  BY <1>1, <1>3, <1>4
      DEF IInv, RestorePoint, UploadNewest, WaitNewest, SweepNewest, Dead, Sweeping, Swept

(* A step that ends the run keeps the invariant, since the objects and the   *)
(* history are as before.                                                    *)
LEMMA EndsIInv ==
    ASSUME IInv, run' = NoJob, UNCHANGED <<now, bucket, best>>
    PROVE  IInv'
<1> USE DEF IInv
<1>1. TypeOK'  BY BackupAssumption DEF TypeOK, NoJob, Times
<1>2. RestorePoint' /\ PromotedComplete'  BY DEF RestorePoint, PromotedComplete
<1>3. KeysPast'  BY DEF KeysPast, Keys
<1> QED  BY <1>1, <1>2, <1>3
      DEF UploadNewest, WaitNewest, SweepNewest, Dead, Sweeping, Swept, NoJob

LEMMA SkipIInv == IInv /\ Skip => IInv'
<1> SUFFICES ASSUME IInv, Skip PROVE IInv'  OBVIOUS
<1> USE DEF IInv, Skip
<1>1. TypeOK'  BY BackupAssumption DEF TypeOK, Times
<1>2. RestorePoint' /\ PromotedComplete'  BY DEF RestorePoint, PromotedComplete
<1>3. now \in Int /\ best \in Int /\ Times \subseteq Int
  BY BackupAssumption DEF TypeOK, Times
<1>4. KeysPast'  BY <1>3 DEF KeysPast, Keys
<1> QED  BY <1>1, <1>2, <1>4
      DEF UploadNewest, WaitNewest, SweepNewest, Dead, Sweeping, Swept, NoJob

LEMMA StartIInv == IInv /\ Start => IInv'
<1> SUFFICES ASSUME IInv, Start PROVE IInv'  OBVIOUS
<1> USE DEF IInv, Start, NoJob
<1>0. run' = [pc |-> "upload", key |-> now, todo |-> {}, dead |-> {}]  OBVIOUS
<1>1. TypeOK'
  <2>1. now' \in Times  BY BackupAssumption DEF TypeOK, Times
  <2> QED  BY <1>0, <2>1 DEF TypeOK
<1>2. RestorePoint' /\ PromotedComplete'  BY DEF RestorePoint, PromotedComplete
<1>3. now \in Int /\ best \in Int /\ Times \subseteq Int
  BY BackupAssumption DEF TypeOK, Times
<1>4. KeysPast'  BY <1>3 DEF KeysPast, Keys
<1>5. UploadNewest'  BY <1>3 DEF UploadNewest, KeysPast, Keys, Prefixes, Swept
<1> QED  BY <1>1, <1>2, <1>4, <1>5
      DEF WaitNewest, SweepNewest, Dead, Sweeping, Swept

LEMMA UploadIInv ==
    ASSUME IInv, NEW object \in {"complete", "truncated"}, Upload(object)
    PROVE  IInv'
<1> USE DEF IInv, Upload
<1>0. /\ now \in Int /\ best \in Int /\ Times \subseteq Int /\ run.key \in Times
      /\ "daily" \in Prefixes
  BY BackupAssumption DEF TypeOK, Times, Prefixes, Swept
<1>1. TypeOK'  BY <1>0 DEF TypeOK, Object
<1>2. /\ bucket'["daily"][run.key] = object
      /\ \A k \in Times : k # run.key => bucket'["daily"][k] = bucket["daily"][k]
      /\ \A p \in Prefixes : p # "daily" => bucket'[p] = bucket[p]
  BY <1>0 DEF TypeOK
<1>3. RestorePoint'  BY <1>0, <1>2 DEF RestorePoint, UploadNewest, TypeOK
<1>4. PromotedComplete'  BY <1>2 DEF PromotedComplete
<1>5. KeysPast'  BY <1>0, <1>2 DEF KeysPast, UploadNewest, Keys
<1>6. WaitNewest'  BY <1>0, <1>2 DEF WaitNewest, UploadNewest, Keys, TypeOK
<1> QED  BY <1>1, <1>3, <1>4, <1>5, <1>6, <1>0
      DEF UploadNewest, SweepNewest, Dead, Sweeping, Swept, TypeOK

(* A step of a run that leaves the objects as they are. *)
LEMMA OnlyRunIInv ==
    ASSUME IInv, UNCHANGED <<now, bucket, best>>,
           TypeOK', UploadNewest', WaitNewest', SweepNewest', Dead'
    PROVE  IInv'
<1>1. RestorePoint' /\ PromotedComplete'  BY DEF IInv, RestorePoint, PromotedComplete
<1>2. KeysPast'  BY DEF IInv, KeysPast, Keys
<1> QED  BY <1>1, <1>2 DEF IInv

LEMMA WaitIInv == IInv /\ Wait => IInv'
<1> SUFFICES ASSUME IInv, Wait PROVE IInv'  OBVIOUS
<1>1. CASE bucket["daily"][run.key] = "truncated"
  BY <1>1, EndsIInv DEF Wait
<1>2. CASE bucket["daily"][run.key] # "truncated"
  <2> USE DEF IInv
  <2>1. /\ run.pc = "wait" /\ run' = [run EXCEPT !.pc = "list"]
        /\ UNCHANGED <<now, bucket, best>>
    BY <1>2 DEF Wait
  <2>2. TypeOK'  BY <2>1 DEF TypeOK
  <2>3. bucket["daily"][run.key] \in Object
    BY DEF TypeOK, Prefixes, Swept
  <2>4. SweepNewest'  BY <1>2, <2>1, <2>3 DEF WaitNewest, SweepNewest, Object, TypeOK, Keys
  <2>5. UploadNewest' /\ WaitNewest' /\ Dead'
    BY <2>1 DEF UploadNewest, WaitNewest, Dead, TypeOK, Swept
  <2> QED  BY <2>1, <2>2, <2>4, <2>5, OnlyRunIInv
<1> QED  BY <1>1, <1>2

LEMMA ListIInv == IInv /\ List => IInv'
<1> SUFFICES ASSUME IInv, List PROVE IInv'  OBVIOUS
<1> USE DEF IInv, List
<1>1. run.pc \in Sweeping  BY DEF Sweeping
<1>2. run.key \in Keys("daily") /\ \A k \in Keys("daily") : k <= run.key
  BY <1>1 DEF SweepNewest, Keys, TypeOK
<1>3. Newest = run.key  BY <1>2, NewestIs
<1>4. run' = [run EXCEPT !.pc = "promote", !.todo = Due(run.key)]
  BY <1>2, <1>3 DEF TypeOK
<1>5. TypeOK'  BY <1>4 DEF TypeOK, Due
<1>6. SweepNewest'  BY <1>1, <1>4 DEF SweepNewest, TypeOK, Keys
<1>7. UploadNewest' /\ WaitNewest' /\ Dead'
  BY <1>4 DEF UploadNewest, WaitNewest, Dead, TypeOK, Swept
<1> QED  BY <1>5, <1>6, <1>7, OnlyRunIInv

LEMMA PromoteIInv == IInv /\ Promote => IInv'
<1> SUFFICES ASSUME IInv, Promote PROVE IInv'  OBVIOUS
<1> USE DEF IInv
<1> DEFINE p == First(run.todo)
<1>1. /\ run.pc = "promote" /\ run.todo # {} /\ UNCHANGED <<now, best>>
      /\ run' = [run EXCEPT !.todo = @ \ {p}]
      /\ bucket' \in {bucket, [bucket EXCEPT ![p][run.key] = bucket["daily"][run.key]]}
  BY DEF Promote
<1>2. p \in Prefixes  BY <1>1, FirstIn DEF TypeOK
<1>3. /\ run.key \in Times /\ "daily" \in Prefixes /\ run.pc \in Sweeping
      /\ bucket["daily"][run.key] = "complete"
  BY <1>1 DEF TypeOK, Prefixes, Swept, SweepNewest, Sweeping
<1> HIDE DEF p
<1>4. \A q \in Prefixes, k \in Times :
         \/ bucket'[q][k] = bucket[q][k]
         \/ q = p /\ k = run.key /\ bucket'[q][k] = "complete"
  BY <1>1, <1>2, <1>3 DEF TypeOK
<1>5. bucket'["daily"] = bucket["daily"]
  BY <1>1, <1>2, <1>3 DEF TypeOK
<1>6. TypeOK'  BY <1>1, <1>2, <1>3 DEF TypeOK, Object
<1>7. RestorePoint'  BY <1>1, <1>5 DEF RestorePoint
<1>8. PromotedComplete'  BY <1>4 DEF PromotedComplete
<1>9. KeysPast'
  <2>1. run.key < now  BY <1>1, <1>3 DEF SweepNewest, KeysPast, TypeOK
  <2>2. ASSUME NEW q \in Prefixes, NEW k \in Keys(q)' PROVE k < now'
    <3>1. k \in Times /\ bucket'[q][k] # "none"  BY <2>2 DEF Keys
    <3>2. CASE bucket'[q][k] = bucket[q][k]  BY <3>1, <3>2, <1>1 DEF KeysPast, Keys
    <3>3. CASE k = run.key  BY <3>3, <2>1, <1>1
    <3> QED  BY <3>1, <3>2, <3>3, <1>4
  <2> QED  BY <2>2, <1>1 DEF KeysPast
<1>10. SweepNewest'  BY <1>1, <1>3, <1>5 DEF SweepNewest, Keys, TypeOK
<1>11. UploadNewest' /\ WaitNewest' /\ Dead'
  BY <1>1 DEF UploadNewest, WaitNewest, Dead, TypeOK, Swept
<1> QED  BY <1>6, <1>7, <1>8, <1>9, <1>10, <1>11

LEMMA PromotedIInv == IInv /\ Promoted => IInv'
<1> SUFFICES ASSUME IInv, Promoted PROVE IInv'  OBVIOUS
<1> USE DEF IInv, Promoted
<1>1. TypeOK'  BY DEF TypeOK, Prefixes
<1>2. SweepNewest'  BY DEF SweepNewest, Sweeping, TypeOK, Keys
<1>3. UploadNewest' /\ WaitNewest' /\ Dead'
  BY DEF UploadNewest, WaitNewest, Dead, TypeOK, Swept
<1> QED  BY <1>1, <1>2, <1>3, OnlyRunIInv

LEMMA SweepPrefixIInv == IInv /\ SweepPrefix => IInv'
<1> SUFFICES ASSUME IInv, SweepPrefix PROVE IInv'  OBVIOUS
<1> USE DEF IInv
<1> DEFINE p == First(run.todo)
<1>1. /\ run.pc = "sweep" /\ run.todo # {} /\ UNCHANGED <<now, bucket, best>>
      /\ run' = [run EXCEPT !.pc = IF Beyond(p) = {} THEN "sweep" ELSE p,
                            !.todo = @ \ {p}, !.dead = Beyond(p)]
  BY DEF SweepPrefix
<1>2. p \in Swept /\ run.todo \subseteq Swept
  <2>1. run.todo \subseteq Swept  BY <1>1 DEF Dead
  <2>2. p \in run.todo  BY <1>1, <2>1, FirstIn DEF Prefixes
  <2> QED  BY <2>1, <2>2
<1>3. run.pc \in Sweeping  BY <1>1 DEF Sweeping
<1>4. Beyond(p) \subseteq Times  BY DEF Beyond, Keys
<1>5. p = "daily" => run.key \notin Beyond(p)
  <2> SUFFICES ASSUME p = "daily" PROVE run.key \notin Beyond("daily")  OBVIOUS
  <2>1. run.key \in Keys("daily") /\ \A j \in Keys("daily") : j <= run.key
    BY <1>3 DEF SweepNewest, Keys, TypeOK
  <2> QED  BY <2>1, NewestKept DEF Swept
<1> HIDE DEF p
<1>6. TypeOK'  BY <1>1, <1>2, <1>4 DEF TypeOK
<1>7. run'.pc \in {"sweep"} \cup Swept /\ run'.key = run.key /\ run'.dead = Beyond(p)
  BY <1>1, <1>2 DEF TypeOK
<1>8. SweepNewest'  BY <1>1, <1>3, <1>7 DEF SweepNewest, Keys
<1>9. Dead'
  <2>1. run'.dead # {} => run'.pc \in Swept  BY <1>1, <1>2 DEF TypeOK
  <2>2. run'.todo \subseteq Swept  BY <1>1, <1>2 DEF TypeOK
  <2>3. run'.pc = "daily" => p = "daily"  BY <1>1 DEF TypeOK
  <2> QED  BY <2>1, <2>2, <2>3, <1>5, <1>7 DEF Dead
<1>10. UploadNewest' /\ WaitNewest'
  BY <1>7 DEF UploadNewest, WaitNewest, Swept
<1> QED  BY <1>1, <1>6, <1>8, <1>9, <1>10, OnlyRunIInv

LEMMA DeleteIInv == IInv /\ Delete => IInv'
<1> SUFFICES ASSUME IInv, Delete PROVE IInv'  OBVIOUS
<1> USE DEF IInv
<1>1. PICK k \in run.dead :
         /\ bucket' = [bucket EXCEPT ![run.pc][k] = "none"]
         /\ run' = [run EXCEPT !.dead = @ \ {k},
                               !.pc = IF run.dead = {k} THEN "sweep" ELSE @]
         /\ UNCHANGED <<now, best>>
  BY DEF Delete
<1>2. run.pc \in Swept /\ k \in Times /\ run.pc \in Sweeping /\ run.pc \in Prefixes
  BY <1>1 DEF Dead, TypeOK, Sweeping, Prefixes
<1>3. \A q \in Prefixes, j \in Times :
         \/ bucket'[q][j] = bucket[q][j]
         \/ q = run.pc /\ j = k /\ bucket'[q][j] = "none"
  BY <1>1, <1>2 DEF TypeOK
<1>4. TypeOK'  BY <1>1, <1>2 DEF TypeOK, Object
<1>5. bucket'["daily"][run.key] = "complete"
  <2>1. run.key \in Times /\ "daily" \in Prefixes  BY DEF TypeOK, Prefixes, Swept
  <2>2. bucket["daily"][run.key] = "complete"  BY <1>2 DEF SweepNewest
  <2>3. run.pc = "daily" => k # run.key  BY <1>1 DEF Dead
  <2> QED  BY <1>3, <2>1, <2>2, <2>3
<1>6. RestorePoint'  BY <1>1, <1>2, <1>5 DEF RestorePoint, SweepNewest
<1>7. PromotedComplete'  BY <1>3 DEF PromotedComplete
<1>8. \A q \in Prefixes : Keys(q)' \subseteq Keys(q)  BY <1>3 DEF Keys
<1>9. KeysPast'  BY <1>1, <1>8 DEF KeysPast
<1>10. run'.pc \in {"sweep", run.pc} /\ run'.key = run.key
       /\ run'.todo = run.todo /\ run'.dead = run.dead \ {k}
  BY <1>1 DEF TypeOK
<1>11. SweepNewest'
  BY <1>1, <1>2, <1>5, <1>8, <1>10 DEF SweepNewest, Prefixes, Swept
<1>12. Dead'
  <2>1. run'.dead # {} => run'.pc \in Swept  BY <1>1, <1>2 DEF TypeOK
  <2> QED  BY <2>1, <1>2, <1>10 DEF Dead
<1>13. UploadNewest' /\ WaitNewest'
  BY <1>2, <1>10 DEF UploadNewest, WaitNewest, Swept
<1> QED  BY <1>4, <1>6, <1>7, <1>9, <1>11, <1>12, <1>13

LEMMA NextIInv == IInv /\ [Next]_vars => IInv'
<1> SUFFICES ASSUME IInv, [Next]_vars PROVE IInv'  OBVIOUS
<1>1. CASE Skip  BY <1>1, SkipIInv
<1>2. CASE Start  BY <1>2, StartIInv
<1>3. ASSUME NEW object \in {"complete", "truncated"}, Upload(object) PROVE IInv'
  BY <1>3, UploadIInv
<1>4. CASE Wait  BY <1>4, WaitIInv
<1>5. CASE List  BY <1>5, ListIInv
<1>6. CASE Promote  BY <1>6, PromoteIInv
<1>7. CASE Promoted  BY <1>7, PromotedIInv
<1>8. CASE SweepPrefix  BY <1>8, SweepPrefixIInv
<1>9. CASE Delete  BY <1>9, DeleteIInv
<1>10. CASE Complete \/ Fail  BY <1>10, EndsIInv DEF Complete, Fail
<1>11. CASE UNCHANGED vars
  <2>1. TypeOK'  BY <1>11 DEF IInv, TypeOK, vars
  <2>2. UploadNewest' /\ WaitNewest' /\ SweepNewest' /\ Dead'
    BY <1>11 DEF IInv, UploadNewest, WaitNewest, SweepNewest, Dead, Keys, vars
  <2> QED  BY <1>11, <2>1, <2>2, OnlyRunIInv DEF vars
<1> QED  BY <1>1, <1>2, <1>3, <1>4, <1>5, <1>6, <1>7, <1>8, <1>9, <1>10, <1>11 DEF Next

(* The inductive invariant holds throughout. *)
THEOREM Invariance == Spec => []IInv
  BY InitIInv, NextIInv, PTL DEF Spec
----------------------------------------------------------------------------
(* THEOREMS *)

(* The state of the job and of the bucket is always of its type. *)
THEOREM TypeCorrect == Spec => []TypeOK
<1>1. IInv => TypeOK  BY DEF IInv
<1> QED  BY <1>1, Invariance, PTL

(* The latest complete dump is in daily/, whatever fails or is swept and     *)
(* however few dumps daily/ keeps.                                           *)
THEOREM RestorePointKept == Spec => []RestorePoint
<1>1. IInv => RestorePoint  BY DEF IInv
<1> QED  BY <1>1, Invariance, PTL

(* No truncated dump ever reaches weekly/, monthly/ or annual/, although one *)
(* may be in daily/ while a sweep looks for the newest.                      *)
THEOREM OnlyCompletePromoted == Spec => []PromotedComplete
<1>1. IInv => PromotedComplete  BY DEF IInv
<1> QED  BY <1>1, Invariance, PTL
----------------------------------------------------------------------------
(* RETENTION *)

LEMMA Smallest ==
    ASSUME NEW T \in SUBSET Nat, T # {}
    PROVE  \E x \in T : \A y \in T : x <= y
<1>1. PICK x \in T : \A y \in T : ~(<<y, x>> \in OpToRel(<, Nat))
  BY NatLessThanWellFounded, WFMin
<1>2. \A y \in T : ~(y < x)  BY <1>1 DEF OpToRel
<1> QED  BY <1>2

LEMMA Largest ==
    ASSUME NEW n \in Nat, NEW T \in SUBSET (0..n), T # {}
    PROVE  \E x \in T : \A y \in T : y <= x
<1> DEFINE U == {m \in Nat : \A y \in T : y <= m}
<1>1. n \in U  OBVIOUS
<1>2. PICK m \in U : \A k \in U : m <= k  BY <1>1, Smallest
<1>3. m \in T
  <2> SUFFICES ASSUME m \notin T PROVE FALSE  OBVIOUS
  <2>1. m \in Nat /\ \A y \in T : y \in Nat /\ y < m  BY <1>2
  <2>2. PICK z \in T : TRUE  OBVIOUS
  <2>3. m - 1 \in U  BY <2>1, <2>2
  <2> QED  BY <1>2, <2>1, <2>3
<1> QED  BY <1>2, <1>3

(* The newest n members of a set of times: they are newer than the rest, at  *)
(* most n, and at least n if there is a rest.                                *)
LEMMA NewestSplit ==
    ASSUME NEW m \in Nat, NEW K \in SUBSET (0..m), NEW n \in Nat \ {0}, NEW B,
           B = {k \in K : Cardinality({j \in K : j > k}) >= n}
    PROVE  /\ \A d \in B, k \in K \ B : d < k
           /\ Cardinality(K \ B) <= n
           /\ B # {} => Cardinality(K \ B) >= n
<1> DEFINE Newer(k) == {j \in K : j > k}
           Kept == K \ B
<1>1. \A k \in K : k \in Nat  OBVIOUS
<1>2. IsFiniteSet(K)
  <2>1. IsFiniteSet(0..m)  BY FS_Interval
  <2> QED  BY <2>1, FS_Subset
<1>3. /\ B \subseteq K
      /\ \A k \in K : k \in B <=> Cardinality(Newer(k)) >= n
  OBVIOUS
<1>4. ASSUME NEW k PROVE IsFiniteSet(Newer(k)) /\ Cardinality(Newer(k)) \in Nat
  <2>1. Newer(k) \in SUBSET K  OBVIOUS
  <2> HIDE DEF Newer
  <2> QED  BY <1>2, <2>1, FS_Subset, FS_CardinalityType
<1>5. IsFiniteSet(Kept) /\ Cardinality(Kept) \in Nat
  <2>1. Kept \in SUBSET K  OBVIOUS
  <2> HIDE DEF Kept
  <2> QED  BY <1>2, <2>1, FS_Subset, FS_CardinalityType
<1>6. ASSUME NEW d \in B, NEW k \in Kept PROVE d < k
  <2>1. d \in Nat /\ k \in Nat /\ d \in K /\ k \in K /\ k \notin B  BY <1>1, <1>3
  <2> SUFFICES ASSUME k <= d PROVE FALSE  BY <2>1
  <2>2. ASSUME NEW j \in Newer(d) PROVE j \in Newer(k)
    <3>1. j \in K /\ j > d /\ j \in Nat  BY <1>1
    <3> QED  BY <2>1, <3>1
  <2>3. Cardinality(Newer(d)) >= n /\ ~(Cardinality(Newer(k)) >= n)  BY <1>3, <2>1
  <2>4. IsFiniteSet(Newer(k)) /\ Cardinality(Newer(k)) \in Nat /\ Cardinality(Newer(d)) \in Nat
    BY <1>4
  <2> HIDE DEF Newer
  <2>5. Cardinality(Newer(d)) <= Cardinality(Newer(k))
    <3>1. Newer(d) \in SUBSET Newer(k)  BY <2>2
    <3> QED  BY <2>4, <3>1, FS_Subset
  <2> QED  BY <2>3, <2>4, <2>5
<1>7. Cardinality(Kept) <= n
  <2>1. CASE Kept = {}
    <3> HIDE DEF Kept
    <3>1. Cardinality(Kept) = 0  BY <2>1, FS_EmptySet
    <3> QED  BY <3>1
  <2>2. CASE Kept # {}
    <3>1. PICK x \in Kept : \A y \in Kept : x <= y
      <4>1. Kept \in SUBSET Nat  BY <1>1
      <4> QED  BY <2>2, <4>1, Smallest
    <3>2. ASSUME NEW y \in Kept PROVE y \in Newer(x) \cup {x}
      <4>1. x \in Nat /\ y \in Nat /\ x <= y /\ y \in K  BY <1>1, <3>1
      <4> QED  BY <4>1
    <3>3. x \notin Newer(x)  BY <1>1
    <3>4. Cardinality(Newer(x)) < n  BY <1>3, <1>4
    <3>5. IsFiniteSet(Newer(x)) /\ Cardinality(Newer(x)) \in Nat  BY <1>4
    <3> HIDE DEF Newer, Kept
    <3>6. /\ IsFiniteSet(Newer(x) \cup {x})
          /\ Cardinality(Newer(x) \cup {x}) = Cardinality(Newer(x)) + 1
      BY <3>3, <3>5, FS_AddElement
    <3>7. Kept \in SUBSET (Newer(x) \cup {x})  BY <3>2
    <3>8. Cardinality(Kept) <= Cardinality(Newer(x) \cup {x})  BY <3>6, <3>7, FS_Subset
    <3> QED  BY <1>5, <3>4, <3>5, <3>6, <3>8
  <2> QED  BY <2>1, <2>2
<1>8. ASSUME B # {} PROVE Cardinality(Kept) >= n
  <2>1. PICK d \in B : \A y \in B : y <= d
    <3>1. B \in SUBSET (0..m)  BY <1>3
    <3> QED  BY <1>8, <3>1, Largest
  <2>2. ASSUME NEW j \in Newer(d) PROVE j \in Kept
    <3>1. j \in K /\ j > d /\ j \in Nat /\ d \in Nat  BY <1>1, <1>3
    <3>2. j \notin B  BY <2>1, <3>1
    <3> QED  BY <3>1, <3>2
  <2>3. Cardinality(Newer(d)) >= n  BY <1>3
  <2>4. Cardinality(Newer(d)) \in Nat  BY <1>4
  <2> HIDE DEF Newer, Kept
  <2>5. Newer(d) \in SUBSET Kept  BY <2>2
  <2>6. Cardinality(Newer(d)) <= Cardinality(Kept)  BY <1>5, <2>5, FS_Subset
  <2> QED  BY <1>5, <2>3, <2>4, <2>6
<1> QED  BY <1>6, <1>7, <1>8

(* objs[:keep_n] and objs[keep_n:] of the objects sorted newest first. *)
LEMMA BeyondSplits ==
    ASSUME NEW p \in Swept
    PROVE  /\ \A d \in Beyond(p), k \in Keys(p) \ Beyond(p) : d < k
           /\ Cardinality(Keys(p) \ Beyond(p)) <= retention_counts[p]
           /\ Beyond(p) # {} => Cardinality(Keys(p) \ Beyond(p)) >= retention_counts[p]
<1>1. MaxTime \in Nat /\ Keys(p) \in SUBSET (0..MaxTime)
  BY BackupAssumption DEF Keys, Times
<1>2. retention_counts[p] \in Nat \ {0}
  BY BackupAssumption DEF retention_counts, Swept
<1>3. Beyond(p) = {k \in Keys(p) : Cardinality({j \in Keys(p) : j > k}) >= retention_counts[p]}
  BY DEF Beyond
<1> QED  BY <1>1, <1>2, <1>3, NewestSplit

(* The key of a run is the latest time of all. *)
KeyIsLast == run.pc # "idle" => now = run.key + 1

(* What a prefix will hold when its deletions are done. *)
Left(p) == IF run.pc = p THEN Keys(p) \ run.dead ELSE Keys(p)

(* While objects are deleted, what stays is newer and as much as is kept. *)
StaysEnough ==
    run.pc \in Swept =>
        /\ \A d \in run.dead, k \in Left(run.pc) : d < k
        /\ Cardinality(Left(run.pc)) >= retention_counts[run.pc]

(* The prefixes that are done are down to what they keep. *)
DoneWithin ==
    run.pc \in {"sweep"} \cup Swept =>
        /\ run.pc \notin run.todo
        /\ \A p \in Swept \ run.todo : Cardinality(Left(p)) <= retention_counts[p]

(* The dump is, and stays, where it is due and was promoted to. *)
DueThere ==
    /\ run.pc = "promote" => \A p \in Due(run.key) \ run.todo : run.key \in Keys(p)
    /\ run.pc \in {"sweep"} \cup Swept => \A p \in Due(run.key) : run.key \in Left(p)

RetentionInv == KeyIsLast /\ StaysEnough /\ DoneWithin /\ DueThere

(* Before the sweep there is only the key to look at. *)
LEMMA BeforeSweep ==
    ASSUME run'.pc \in {"idle", "upload", "wait", "list"},
           run'.pc # "idle" => now' = run'.key + 1
    PROVE  RetentionInv'
  BY DEF RetentionInv, KeyIsLast, StaysEnough, DoneWithin, DueThere, Swept

LEMMA RetentionStep == IInv /\ RetentionInv /\ [Next]_vars => RetentionInv'
<1> SUFFICES ASSUME IInv, RetentionInv, [Next]_vars PROVE RetentionInv'  OBVIOUS
<1> USE DEF RetentionInv
<1>0. TypeOK /\ Dead /\ KeysPast /\ SweepNewest  BY DEF IInv
<1>1. ASSUME run' = NoJob PROVE RetentionInv'
  BY <1>1, BeforeSweep DEF NoJob
<1>2. ASSUME Skip PROVE RetentionInv'
  BY <1>1, <1>2 DEF Skip
<1>3. ASSUME Start PROVE RetentionInv'
  BY <1>3, BeforeSweep DEF Start, NoJob
<1>4. ASSUME NEW object \in {"complete", "truncated"}, Upload(object) PROVE RetentionInv'
  <2>1. run'.pc = "wait" /\ run'.key = run.key /\ now' = run.key + 1
    BY <1>0, <1>4 DEF Upload, TypeOK, KeyIsLast
  <2> QED  BY <2>1, BeforeSweep
<1>5. ASSUME Wait PROVE RetentionInv'
  <2>1. CASE run' = NoJob  BY <1>1, <2>1
  <2>2. CASE run' = [run EXCEPT !.pc = "list"]
    <3>1. run'.pc = "list" /\ run'.key = run.key /\ now' = run.key + 1
      BY <1>0, <1>5, <2>2 DEF Wait, TypeOK, KeyIsLast
    <3> QED  BY <3>1, BeforeSweep
  <2> QED  BY <1>5, <2>1, <2>2 DEF Wait
<1>6. ASSUME List PROVE RetentionInv'
  <2>1. run.key \in Keys("daily") /\ \A k \in Keys("daily") : k <= run.key
    BY <1>0, <1>6 DEF List, Sweeping, SweepNewest, Keys, TypeOK
  <2>2. Newest = run.key  BY <2>1, NewestIs
  <2>3. /\ run' = [run EXCEPT !.pc = "promote", !.key = run.key, !.todo = Due(run.key)]
        /\ run.pc = "list" /\ UNCHANGED <<now, bucket>>
    BY <1>6, <2>1, <2>2 DEF List
  <2>4. run'.pc = "promote" /\ run'.key = run.key /\ run'.todo = Due(run.key)
    BY <1>0, <2>3 DEF TypeOK
  <2> QED  BY <2>3, <2>4 DEF KeyIsLast, StaysEnough, DoneWithin, DueThere, Swept
<1>7. ASSUME Promote PROVE RetentionInv'
  <2>p. PICK p : p = First(run.todo)  OBVIOUS
  <2>1. /\ run.pc = "promote" /\ run.todo # {} /\ UNCHANGED now
        /\ run' = [run EXCEPT !.todo = @ \ {p}]
        /\ bucket' = IF run.key \in Keys(p) THEN bucket
                     ELSE [bucket EXCEPT ![p][run.key] = bucket["daily"][run.key]]
    BY <1>7, <2>p DEF Promote
  <2>2. p \in Prefixes  BY <1>0, <2>1, <2>p, FirstIn DEF TypeOK
  <2>3. run'.pc = "promote" /\ run'.key = run.key /\ run'.todo = run.todo \ {p}
    BY <1>0, <2>1 DEF TypeOK
  <2>4. run.key \in Times /\ bucket["daily"][run.key] = "complete"
    BY <1>0, <2>1 DEF TypeOK, SweepNewest, Sweeping
  <2>5. \A q \in Prefixes : run.key \in Keys(q) => run.key \in Keys(q)'
    BY <1>0, <2>1, <2>2, <2>4 DEF Keys, TypeOK
  <2>6. run.key \in Keys(p)'
    BY <1>0, <2>1, <2>2, <2>4 DEF Keys, TypeOK
  <2>7. Due(run.key) \subseteq Prefixes /\ Due(run.key)' = Due(run'.key)  BY DEF Due
  <2>8. DueThere'
    BY <2>1, <2>3, <2>5, <2>6, <2>7 DEF DueThere, Swept
  <2> QED  BY <2>1, <2>3, <2>8 DEF KeyIsLast, StaysEnough, DoneWithin, Swept
<1>8. ASSUME Promoted PROVE RetentionInv'
  <2>1. /\ run.pc = "promote" /\ run.todo = {} /\ UNCHANGED <<now, bucket>>
        /\ run'.pc = "sweep" /\ run'.key = run.key /\ run'.todo = Swept
    BY <1>0, <1>8 DEF Promoted, TypeOK
  <2>2. \A p \in Prefixes : Left(p)' = Keys(p)  BY <2>1 DEF Left, Keys, Prefixes, Swept
  <2>3. Due(run.key) \subseteq Prefixes  BY DEF Due
  <2> QED  BY <2>1, <2>2, <2>3 DEF KeyIsLast, StaysEnough, DoneWithin, DueThere, Swept
<1>9. ASSUME SweepPrefix PROVE RetentionInv'
  <2>p. PICK p : p = First(run.todo)  OBVIOUS
  <2>1. /\ run.pc = "sweep" /\ run.dead = {} /\ run.todo # {} /\ UNCHANGED <<now, bucket>>
        /\ run' = [run EXCEPT !.pc = IF Beyond(p) = {} THEN "sweep" ELSE p,
                              !.todo = @ \ {p}, !.dead = Beyond(p)]
    BY <1>9, <2>p DEF SweepPrefix
  <2>2. run.todo \subseteq Swept /\ p \in run.todo /\ p \in Swept
    <3>1. run.todo \subseteq Swept  BY <1>0, <2>1 DEF Dead
    <3>2. p \in run.todo  BY <2>1, <2>p, <3>1, FirstIn DEF Prefixes
    <3> QED  BY <3>1, <3>2
  <2>3. /\ run'.pc = (IF Beyond(p) = {} THEN "sweep" ELSE p) /\ run'.key = run.key
        /\ run'.todo = run.todo \ {p} /\ run'.dead = Beyond(p)
    BY <1>0, <2>1 DEF TypeOK
  <2>4. Left(p)' = Keys(p) \ Beyond(p)
    BY <2>1, <2>2, <2>3 DEF Left, Keys, Swept
  <2>5. \A q \in Prefixes : q # p => Left(q)' = Left(q)
    BY <2>1, <2>2, <2>3 DEF Left, Keys, Prefixes, Swept
  <2>6. StaysEnough'
    <3>1. CASE Beyond(p) = {}  BY <2>3, <3>1 DEF StaysEnough, Swept
    <3>2. CASE Beyond(p) # {}
      BY <2>2, <2>3, <2>4, <3>2, BeyondSplits DEF StaysEnough
    <3> QED  BY <3>1, <3>2
  <2>7. DoneWithin'
    <3>1. \A q \in Swept \ run'.todo : Cardinality(Left(q)') <= retention_counts[q]
      BY <2>1, <2>2, <2>3, <2>4, <2>5, BeyondSplits DEF DoneWithin, Prefixes
    <3>2. run'.pc \notin run'.todo  BY <2>2, <2>3 DEF Swept
    <3> QED  BY <3>1, <3>2 DEF DoneWithin
  <2>8. DueThere'
    <3>1. ASSUME NEW q \in Due(run.key) PROVE run.key \in Left(q)'
      <4>1. q \in Prefixes /\ run.key \in Left(q)  BY <2>1, <3>1 DEF DueThere, Due
      <4>2. CASE q # p  BY <2>5, <4>1, <4>2
      <4>3. CASE q = p
        <5>1. run.key \in Keys(p)  BY <4>1, <4>3 DEF Left
        <5>2. \A j \in Keys(p) : j <= run.key
          <6>1. \A j \in Keys(p) : j \in Int /\ j < now
            BY <1>0, <4>1, <4>3, BackupAssumption DEF KeysPast, Keys, Times
          <6>2. now = run.key + 1 /\ run.key \in Int
            BY <1>0, <2>1, BackupAssumption DEF KeyIsLast, TypeOK, Times
          <6> QED  BY <6>1, <6>2
        <5>3. run.key \notin Beyond(p)  BY <2>2, <5>1, <5>2, NewestKept
        <5> QED  BY <2>4, <4>3, <5>1, <5>3
      <4> QED  BY <4>2, <4>3
    <3>2. run'.pc # "promote"  BY <2>2, <2>3 DEF Swept
    <3> QED  BY <2>3, <3>1, <3>2 DEF DueThere
  <2>9. KeyIsLast'  BY <2>1, <2>3 DEF KeyIsLast
  <2> QED  BY <2>6, <2>7, <2>8, <2>9
<1>10. ASSUME Delete PROVE RetentionInv'
  <2>1. PICK k \in run.dead :
           /\ bucket' = [bucket EXCEPT ![run.pc][k] = "none"]
           /\ run' = [run EXCEPT !.dead = @ \ {k},
                                 !.pc = IF run.dead = {k} THEN "sweep" ELSE @]
           /\ UNCHANGED <<now, best>>
    BY <1>10 DEF Delete
  <2>2. run.pc \in Swept /\ run.pc \in Prefixes /\ k \in Times
    BY <1>0 DEF Dead, TypeOK, Prefixes
  <2>3. /\ run'.pc = (IF run.dead = {k} THEN "sweep" ELSE run.pc) /\ run'.key = run.key
        /\ run'.todo = run.todo /\ run'.dead = run.dead \ {k}
    BY <1>0, <2>1 DEF TypeOK
  <2>4. /\ Keys(run.pc)' = {j \in Times : bucket'[run'.pc][j] # "none"} \/ run'.pc = "sweep"
        /\ \A q \in Prefixes : q # run.pc => bucket'[q] = bucket[q]
        /\ \A j \in Times : bucket'[run.pc][j] = IF j = k THEN "none" ELSE bucket[run.pc][j]
    BY <1>0, <2>1, <2>2, <2>3 DEF TypeOK, Keys
  <2>5. \A q \in Prefixes : Left(q)' = Left(q)
    <3>1. ASSUME NEW q \in Prefixes, q # run.pc PROVE Left(q)' = Left(q)
      <4>1. q # run'.pc  BY <2>3, <3>1 DEF Prefixes, Swept
      <4> QED  BY <2>4, <3>1, <4>1 DEF Left, Keys
    <3>2. Left(run.pc) = {j \in Times : bucket[run.pc][j] # "none" /\ j \notin run.dead}
      BY DEF Left, Keys
    <3>3. {j \in Times : bucket'[run.pc][j] # "none" /\ j \notin run'.dead} = Left(run.pc)
      BY <2>3, <2>4, <3>2
    <3>4. CASE run'.pc = run.pc
      <4>1. Left(run.pc)' = {j \in Times : bucket'[run'.pc][j] # "none" /\ j \notin run'.dead}
        BY DEF Left, Keys
      <4>2. \A q \in Prefixes : q = run.pc => Left(q)' = Left(run.pc)
        BY <3>3, <3>4 DEF Left, Keys
      <4> QED  BY <3>1, <4>2
    <3>5. CASE run'.pc = "sweep" /\ run'.dead = {}
      <4>1. \A q \in Prefixes : q = run.pc => Left(q)' = Left(run.pc)
        BY <3>3, <3>5, <2>2 DEF Left, Keys, Prefixes, Swept
      <4> QED  BY <3>1, <4>1
    <3> QED  BY <2>3, <3>4, <3>5
  <2>6. StaysEnough'
    BY <2>2, <2>3, <2>5 DEF StaysEnough, Swept
  <2>7. DoneWithin'
    <3>1. run.pc \notin run.todo /\ run.todo \subseteq Swept
      BY <1>0, <2>2 DEF DoneWithin, Dead
    <3>2. \A q \in Swept \ run.todo : Cardinality(Left(q)) <= retention_counts[q]
      BY <2>2 DEF DoneWithin
    <3>3. \A q \in Swept \ run.todo : Cardinality(Left(q)') <= retention_counts[q]
      BY <2>5, <3>2 DEF Prefixes
    <3>4. run'.pc \notin run'.todo  BY <2>3, <3>1 DEF Swept
    <3> QED  BY <2>3, <3>3, <3>4 DEF DoneWithin
  <2>8. DueThere'
    <3>1. Due(run.key) \subseteq Prefixes  BY DEF Due
    <3> QED  BY <2>2, <2>3, <2>5, <3>1 DEF DueThere, Swept
  <2>9. KeyIsLast'  BY <2>1, <2>2, <2>3 DEF KeyIsLast, Swept
  <2> QED  BY <2>6, <2>7, <2>8, <2>9
<1>11. ASSUME UNCHANGED vars PROVE RetentionInv'
  BY <1>11 DEF vars, KeyIsLast, StaysEnough, DoneWithin, DueThere, Left, Keys
<1> QED  BY <1>1, <1>2, <1>3, <1>4, <1>5, <1>6, <1>7, <1>8, <1>9, <1>10, <1>11
         DEF Next, Complete, Fail

(* _sundown_sweep, step by step: what stays of the prefix at hand is newer    *)
(* than what goes and as much as is kept, the prefixes done are within their *)
(* retention, and the dump is where it is due.                               *)
THEOREM RetentionInvariant == Spec => []RetentionInv
<1>1. Init => RetentionInv
  BY DEF Init, NoJob, RetentionInv, KeyIsLast, StaysEnough, DoneWithin, DueThere, Swept
<1> QED  BY <1>1, RetentionStep, Invariance, PTL DEF Spec

(* What a deletion takes leaves the objects that stay, all of them newer. *)
LEMMA DeletesBeyond ==
    ASSUME IInv, RetentionInv, Delete,
           NEW p \in Prefixes, NEW k \in Keys(p) \ Keys(p)'
    PROVE  p \in Swept /\ Cardinality({j \in Keys(p)' : j > k}) >= retention_counts[p]
<1>0. TypeOK /\ Dead /\ StaysEnough  BY DEF IInv, RetentionInv
<1>1. PICK d \in run.dead : bucket' = [bucket EXCEPT ![run.pc][d] = "none"]
  BY DEF Delete
<1>2. run.pc \in Swept /\ run.pc \in Prefixes /\ d \in Times
  BY <1>0 DEF Dead, TypeOK, Prefixes
<1>3. k \in Times /\ bucket[p][k] # "none" /\ bucket'[p][k] = "none"  BY DEF Keys
<1>4. p = run.pc /\ k = d  BY <1>0, <1>1, <1>2, <1>3 DEF TypeOK
<1>5. ASSUME NEW j \in Left(p) PROVE j \in Keys(p)' /\ j > k
  <2>1. j \in Times /\ bucket[p][j] # "none" /\ j \notin run.dead
    BY <1>4 DEF Left, Keys
  <2>2. bucket'[p][j] = bucket[p][j]  BY <1>0, <1>1, <1>2, <1>4, <2>1 DEF TypeOK
  <2>3. k < j /\ j \in Int /\ k \in Int
    BY <1>0, <1>2, <1>4, <2>1, BackupAssumption DEF StaysEnough, Times
  <2> QED  BY <2>1, <2>2, <2>3 DEF Keys
<1> DEFINE Newer == {j \in Keys(p)' : j > k}
<1>6. IsFiniteSet(Newer)
  <2>1. IsFiniteSet(Times)  BY BackupAssumption, FS_Interval DEF Times
  <2>2. Newer \in SUBSET Times  BY DEF Keys
  <2> HIDE DEF Newer
  <2> QED  BY <2>1, <2>2, FS_Subset
<1>7. Left(p) \in SUBSET Newer  BY <1>5
<1>8. Cardinality(Left(p)) >= retention_counts[p]  BY <1>0, <1>2, <1>4 DEF StaysEnough
<1>9. retention_counts[p] \in Nat  BY <1>2, <1>4, BackupAssumption DEF retention_counts, Swept
<1> HIDE DEF Newer
<1>10. /\ Cardinality(Left(p)) \in Nat /\ Cardinality(Newer) \in Nat
       /\ Cardinality(Left(p)) <= Cardinality(Newer)
  BY <1>6, <1>7, FS_Subset, FS_CardinalityType
<1>11. Cardinality(Newer) >= retention_counts[p]  BY <1>8, <1>9, <1>10
<1> QED  BY <1>2, <1>4, <1>11 DEF Newer

(* Every other step leaves what there is. *)
LEMMA OnlyDeleteTakes ==
    ASSUME IInv, [Next]_vars, ~Delete, NEW p \in Prefixes
    PROVE  Keys(p) \subseteq Keys(p)'
<1>0. TypeOK /\ SweepNewest  BY DEF IInv
<1>1. CASE UNCHANGED bucket  BY <1>1 DEF Keys
<1>2. ASSUME NEW object \in {"complete", "truncated"}, Upload(object)
      PROVE  Keys(p) \subseteq Keys(p)'
  BY <1>0, <1>2 DEF Upload, Keys, TypeOK, Prefixes, Swept
<1>3. CASE Promote
  <2>1. PICK q : bucket' = IF run.key \in Keys(q) THEN bucket
                           ELSE [bucket EXCEPT ![q][run.key] = bucket["daily"][run.key]]
    BY <1>3 DEF Promote
  <2>2. bucket["daily"][run.key] = "complete"
    BY <1>0, <1>3 DEF Promote, SweepNewest, Sweeping
  <2> QED  BY <1>0, <2>1, <2>2 DEF Keys, TypeOK
<1> QED  BY <1>1, <1>2, <1>3
      DEF Next, vars, Skip, Start, Wait, List, Promoted, SweepPrefix, Complete, Fail

(* An object is deleted only while as many newer ones as its prefix keeps    *)
(* stay, in each of the steps of a sweep, and nothing ever leaves annual/.   *)
THEOREM DeletesOnlyBeyondRetention == Spec => OnlyBeyondRetention
<1>1. IInv /\ RetentionInv /\ [Next]_vars =>
         [\A p \in Prefixes : \A k \in Keys(p) \ Keys(p)' :
             /\ p \in Swept
             /\ Cardinality({j \in Keys(p)' : j > k}) >= retention_counts[p]]_vars
  <2> SUFFICES ASSUME IInv, RetentionInv, [Next]_vars,
                      NEW p \in Prefixes, NEW k \in Keys(p) \ Keys(p)'
               PROVE  /\ p \in Swept
                      /\ Cardinality({j \in Keys(p)' : j > k}) >= retention_counts[p]
    OBVIOUS
  <2> QED  BY DeletesBeyond, OnlyDeleteTakes
<1> QED  BY <1>1, Invariance, RetentionInvariant, PTL DEF Spec, OnlyBeyondRetention

(* A sweep that is not cut short leaves every prefix within its retention    *)
(* and the dump in each prefix it was due in.                                *)
THEOREM CompleteSweep == Spec => SweepLeavesRetention
<1>1. IInv /\ RetentionInv /\ [Next]_vars =>
         [Complete => /\ \A p \in Swept : Cardinality(Keys(p)) <= retention_counts[p]
                      /\ \A p \in Due(run.key) : run.key \in Keys(p)]_vars
  <2> SUFFICES ASSUME IInv, RetentionInv, Complete
               PROVE  /\ \A p \in Swept : Cardinality(Keys(p)) <= retention_counts[p]
                      /\ \A p \in Due(run.key) : run.key \in Keys(p)
    OBVIOUS
  <2>1. \A p \in Prefixes : Left(p) = Keys(p)  BY DEF Complete, Left, Prefixes, Swept
  <2>2. Swept \subseteq Prefixes /\ Due(run.key) \subseteq Prefixes  BY DEF Prefixes, Due
  <2> QED  BY <2>1, <2>2 DEF Complete, RetentionInv, DoneWithin, DueThere
<1> QED  BY <1>1, Invariance, RetentionInvariant, PTL DEF Spec, SweepLeavesRetention
=============================================================================
