-------------------------- MODULE RoundRobinProofs --------------------------
(***************************************************************************)
(* Proofs about RoundRobin, for every set of lists, batch size and number  *)
(* of attempts: the saved cursor never runs ahead of the stored rows, and  *)
(* a round that comes to its end left no symbol out.                       *)
(***************************************************************************)
EXTENDS RoundRobin, TLAPS

(* A cursor that lies within the list is not changed by the modulo. *)
LEMMA CursorWithin ==
    ASSUME NEW n \in Nat \ {0}, kv \in Nat
    PROVE  /\ Cursor(n) \in 0..(n - 1)
           /\ kv < n => Cursor(n) = kv
  BY DEF Cursor

LEMMA ListFacts ==
    ASSUME NEW l \in Lists
    PROVE  /\ l \in Seq(Symbols) /\ Len(l) \in Nat /\ DOMAIN l = 1..Len(l)
           /\ \A i \in DOMAIN l : l[i] \in Symbols
           /\ l # << >> => Len(l) \in Nat \ {0}
  BY RoundRobinAssumption

(* The facts about the run's own fields that every step starts from. *)
LEMMA JobFacts ==
    ASSUME TypeOK, SliceWithinList, job.pc # "idle"
    PROVE  /\ job \in Run
           /\ job.list \in Lists /\ job.list # << >>
           /\ Len(job.list) \in Nat \ {0}
           /\ job.at \in Nat /\ job.end \in Nat /\ job.tries \in 0..(Attempts - 1)
           /\ job.got \in SUBSET Symbols
           /\ job.at < job.end => Current \in Symbols
  <1>1. job.list \in Lists /\ job.list # << >>
    BY DEF Run, TypeOK, SliceWithinList
  <1>2. job.list \in Seq(Symbols) /\ DOMAIN job.list = 1..Len(job.list)
    BY <1>1, ListFacts
  <1>3. Len(job.list) \in Nat \ {0}
    BY <1>1, ListFacts
  <1>4. job.at \in Nat /\ job.end \in Nat /\ job.tries \in 0..(Attempts - 1)
        /\ job.got \in SUBSET Symbols
    BY DEF Run, TypeOK
  <1>5. ASSUME job.at < job.end PROVE Current \in Symbols
    <2>1. job.at + 1 \in DOMAIN job.list
      BY <1>2, <1>3, <1>4, <1>5 DEF SliceWithinList
    <2> QED
      BY <2>1, <1>1, ListFacts DEF Current
  <1> QED
    BY <1>1, <1>3, <1>4, <1>5 DEF TypeOK

(* The run after one more symbol of its slice. *)
LEMMA AdvanceFacts ==
    ASSUME job \in Run, NEW then \in {"write", "save"}, NEW g \in SUBSET Symbols
    PROVE  LET r == [Advance(then) EXCEPT !.got = g]
           IN /\ Advance(then) \in Run /\ r \in Run
              /\ r.pc = (IF job.at + 1 < job.end THEN "fetch" ELSE then)
              /\ r.list = job.list /\ r.at = job.at + 1 /\ r.end = job.end
              /\ r.tries = 0 /\ r.got = g
              /\ Advance(then).pc = (IF job.at + 1 < job.end THEN "fetch" ELSE then)
              /\ Advance(then).list = job.list /\ Advance(then).at = job.at + 1
              /\ Advance(then).end = job.end /\ Advance(then).got = job.got
  <1>1. 0 \in 0..(Attempts - 1)
    BY RoundRobinAssumption
  <1>2. job.at \in Nat /\ job.at + 1 \in Nat
    BY DEF Run
  <1>3. Advance(then) \in Run
    BY <1>1, <1>2 DEF Advance, Run
  <1> QED
    BY <1>1, <1>2, <1>3 DEF Advance, Run

LEMMA InitInv == Init => RoundRobinInv
  BY RoundRobinAssumption DEF Init, RoundRobinInv, TypeOK, SliceWithinList, CursorBehindRows, RunKeepsUp, NoJob, Run, Steady

(* An exception leaves the invariant alone, with or without new rows. *)
LEMMA AbortKeeps ==
    ASSUME RoundRobinInv, Abort, done \subseteq done', done' \in SUBSET Symbols
    PROVE  RoundRobinInv'
  BY RoundRobinAssumption
     DEF RoundRobinInv, Abort, TypeOK, SliceWithinList, CursorBehindRows, RunKeepsUp, NoJob, Run, Steady

(* Every step keeps the invariant. *)
LEMMA StepInv == RoundRobinInv /\ [Next]_vars => RoundRobinInv'
  <1> SUFFICES ASSUME RoundRobinInv, [Next]_vars PROVE RoundRobinInv'
    OBVIOUS
  <1> USE DEF RoundRobinInv, Steady
  <1>1. ASSUME NEW l \in Lists, Relist(l) PROVE RoundRobinInv'
    <2>1. TypeOK'
      BY <1>1, RoundRobinAssumption DEF Relist, TypeOK
    <2>2. SliceWithinList'
      BY <1>1 DEF Relist, SliceWithinList
    <2>3. ~Steady'
      BY <1>1, RoundRobinAssumption DEF Relist, TypeOK
    <2>4. (kind = "coinglass" => job.got = IF job.pc = "write" THEN {Current} ELSE {})'
      BY <1>1 DEF Relist, RunKeepsUp, Current
    <2> QED
      BY <2>1, <2>2, <2>3, <2>4 DEF CursorBehindRows, RunKeepsUp
  <1>2. CASE Start
    <2>1. job' \in Run /\ job'.pc = "load" /\ job'.list = listed /\ job'.at = 0
          /\ job'.end = 0 /\ job'.got = {}
      <3>1. 0 \in 0..(Attempts - 1) /\ listed \in Lists
        BY RoundRobinAssumption DEF TypeOK
      <3>2. job' = [NoJob EXCEPT !.pc = "load", !.list = listed]
        BY <1>2 DEF Start
      <3>3. job' = [pc |-> "load", list |-> listed, at |-> 0, end |-> 0, tries |-> 0, got |-> {}]
        BY <3>2 DEF NoJob
      <3> QED
        BY <3>1, <3>3 DEF Run
    <2>2. listed # << >> /\ Len(listed) \in Nat /\ UNCHANGED <<listed, changes, kind, kv, done, base>>
      BY <1>2, ListFacts DEF Start, TypeOK
    <2>3. TypeOK' /\ CursorBehindRows'
      BY <2>1, <2>2 DEF TypeOK, CursorBehindRows
    <2>4. SliceWithinList' /\ RunKeepsUp'
      BY <2>1, <2>2 DEF SliceWithinList, RunKeepsUp
    <2> QED
      BY <2>3, <2>4
  <1>3. CASE Load
    <2> DEFINE n == Len(job.list)
               from == Cursor(n)
               to == from + BatchSize[kind]
    <2>1. job.pc = "load" /\ n \in Nat \ {0} /\ kv \in Nat /\ BatchSize[kind] \in Nat \ {0}
      BY <1>3, JobFacts, RoundRobinAssumption DEF Load, TypeOK
    <2>2. from \in 0..(n - 1) /\ (kv < n => from = kv)
      BY <2>1, CursorWithin
    <2>3. job' = [job EXCEPT !.pc = "fetch", !.at = from, !.end = IF to < n THEN to ELSE n]
          /\ UNCHANGED <<listed, changes, kind, kv, done, base>>
      BY <1>3 DEF Load
    <2> HIDE DEF from
    <2>4. job' \in Run
          /\ job'.pc = "fetch" /\ job'.list = job.list /\ job'.at = from /\ job'.got = job.got
          /\ job'.end = IF to < n THEN to ELSE n
      <3>1. job \in Run /\ from \in Nat /\ to \in Nat /\ n \in Nat
        BY <2>1, <2>2 DEF TypeOK
      <3> HIDE DEF n, to
      <3> QED
        BY <2>3, <3>1 DEF Run
    <2>5. TypeOK'
      BY <2>3, <2>4 DEF Run, TypeOK
    <2>6. SliceWithinList'
      BY <2>1, <2>2, <2>4, JobFacts DEF SliceWithinList
    <2>7. CursorBehindRows'
      BY <2>3 DEF CursorBehindRows
    <2>8. RunKeepsUp'
      BY <2>1, <2>2, <2>3, <2>4 DEF RunKeepsUp, CursorBehindRows
    <2> QED
      BY <2>5, <2>6, <2>7, <2>8
  <1>4. CASE Fetch
    <2>1. job.pc = "fetch" /\ job.at < job.end /\ job.end <= Len(job.list) /\ Current \in Symbols
          /\ UNCHANGED <<listed, changes, kind, kv, done, base>>
      BY <1>4, JobFacts DEF Fetch, SliceWithinList
    <2>2. CASE kind = "coinglass"
      <3>1. job' = [job EXCEPT !.pc = "write", !.got = {Current}]
        BY <1>4, <2>2 DEF Fetch
      <3>2. job'.pc = "write" /\ job'.list = job.list /\ job'.at = job.at
            /\ job'.end = job.end /\ job'.got = {Current} /\ Current' = Current
        BY <3>1 DEF Run, TypeOK, Current
      <3>3. TypeOK'
        BY <2>1, <3>1 DEF Run, TypeOK
      <3>4. SliceWithinList' /\ CursorBehindRows'
        BY <2>1, <2>2, <3>2, JobFacts DEF SliceWithinList, CursorBehindRows
      <3>5. job.got = {}
        BY <2>1, <2>2 DEF RunKeepsUp
      <3>6. RunKeepsUp'
        BY <2>1, <3>2, <3>5 DEF RunKeepsUp
      <3> QED
        BY <3>3, <3>4, <3>6
    <2>3. CASE kind # "coinglass"
      <3>1. job' = [Advance("write") EXCEPT !.got = job.got \cup {Current}]
        BY <1>4, <2>3 DEF Fetch
      <3>2. /\ job'.pc = IF job.at + 1 < job.end THEN "fetch" ELSE "write"
            /\ job'.list = job.list /\ job'.at = job.at + 1 /\ job'.end = job.end
            /\ job'.tries = 0 /\ job'.got = job.got \cup {Current}
        BY <2>1, <3>1, AdvanceFacts, JobFacts
      <3>3. TypeOK'
        BY <2>1, <3>1, JobFacts, AdvanceFacts DEF TypeOK
      <3>4. SliceWithinList' /\ CursorBehindRows'
        BY <2>1, <2>3, <3>2, JobFacts DEF SliceWithinList, CursorBehindRows
      <3>5. RunKeepsUp'
        BY <2>1, <2>3, <3>2, JobFacts DEF RunKeepsUp, Current
      <3> QED
        BY <3>3, <3>4, <3>5
    <2> QED
      BY <2>2, <2>3
  <1>5. CASE Retry
    <2>1. job' = [job EXCEPT !.tries = job.tries + 1] /\ job.tries + 1 < Attempts
          /\ job.pc = "fetch" /\ UNCHANGED <<listed, changes, kind, kv, done, base>>
      BY <1>5 DEF Retry
    <2>2. TypeOK'
      <3>1. job \in Run /\ job.tries + 1 \in 0..(Attempts - 1)
        BY <2>1, JobFacts, RoundRobinAssumption
      <3>2. job' \in Run
        BY <2>1, <3>1 DEF Run
      <3> QED
        BY <2>1, <3>2 DEF TypeOK
    <2>3. /\ job'.pc = job.pc /\ job'.list = job.list /\ job'.at = job.at
          /\ job'.end = job.end /\ job'.got = job.got
      BY <2>1 DEF Run, TypeOK
    <2>4. SliceWithinList' /\ CursorBehindRows' /\ RunKeepsUp'
      BY <2>1, <2>3 DEF SliceWithinList, CursorBehindRows, RunKeepsUp
    <2> QED
      BY <2>2, <2>4
  <1>6. CASE GiveUp
    BY <1>6, AbortKeeps DEF GiveUp, TypeOK
  <1>7. CASE DeadLettered
    <2>1. job.pc = "fetch" /\ job.at < job.end /\ job.end <= Len(job.list) /\ Current \in Symbols
      BY <1>7, JobFacts DEF DeadLettered, SliceWithinList
    <2>2. CASE ~DeadLetterAccepts
      BY <1>7, <2>2, AbortKeeps DEF DeadLettered, TypeOK
    <2>3. CASE DeadLetterAccepts
      <3>0. PICK then \in {"save", "write"} :
              /\ then = IF kind = "coinglass" THEN "save" ELSE "write"
              /\ job' = Advance(then)
              /\ done' = done \cup {Current}
              /\ UNCHANGED <<listed, changes, kind, kv, base>>
        BY <1>7, <2>3 DEF DeadLettered
      <3>1. /\ job'.pc = IF job.at + 1 < job.end THEN "fetch" ELSE then
            /\ job'.list = job.list /\ job'.at = job.at + 1 /\ job'.end = job.end
            /\ job'.got = job.got
        BY <2>1, <3>0, JobFacts, AdvanceFacts
      <3>2. TypeOK'
        BY <2>1, <3>0, JobFacts, AdvanceFacts DEF TypeOK
      <3>3. SliceWithinList'
        BY <2>1, <3>0, <3>1, JobFacts DEF SliceWithinList, RunKeepsUp
      <3>4. CursorBehindRows'
        BY <3>0 DEF CursorBehindRows
      <3>5. RunKeepsUp'
        <4>1. kind = "coinglass" => job.got = {} /\ job'.pc # "write"
          BY <2>1, <3>0, <3>1 DEF RunKeepsUp
        <4>2. ASSUME Steady, NEW i \in DOMAIN listed, i <= job.at + 1
              PROVE  listed[i] \in done \cup job.got \cup {Current}
          <5>1. job.list = listed /\ job.at \in Nat /\ DOMAIN listed = 1..Len(listed)
            BY <2>1, <4>2, JobFacts, ListFacts DEF RunKeepsUp, TypeOK
          <5>2. i <= job.at \/ i = job.at + 1
            BY <4>2, <5>1
          <5> QED
            BY <2>1, <4>2, <5>1, <5>2 DEF RunKeepsUp, Current
        <4> QED
          BY <2>1, <3>0, <3>1, <4>1, <4>2 DEF RunKeepsUp
      <3> QED
        BY <3>2, <3>3, <3>4, <3>5
    <2> QED
      BY <2>2, <2>3
  <1>8. CASE Write
    <2>1. job.pc = "write" /\ done' = done \cup job.got /\ job.got \in SUBSET Symbols
          /\ UNCHANGED <<listed, changes, kind, kv, base>>
      BY <1>8, JobFacts DEF Write
    <2>2. CASE kind = "coinglass"
      <3>1. job' = [Advance("save") EXCEPT !.got = {}]
        BY <1>8, <2>2 DEF Write
      <3>2. /\ job'.pc = IF job.at + 1 < job.end THEN "fetch" ELSE "save"
            /\ job'.list = job.list /\ job'.at = job.at + 1 /\ job'.end = job.end
            /\ job'.tries = 0 /\ job'.got = {}
        BY <2>1, <3>1, AdvanceFacts, JobFacts
      <3>3. TypeOK'
        BY <2>1, <3>1, JobFacts, AdvanceFacts DEF TypeOK
      <3>4. SliceWithinList' /\ CursorBehindRows'
        BY <2>1, <2>2, <3>2, JobFacts DEF SliceWithinList, CursorBehindRows
      <3>5. RunKeepsUp'
        BY <2>1, <2>2, <3>2, JobFacts DEF RunKeepsUp, Current
      <3> QED
        BY <3>3, <3>4, <3>5
    <2>3. CASE kind # "coinglass"
      <3>1. job' = [job EXCEPT !.pc = "save", !.got = {}]
        BY <1>8, <2>3 DEF Write
      <3>2. /\ job'.pc = "save" /\ job'.list = job.list /\ job'.at = job.at
            /\ job'.end = job.end /\ job'.got = {}
        BY <3>1 DEF Run, TypeOK
      <3>3. TypeOK'
        BY <2>1, <3>1 DEF Run, TypeOK
      <3>4. SliceWithinList' /\ CursorBehindRows'
        BY <2>1, <2>3, <3>2, JobFacts DEF SliceWithinList, CursorBehindRows
      <3>5. RunKeepsUp'
        BY <2>1, <2>3, <3>2, JobFacts DEF RunKeepsUp
      <3> QED
        BY <3>3, <3>4, <3>5
    <2> QED
      BY <2>2, <2>3
  <1>9. CASE WriteLost
    <2>1. job.got \in SUBSET Symbols
      BY <1>9, JobFacts DEF WriteLost
    <2> QED
      BY <1>9, <2>1, AbortKeeps DEF WriteLost, TypeOK
  <1>10. CASE Save
    <2>1. CASE ~BindsBeforeCast
      BY <1>10, <2>1, AbortKeeps DEF Save, TypeOK
    <2>2. CASE BindsBeforeCast
      <3>0. job.pc = "save" /\ CursorMoves
        BY <1>10, <2>2 DEF Save
      <3>1. job.pc = "save" /\ job.at = job.end /\ job.got = {} /\ job.end \in Nat
            /\ Len(job.list) \in Nat /\ kv' = NextIndex /\ job' = NoJob
            /\ UNCHANGED <<listed, changes, kind>>
        BY <3>0, JobFacts DEF CursorMoves, SliceWithinList
      <3>2. TypeOK'
        <4>1. NoJob \in Run
          BY RoundRobinAssumption DEF NoJob, Run
        <4>2. NextIndex \in Nat
          BY <3>1 DEF NextIndex
        <4>3. done' \in SUBSET Symbols /\ base' \in 0..changes
          BY <3>0 DEF CursorMoves, TypeOK
        <4> QED
          BY <3>1, <4>1, <4>2, <4>3 DEF TypeOK
      <3>3. SliceWithinList' /\ RunKeepsUp'
        BY <3>1 DEF SliceWithinList, RunKeepsUp, NoJob
      <3>4. CursorBehindRows'
        <4>1. CASE NextIndex = 0
          BY <3>0, <3>1, <4>1, <3>2, ListFacts DEF CursorBehindRows, TypeOK
        <4>2. CASE NextIndex # 0
          <5>1. done' = done /\ base' = base /\ kv' = job.end /\ job.end < Len(job.list)
            BY <3>0, <3>1, <4>2 DEF CursorMoves, NextIndex
          <5>2. Steady => job.list = listed /\ \A i \in DOMAIN listed : i <= job.end => listed[i] \in done
            BY <3>1 DEF RunKeepsUp
          <5> QED
            BY <3>1, <5>1, <5>2 DEF CursorBehindRows
        <4> QED
          BY <4>1, <4>2
      <3> QED
        BY <3>2, <3>3, <3>4
    <2> QED
      BY <2>1, <2>2
  <1>11. CASE Fail
    BY <1>11, AbortKeeps DEF Fail, TypeOK
  <1>12. CASE UNCHANGED vars
    BY <1>12 DEF vars, TypeOK, SliceWithinList, CursorBehindRows, RunKeepsUp, Current
  <1> QED
    BY <1>1, <1>2, <1>3, <1>4, <1>5, <1>6, <1>7, <1>8, <1>9, <1>10, <1>11, <1>12 DEF Next, RunStep

(* RoundRobinInv holds in every reachable state of the jobs. *)
THEOREM RoundRobinInvariant == Spec => []RoundRobinInv
  BY InitInv, StepInv, PTL DEF Spec

(* Type correctness of the jobs' state, the number of attempts included. *)
THEOREM RoundRobinTypeCorrect == Spec => []TypeOK
  <1>1. RoundRobinInv => TypeOK
    BY DEF RoundRobinInv
  <1> QED
    BY <1>1, RoundRobinInvariant, PTL

(* A run's slice lies within its list for every saved cursor (jobs.py, the   *)
(* modulo of the cursor).                                                    *)
THEOREM SliceWithinListAlways == Spec => []SliceWithinList
  <1>1. RoundRobinInv => SliceWithinList
    BY DEF RoundRobinInv
  <1> QED
    BY <1>1, RoundRobinInvariant, PTL

(* save_kv_state never persists a cursor ahead of the stored rows. *)
THEOREM CursorBehindRowsAlways == Spec => []CursorBehindRows
  <1>1. RoundRobinInv => CursorBehindRows
    BY DEF RoundRobinInv
  <1> QED
    BY <1>1, RoundRobinInvariant, PTL

(* The cursor goes back to 0 only after a round that left no symbol out. *)
THEOREM RoundCompleteAlways == Spec => []RoundComplete
  <1>1. RoundRobinInv => RoundComplete
    <2> SUFFICES ASSUME RoundRobinInv, job.pc = "save", NextIndex = 0, Steady
                 PROVE  \A i \in DOMAIN listed : listed[i] \in done
      BY DEF RoundComplete
    <2>1. job.at = job.end /\ job.got = {} /\ job.list = listed /\ job.end \in Nat
          /\ Len(job.list) \in Nat \ {0} /\ job.end <= Len(job.list)
      BY JobFacts DEF RoundRobinInv, SliceWithinList, RunKeepsUp
    <2>2. job.end = Len(listed)
      BY <2>1 DEF NextIndex, RoundRobinInv, SliceWithinList
    <2>3. DOMAIN listed = 1..Len(listed)
      BY ListFacts DEF RoundRobinInv, TypeOK
    <2> QED
      BY <2>1, <2>2, <2>3 DEF RoundRobinInv, RunKeepsUp, NextIndex, Steady
  <1> QED
    BY <1>1, RoundRobinInvariant, PTL
=============================================================================
