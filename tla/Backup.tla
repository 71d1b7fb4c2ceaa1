------------------------------- MODULE Backup -------------------------------
(***************************************************************************)
(* The daily backup.pg_dump job: daily_pg_dump_to_r2 of                    *)
(* ingest/backup/pg_dump_r2.py streams the output of pg_dump into an       *)
(* object daily/<timestamp> and then runs the retention sweep              *)
(* _sundown_sweep, which copies the newest dump to weekly/, monthly/ and   *)
(* annual/ and deletes what is beyond the number each prefix keeps.        *)
(*                                                                         *)
(* The bucket has no transactions: the process may end and a call may fail *)
(* between any two requests.  The object exists as soon as the output of   *)
(* pg_dump ends, before its exit code is known.                            *)
(***************************************************************************)
EXTENDS Integers, FiniteSets

CONSTANTS
    MaxTime,        \* bounds the times at which a run may begin
    TimesPerDay,    \* such times in a day
    Mondays, Firsts, NewYears,      \* days of the calendar
    KeepDaily, KeepWeekly, KeepMonthly

ASSUME BackupAssumption ==
    /\ MaxTime \in Nat /\ TimesPerDay \in Nat \ {0}
    /\ NewYears \subseteq Firsts
    /\ KeepDaily \in Nat \ {0} /\ KeepWeekly \in Nat \ {0} /\ KeepMonthly \in Nat \ {0}

Times == 0..MaxTime         \* timestamps in the names of objects
Day(time) == time \div TimesPerDay

Swept == {"daily", "weekly", "monthly"}
Prefixes == Swept \cup {"annual"}

(* retention_counts *)
retention_counts == [daily |-> KeepDaily, weekly |-> KeepWeekly, monthly |-> KeepMonthly]

VARIABLES
    now,
    bucket,     \* the objects of every prefix, by timestamp
    run,        \* the run of the job under way
    best        \* the latest complete dump uploaded so far (history)

vars == <<now, bucket, run, best>>

Object == {"none", "complete", "truncated"}
NoJob == [pc |-> "idle", key |-> 0, todo |-> {}, dead |-> {}]

Keys(prefix) == {k \in Times : bucket[prefix][k] # "none"}

Init ==
    /\ now = 0
    /\ bucket = [p \in Prefixes |-> [k \in Times |-> "none"]]
    /\ run = NoJob
    /\ best = -1
----------------------------------------------------------------------------

(* Time passes without a run: r2_backup is not configured, or the scheduler *)
(* was down.                                                                 *)
Skip ==
    /\ run = NoJob
    /\ now < MaxTime
    /\ now' = now + 1
    /\ UNCHANGED <<bucket, run, best>>

(* The key is named after the time in UTC; the next run begins later. *)
Start ==
    /\ run = NoJob
    /\ now < MaxTime
    /\ now' = now + 1
    /\ run' = [NoJob EXCEPT !.pc = "upload", !.key = now]
    /\ UNCHANGED <<bucket, best>>

\* Mutant: the parts of an upload that ends early count as an object.
UploadParts(object) ==
    /\ run.pc = "upload"
    /\ bucket' = [bucket EXCEPT !["daily"][run.key] =
                      IF object = "complete" THEN object ELSE "parts"]
    /\ run' = [run EXCEPT !.pc = "wait"]
    /\ best' = IF object = "complete" THEN run.key ELSE best
    /\ UNCHANGED now

(* upload_fileobj reads the output of pg_dump up to its end, which is also   *)
(* the end when pg_dump fails half way.                                      *)
Upload(object) ==
    /\ run.pc = "upload"
    /\ bucket' = [bucket EXCEPT !["daily"][run.key] = object]
    /\ run' = [run EXCEPT !.pc = "wait"]
    /\ best' = IF object = "complete" THEN run.key ELSE best
    /\ UNCHANGED now

\* Mutant: the exit code is logged and not looked at.
WaitIgnored ==
    /\ run.pc = "wait"
    /\ run' = [run EXCEPT !.pc = "list"]
    /\ UNCHANGED <<now, bucket, best>>

(* A pg_dump that failed ends the run with an exception; the object stays. *)
Wait ==
    /\ run.pc = "wait"
    /\ run' = IF bucket["daily"][run.key] = "truncated" THEN NoJob
              ELSE [run EXCEPT !.pc = "list"]
    /\ UNCHANGED <<now, bucket, best>>

(* The prefixes to which a dump is promoted, by the calendar of its name. *)
Due(key) ==
    {p \in Prefixes : \/ p = "weekly" /\ Day(key) \in Mondays
                      \/ p = "monthly" /\ Day(key) \in Firsts
                      \/ p = "annual" /\ Day(key) \in NewYears}

Newest == CHOOSE k \in Keys("daily") : \A j \in Keys("daily") : j <= k

(* The sweep works on the newest of all dumps in daily/. *)
List ==
    /\ run.pc = "list"
    /\ run' = IF Keys("daily") = {} THEN NoJob
              ELSE [run EXCEPT !.pc = "promote", !.key = Newest, !.todo = Due(Newest)]
    /\ UNCHANGED <<now, bucket, best>>

(* weekly/ before monthly/ before annual/ *)
First(prefixes) ==
    CHOOSE p \in prefixes :
        \/ p = "daily"
        \/ p = "weekly" /\ "daily" \notin prefixes
        \/ p = "monthly" /\ prefixes \subseteq {"monthly", "annual"}
        \/ p = "annual" /\ prefixes = {"annual"}

(* _copy_to: a copy on the server, unless there is one. *)
Promote ==
    /\ run.pc = "promote" /\ run.todo # {}
    /\ LET p == First(run.todo)
       IN /\ bucket' = IF run.key \in Keys(p) THEN bucket
                       ELSE [bucket EXCEPT ![p][run.key] = bucket["daily"][run.key]]
          /\ run' = [run EXCEPT !.todo = @ \ {p}]
    /\ UNCHANGED <<now, best>>

Promoted ==
    /\ run.pc = "promote" /\ run.todo = {}
    /\ run' = [run EXCEPT !.pc = "sweep", !.todo = Swept]
    /\ UNCHANGED <<now, bucket, best>>

\* Mutant: the objects are sorted oldest first.
BeyondNewest(p) ==
    {k \in Keys(p) : Cardinality({j \in Keys(p) : j < k}) >= retention_counts[p]}

\* Mutant: objs[keep_n + 1:].
BeyondOneMore(p) ==
    {k \in Keys(p) : Cardinality({j \in Keys(p) : j > k}) > retention_counts[p]}

(* objs[keep_n:] of the objects sorted newest first. *)
Beyond(p) ==
    {k \in Keys(p) : Cardinality({j \in Keys(p) : j > k}) >= retention_counts[p]}

(* The objects of the next prefix are listed. *)
SweepPrefix ==
    /\ run.pc = "sweep" /\ run.dead = {} /\ run.todo # {}
    /\ LET p == First(run.todo)
       IN run' = [run EXCEPT !.pc = IF Beyond(p) = {} THEN "sweep" ELSE p,
                             !.todo = @ \ {p}, !.dead = Beyond(p)]
    /\ UNCHANGED <<now, bucket, best>>

(* delete_object, for one object after the other, newest first. *)
Delete ==
    /\ \E k \in run.dead :
          /\ \A j \in run.dead : j <= k
          /\ bucket' = [bucket EXCEPT ![run.pc][k] = "none"]
          /\ run' = [run EXCEPT !.dead = @ \ {k},
                                !.pc = IF run.dead = {k} THEN "sweep" ELSE @]
    /\ UNCHANGED <<now, best>>

Complete ==
    /\ run.pc = "sweep" /\ run.dead = {} /\ run.todo = {}
    /\ run' = NoJob
    /\ UNCHANGED <<now, bucket, best>>

(* A request raises, before the sweep for the caller to see and within it    *)
(* to be logged, or the process ends: either way the run is over.            *)
Fail ==
    /\ run # NoJob
    /\ run' = NoJob
    /\ UNCHANGED <<now, bucket, best>>

Next ==
    \/ Skip \/ Start
    \/ \E object \in {"complete", "truncated"} : Upload(object)
    \/ Wait \/ List \/ Promote \/ Promoted \/ SweepPrefix \/ Delete \/ Complete
    \/ Fail

Spec == Init /\ [][Next]_vars
----------------------------------------------------------------------------
(* PROPERTIES *)

TypeOK ==
    /\ now \in Times
    /\ bucket \in [Prefixes -> [Times -> Object]]
    /\ run \in [pc : {"idle", "upload", "wait", "list", "promote", "sweep"} \cup Swept,
                key : Times, todo : SUBSET Prefixes, dead : SUBSET Times]
    /\ best \in Times \cup {-1}

(* The latest complete dump is in daily/ at any time: dumps that fail, runs   *)
(* that end half way and sweeps do not take it away, although the truncated  *)
(* objects count among those daily/ keeps.                                   *)
RestorePoint == best # -1 => bucket["daily"][best] = "complete"

(* What weekly/, monthly/ and annual/ hold is complete: a truncated dump is  *)
(* never promoted.                                                           *)
PromotedComplete ==
    \A p \in Prefixes \ {"daily"}, k \in Times : bucket[p][k] # "truncated"

(* An object is deleted only while its prefix holds as many newer ones as it *)
(* keeps; from annual/ nothing is deleted.                                   *)
OnlyBeyondRetention ==
    [][\A p \in Prefixes : \A k \in Keys(p) \ Keys(p)' :
          /\ p \in Swept
          /\ Cardinality({j \in Keys(p)' : j > k}) >= retention_counts[p]]_vars

(* A sweep that comes to its end leaves no prefix with more than it keeps    *)
(* and the dump it promoted in every prefix it is due in.                    *)
SweepLeavesRetention ==
    [][Complete => /\ \A p \in Swept : Cardinality(Keys(p)) <= retention_counts[p]
                   /\ \A p \in Due(run.key) : run.key \in Keys(p)]_vars
=============================================================================
