----------------------------- MODULE RoundRobin -----------------------------
(***************************************************************************)
(* The round-robin jobs of ingest/scheduler/jobs.py: coinglass.oi,         *)
(* coinglass.liq, coinglass.lsr and mexc.oi.poll.  A run of a job reads    *)
(* the list of symbols and the cursor that the last run saved in           *)
(* ingest_runs.kv_state, serves the next slice of the list and saves the   *)
(* advanced cursor.  The symbol list is maintained elsewhere and may       *)
(* change between and during runs.                                         *)
(*                                                                         *)
(* The three coinglass jobs fetch and store one symbol after the other;    *)
(* mexc.oi.poll fetches the whole slice and stores it with one COPY.  One  *)
(* behaviour is about one job; the scheduler never overlaps its runs.      *)
(***************************************************************************)
EXTENDS Integers, Sequences, Schema

CONSTANTS
    Symbols,
    Lists,          \* the lists the symbols table may give
    Refused,        \* symbols Coinglass answers with a permanent 4xx or an invalid body
    BatchSize,      \* of each kind of job
    Attempts,       \* stop_after_attempt of coinglass_retry
    BindsBeforeCast, \* text() takes ":st" for a parameter before "::jsonb"
    MaxChanges      \* changes of the symbol list

Kinds == {"coinglass", "mexc"}

ASSUME RoundRobinAssumption ==
    /\ Lists \subseteq Seq(Symbols)
    /\ BatchSize \in [Kinds -> Nat \ {0}]
    /\ Attempts \in Nat \ {0}
    /\ BindsBeforeCast \in BOOLEAN
    /\ MaxChanges \in Nat

VARIABLES
    listed,     \* SELECT symbol FROM symbols ... ORDER BY tier, symbol
    changes,    \* how often it has changed
    kind,       \* the kind of the job
    kv,         \* last_symbol_index in the latest ingest_runs row, 0 if none
    job,        \* the run under way
    done,       \* symbols dealt with since the cursor was last 0: stored,
                \* or recorded in dead_letter (history)
    base        \* the value of `changes` at that moment (history)

vars == <<listed, changes, kind, kv, job, done, base>>

(* The list has not changed in this round. *)
Steady == changes = base

Run == [pc : {"idle", "load", "fetch", "write", "save"},
        list : Lists \cup {<< >>}, at : Nat, end : Nat,
        tries : 0..(Attempts - 1), got : SUBSET Symbols]

NoJob == [pc |-> "idle", list |-> << >>, at |-> 0, end |-> 0, tries |-> 0, got |-> {}]

Init ==
    /\ listed \in Lists
    /\ changes = 0
    /\ kind \in Kinds
    /\ kv = 0
    /\ job = NoJob
    /\ done = {}
    /\ base = 0
----------------------------------------------------------------------------

(* universe.snapshot lists and delists symbols, recompute_tier1 reorders. *)
Relist(l) ==
    /\ changes < MaxChanges
    /\ l # listed
    /\ listed' = l
    /\ changes' = changes + 1
    /\ UNCHANGED <<kind, kv, job, done, base>>

(* The job starts and reads the list; without symbols it returns. *)
Start ==
    /\ job.pc = "idle"
    /\ listed # << >>
    /\ job' = [NoJob EXCEPT !.pc = "load", !.list = listed]
    /\ UNCHANGED <<listed, changes, kind, kv, done, base>>

\* Mutant: the cursor is taken as it was saved, past the end of a list that
\* has become shorter.
CursorTrusted(n) == kv

(* int(kv.get("last_symbol_index", 0)) % len(pairs) *)
Cursor(n) == kv % n

(* load_kv_state, and the bounds of the slice. *)
Load ==
    /\ job.pc = "load"
    /\ LET n == Len(job.list)
           from == Cursor(n)
           to == from + BatchSize[kind]
       IN job' = [job EXCEPT !.pc = "fetch", !.at = from,
                             !.end = IF to < n THEN to ELSE n]
    /\ UNCHANGED <<listed, changes, kind, kv, done, base>>

Current == job.list[job.at + 1]

(* The next symbol of the slice, or, after the last, the phase `then`. *)
Advance(then) ==
    [job EXCEPT !.pc = IF job.at + 1 < job.end THEN "fetch" ELSE then,
                !.at = job.at + 1, !.tries = 0]

(* The source answers for the current symbol. *)
Fetch ==
    /\ job.pc = "fetch"
    /\ kind = "coinglass" => Current \notin Refused
    /\ job' = IF kind = "coinglass"
              THEN [job EXCEPT !.pc = "write", !.got = {Current}]
              ELSE [Advance("write") EXCEPT !.got = job.got \cup {Current}]
    /\ UNCHANGED <<listed, changes, kind, kv, done, base>>

\* Mutant: the cursor is saved in the finally clause of the job.
AbortSaves ==
    /\ job' = NoJob
    /\ kv' = IF job.end = 0 \/ job.end = Len(job.list) THEN kv ELSE job.end
    /\ UNCHANGED <<listed, changes, kind, base>>

(* An exception leaves the job: the scheduler marks the run as failed, and *)
(* nothing of it but the stored rows remains.                              *)
Abort == job' = NoJob /\ UNCHANGED <<listed, changes, kind, kv, base>>

\* Mutant: one attempt too many.
RetryOnceMore ==
    /\ job.pc = "fetch"
    /\ kind = "coinglass"
    /\ job.tries < Attempts
    /\ job' = [job EXCEPT !.tries = job.tries + 1]
    /\ UNCHANGED <<listed, changes, kind, kv, done, base>>

(* 429, 5xx or a transport error: tenacity asks again and, after its last   *)
(* attempt, raises.                                                         *)
Retry ==
    /\ job.pc = "fetch"
    /\ kind = "coinglass"
    /\ job.tries + 1 < Attempts
    /\ job' = [job EXCEPT !.tries = job.tries + 1]
    /\ UNCHANGED <<listed, changes, kind, kv, done, base>>

GiveUp ==
    /\ job.pc = "fetch"
    /\ kind = "coinglass" /\ job.tries + 1 = Attempts
    /\ Abort
    /\ UNCHANGED done

(* A permanent 4xx of Coinglass, or any failure of a MEXC fetch, goes to     *)
(* write_to_dead_letter, after which the slice goes on, unless the INSERT   *)
(* into dead_letter is rejected for want of a matching index.               *)
DeadLetterAccepts == DeadLetterConflictColumns = DeadLetterPrimaryKey

DeadLettered ==
    /\ job.pc = "fetch"
    /\ kind = "coinglass" => Current \in Refused
    /\ IF DeadLetterAccepts
       THEN /\ job' = Advance(IF kind = "coinglass" THEN "save" ELSE "write")
            /\ done' = done \cup {Current}
            /\ UNCHANGED <<listed, changes, kind, kv, base>>
       ELSE Abort /\ UNCHANGED done

(* copy_into_hypertable stores the rows of the symbol, or of the slice. *)
Write ==
    /\ job.pc = "write"
    /\ done' = done \cup job.got
    /\ job' = IF kind = "coinglass"
              THEN [Advance("save") EXCEPT !.got = {}]
              ELSE [job EXCEPT !.pc = "save", !.got = {}]
    /\ UNCHANGED <<listed, changes, kind, kv, base>>

(* The COPY was committed, and its answer did not come. *)
WriteLost ==
    /\ job.pc = "write"
    /\ done' = done \cup job.got
    /\ Abort

\* Mutants: the cursor moves one symbol past the slice, or stays at the last
\* slice instead of going back to 0.
NextIndexSkips == IF job.end + 1 < Len(job.list) THEN job.end + 1 ELSE 0
NextIndexSticks == IF job.end < Len(job.list) THEN job.end ELSE kv

(* end if end < len(pairs) else 0 *)
NextIndex == IF job.end < Len(job.list) THEN job.end ELSE 0

(* The new row of ingest_runs is the latest from now on. *)
CursorMoves ==
    /\ kv' = NextIndex
    /\ job' = NoJob
    /\ done' = IF NextIndex = 0 THEN {} ELSE done
    /\ base' = IF NextIndex = 0 THEN changes ELSE base
    /\ UNCHANGED <<listed, changes, kind>>

(* save_kv_state inserts :st::jsonb.  Whether :st is a parameter there is up *)
(* to SQLAlchemy's text(): its pattern leaves out a name with a colon behind *)
(* it, the colon reaches PostgreSQL as it stands, and the INSERT raises.     *)
Save ==
    /\ job.pc = "save"
    /\ IF BindsBeforeCast THEN CursorMoves ELSE Abort /\ UNCHANGED done

(* Any of the statements fails, or the process is replaced. *)
Fail ==
    /\ job.pc # "idle"
    /\ Abort
    /\ UNCHANGED done

RunStep ==
    \/ Start \/ Load \/ Fetch \/ Retry \/ GiveUp \/ DeadLettered
    \/ Write \/ WriteLost \/ Save

Next ==
    \/ \E l \in Lists : Relist(l)
    \/ RunStep
    \/ Fail

Spec == Init /\ [][Next]_vars

(* The scheduler starts the job again and again, and a run goes on until it  *)
(* ends or fails.  What can succeed does not fail every time: a source that  *)
(* is asked for a symbol over and over answers in the end, and a statement   *)
(* that is repeated succeeds in the end.  Of the save nothing is assumed.    *)
FetchOf(s) == Fetch /\ Current = s
WriteOf(s) == kind = "coinglass" /\ Write /\ Current = s

Fairness ==
    /\ WF_vars(RunStep)
    /\ SF_vars(Load)
    /\ \A s \in Symbols : SF_vars(FetchOf(s)) /\ SF_vars(WriteOf(s))
    /\ SF_vars(Write)

FairSpec == Spec /\ Fairness

(* A save that is tried again and again comes to its answer in the end,      *)
(* which is an error each time unless BindsBeforeCast.                       *)
AnsweredSpec == FairSpec /\ SF_vars(Save)
----------------------------------------------------------------------------
(* PROPERTIES *)

TypeOK ==
    /\ listed \in Lists
    /\ changes \in 0..MaxChanges
    /\ kind \in Kinds
    /\ kv \in Nat
    /\ job \in Run
    /\ done \in SUBSET Symbols
    /\ base \in 0..changes

(* Wherever the saved cursor points, and however much shorter the list has  *)
(* become since, a run looks at a slice that lies within its list and is    *)
(* not empty.                                                               *)
SliceWithinList ==
    /\ job.pc \in {"fetch", "write", "save"} => job.end > 0
    /\ job.pc = "fetch" => job.at < job.end
    /\ job.pc = "write" => IF kind = "coinglass" THEN job.at < job.end ELSE job.at = job.end
    /\ job.pc = "save" => job.at = job.end /\ job.got = {}
    /\ job.pc # "idle" => job.list # << >> /\ job.at <= job.end /\ job.end <= Len(job.list)

(* The saved cursor never runs ahead of the stored rows: while the list     *)
(* stands still, every symbol before the cursor has been dealt with in this *)
(* round, whatever failed or crashed on the way.                            *)
CursorBehindRows ==
    Steady => /\ kv = 0 \/ kv < Len(listed)
              /\ \A i \in DOMAIN listed : i <= kv => listed[i] \in done

(* The cursor goes back to 0 only when the round left nobody out. *)
RoundComplete ==
    job.pc = "save" /\ NextIndex = 0 /\ Steady =>
        \A i \in DOMAIN listed : listed[i] \in done

IsListed(s) == \E i \in DOMAIN listed : listed[i] = s
Served(s) == (Write \/ WriteLost) /\ s \in job.got

(* The cursor makes a job go round: a symbol that stays on the list is      *)
(* served over and over.  Neither a symbol Coinglass refuses (client.py,    *)
(* "no raise") nor the save of the cursor (kv_state.py) stops the others.   *)
EveryoneServedAgain ==
    \A s \in Symbols \ Refused : <>[]IsListed(s) => []<><<Served(s)>>_vars

(* As long as saves succeed again and again, the other failures, crashes    *)
(* and changes of the list delay a symbol and starve none, wherever they    *)
(* leave the index in the list.                                             *)
SavedCursorServesAll ==
    []<><<job.pc = "save" /\ CursorMoves>>_vars => EveryoneServedAgain

(* What the run under way has passed is stored or in its hands. *)
RunKeepsUp ==
    /\ Steady /\ job.pc # "idle" => job.list = listed
    /\ Steady /\ job.pc \in {"fetch", "write", "save"} =>
          \A i \in DOMAIN listed : i <= job.at => listed[i] \in done \cup job.got
    /\ kind = "coinglass" => job.got = IF job.pc = "write" THEN {Current} ELSE {}

(* The inductive invariant behind the theorems of RoundRobinProofs. *)
RoundRobinInv ==
    /\ TypeOK
    /\ SliceWithinList
    /\ CursorBehindRows
    /\ RunKeepsUp
=============================================================================
