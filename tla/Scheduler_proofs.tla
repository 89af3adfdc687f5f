-------------------------- MODULE Scheduler_proofs --------------------------
(***************************************************************************)
(* Proofs about schedules.  The first part is about Scheduler, for every   *)
(* set of schedules, cron expressions and zones and for every bound.       *)
(* Everything rests on two facts about time: a match of a cron expression  *)
(* is strictly after its base (NextRunIsLater), and no time after the last *)
(* poll has been fired (FiredPast).  The second part is about the wizards  *)
(* that create schedules, agents and skills (Wizards), for any number of   *)
(* conversations, names, texts and wizards: it rests on what each step     *)
(* leaves in the answers of a wizard (Fits).                               *)
(***************************************************************************)
EXTENDS Scheduler, Wizards, FiniteSetTheorems, TLAPS

\* What the loop still works on: the copies it has not come to, and the one
\* whose commit it awaits.
InHand == due \cup (IF pc = "committing" THEN {cur} ELSE {})

CopiesOK == \A s \in InHand : /\ snap[s] \in Row /\ snap[s].next \in Nat
                              /\ snap[s].next <= tick

IdleOK == pc \in {"down", "sleeping"} => due = {}

EditOK == edit # NoEdit /\ edit.next # NoTime => edit.next > edit.now

TypeInv == TypeOK /\ CopiesOK /\ IdleOK /\ EditOK

----------------------------------------------------------------------------
(* Lemmas about the operators *)

LEMMA NextRunIsLater ==
    ASSUME NEW c \in Crons, NEW base \in Nat, NEW z \in Zones
    PROVE  /\ compute_next_run(c, base, z) \in Nat
           /\ compute_next_run(c, base, z) > base
  <1>1. base + Shift[z] \in Int /\ Period[c] \in Nat \ {0} /\ Shift[z] \in Nat
    BY ConstantsAssumption
  <1>2. PICK rest \in Int : /\ rest = (base + Shift[z]) % Period[c]
                            /\ 0 <= rest /\ rest < Period[c]
    BY <1>1
  <1>3. compute_next_run(c, base, z)
          = ((base + Shift[z]) + Period[c] - rest) - Shift[z]
    BY <1>2 DEF compute_next_run, to_utc, get_next, to_local
  <1>4. QED
    BY <1>1, <1>2, <1>3

\* What a step that enqueues leaves in the slots.
LEMMA EnqueueType ==
    ASSUME TypeOK, NEW s \in Ids, NEW c \in Crons, NEW z \in Zones,
           enqueue(s, c, z)
    PROVE  jobs' \in [Slots -> Job \cup {NoJob}]
  BY DEF TypeOK, enqueue, Job

LEMMA StoredRow ==
    ASSUME TypeOK, NEW s \in Ids, Stored(s)
    PROVE  rows[s] \in Row
  BY DEF TypeOK, Stored

----------------------------------------------------------------------------
(* Types *)

LEMMA InitTypeInv == Init => TypeInv
  BY ConstantsAssumption
  DEF Init, TypeInv, TypeOK, CopiesOK, InHand, IdleOK, EditOK, Row

\* The loop keeps the types and only takes rows in hand that are due.
LEMMA LoopTypeInv ==
  ASSUME TypeInv, Loop
  PROVE  TypeInv'
<1> USE DEF TypeInv, TypeOK, CopiesOK, InHand, IdleOK, EditOK, loop, users,
            table, history
<1>1. CASE start_scheduler
  <2>1. \A s \in Ids : Stored(s) /\ rows[s].enabled /\ rows[s].next = NoTime
           => [rows[s] EXCEPT !.next =
                 compute_next_run(rows[s].cron, clock, rows[s].tz)] \in Row
    BY NextRunIsLater, StoredRow DEF Row
  <2>2. rows' \in [Ids -> Row \cup {NoRow, Deleted}]
    BY <1>1, <2>1 DEF start_scheduler
  <2>3. QED
    BY <1>1, <2>2 DEF start_scheduler
<1>2. CASE Wake
  <2>1. \A s \in due_rows(clock) :
           rows[s] \in Row /\ rows[s].next \in Nat /\ rows[s].next <= clock
    BY StoredRow DEF due_rows, Row
  <2>2. snap' \in [Ids -> Row \cup {NoRow}]
    BY <1>2, <2>1 DEF Wake
  <2>3. CopiesOK'
    BY <1>2, <2>1 DEF Wake, due_rows
  <2>4. QED
    BY <1>2, <2>2, <2>3 DEF Wake, due_rows
<1>3. CASE PollFindsNothing
  BY <1>3 DEF PollFindsNothing, vars
<1>4. ASSUME NEW s \in Ids, FireDue(s) PROVE TypeInv'
  <2>1. snap[s] \in Row /\ snap[s].next \in Nat
    BY <1>4 DEF FireDue
  <2>2. jobs' \in [Slots -> Job \cup {NoJob}]
    BY <1>4, <2>1, EnqueueType DEF FireDue, Row
  <2>3. /\ fired' \subseteq Ids \X (Nat \cup {NoTime})
        /\ refired' \subseteq fired'
        /\ lateFires' \in [Ids -> Nat]
    BY <1>4, <2>1 DEF FireDue
  <2>4. CopiesOK'
    BY <1>4 DEF FireDue
  <2>5. QED
    BY <1>4, <2>2, <2>3, <2>4 DEF FireDue
<1>5. CASE Commit
  <2>1. compute_next_run(snap[cur].cron, tick, snap[cur].tz) \in Nat
    BY <1>5, NextRunIsLater DEF Commit, Row
  <2>2. rows' \in [Ids -> Row \cup {NoRow, Deleted}]
    BY <1>5, <2>1, StoredRow DEF Commit, Row
  <2>3. QED
    BY <1>5, <2>2 DEF Commit, AfterRow
<1>6. CASE CommitFindsNoRow
  BY <1>6 DEF CommitFindsNoRow, AbandonPoll
<1>7. CASE CommitFails
  <2>1. slips' \subseteq Ids \X (Nat \cup {NoTime})
    BY <1>7 DEF CommitFails
  <2>2. QED
    BY <1>7, <2>1 DEF CommitFails, AbandonPoll, Fault
<1>8. QED
  BY <1>1, <1>2, <1>3, <1>4, <1>5, <1>6, <1>7 DEF Loop

\* So do the jobs, which only touch the slots, the tables and the history.
LEMMA JobTypeInv ==
  ASSUME TypeInv, NEW j \in Slots, JobStep(j)
  PROVE  TypeInv'
<1> USE DEF TypeInv, TypeOK, CopiesOK, InHand, IdleOK, EditOK, loop, users,
            table, history
<1>1. jobs[j] \in Job /\ jobs[j].sched \in Ids /\ jobs[j].now \in Nat
  BY DEF JobStep, JobStart, JobStartFails, JobEnds, JobSaves, JobSaveFails, Job
<1>2. CASE JobStart(j)
  BY <1>1, <1>2 DEF JobStart, Job
<1>3. CASE JobStartFails(j)
  BY <1>1, <1>3 DEF JobStartFails, Fault
<1>4. CASE JobEnds(j)
  BY <1>1, <1>4 DEF JobEnds, Job
<1>5. CASE JobSaves(j)
  <2> DEFINE s == jobs[j].sched
             next == compute_next_run(jobs[j].cron, jobs[j].now, jobs[j].tz)
  <2>1. next \in Nat
    BY <1>1, NextRunIsLater DEF Job
  <2> HIDE DEF next
  <2>2. CASE Stored(s)
    <3>1. /\ rows' = [rows EXCEPT ![s].next = next]
          /\ running' = [running EXCEPT ![s] = @ - 1]
          /\ Slip(s, next, jobs[j].now)
      BY <1>5, <2>2 DEF JobSaves, next
    <3>2. rows' \in [Ids -> Row \cup {NoRow, Deleted}]
      BY <1>1, <2>1, <2>2, <3>1, StoredRow DEF Row
    <3>3. slips' \subseteq Ids \X (Nat \cup {NoTime})
      BY <1>1, <2>1, <3>1 DEF Slip
    <3>4. QED
      BY <1>1, <1>5, <3>1, <3>2, <3>3 DEF JobSaves
  <2>3. CASE ~Stored(s)
    BY <1>5, <2>3 DEF JobSaves
  <2>4. QED
    BY <2>2, <2>3
<1>6. CASE JobSaveFails(j)
  BY <1>6 DEF JobSaveFails, Fault
<1>7. QED
  BY <1>2, <1>3, <1>4, <1>5, <1>6 DEF JobStep

\* A user creates a schedule, or works on one that is there, with the values of
\* its row or with others.
LEMMA UserSteps ==
  ASSUME TypeInv, UserStep
  PROVE  \/ \E s \in Ids, c \in Crons, z \in Zones :
              \/ create_schedule(s, c, z)
              \/ \E op \in {"cron", "zone", "enable", "disable"} :
                    update_schedule(s, op, c, z)
         \/ \E s \in Ids : delete_schedule(s) \/ trigger_schedule_now(s)
         \/ UpdateCommits \/ UpdateFindsNoRow
<1>1. CASE handle_schedule_command
  <2>1. ASSUME NEW s \in resolve_schedule
        PROVE  s \in Ids /\ rows[s].cron \in Crons /\ rows[s].tz \in Zones
    BY <2>1, StoredRow DEF resolve_schedule, Row, TypeInv, TypeOK
  <2>2. QED
    BY <1>1, <2>1 DEF handle_schedule_command
<1>2. CASE api_update_schedule
  BY <1>2 DEF api_update_schedule
<1>3. QED
  BY <1>1, <1>2 DEF UserStep

\* So do users.
LEMMA UserTypeInv ==
  ASSUME TypeInv, UserStep
  PROVE  TypeInv'
<1> USE DEF TypeInv, TypeOK, CopiesOK, InHand, IdleOK, EditOK, loop, users,
            table, history, Request
<1>1. ASSUME NEW s \in Ids, NEW c \in Crons, NEW z \in Zones,
             create_schedule(s, c, z)
      PROVE  TypeInv'
  <2>1. [enabled |-> TRUE, cron |-> c, tz |-> z,
         next |-> compute_next_run(c, clock, z)] \in Row
    BY NextRunIsLater DEF Row
  <2>2. rows' \in [Ids -> Row \cup {NoRow, Deleted}]
    BY <1>1, <2>1 DEF create_schedule
  <2>3. QED
    BY <1>1, <2>2 DEF create_schedule
<1>2. ASSUME NEW s \in Ids, NEW c \in Crons, NEW z \in Zones,
             NEW op \in {"cron", "zone", "enable", "disable"},
             update_schedule(s, op, c, z)
      PROVE  TypeInv'
  <2>1. /\ edit' \in Edit /\ edit'.now = clock
        /\ edit'.next # NoTime => edit'.next > clock
    BY <1>2, NextRunIsLater, ConstantsAssumption DEF update_schedule, Edit
  <2>2. QED
    BY <1>2, <2>1 DEF update_schedule
<1>3. ASSUME NEW s \in Ids, delete_schedule(s) PROVE TypeInv'
  BY <1>3 DEF delete_schedule
<1>4. ASSUME NEW s \in Ids, trigger_schedule_now(s) PROVE TypeInv'
  <2>1. jobs' \in [Slots -> Job \cup {NoJob}]
    BY <1>4, ConstantsAssumption, EnqueueType, StoredRow
    DEF trigger_schedule_now, Row
  <2>2. QED
    BY <1>4, <2>1 DEF trigger_schedule_now
<1>5. CASE UpdateCommits
  <2> DEFINE s == edit.sched
  <2>1. edit \in Edit /\ s \in Ids /\ rows[s] \in Row
    BY <1>5, StoredRow DEF UpdateCommits, Edit
  <2>2. rows' \in [Ids -> Row \cup {NoRow, Deleted}]
    BY <1>5, <2>1 DEF UpdateCommits, Edit, Row
  <2>3. slips' \subseteq Ids \X (Nat \cup {NoTime})
    BY <1>5, <2>1 DEF UpdateCommits, Slip, Edit
  <2>4. lateFires' \in [Ids -> Nat]
    BY <1>5 DEF UpdateCommits
  <2>5. QED
    BY <1>5, <2>2, <2>3, <2>4 DEF UpdateCommits
<1>6. CASE UpdateFindsNoRow
  BY <1>6 DEF UpdateFindsNoRow
<1>7. QED
  BY <1>1, <1>2, <1>3, <1>4, <1>5, <1>6, UserSteps

LEMMA NextTypeInv ==
  ASSUME TypeInv, [Next]_vars
  PROVE  TypeInv'
<1> USE DEF TypeInv, TypeOK, CopiesOK, InHand, IdleOK, EditOK
<1>1. CASE Loop
  BY <1>1, LoopTypeInv
<1>2. CASE \E j \in Slots : JobStep(j)
  BY <1>2, JobTypeInv
<1>3. CASE UserStep
  BY <1>3, UserTypeInv
<1>4. CASE Crash
  <2>1. slips' \subseteq Ids \X (Nat \cup {NoTime})
    BY <1>4 DEF Crash
  <2>2. QED
    BY <1>4, <2>1 DEF Crash, Fault, table
<1>5. CASE Elapse
  BY <1>5 DEF Elapse, loop, users, table, history
<1>6. CASE UNCHANGED vars
  BY <1>6 DEF vars, loop, users, table, history
<1>7. QED
  BY <1>1, <1>2, <1>3, <1>4, <1>5, <1>6 DEF Next

\* Type correctness of every reachable state.
THEOREM TypeCorrect == Spec => []TypeOK
<1>1. TypeInv => TypeOK
  BY DEF TypeInv
<1>2. QED
  BY <1>1, InitTypeInv, NextTypeInv, PTL DEF Spec

----------------------------------------------------------------------------
(* A due time is fired once, unless it slipped back.                       *)
(*                                                                         *)
(* FiredOnce is not inductive.  What keeps it is that everything fired is  *)
(* at or before the last poll, while everything written into a row is      *)
(* after it or counted as a slip: so a fired time is in a row only if its  *)
(* commit is still awaited or it slipped.                                  *)

FiredPast == \A s \in Ids : \A t \in Nat \cup {NoTime} :
                <<s, t>> \in fired => t \in Nat /\ t <= tick

Awaited(s) == pc = "committing" /\ cur = s /\ snap[s].next = rows[s].next

RowsSettled == \A s \in Ids :
    Stored(s) /\ <<s, rows[s].next>> \in fired
        => <<s, rows[s].next>> \in slips \/ Awaited(s)

CopiesSettled == \A s \in due :
    <<s, snap[s].next>> \in fired => <<s, snap[s].next>> \in slips

OnceInv == FiredPast /\ RowsSettled /\ CopiesSettled /\ FiredOnce

LEMMA InitOnceInv == Init => OnceInv
  BY DEF Init, OnceInv, FiredPast, RowsSettled, CopiesSettled, FiredOnce

\* A step that leaves the loop and what was fired alone, and writes into rows
\* only times that are after the last poll or slips, keeps OnceInv.
LEMMA QuietStep ==
  ASSUME TypeInv, OnceInv, UNCHANGED <<loop, fired, refired>>, slips \subseteq slips',
         \A s \in Ids : Stored(s)' /\ ~(Stored(s) /\ rows'[s].next = rows[s].next)
            => \/ rows'[s].next = NoTime
               \/ rows'[s].next \in Nat /\ rows'[s].next > tick
               \/ <<s, rows'[s].next>> \in slips'
  PROVE  OnceInv'
<1> USE DEF OnceInv, FiredPast, RowsSettled, CopiesSettled, FiredOnce, Awaited, loop
<1>1. FiredPast' /\ CopiesSettled' /\ FiredOnce'
  OBVIOUS
<1>2. ASSUME NEW s \in Ids, Stored(s)', <<s, rows'[s].next>> \in fired'
      PROVE  <<s, rows'[s].next>> \in slips' \/ Awaited(s)'
  <2>1. CASE Stored(s) /\ rows'[s].next = rows[s].next
    BY <1>2, <2>1
  <2>2. CASE ~(Stored(s) /\ rows'[s].next = rows[s].next)
    <3>1. <<s, rows'[s].next>> \in fired /\ tick \in Nat /\ NoTime \notin Nat
      BY <1>2, ConstantsAssumption DEF TypeInv, TypeOK
    <3>2. rows'[s].next \in Nat /\ rows'[s].next <= tick
      BY <3>1 DEF TypeInv, TypeOK
    <3>3. QED
      BY <1>2, <2>2, <3>1, <3>2
  <2>3. QED
    BY <2>1, <2>2
<1>3. QED
  BY <1>1, <1>2

LEMMA LoopOnceInv ==
  ASSUME TypeInv, OnceInv, Loop
  PROVE  OnceInv'
<1> USE DEF TypeInv, TypeOK, CopiesOK, InHand, IdleOK, table, history
<1> DEFINE FiredOK == FiredPast /\ FiredOnce
<1>1. CASE start_scheduler
  <2>1. \A s \in Ids : Stored(s) /\ rows[s].enabled /\ rows[s].next = NoTime
           => compute_next_run(rows[s].cron, clock, rows[s].tz) > tick
    BY NextRunIsLater, StoredRow DEF Row
  <2>2. FiredOK'
    BY <1>1 DEF start_scheduler, OnceInv, FiredPast, FiredOnce
  <2>3. CopiesSettled'
    BY <1>1 DEF start_scheduler, OnceInv, CopiesSettled
  <2>4. RowsSettled'
    BY <1>1, <2>1
    DEF start_scheduler, OnceInv, RowsSettled, FiredPast, Awaited, Stored
  <2>5. QED
    BY <2>2, <2>3, <2>4 DEF OnceInv
<1>2. CASE Wake
  <2>1. \A s \in due_rows(clock) : Stored(s) /\ ~Awaited(s)
    BY <1>2 DEF due_rows, Wake, Awaited
  <2>2. QED
    BY <1>2, <2>1
    DEF Wake, OnceInv, FiredPast, RowsSettled, CopiesSettled, FiredOnce, Awaited,
        Stored
<1>3. CASE PollFindsNothing
  BY <1>3 DEF PollFindsNothing, vars, loop, OnceInv, FiredPast, RowsSettled,
     CopiesSettled, FiredOnce, Awaited, Stored
<1>4. ASSUME NEW s \in Ids, FireDue(s) PROVE OnceInv'
  <2>1. snap[s].next \in Nat /\ snap[s].next <= tick
    BY <1>4 DEF FireDue
  <2>2. FiredOnce'
    BY <1>4 DEF FireDue, OnceInv, CopiesSettled, FiredOnce
  <2>3. FiredPast'
    BY <1>4, <2>1 DEF FireDue, OnceInv, FiredPast
  <2>4. CopiesSettled'
    BY <1>4 DEF FireDue, OnceInv, CopiesSettled
  <2>5. RowsSettled'
    BY <1>4 DEF FireDue, OnceInv, RowsSettled, Awaited, Stored
  <2>6. QED
    BY <2>2, <2>3, <2>4, <2>5 DEF OnceInv
<1>5. CASE Commit
  <2>1. /\ compute_next_run(snap[cur].cron, tick, snap[cur].tz) > tick
        /\ compute_next_run(snap[cur].cron, tick, snap[cur].tz) \in Nat
    BY <1>5, NextRunIsLater DEF Commit, Row
  <2>2. rows[cur] \in Row
    BY <1>5, StoredRow DEF Commit
  <2>3. FiredOK' /\ CopiesSettled'
    BY <1>5 DEF Commit, OnceInv, FiredPast, FiredOnce, CopiesSettled
  <2>4. rows'[cur].next > tick
    BY <1>5, <2>1, <2>2 DEF Commit, Row
  <2>5. \A s \in Ids \ {cur} : rows'[s] = rows[s]
    BY <1>5 DEF Commit
  <2>6. <<cur, rows'[cur].next>> \notin fired'
    BY <1>5, <2>1, <2>2 DEF Commit, OnceInv, FiredPast, Row
  <2>7. RowsSettled'
    BY <1>5, <2>5, <2>6 DEF Commit, OnceInv, RowsSettled, Awaited, Stored
  <2>8. QED
    BY <2>3, <2>7 DEF OnceInv
<1>6. CASE CommitFindsNoRow
  BY <1>6 DEF CommitFindsNoRow, AbandonPoll, OnceInv, FiredPast, RowsSettled,
     CopiesSettled, FiredOnce, Awaited, Stored
<1>7. CASE CommitFails
  BY <1>7 DEF CommitFails, AbandonPoll, OnceInv, FiredPast, RowsSettled,
     CopiesSettled, FiredOnce, Awaited, Stored
<1>8. QED
  BY <1>1, <1>2, <1>3, <1>4, <1>5, <1>6, <1>7 DEF Loop

LEMMA JobOnceInv ==
  ASSUME TypeInv, OnceInv, NEW j \in Slots, JobStep(j)
  PROVE  OnceInv'
<1>1. CASE UNCHANGED rows /\ UNCHANGED <<loop, history>>
  BY <1>1, QuietStep DEF history, Stored
<1>2. CASE JobSaves(j)
  <2> DEFINE s == jobs[j].sched
             next == compute_next_run(jobs[j].cron, jobs[j].now, jobs[j].tz)
  <2>1. jobs[j] \in Job /\ s \in Ids /\ jobs[j].now \in Nat
    BY <1>2 DEF JobSaves, TypeInv, TypeOK, Job
  <2>2. next \in Nat /\ next > jobs[j].now
    BY <2>1, NextRunIsLater DEF Job
  <2> HIDE DEF next
  <2>3. UNCHANGED <<loop, fired, refired>>
    BY <1>2 DEF JobSaves
  <2>4. CASE Stored(s)
    <3>1. rows' = [rows EXCEPT ![s].next = next] /\ Slip(s, next, jobs[j].now)
      BY <1>2, <2>4 DEF JobSaves, next
    <3>2. slips \subseteq slips' /\ (next > tick \/ <<s, next>> \in slips')
      BY <2>1, <2>2, <3>1 DEF Slip, TypeInv, TypeOK
    <3>3. rows'[s].next = next /\ \A r \in Ids \ {s} : rows'[r] = rows[r]
      BY <2>1, <2>4, <3>1, StoredRow DEF TypeInv, TypeOK, Row
    <3>4. \A r \in Ids \ {s} : Stored(r)' => Stored(r)
      BY <3>3 DEF Stored
    <3>5. QED
      BY <2>1, <2>2, <2>3, <3>2, <3>3, <3>4, QuietStep
  <2>5. CASE ~Stored(s)
    BY <1>2, <2>3, <2>5, QuietStep DEF JobSaves, table, Stored
  <2>6. QED
    BY <2>4, <2>5
<1>3. QED
  BY <1>1, <1>2 DEF JobStep, JobStart, JobStartFails, JobEnds, JobSaveFails, table

LEMMA UserOnceInv ==
  ASSUME TypeInv, OnceInv, UserStep
  PROVE  OnceInv'
<1> USE DEF TypeInv, TypeOK
<1>1. ASSUME NEW s \in Ids, NEW c \in Crons, NEW z \in Zones,
             create_schedule(s, c, z)
      PROVE  OnceInv'
  <2>1. /\ rows'[s].next \in Nat /\ rows'[s].next > tick
        /\ \A r \in Ids \ {s} : rows'[r] = rows[r]
    BY <1>1, NextRunIsLater DEF create_schedule
  <2>2. \A r \in Ids \ {s} : Stored(r)' => Stored(r)
    BY <2>1 DEF Stored
  <2>3. UNCHANGED <<loop, fired, refired>> /\ slips \subseteq slips'
    BY <1>1 DEF create_schedule, history
  <2>4. QED
    BY <2>1, <2>2, <2>3, QuietStep
<1>2. ASSUME NEW s \in Ids, delete_schedule(s) PROVE OnceInv'
  <2>1. \A r \in Ids : Stored(r)' => Stored(r) /\ rows'[r] = rows[r]
    BY <1>2 DEF delete_schedule, Stored
  <2>2. UNCHANGED <<loop, fired, refired>> /\ slips \subseteq slips'
    BY <1>2 DEF delete_schedule, history
  <2>3. QED
    BY <2>1, <2>2, QuietStep
<1>3. CASE UpdateCommits
  <2> DEFINE s == edit.sched
  <2>1. /\ s \in Ids /\ rows[s] \in Row /\ edit.now \in Nat
        /\ edit.next \in Nat \cup {NoTime} /\ Stored(s)
    BY <1>3, StoredRow DEF UpdateCommits, Edit
  <2>2. \A r \in Ids \ {s} : rows'[r] = rows[r]
    BY <1>3 DEF UpdateCommits
  <2>3. \/ rows'[s].next = rows[s].next
        \/ rows'[s].next = edit.next /\ edit.next # NoTime
    BY <1>3, <2>1 DEF UpdateCommits, Edit, Row
  <2>4. /\ slips \subseteq slips'
        /\ edit.next # NoTime => edit.next > tick \/ <<s, edit.next>> \in slips'
    BY <1>3, <2>1 DEF UpdateCommits, Slip, EditOK
  <2>5. \A r \in Ids \ {s} : Stored(r)' => Stored(r)
    BY <2>2 DEF Stored
  <2>6. UNCHANGED <<loop, fired, refired>>
    BY <1>3 DEF UpdateCommits
  <2>7. QED
    BY <2>1, <2>2, <2>3, <2>4, <2>5, <2>6, QuietStep
<1>4. CASE UNCHANGED rows /\ UNCHANGED <<loop, history>>
  BY <1>4, QuietStep DEF history, Stored
<1>5. QED
  BY <1>1, <1>2, <1>3, <1>4, UserSteps
  DEF trigger_schedule_now, update_schedule, UpdateFindsNoRow, table

LEMMA NextOnceInv ==
  ASSUME TypeInv, OnceInv, [Next]_vars
  PROVE  OnceInv'
<1>1. CASE Loop
  BY <1>1, LoopOnceInv
<1>2. CASE \E j \in Slots : JobStep(j)
  BY <1>2, JobOnceInv
<1>3. CASE UserStep
  BY <1>3, UserOnceInv
<1>4. CASE Crash
  BY <1>4 DEF Crash, table, OnceInv, FiredPast, RowsSettled, CopiesSettled,
     FiredOnce, Awaited, Stored
<1>5. CASE UNCHANGED rows /\ UNCHANGED <<loop, history>>
  BY <1>5, QuietStep DEF history, Stored
<1>6. QED
  BY <1>1, <1>2, <1>3, <1>4, <1>5 DEF Next, Elapse, vars, table

\* A due time gets a second job only after a lost commit or a late write.
THEOREM FiredOnceCorrect == Spec => []FiredOnce
<1>1. TypeInv /\ OnceInv => FiredOnce
  BY DEF OnceInv
<1>2. Init => TypeInv /\ OnceInv
  BY InitTypeInv, InitOnceInv
<1>3. TypeInv /\ OnceInv /\ [Next]_vars => (TypeInv /\ OnceInv)'
  BY NextTypeInv, NextOnceInv
<1>4. QED
  BY <1>1, <1>2, <1>3, PTL DEF Spec

----------------------------------------------------------------------------
(* A disabled schedule runs at most once more.                             *)
(*                                                                         *)
(* The strengthening: no late job has been enqueued for a row that is      *)
(* enabled or not created yet, nor for one the loop still has in its list. *)

Quiet(s) == rows[s] = NoRow \/ (Stored(s) /\ rows[s].enabled) \/ s \in due

LateInv == /\ DisabledQuietens
           /\ \A s \in Ids : Quiet(s) => lateFires[s] = 0

LEMMA InitLateInv == Init => LateInv
  BY DEF Init, LateInv, DisabledQuietens

\* A step that rewrites one row and leaves its `enabled' alone keeps LateInv.
LEMMA SameEnabled ==
  ASSUME TypeInv, LateInv, UNCHANGED <<due, lateFires>>,
         NEW s \in Ids, Stored(s), NEW row \in Row,
         rows' = [rows EXCEPT ![s] = row], row.enabled = rows[s].enabled
  PROVE  LateInv'
<1>1. rows'[s] = row /\ row # NoRow /\ \A r \in Ids \ {s} : rows'[r] = rows[r]
  BY NullAssumption DEF TypeInv, TypeOK
<1>2. QED
  BY <1>1 DEF LateInv, DisabledQuietens, Quiet, Stored

LEMMA NextLateInv ==
  ASSUME TypeInv, LateInv, [Next]_vars
  PROVE  LateInv'
<1> USE DEF LateInv, DisabledQuietens, Quiet, TypeInv, TypeOK, table, history, loop,
            users, Stored
<1>1. CASE start_scheduler
  BY <1>1, StoredRow DEF start_scheduler, Row
<1>2. CASE Wake
  BY <1>2 DEF Wake, due_rows
<1>3. ASSUME NEW s \in Ids, FireDue(s) PROVE LateInv'
  BY <1>3 DEF FireDue
<1>4. CASE Commit
  <2> DEFINE next == compute_next_run(snap[cur].cron, tick, snap[cur].tz)
  <2>1. rows[cur] \in Row /\ next \in Nat
    BY <1>4, StoredRow, NextRunIsLater DEF Commit, CopiesOK, InHand, Row
  <2> HIDE DEF next
  <2>2. rows' = [rows EXCEPT ![cur] = [rows[cur] EXCEPT !.next = next]]
    BY <1>4, <2>1 DEF Commit, Row, next
  <2>3. /\ [rows[cur] EXCEPT !.next = next] \in Row
        /\ [rows[cur] EXCEPT !.next = next].enabled = rows[cur].enabled
    BY <2>1 DEF Row
  <2>4. QED
    BY <1>4, <2>2, <2>3, SameEnabled DEF Commit
<1>5. ASSUME NEW j \in Slots, JobSaves(j) PROVE LateInv'
  <2> DEFINE s == jobs[j].sched
             next == compute_next_run(jobs[j].cron, jobs[j].now, jobs[j].tz)
  <2>1. s \in Ids /\ next \in Nat
    BY <1>5, NextRunIsLater DEF JobSaves, Job
  <2> HIDE DEF next
  <2>2. CASE Stored(s)
    <3>1. rows[s] \in Row
      BY <2>1, <2>2, StoredRow
    <3>2. rows' = [rows EXCEPT ![s] = [rows[s] EXCEPT !.next = next]]
      BY <1>5, <2>2, <3>1 DEF JobSaves, Row, next
    <3>3. /\ [rows[s] EXCEPT !.next = next] \in Row
          /\ [rows[s] EXCEPT !.next = next].enabled = rows[s].enabled
      BY <2>1, <3>1 DEF Row
    <3>4. QED
      BY <1>5, <2>1, <2>2, <3>2, <3>3, SameEnabled DEF JobSaves
  <2>3. CASE ~Stored(s)
    BY <1>5, <2>3 DEF JobSaves
  <2>4. QED
    BY <2>2, <2>3
<1>6. ASSUME NEW s \in Ids, NEW c \in Crons, NEW z \in Zones,
             create_schedule(s, c, z)
      PROVE  LateInv'
  BY <1>6 DEF create_schedule
<1>7. ASSUME NEW s \in Ids, delete_schedule(s) PROVE LateInv'
  BY <1>7, NullAssumption DEF delete_schedule
<1>8. CASE UpdateCommits
  <2> DEFINE s == edit.sched
  <2>1. s \in Ids /\ rows[s] \in Row /\ edit \in Edit
    BY <1>8, StoredRow DEF UpdateCommits, Edit
  <2>2. UNCHANGED due /\ Stored(s)
    BY <1>8 DEF UpdateCommits
  <2> DEFINE next == IF edit.next = NoTime THEN rows[s].next ELSE edit.next
  <2>3. next \in Nat \cup {NoTime}
    BY <2>1 DEF Edit, Row
  <2>4. CASE edit.op = "cron"
    <3>1. rows' = [rows EXCEPT ![s] =
                     [rows[s] EXCEPT !.cron = edit.cron, !.next = next]]
      BY <1>8, <2>4 DEF UpdateCommits
    <3>2. UNCHANGED lateFires
      BY <1>8, <2>4 DEF UpdateCommits
    <3>3. /\ [rows[s] EXCEPT !.cron = edit.cron, !.next = next] \in Row
          /\ [rows[s] EXCEPT !.cron = edit.cron, !.next = next].enabled
               = rows[s].enabled
      BY <2>1, <2>3 DEF Row, Edit
    <3> HIDE DEF next
    <3>4. QED
      BY <2>1, <2>2, <3>1, <3>2, <3>3, SameEnabled
  <2>5. CASE edit.op = "zone"
    <3>1. rows' = [rows EXCEPT ![s] =
                     [rows[s] EXCEPT !.tz = edit.tz, !.next = next]]
      BY <1>8, <2>5 DEF UpdateCommits
    <3>2. UNCHANGED lateFires
      BY <1>8, <2>5 DEF UpdateCommits
    <3>3. /\ [rows[s] EXCEPT !.tz = edit.tz, !.next = next] \in Row
          /\ [rows[s] EXCEPT !.tz = edit.tz, !.next = next].enabled
               = rows[s].enabled
      BY <2>1, <2>3 DEF Row, Edit
    <3> HIDE DEF next
    <3>4. QED
      BY <2>1, <2>2, <3>1, <3>2, <3>3, SameEnabled
  <2>6. CASE edit.op = "enable"
    <3>1. lateFires' = [lateFires EXCEPT ![s] = 0]
      BY <1>8, <2>6 DEF UpdateCommits
    <3>2. \A r \in Ids \ {s} : rows'[r] = rows[r]
      BY <1>8 DEF UpdateCommits
    <3>3. \A r \in Ids : Quiet(r)' => lateFires'[r] = 0
      BY <2>2, <3>1, <3>2
    <3>4. QED
      BY <2>1, <3>1, <3>3
  <2>7. CASE edit.op = "disable"
    <3>1. rows'[s] = [rows[s] EXCEPT !.enabled = FALSE]
      BY <1>8, <2>1, <2>7 DEF UpdateCommits
    <3>2. rows'[s] \in Row /\ ~rows'[s].enabled
      BY <2>1, <3>1 DEF Row
    <3>3. \A r \in Ids \ {s} : rows'[r] = rows[r]
      BY <1>8 DEF UpdateCommits
    <3>4. UNCHANGED lateFires
      BY <1>8, <2>7 DEF UpdateCommits
    <3>5. \A r \in Ids : Quiet(r)' => lateFires'[r] = 0
      BY <2>2, <3>2, <3>3, <3>4, NullAssumption
    <3>6. QED
      BY <3>4, <3>5
  <2>8. QED
    BY <2>1, <2>4, <2>5, <2>6, <2>7 DEF Edit
<1>9. CASE CommitFindsNoRow \/ CommitFails \/ Crash
  BY <1>9 DEF CommitFindsNoRow, CommitFails, Crash, AbandonPoll
<1>10. CASE UNCHANGED <<rows, due, lateFires>>
  BY <1>10
<1>11. QED
  BY <1>1, <1>2, <1>3, <1>4, <1>5, <1>6, <1>7, <1>8, <1>9, <1>10, UserSteps
  DEF Next, Loop, JobStep, PollFindsNothing, JobStart, JobStartFails,
      JobEnds, JobSaveFails, trigger_schedule_now, update_schedule,
      UpdateFindsNoRow, Elapse, vars

\* A disabled schedule runs at most once more before it is enabled again.
THEOREM DisabledQuietensCorrect == Spec => []DisabledQuietens
<1>1. TypeInv /\ LateInv => DisabledQuietens
  BY DEF LateInv
<1>2. Init => TypeInv /\ LateInv
  BY InitTypeInv, InitLateInv
<1>3. TypeInv /\ LateInv /\ [Next]_vars => (TypeInv /\ LateInv)'
  BY NextTypeInv, NextLateInv
<1>4. QED
  BY <1>1, <1>2, <1>3, PTL DEF Spec
----------------------------------------------------------------------------
(* While nothing fails, the jobs that run are those on record as running.  *)
(*                                                                         *)
(* A schedule is counted from its creation, so that there must not be      *)
(* anything of it before: a job, a row in the loop's list, a run row.      *)

Occupied == {j \in Slots : jobs[j] # NoJob}

SettleInv ==
    /\ IsFiniteSet(Occupied)
    /\ \A s \in Ids : rows[s] = NoRow =>
          s \notin due /\ running[s] = 0 /\ Alive(s) = {}
    /\ RunsSettle

LEMMA InitSettleInv == Init => SettleInv
<1> SUFFICES ASSUME Init PROVE SettleInv
  OBVIOUS
<1>1. Occupied = {} /\ \A s \in Ids : Alive(s) = {} /\ Started(s) = {}
  BY DEF Init, Occupied, Alive, Started
<1>2. QED
  BY <1>1, FS_EmptySet DEF Init, SettleInv, RunsSettle

LEMMA StartedFinite ==
    ASSUME SettleInv, NEW s \in Ids
    PROVE  IsFiniteSet(Started(s)) /\ Cardinality(Started(s)) \in Nat
<1>1. Started(s) \in SUBSET Occupied
  BY DEF Started, Alive, Occupied
<1>2. IsFiniteSet(Started(s))
  BY <1>1, FS_Subset DEF SettleInv
<1>3. QED
  BY <1>2, FS_CardinalityType

\* A step that leaves the jobs and the run rows alone, and no schedule appears.
LEMMA AsideStep ==
  ASSUME SettleInv, UNCHANGED <<jobs, running>>, faults' = 0 => faults = 0,
         \A s \in Ids : /\ rows'[s] = NoRow => rows[s] = NoRow
                        /\ Stored(s)' => Stored(s),
         \A s \in due' : s \in due \/ Stored(s)
  PROVE  SettleInv'
<1>1. Occupied' = Occupied /\ \A s \in Ids : Alive(s)' = Alive(s) /\ Started(s)' = Started(s)
  BY DEF Occupied, Alive, Started
<1>2. \A s \in Ids : rows'[s] = NoRow =>
        s \notin due' /\ running'[s] = 0 /\ Alive(s)' = {}
  BY <1>1 DEF SettleInv, Stored
<1>3. RunsSettle'
  BY <1>1 DEF SettleInv, RunsSettle
<1>4. QED
  BY <1>1, <1>2, <1>3 DEF SettleInv

\* What becomes of the jobs when one slot changes.
LEMMA OneSlot ==
  ASSUME TypeOK, SettleInv, NEW j \in Slots, NEW new, jobs' = [jobs EXCEPT ![j] = new]
  PROVE  /\ IsFiniteSet(Occupied)'
         /\ \A s \in Ids : \A i \in Slots :
              /\ i \in Alive(s)' <=> IF i = j THEN new # NoJob /\ new.sched = s
                                     ELSE i \in Alive(s)
              /\ i \in Started(s)' <=>
                    IF i = j THEN new # NoJob /\ new.sched = s /\ new.stage # "queued"
                    ELSE i \in Started(s)
<1>1. jobs'[j] = new /\ \A i \in Slots \ {j} : jobs'[i] = jobs[i]
  BY DEF TypeOK
<1>2. Occupied' \in SUBSET (Occupied \cup {j})
  BY <1>1 DEF Occupied
<1>3. IsFiniteSet(Occupied \cup {j})
  BY FS_AddElement DEF SettleInv
<1>4. IsFiniteSet(Occupied')
  BY <1>2, <1>3, FS_Subset
<1>5. QED
  BY <1>1, <1>4 DEF Alive, Started

\* A job is queued for a schedule that is or was there.
LEMMA EnqueueSettles ==
  ASSUME TypeOK, SettleInv, NEW s \in Ids, NEW c, NEW z, enqueue(s, c, z),
         rows[s] # NoRow, UNCHANGED <<rows, running, faults>>, due' \subseteq due
  PROVE  SettleInv'
<1>1. PICK j \in Slots : /\ jobs[j] = NoJob
                         /\ jobs' = [jobs EXCEPT ![j] =
                              [sched |-> s, cron |-> c, tz |-> z, now |-> clock,
                               stage |-> "queued"]]
  BY DEF enqueue
<1>2. PICK new : new = [sched |-> s, cron |-> c, tz |-> z, now |-> clock,
                        stage |-> "queued"]
  OBVIOUS
<1>3. new.sched = s /\ new.stage = "queued" /\ jobs' = [jobs EXCEPT ![j] = new]
  BY <1>1, <1>2
<1>4. \A r \in Ids : j \notin Started(r)
  BY <1>1 DEF Started, Alive
<1>5. \A r \in Ids : Started(r)' = Started(r)
  BY <1>3, <1>4, OneSlot DEF Started, Alive
<1>6. \A r \in Ids \ {s} : Alive(r)' = Alive(r)
  <2>1. \A r \in Ids : j \notin Alive(r)
    BY <1>1 DEF Alive
  <2>2. QED
    BY <1>3, <2>1, OneSlot DEF Alive
<1>7. \A r \in Ids : rows'[r] = NoRow =>
        r \notin due' /\ running'[r] = 0 /\ Alive(r)' = {}
  BY <1>6 DEF SettleInv
<1>8. RunsSettle'
  BY <1>5 DEF SettleInv, RunsSettle, Stored
<1>9. QED
  BY <1>3, <1>7, <1>8, OneSlot DEF SettleInv

\* The steps of a job: its run row comes with its start and goes with its end.
LEMMA JobSettles ==
  ASSUME TypeInv, SettleInv, NEW j \in Slots, JobStep(j)
  PROVE  SettleInv'
<1>1. /\ TypeOK /\ jobs[j] \in Job /\ jobs[j].sched \in Ids /\ jobs[j] # NoJob
      /\ faults \in Nat /\ UNCHANGED due
  BY DEF JobStep, JobStart, JobStartFails, JobEnds, JobSaves, JobSaveFails,
         TypeInv, TypeOK, Job, loop
<1>2. PICK s \in Ids : s = jobs[j].sched
  BY <1>1
<1>3. \A r \in Ids : /\ j \in Alive(r) <=> r = s
                     /\ j \in Started(r) <=> r = s /\ jobs[j].stage # "queued"
  BY <1>1, <1>2 DEF Alive, Started
<1>4. rows[s] # NoRow
  BY <1>2, <1>3 DEF SettleInv
<1>5. CASE JobStart(j)
  <2>1. PICK new : new = [jobs[j] EXCEPT !.stage = "running"]
    OBVIOUS
  <2>2. /\ new \in Job /\ new.sched = s /\ new.stage = "running"
        /\ jobs' = [jobs EXCEPT ![j] = new] /\ jobs[j].stage = "queued"
    BY <1>1, <1>2, <1>5, <2>1 DEF JobStart, Job
  <2>3. new # NoJob
    BY <2>2, NullAssumption
  <2>4. \A r \in Ids : Alive(r)' = Alive(r)
    BY <1>1, <1>3, <2>2, <2>3, OneSlot DEF Alive
  <2>5. \A r \in Ids \ {s} : Started(r)' = Started(r)
    BY <1>1, <1>3, <2>2, <2>3, OneSlot DEF Started, Alive
  <2>6. Started(s)' = Started(s) \cup {j} /\ j \notin Started(s)
    <3>1. \A i \in Slots : i \in Started(s)' <=> i = j \/ i \in Started(s)
      BY ZenonT(60), <1>1, <2>2, <2>3, OneSlot
    <3>2. Started(s)' \subseteq Slots /\ Started(s) \subseteq Slots
      BY DEF Started, Alive
    <3>3. j \notin Started(s)
      BY <1>3, <2>2
    <3>4. QED
      BY <3>1, <3>2, <3>3
  <2>7. Cardinality(Started(s)') = Cardinality(Started(s)) + 1
    BY <2>6, StartedFinite, FS_AddElement
  <2>8. /\ UNCHANGED <<rows, faults>>
        /\ running' = IF Stored(s) THEN [running EXCEPT ![s] = @ + 1] ELSE running
    BY <1>2, <1>5 DEF JobStart
  <2>9. RunsSettle'
    <3> SUFFICES ASSUME faults = 0, NEW r \in Ids, Stored(r)
                 PROVE  running'[r] = Cardinality(Started(r)')
      BY <2>8 DEF RunsSettle, Stored
    <3>1. running[r] = Cardinality(Started(r))
      BY DEF SettleInv, RunsSettle
    <3>2. CASE r = s
      BY <1>1, <2>7, <2>8, <3>1, <3>2 DEF TypeOK
    <3>3. CASE r # s
      BY <2>5, <2>8, <3>1, <3>3
    <3>4. QED
      BY <3>2, <3>3
  <2>10. \A r \in Ids : rows'[r] = NoRow =>
           r # s /\ rows[r] = NoRow /\ running'[r] = running[r]
    BY <1>1, <1>4, <2>8 DEF TypeOK
  <2>11. IsFiniteSet(Occupied)'
    BY <1>1, <2>2, OneSlot
  <2>12. QED
    BY <1>1, <2>4, <2>9, <2>10, <2>11 DEF SettleInv
<1>6. CASE JobEnds(j)
  <2>1. PICK new : new = [jobs[j] EXCEPT !.stage = "saving", !.now = clock]
    OBVIOUS
  <2>2. /\ new \in Job /\ new.sched = s /\ new.stage = "saving"
        /\ jobs' = [jobs EXCEPT ![j] = new] /\ jobs[j].stage = "running"
        /\ UNCHANGED <<rows, running, faults>>
    BY <1>1, <1>2, <1>6, <2>1 DEF JobEnds, Job, TypeOK, table
  <2>3. new # NoJob
    BY <2>2, NullAssumption
  <2>4. \A r \in Ids : Alive(r)' = Alive(r)
    BY <1>1, <1>3, <2>2, <2>3, OneSlot DEF Alive
  <2>5. \A r \in Ids : Started(r)' = Started(r)
    BY <1>1, <1>3, <2>2, <2>3, OneSlot DEF Started, Alive
  <2>6. RunsSettle'
    BY <2>2, <2>5 DEF SettleInv, RunsSettle, Stored
  <2>7. QED
    BY <1>1, <2>2, <2>4, <2>6, OneSlot DEF SettleInv
<1>7. CASE JobSaves(j) \/ JobStartFails(j) \/ JobSaveFails(j)
  <2>1. jobs' = [jobs EXCEPT ![j] = NoJob]
    BY <1>7 DEF JobSaves, JobStartFails, JobSaveFails
  <2>2. \A r \in Ids : Alive(r)' \subseteq Alive(r)
    BY <1>1, <2>1, OneSlot DEF Alive
  <2>3. /\ \A r \in Ids \ {s} : Started(r)' = Started(r)
        /\ Started(s)' = Started(s) \ {j}
    <3>1. \A r \in Ids : \A i \in Slots : i \in Started(r)' <=> i # j /\ i \in Started(r)
      BY <1>1, <2>1, OneSlot
    <3>2. \A r \in Ids : Started(r)' \subseteq Slots /\ Started(r) \subseteq Slots
      BY DEF Started, Alive
    <3>3. \A r \in Ids \ {s} : j \notin Started(r)
      BY <1>3
    <3>4. QED
      BY <3>1, <3>2, <3>3
  <2>4. \A r \in Ids \ {s} : rows'[r] = rows[r] /\ running'[r] = running[r]
    BY <1>1, <1>2, <1>7 DEF JobSaves, JobStartFails, JobSaveFails, table, TypeOK
  <2>5. rows'[s] # NoRow /\ (Stored(s)' => Stored(s))
    <3>1. CASE JobSaves(j) /\ Stored(s)
      <4>1. rows'[s] = [rows[s] EXCEPT !.next =
                          compute_next_run(jobs[j].cron, jobs[j].now, jobs[j].tz)]
        BY <1>1, <1>2, <3>1 DEF JobSaves, TypeOK
      <4>2. compute_next_run(jobs[j].cron, jobs[j].now, jobs[j].tz) \in Nat
        BY <1>1, NextRunIsLater DEF Job
      <4>3. rows'[s] \in Row
        BY <1>1, <3>1, <4>1, <4>2, StoredRow DEF Row
      <4>4. QED
        BY <3>1, <4>3, NullAssumption
    <3>2. CASE ~(JobSaves(j) /\ Stored(s))
      BY <1>2, <1>4, <1>7, <3>2 DEF JobSaves, JobStartFails, JobSaveFails, table, Stored
    <3>3. QED
      BY <3>1, <3>2
  <2>6. CASE faults' = 0 /\ Stored(s)
    <3>1. JobSaves(j) /\ faults = 0
      BY <1>1, <1>2, <1>7, <2>6 DEF JobStartFails, JobSaveFails, JobSaves, Fault
    <3>2. running' = [running EXCEPT ![s] = @ - 1] /\ jobs[j].stage = "saving"
      BY <1>2, <2>6, <3>1 DEF JobSaves
    <3>3. j \in Started(s)
      BY <1>3, <3>2
    <3>4. Cardinality(Started(s)') = Cardinality(Started(s)) - 1
      BY <2>3, <3>3, StartedFinite, FS_RemoveElement
    <3>5. running[s] = Cardinality(Started(s))
      BY <2>6, <3>1 DEF SettleInv, RunsSettle
    <3>6. running'[s] = Cardinality(Started(s)')
      BY <1>1, <3>2, <3>4, <3>5 DEF TypeOK
    <3>7. RunsSettle'
      BY <2>3, <2>4, <3>1, <3>6 DEF SettleInv, RunsSettle, Stored
    <3>8. QED
      BY ZenonT(60), <1>1, <2>1, <2>2, <2>4, <2>5, <3>7, OneSlot DEF SettleInv
  <2>7. CASE ~(faults' = 0 /\ Stored(s))
    <3>1. faults' = 0 => faults = 0
      BY <1>1, <1>7 DEF JobStartFails, JobSaveFails, JobSaves, Fault
    <3>2. RunsSettle'
      <4> SUFFICES ASSUME faults' = 0, NEW r \in Ids, Stored(r)'
                   PROVE  running'[r] = Cardinality(Started(r)')
        BY DEF RunsSettle
      <4>1. r # s
        BY <2>5, <2>7
      <4>2. Stored(r) /\ faults = 0
        BY <2>4, <3>1, <4>1 DEF Stored
      <4>3. running[r] = Cardinality(Started(r))
        BY <4>2 DEF SettleInv, RunsSettle
      <4>4. QED
        BY <2>3, <2>4, <4>1, <4>3
    <3>3. QED
      BY ZenonT(60), <1>1, <2>1, <2>2, <2>4, <2>5, <3>2, OneSlot DEF SettleInv
  <2>8. QED
    BY <2>6, <2>7
<1>8. QED
  BY <1>5, <1>6, <1>7 DEF JobStep

\* What users do: a schedule appears with nothing of it there yet, and goes
\* with its run rows.
LEMMA UserSettles ==
  ASSUME TypeInv, SettleInv, UserStep
  PROVE  SettleInv'
<1> USE DEF TypeInv, TypeOK
<1>1. ASSUME NEW s \in Ids, NEW c \in Crons, NEW z \in Zones,
             create_schedule(s, c, z)
      PROVE  SettleInv'
  <2>1. /\ rows[s] = NoRow /\ UNCHANGED <<running, jobs, due, faults>>
        /\ rows'[s] = [enabled |-> TRUE, cron |-> c, tz |-> z,
                       next |-> compute_next_run(c, clock, z)]
        /\ \A r \in Ids \ {s} : rows'[r] = rows[r]
    BY <1>1 DEF create_schedule, loop
  <2>2. rows'[s] # NoRow
    <3>1. clock \in Nat /\ compute_next_run(c, clock, z) \in Nat
      BY NextRunIsLater
    <3>2. rows'[s] \in Row
      BY <2>1, <3>1 DEF Row
    <3>3. QED
      BY <3>2, NullAssumption
  <2>3. Occupied' = Occupied /\ \A r \in Ids : Alive(r)' = Alive(r) /\ Started(r)' = Started(r)
    BY <2>1 DEF Occupied, Alive, Started
  <2>4. running[s] = 0 /\ Started(s) = {}
    BY <2>1 DEF SettleInv, Started
  <2>5. running[s] = Cardinality(Started(s))
    BY <2>4, FS_EmptySet
  <2>6. RunsSettle'
    BY <2>1, <2>3, <2>5 DEF SettleInv, RunsSettle, Stored
  <2>7. QED
    BY <2>1, <2>2, <2>3, <2>6 DEF SettleInv
<1>2. ASSUME NEW s \in Ids, delete_schedule(s) PROVE SettleInv'
  <2>1. /\ UNCHANGED <<jobs, due, faults>> /\ rows'[s] = Deleted /\ running'[s] = 0
        /\ \A r \in Ids \ {s} : rows'[r] = rows[r] /\ running'[r] = running[r]
    BY <1>2 DEF delete_schedule, loop
  <2>2. Occupied' = Occupied /\ \A r \in Ids : Alive(r)' = Alive(r) /\ Started(r)' = Started(r)
    BY <2>1 DEF Occupied, Alive, Started
  <2>3. RunsSettle'
    BY <2>1, <2>2 DEF SettleInv, RunsSettle, Stored
  <2>4. QED
    BY <2>1, <2>2, <2>3, NullAssumption DEF SettleInv
<1>3. ASSUME NEW s \in Ids, trigger_schedule_now(s) PROVE SettleInv'
  <2>1. /\ enqueue(s, rows[s].cron, UTC) /\ rows[s] # NoRow
        /\ UNCHANGED <<rows, running, faults, due>>
    BY <1>3 DEF trigger_schedule_now, table, loop, Stored
  <2>2. QED
    BY <2>1, EnqueueSettles
<1>4. CASE UpdateCommits
  <2> DEFINE s == edit.sched
  <2>1. /\ s \in Ids /\ Stored(s) /\ UNCHANGED <<jobs, running, due, faults>>
        /\ \A r \in Ids \ {s} : rows'[r] = rows[r]
    BY <1>4 DEF UpdateCommits, Edit, loop
  <2>2. edit \in Edit /\ rows[s] \in Row
    BY <1>4, <2>1, StoredRow DEF UpdateCommits
  <2>3. rows'[s] \in Row
    BY <1>4, <2>1, <2>2 DEF UpdateCommits, Edit, Row
  <2>4. QED
    BY <2>1, <2>3, NullAssumption, AsideStep DEF Stored
<1>5. CASE UNCHANGED <<rows, running, jobs, due, faults>>
  BY <1>5, AsideStep DEF Stored
<1>6. QED
  BY <1>1, <1>2, <1>3, <1>4, <1>5, UserSteps
  DEF update_schedule, UpdateFindsNoRow, table, loop

\* The loop selects and fires schedules that are or were there.
LEMMA LoopSettles ==
  ASSUME TypeInv, SettleInv, Loop
  PROVE  SettleInv'
<1> USE DEF TypeInv, TypeOK
<1>1. CASE start_scheduler
  <2>1. \A s \in Ids : rows'[s] = NoRow => rows[s] = NoRow
    <3> SUFFICES ASSUME NEW s \in Ids, rows'[s] = NoRow PROVE rows[s] = NoRow
      OBVIOUS
    <3>1. CASE Stored(s) /\ rows[s].enabled /\ rows[s].next = NoTime
      <4>1. rows'[s] = [rows[s] EXCEPT !.next =
                          compute_next_run(rows[s].cron, clock, rows[s].tz)]
        BY <1>1, <3>1 DEF start_scheduler
      <4>2. rows[s] \in Row /\ clock \in Nat
        BY <3>1, StoredRow
      <4>3. compute_next_run(rows[s].cron, clock, rows[s].tz) \in Nat
        BY <4>2, NextRunIsLater DEF Row
      <4>4. rows'[s] \in Row
        BY <4>1, <4>2, <4>3 DEF Row
      <4>5. QED
        BY <4>4, NullAssumption
    <3>2. CASE ~(Stored(s) /\ rows[s].enabled /\ rows[s].next = NoTime)
      BY <1>1, <3>2 DEF start_scheduler
    <3>3. QED
      BY <3>1, <3>2
  <2>2. \A s \in Ids : Stored(s)' => Stored(s)
    BY <1>1 DEF start_scheduler, Stored
  <2>3. QED
    BY <1>1, <2>1, <2>2, AsideStep DEF start_scheduler
<1>2. CASE Wake
  BY <1>2, AsideStep DEF Wake, due_rows, table, Stored
<1>3. CASE PollFindsNothing
  BY <1>3, AsideStep DEF PollFindsNothing, vars, table, loop, Stored
<1>4. ASSUME NEW s \in Ids, FireDue(s) PROVE SettleInv'
  <2>1. /\ enqueue(s, snap[s].cron, snap[s].tz) /\ s \in due /\ due' = due \ {s}
        /\ UNCHANGED <<rows, running, faults>>
    BY <1>4 DEF FireDue, table
  <2>2. rows[s] # NoRow
    BY <2>1 DEF SettleInv
  <2>3. QED
    BY <2>1, <2>2, EnqueueSettles
<1>5. CASE Commit
  <2>1. rows'[cur] \in Row
    <3>1. /\ Stored(cur) /\ cur \in Ids /\ snap[cur] \in Row
          /\ rows' = [rows EXCEPT ![cur].next =
                        compute_next_run(snap[cur].cron, tick, snap[cur].tz)]
      BY <1>5 DEF Commit, CopiesOK, InHand
    <3>2. compute_next_run(snap[cur].cron, tick, snap[cur].tz) \in Nat
      BY <3>1, NextRunIsLater DEF Row
    <3>3. QED
      BY <3>1, <3>2, StoredRow DEF Row
  <2>2. \A s \in Ids \ {cur} : rows'[s] = rows[s]
    BY <1>5 DEF Commit
  <2>3. Stored(cur) /\ UNCHANGED <<jobs, running, due, faults>>
    BY <1>5 DEF Commit
  <2>4. QED
    BY <2>1, <2>2, <2>3, NullAssumption, AsideStep DEF Stored
<1>6. CASE CommitFindsNoRow \/ CommitFails
  <2>1. /\ UNCHANGED <<jobs, running, rows>> /\ due' = {}
        /\ faults' = faults \/ faults' = faults + 1
    BY <1>6 DEF CommitFindsNoRow, CommitFails, AbandonPoll, Fault, table
  <2>2. QED
    BY <2>1, AsideStep DEF Stored
<1>7. QED
  BY <1>1, <1>2, <1>3, <1>4, <1>5, <1>6 DEF Loop

LEMMA NextSettles ==
  ASSUME TypeInv, SettleInv, [Next]_vars
  PROVE  SettleInv'
<1>1. CASE Loop
  BY <1>1, LoopSettles
<1>2. CASE \E j \in Slots : JobStep(j)
  BY <1>2, JobSettles
<1>3. CASE UserStep
  BY <1>3, UserSettles
<1>4. CASE Crash
  <2>1. /\ jobs' = [j \in Slots |-> NoJob] /\ due' = {}
        /\ UNCHANGED <<rows, running>> /\ faults' = faults + 1 /\ faults \in Nat
    BY <1>4 DEF Crash, Fault, table, TypeInv, TypeOK
  <2>2. Occupied' = {} /\ \A s \in Ids : Alive(s)' = {}
    BY <2>1 DEF Occupied, Alive
  <2>3. RunsSettle'
    BY <2>1 DEF RunsSettle
  <2>4. IsFiniteSet(Occupied')
    BY <2>2, FS_EmptySet
  <2>5. QED
    BY <2>1, <2>2, <2>3, <2>4 DEF SettleInv
<1>5. CASE Elapse \/ UNCHANGED vars
  BY <1>5, AsideStep DEF Elapse, vars, table, loop, Stored
<1>6. QED
  BY <1>1, <1>2, <1>3, <1>4, <1>5 DEF Next

\* While no database call failed and the process did not end, the run rows left
\* "running" are those of the jobs that run, however the jobs of a schedule
\* overlap and whatever users do to it. (core/scheduler.py _execute_schedule)
THEOREM RunsSettleCorrect == Spec => []RunsSettle
<1>1. TypeInv /\ SettleInv => RunsSettle
  BY DEF SettleInv
<1>2. Init => TypeInv /\ SettleInv
  BY InitTypeInv, InitSettleInv
<1>3. TypeInv /\ SettleInv /\ [Next]_vars => (TypeInv /\ SettleInv)'
  BY NextTypeInv, NextSettles
<1>4. QED
  BY <1>1, <1>2, <1>3, PTL DEF Spec

(***************************************************************************)
(* Wizards                                                                 *)
(***************************************************************************)
Titles == Names \cup Labels \cup Texts
LastStep(w) == IF w = "agents" THEN 14 ELSE IF w = "skills" THEN 9 ELSE 7

IsObject(o) ==
  /\ o \in [wizard : Wizard, step : Nat, data : {o.data}, overwrite : BOOLEAN, shown : BOOLEAN,
            asked : Titles \cup {None}, skipped : BOOLEAN]
  /\ o.step \in 1..LastStep(o.wizard)

DefinitionFits(o) ==
  /\ "name" \in DOMAIN o.data => o.data["name"] \in Names
  /\ o.step >= 2 => "name" \in DOMAIN o.data
  /\ o.step = LastStep(o.wizard) => o.shown
  /\ o.overwrite => o.step = LastStep(o.wizard) /\ o.asked = o.data["name"]

PlanIsTyped(o) ==
  /\ "kind" \in DOMAIN o.data => o.data["kind"] \in Kinds
  /\ "target" \in DOMAIN o.data => o.data["target"] \in Names
  /\ "prompt" \in DOMAIN o.data => o.data["prompt"].body \in Texts
  /\ \A k \in {"name", "_default_name"} : k \in DOMAIN o.data => o.data[k] \in Titles

HasKeys(o) ==
  /\ o.step >= 2 => "kind" \in DOMAIN o.data
  /\ o.step >= 4 => "prompt" \in DOMAIN o.data
  /\ o.step >= 6 => "_default_name" \in DOMAIN o.data
  /\ o.step = 7 => "name" \in DOMAIN o.data /\ o.shown
  /\ o.overwrite => {"kind", "prompt"} \subseteq DOMAIN o.data

PromptFits(o) ==
  o.step >= 4 /\ ~o.skipped =>
    /\ o.data["kind"] # "freeform" => "target" \in DOMAIN o.data
    /\ PromptMatches(o.data)

PlanFits(o) == PlanIsTyped(o) /\ HasKeys(o) /\ PromptFits(o)

Fits(o) ==
  /\ IsObject(o)
  /\ IF o.wizard = "schedule" THEN PlanFits(o) ELSE DefinitionFits(o)

LEMMA AgentStepKeys ==
  /\ DOMAIN AgentSteps = 1..14
  /\ AgentSteps[1].key = "name" /\ AgentSteps[1].takes = Names /\ AgentSteps[1].leaves = {}
  /\ AgentSteps[14].key = "review"
  /\ \A i \in 2..13 : AgentSteps[i].key \notin {"name", "review"}
<1>1. DOMAIN AgentSteps = 1..14
  BY DEF AgentSteps
<1>2. AgentSteps[1] = AgentName /\ AgentSteps[14] = Review
  BY DEF AgentSteps
<1>3. AgentName.key = "name" /\ AgentName.takes = Names /\ AgentName.leaves = {}
      /\ Review.key = "review"
  BY DEF AgentName, Review, Step
<1>4. /\ AgentDescription.key = "description"
      /\ AgentModel.key = "model"
      /\ AgentTools.key = "tools"
      /\ AgentDisallowedTools.key = "disallowedTools"
      /\ AgentSkills.key = "skills"
      /\ AgentMcpServers.key = "mcpServers"
      /\ AgentPermissionMode.key = "permissionMode"
      /\ AgentIsolation.key = "isolation"
      /\ AgentBackground.key = "background"
      /\ AgentInitialPrompt.key = "initialPrompt"
      /\ AgentColor.key = "color"
      /\ AgentSystemPrompt.key = "system_prompt"
  <2>1. AgentDescription.key = "description"
    BY DEF AgentDescription, Step, Required, Optional, OptionalList
  <2>2. AgentModel.key = "model"
    BY DEF AgentModel, Step, Required, Optional, OptionalList
  <2>3. AgentTools.key = "tools"
    BY DEF AgentTools, Step, Required, Optional, OptionalList
  <2>4. AgentDisallowedTools.key = "disallowedTools"
    BY DEF AgentDisallowedTools, Step, Required, Optional, OptionalList
  <2>5. AgentSkills.key = "skills"
    BY DEF AgentSkills, Step, Required, Optional, OptionalList
  <2>6. AgentMcpServers.key = "mcpServers"
    BY DEF AgentMcpServers, Step, Required, Optional, OptionalList
  <2>7. AgentPermissionMode.key = "permissionMode"
    BY DEF AgentPermissionMode, Step, Required, Optional, OptionalList
  <2>8. AgentIsolation.key = "isolation"
    BY DEF AgentIsolation, Step, Required, Optional, OptionalList
  <2>9. AgentBackground.key = "background"
    BY DEF AgentBackground, Step, Required, Optional, OptionalList
  <2>10. AgentInitialPrompt.key = "initialPrompt"
    BY DEF AgentInitialPrompt, Step, Required, Optional, OptionalList
  <2>11. AgentColor.key = "color"
    BY DEF AgentColor, Step, Required, Optional, OptionalList
  <2>12. AgentSystemPrompt.key = "system_prompt"
    BY DEF AgentSystemPrompt, Step, Required, Optional, OptionalList
  <2> QED BY <2>1, <2>2, <2>3, <2>4, <2>5, <2>6, <2>7, <2>8, <2>9, <2>10, <2>11, <2>12
<1>5. ASSUME NEW i \in 2..13
      PROVE  AgentSteps[i].key \notin {"name", "review"}
  <2>1. AgentSteps[i] \in {AgentDescription, AgentModel, AgentTools, AgentDisallowedTools,
                AgentSkills, AgentMcpServers, AgentPermissionMode, AgentIsolation,
                AgentBackground, AgentInitialPrompt, AgentColor, AgentSystemPrompt}
    BY SMTT(30) DEF AgentSteps
  <2> QED BY <2>1, <1>4
<1> QED BY <1>1, <1>2, <1>3, <1>5

LEMMA SkillStepKeys ==
  /\ DOMAIN SkillSteps = 1..9
  /\ SkillSteps[1].key = "name" /\ SkillSteps[1].takes = Names /\ SkillSteps[1].leaves = {}
  /\ SkillSteps[9].key = "review"
  /\ \A i \in 2..8 : SkillSteps[i].key \notin {"name", "review"}
<1>1. DOMAIN SkillSteps = 1..9
  BY DEF SkillSteps
<1>2. SkillSteps[1] = SkillName /\ SkillSteps[9] = Review
  BY DEF SkillSteps
<1>3. SkillName.key = "name" /\ SkillName.takes = Names /\ SkillName.leaves = {}
      /\ Review.key = "review"
  BY DEF SkillName, Review, Step
<1>4. /\ SkillDescription.key = "description"
      /\ SkillArgumentHint.key = "argument_hint"
      /\ SkillTools.key = "tools"
      /\ SkillUserInvocable.key = "user_invocable"
      /\ SkillDisableModelInvocation.key = "disable_model_invocation"
      /\ SkillContext.key = "context"
      /\ SkillPrompt.key = "prompt"
  <2>1. SkillDescription.key = "description"
    BY DEF SkillDescription, Step, Required, Optional, OptionalList
  <2>2. SkillArgumentHint.key = "argument_hint"
    BY DEF SkillArgumentHint, Step, Required, Optional, OptionalList
  <2>3. SkillTools.key = "tools"
    BY DEF SkillTools, Step, Required, Optional, OptionalList
  <2>4. SkillUserInvocable.key = "user_invocable"
    BY DEF SkillUserInvocable, Step, Required, Optional, OptionalList
  <2>5. SkillDisableModelInvocation.key = "disable_model_invocation"
    BY DEF SkillDisableModelInvocation, Step, Required, Optional, OptionalList
  <2>6. SkillContext.key = "context"
    BY DEF SkillContext, Step, Required, Optional, OptionalList
  <2>7. SkillPrompt.key = "prompt"
    BY DEF SkillPrompt, Step, Required, Optional, OptionalList
  <2> QED BY <2>1, <2>2, <2>3, <2>4, <2>5, <2>6, <2>7
<1>5. ASSUME NEW i \in 2..8
      PROVE  SkillSteps[i].key \notin {"name", "review"}
  <2>1. SkillSteps[i] \in {SkillDescription, SkillArgumentHint, SkillTools, SkillUserInvocable,
                SkillDisableModelInvocation, SkillContext, SkillPrompt}
    BY SMTT(30) DEF SkillSteps
  <2> QED BY <2>1, <1>4
<1> QED BY <1>1, <1>2, <1>3, <1>5

LEMMA ScheduleStepKeys ==
  /\ DOMAIN ScheduleSteps = 1..7
  /\ ScheduleSteps[1] = Step("kind", Kinds, {}) /\ ScheduleSteps[2] = Step("target", Names, {})
  /\ ScheduleSteps[3] = Step("prompt", Texts, {}) /\ ScheduleSteps[4] = Step("cron", Texts, {})
  /\ ScheduleSteps[5] = Step("timezone", {"UTC", "skip"}, {})
  /\ ScheduleSteps[6] = Step("name", Labels \cup {"skip"}, {})
  /\ ScheduleSteps[7] = Step("review", {}, {})
BY DEF ScheduleSteps, ScheduleKind, ScheduleTarget, SchedulePrompt, ScheduleWhen,
       ScheduleTimezone, ScheduleName, Review

LEMMA StepDomain ==
  ASSUME NEW w \in Wizard
  PROVE  DOMAIN Steps(w) = 1..LastStep(w)
BY AgentStepKeys, SkillStepKeys, ScheduleStepKeys DEF Steps, Wizard, LastStep

LEMMA ReplyIsOffered ==
  ASSUME NEW o, NEW r \in Replies(o), Current(o).takes \cup Current(o).leaves # {}
  PROVE  r \in Current(o).takes \cup Current(o).leaves
<1> DEFINE S == IF Current(o).leaves # {} THEN Current(o).leaves ELSE Current(o).takes
<1>1. S # {} /\ S \subseteq Current(o).takes \cup Current(o).leaves  OBVIOUS
<1>2. (CHOOSE x \in S : TRUE) \in S  BY <1>1, Zenon
<1> QED BY <1>1, <1>2 DEF Replies

LEMMA DefinitionKeys ==
  ASSUME NEW o, IsObject(o), o.wizard # "schedule"
  PROVE  /\ Current(o).key = "name" <=> o.step = 1
         /\ Current(o).key = "review" <=> o.step = LastStep(o.wizard)
         /\ o.step = 1 => Current(o).takes = Names /\ Current(o).leaves = {}
         /\ LastStep(o.wizard) \in {9, 14} /\ o.step \in Nat
<1>1. CASE o.wizard = "agents"
  BY <1>1, AgentStepKeys DEF IsObject, Current, Steps, LastStep
<1>2. CASE o.wizard = "skills"
  BY <1>2, SkillStepKeys DEF IsObject, Current, Steps, LastStep
<1> QED BY <1>1, <1>2 DEF IsObject, Wizard

LEMMA PlanKeys ==
  ASSUME NEW o, IsObject(o), o.wizard = "schedule"
  PROVE  Current(o) = CASE o.step = 1 -> Step("kind", Kinds, {})
                        [] o.step = 2 -> Step("target", Names, {})
                        [] o.step = 3 -> Step("prompt", Texts, {})
                        [] o.step = 4 -> Step("cron", Texts, {})
                        [] o.step = 5 -> Step("timezone", {"UTC", "skip"}, {})
                        [] o.step = 6 -> Step("name", Labels \cup {"skip"}, {})
                        [] o.step = 7 -> Step("review", {}, {})
BY ScheduleStepKeys DEF IsObject, Current, Steps, LastStep

LEMMA ConsumeFitsDefinition ==
  ASSUME NEW o, Fits(o), o.wizard # "schedule", ~o.overwrite, Current(o).key # "review",
         NEW r \in Replies(o)
  PROVE  /\ Fits(Consume(o, r)) /\ Consume(o, r).wizard = o.wizard
<1> DEFINE data == IF r \in Current(o).takes THEN With(o.data, Current(o).key, Kept(o, r))
                   ELSE o.data
           sh == o.shown /\ data = o.data
           sk == o.skipped /\ ~(o.wizard = "schedule" /\ o.step = 3)
           mid == [o EXCEPT !.step = o.step + 1, !.data = data, !.shown = sh, !.skipped = sk]
<1>1. IsObject(o) /\ DefinitionFits(o)
  BY DEF Fits
<1>2. o.step < LastStep(o.wizard)
  BY <1>1, DefinitionKeys DEF IsObject
<1>3. /\ "name" \in DOMAIN data
      /\ data["name"] \in Names
  <2>1. CASE o.step = 1
    <3>1. Current(o).key = "name" /\ Current(o).takes = Names /\ Current(o).leaves = {}
      BY <2>1, <1>1, DefinitionKeys
    <3>2. r \in Names
      BY <3>1, ReplyIsOffered, WizardAssumption
    <3>3. Kept(o, r) = r
      BY <3>1, Zenon DEF Kept
    <3> QED BY <3>1, <3>2, <3>3 DEF With
  <2>2. CASE o.step >= 2
    <3>1. Current(o).key # "name" /\ "name" \in DOMAIN o.data /\ o.data["name"] \in Names
      BY <2>2, <1>1, DefinitionKeys DEF DefinitionFits
    <3> QED BY <3>1 DEF With
  <2> QED BY <2>1, <2>2, <1>1, DefinitionKeys DEF IsObject
<1>4. IsObject(mid) /\ mid.wizard = o.wizard /\ mid.data = data /\ mid.step = o.step + 1
      /\ ~mid.overwrite
  <2>1. sh \in BOOLEAN /\ sk \in BOOLEAN /\ (sk <=> o.skipped /\ ~(o.wizard = "schedule" /\ o.step = 3))
    BY <1>1, Zenon DEF IsObject
  <2> HIDE DEF data, sh, sk
  <2>2. /\ mid.wizard = o.wizard /\ mid.step = o.step + 1 /\ mid.data = data
        /\ mid.overwrite = o.overwrite /\ mid.asked = o.asked /\ mid.skipped = sk
        /\ mid \in [wizard : Wizard, step : Nat, data : {data}, overwrite : BOOLEAN,
                   shown : BOOLEAN, asked : Titles \cup {None}, skipped : BOOLEAN]
    <3>1. o.step + 1 \in Nat
      BY <1>1 DEF IsObject
    <3> HIDE DEF Titles
    <3> QED BY <2>1, <3>1, <1>1 DEF IsObject
  <2> HIDE DEF mid
  <2> QED BY <2>1, <2>2, <1>1, <1>2, DefinitionKeys DEF IsObject
<1>5. Consume(o, r) = Asked(mid)
  BY DEF Consume, NextStep
<1> HIDE DEF data, mid
<1>6. CASE mid.step = LastStep(o.wizard)
  <2>1. Asked(mid) = [mid EXCEPT !.shown = TRUE]
    BY <1>4, <1>6, DefinitionKeys DEF Asked
  <2> HIDE DEF Asked
  <2>2. /\ IsObject(Asked(mid)) /\ Asked(mid).wizard = o.wizard /\ Asked(mid).data = data
        /\ Asked(mid).shown /\ ~Asked(mid).overwrite
    BY <2>1, <1>4 DEF IsObject
  <2> QED BY <2>2, <1>3, <1>4, <1>5 DEF Fits, DefinitionFits
<1>7. CASE mid.step # LastStep(o.wizard)
  <2>1. Asked(mid) = mid
    BY <1>4, <1>7, DefinitionKeys DEF Asked
  <2> QED BY <2>1, <1>3, <1>4, <1>5, <1>7, DefinitionKeys DEF Fits, IsObject, DefinitionFits
<1> QED BY <1>6, <1>7

IsReady(m) ==
  /\ m.step >= 2 => "kind" \in DOMAIN m.data
  /\ m.step >= 4 => "prompt" \in DOMAIN m.data
  /\ m.step = 7 => {"name", "_default_name"} \subseteq DOMAIN m.data
  /\ ~m.overwrite

LEMMA AskedFitsPlan ==
  ASSUME NEW m, IsObject(m), m.wizard = "schedule", PlanIsTyped(m), PromptFits(m), IsReady(m)
  PROVE  /\ Fits(Asked(m)) /\ Asked(m).wizard = "schedule"
         /\ DOMAIN m.data \subseteq DOMAIN Asked(m).data
<1>1. m.step \in 1..7
  BY DEF IsObject, LastStep
<1>2. CASE m.step = 7
  <2>1. Asked(m) = [m EXCEPT !.shown = TRUE]
    BY <1>2, PlanKeys DEF Asked, Step
  <2> HIDE DEF Asked
  <2>2. IsObject(Asked(m))
    BY <2>1 DEF IsObject
  <2> QED BY <1>2, <2>1, <2>2
          DEF IsObject, Fits, PlanFits, PlanIsTyped, PromptFits, HasKeys, IsReady
<1>3. CASE m.step = 6 /\ "_default_name" \notin DOMAIN m.data
  <2> DEFINE default == DefaultName(m.data)
             data == With(m.data, "_default_name", default)
  <2>1. Asked(m) = [m EXCEPT !.data = data]
    BY <1>3, PlanKeys DEF Asked, Step, IsObject
  <2>2. default \in Titles
    BY <1>3 DEF DefaultName, IsReady, PlanIsTyped, Titles
  <2> HIDE DEF default
  <2>3. /\ DOMAIN data = DOMAIN m.data \cup {"_default_name"} /\ data["_default_name"] = default
        /\ \A k \in DOMAIN m.data \ {"_default_name"} : data[k] = m.data[k]
    BY DEF With
  <2> HIDE DEF data
  <2>4. /\ IsObject(Asked(m)) /\ Asked(m).data = data /\ Asked(m).step = 6
        /\ Asked(m).wizard = "schedule" /\ ~Asked(m).overwrite
        /\ Asked(m).skipped = m.skipped
    BY <2>1, <1>3 DEF IsObject, IsReady
  <2>5. PlanIsTyped(Asked(m))
    BY <2>2, <2>3, <2>4 DEF PlanIsTyped
  <2>6. HasKeys(Asked(m))
    BY <1>3, <2>3, <2>4 DEF HasKeys, IsReady
  <2>7. data["prompt"] = m.data["prompt"] /\ data["kind"] = m.data["kind"]
        /\ ("target" \in DOMAIN m.data => data["target"] = m.data["target"])
    BY <1>3, <2>3 DEF IsReady
  <2>8. PromptFits(Asked(m))
    BY <1>3, <2>3, <2>4, <2>7 DEF PromptFits, PromptMatches
  <2> QED BY <2>3, <2>4, <2>5, <2>6, <2>8 DEF Fits, PlanFits
<1>4. CASE m.step # 7 /\ (m.step = 6 => "_default_name" \in DOMAIN m.data)
  <2>1. Asked(m) = IF m.step = 6 THEN [m EXCEPT !.data = m.data] ELSE m
    BY <1>1, <1>4, PlanKeys DEF Asked, Step, IsObject
  <2>2. /\ IsObject(Asked(m)) /\ Asked(m).data = m.data /\ Asked(m).step = m.step
        /\ Asked(m).wizard = "schedule" /\ ~Asked(m).overwrite
        /\ Asked(m).skipped = m.skipped
    BY <2>1 DEF IsObject, IsReady
  <2> QED BY <1>1, <1>4, <2>2 DEF Fits, PlanFits, PlanIsTyped, PromptFits, HasKeys, IsReady
<1> QED BY <1>1, <1>2, <1>3, <1>4

LEMMA ConsumeFitsPlan ==
  ASSUME NEW o, Fits(o), o.wizard = "schedule", ~o.overwrite, Current(o).key # "review",
         ~Raises(o), NEW r \in Replies(o)
  PROVE  /\ Fits(Consume(o, r)) /\ Consume(o, r).wizard = o.wizard
         /\ DOMAIN o.data \subseteq DOMAIN Consume(o, r).data
<1> DEFINE v == Kept(o, r)
           key == Current(o).key
           data == With(o.data, key, v)
           sh == o.shown /\ data = o.data
           sk == o.skipped /\ ~(o.wizard = "schedule" /\ o.step = 3)
           mid == [o EXCEPT !.step = NextStep(o, r), !.data = data, !.shown = sh, !.skipped = sk]
<1>1. IsObject(o) /\ PlanIsTyped(o) /\ HasKeys(o) /\ PromptFits(o)
  BY DEF Fits, PlanFits
<1>2. o.step \in 1..6
  BY <1>1, PlanKeys DEF IsObject, LastStep, Step
<1>3. r \in Current(o).takes
  <2>1. Current(o).takes # {} /\ Current(o).leaves = {}
    BY <1>1, <1>2, PlanKeys, WizardAssumption DEF Step
  <2> QED BY <2>1, ReplyIsOffered
<1>4. Consume(o, r) = Asked(mid)
  BY <1>3 DEF Consume
<1>5. NextStep(o, r) \in 2..7 /\ (NextStep(o, r) = o.step + 1 \/ (o.step = 1 /\ NextStep(o, r) = 3))
  BY <1>2 DEF NextStep
<1>6. IsObject(mid) /\ mid.wizard = "schedule" /\ mid.data = data /\ mid.step = NextStep(o, r)
      /\ ~mid.overwrite /\ mid.asked = o.asked
      /\ (mid.skipped <=> o.skipped /\ o.step # 3)
  <2>1. sh \in BOOLEAN /\ sk \in BOOLEAN /\ (sk <=> o.skipped /\ ~(o.wizard = "schedule" /\ o.step = 3))
    BY <1>1, Zenon DEF IsObject
  <2> HIDE DEF data, sh, sk
  <2>2. /\ mid.wizard = o.wizard /\ mid.step = NextStep(o, r) /\ mid.data = data
        /\ mid.overwrite = o.overwrite /\ mid.asked = o.asked /\ mid.skipped = sk
        /\ mid \in [wizard : Wizard, step : Nat, data : {data}, overwrite : BOOLEAN,
                   shown : BOOLEAN, asked : Titles \cup {None}, skipped : BOOLEAN]
    <3>1. NextStep(o, r) \in Nat
      BY <1>1, <1>5 DEF IsObject
    <3> HIDE DEF Titles
    <3> QED BY <2>1, <3>1, <1>1 DEF IsObject
  <2> HIDE DEF mid
  <2> QED BY <2>1, <2>2, <1>1, <1>5 DEF IsObject, LastStep
<1>7. /\ DOMAIN data = DOMAIN o.data \cup {key} /\ data[key] = v
      /\ \A k \in DOMAIN o.data \ {key} : data[k] = o.data[k]
  <2> HIDE DEF v, key
  <2> QED BY DEF With
<1>8. /\ key = "kind" <=> o.step = 1
      /\ key = "target" <=> o.step = 2
      /\ key = "prompt" <=> o.step = 3
      /\ key = "name" <=> o.step = 6
      /\ key # "_default_name"
  BY <1>1, <1>2, PlanKeys DEF Step
<1>9. /\ key = "kind" => v \in Kinds
      /\ key = "target" => v \in Names
      /\ key = "prompt" => v = PromptFor(o.data, r) /\ r \in Texts
      /\ key = "name" => v \in Titles
  <2>1. CASE o.step \in {1, 2}
    BY <2>1, <1>1, <1>3, <1>8, PlanKeys DEF Kept, Step
  <2>2. CASE o.step = 3
    BY <2>2, <1>1, <1>3, <1>8, PlanKeys DEF Kept, Step
  <2>3. CASE o.step = 6
    <3>1. v = IF r = "skip" THEN o.data["_default_name"] ELSE r
      BY <2>3, <1>8 DEF Kept
    <3>2. r \in Labels \cup {"skip"}
      BY <2>3, <1>1, <1>3, PlanKeys DEF Step
    <3> QED BY <2>3, <3>1, <3>2, <1>1, <1>8 DEF HasKeys, PlanIsTyped, Titles
  <2>4. CASE o.step \in {4, 5}
    BY <2>4, <1>8
  <2> QED BY <1>2, <2>1, <2>2, <2>3, <2>4
<1> HIDE DEF data, mid, v, key
<1>10. PlanIsTyped(mid)
  <2>1. "prompt" \in DOMAIN data => data["prompt"].body \in Texts
    <3>1. key = "prompt" => v.body \in Texts
      BY <1>9 DEF PromptFor
    <3> QED BY <3>1, <1>1, <1>7 DEF PlanIsTyped
  <2> QED BY <2>1, <1>1, <1>6, <1>7, <1>8, <1>9 DEF PlanIsTyped
<1>11. IsReady(mid)
  BY <1>1, <1>2, <1>5, <1>6, <1>7, <1>8 DEF IsReady, HasKeys
<1>12. PromptFits(mid)
  <2>1. CASE o.step = 3
    <3>1. /\ o.data["kind"] # "freeform" => "target" \in DOMAIN o.data
          /\ "kind" \in DOMAIN o.data
      BY <2>1, <1>1 DEF Raises, HasKeys
    <3>2. /\ data["kind"] = o.data["kind"]
          /\ "target" \in DOMAIN o.data => data["target"] = o.data["target"]
          /\ data["prompt"] = PromptFor(o.data, r)
      BY <3>1, <2>1, <1>7, <1>8, <1>9
    <3> QED BY <3>1, <3>2, <1>6, <1>7 DEF PromptFits, PromptMatches, PromptFor
  <2>2. CASE o.step >= 4
    <3>1. /\ "prompt" \in DOMAIN o.data /\ "kind" \in DOMAIN o.data
      BY <2>2, <1>1, <1>2 DEF HasKeys
    <3>2. /\ data["kind"] = o.data["kind"] /\ data["prompt"] = o.data["prompt"]
          /\ "target" \in DOMAIN o.data => data["target"] = o.data["target"]
      BY <3>1, <2>2, <1>7, <1>8
    <3> QED BY <3>1, <3>2, <2>2, <1>1, <1>2, <1>6, <1>7 DEF PromptFits, PromptMatches
  <2>3. CASE o.step \in {1, 2}
    <3>1. mid.step \in 2..3
      BY <2>3, <1>5, <1>6
    <3>2. ~(mid.step >= 4)
      BY <3>1
    <3> QED BY <3>2 DEF PromptFits
  <2> QED BY <2>1, <2>2, <2>3, <1>2
<1> QED BY <1>4, <1>6, <1>7, <1>10, <1>11, <1>12, AskedFitsPlan

LEMMA BackFits ==
  ASSUME NEW o, Fits(o), o.overwrite \/ o.step > 1
  PROVE  /\ Fits(StepBack(o)) /\ StepBack(o).wizard = o.wizard
         /\ o.wizard = "schedule" => DOMAIN o.data \subseteq DOMAIN StepBack(o).data
<1>1. CASE o.overwrite
  <2>1. StepBack(o) = [o EXCEPT !.overwrite = FALSE, !.asked = None, !.shown = TRUE]
    BY <1>1 DEF StepBack
  <2> HIDE DEF StepBack
  <2>2. /\ IsObject(StepBack(o)) /\ StepBack(o).data = o.data /\ StepBack(o).step = o.step
        /\ StepBack(o).wizard = o.wizard /\ ~StepBack(o).overwrite /\ StepBack(o).shown
        /\ StepBack(o).skipped = o.skipped
    BY <2>1 DEF IsObject, Fits
  <2> QED BY <2>2 DEF Fits, PlanFits, PlanIsTyped, PromptFits, HasKeys, DefinitionFits
<1>2. CASE ~o.overwrite
  <2> DEFINE back == PreviousStep(o)
             mid == [o EXCEPT !.step = back]
  <2>1. StepBack(o) = Asked(mid)
    BY <1>2 DEF StepBack
  <2>2. back \in 1..(o.step - 1) /\ back < LastStep(o.wizard)
    BY <1>2, DefinitionKeys DEF PreviousStep, Fits, IsObject, LastStep
  <2> HIDE DEF back
  <2>3. o \in [wizard : Wizard, step : Nat, data : {o.data}, overwrite : BOOLEAN,
                   shown : BOOLEAN, asked : Titles \cup {None}, skipped : BOOLEAN] /\ o.step \in 1..LastStep(o.wizard)
    BY DEF Fits, IsObject
  <2>4. LastStep(o.wizard) \in Nat
    BY DEF LastStep
  <2>5. back \in 1..LastStep(o.wizard)
    BY <2>2, <2>3, <2>4
  <2>6. IsObject(mid) /\ mid.wizard = o.wizard /\ mid.data = o.data /\ mid.step = back
        /\ ~mid.overwrite /\ mid.skipped = o.skipped
    BY <1>2, <2>3, <2>5 DEF IsObject
  <2> HIDE DEF mid
  <2>7. CASE o.wizard = "schedule"
    <3>1. PlanIsTyped(mid) /\ IsReady(mid) /\ PromptFits(mid)
      BY <2>2, <2>6, <2>7
      DEF Fits, PlanFits, PlanIsTyped, HasKeys, IsReady, PromptFits, IsObject, LastStep
    <3> QED BY <2>1, <2>6, <2>7, <3>1, AskedFitsPlan
  <2>8. CASE o.wizard # "schedule"
    <3>1. Asked(mid) = mid
      BY <2>2, <2>6, <2>8, DefinitionKeys DEF Asked
    <3> QED BY <2>1, <2>2, <2>6, <2>8, <3>1 DEF Fits, DefinitionFits, IsObject
  <2> QED BY <2>7, <2>8
<1> QED BY <1>1, <1>2

LEMMA RenameFits ==
  ASSUME NEW o, Fits(o), o.wizard = "schedule", o.overwrite
  PROVE  /\ Fits(Rename(o)) /\ Rename(o).wizard = "schedule"
         /\ DOMAIN o.data \ {"name"} \subseteq DOMAIN Rename(o).data
<1> DEFINE data == Without(o.data, "name")
           sk == o.skipped \/ o.step <= 3
           mid == [o EXCEPT !.overwrite = FALSE, !.asked = None, !.shown = FALSE, !.step = 6,
                            !.data = data, !.skipped = sk]
<1>1. IsObject(o) /\ PlanIsTyped(o) /\ HasKeys(o) /\ PromptFits(o)
  BY DEF Fits, PlanFits
<1>2. Rename(o) = Asked(mid)
  BY DEF Rename
<1>3. /\ DOMAIN data = DOMAIN o.data \ {"name"}
      /\ \A k \in DOMAIN data : data[k] = o.data[k]
  BY DEF Without
<1>4. sk \in BOOLEAN /\ (sk <=> o.skipped \/ o.step <= 3)
  BY Zenon
<1> HIDE DEF data, sk
<1>5. IsObject(mid) /\ mid.wizard = "schedule" /\ mid.data = data /\ mid.step = 6
      /\ ~mid.overwrite /\ mid.skipped = sk
  <2>1. /\ mid \in [wizard : Wizard, step : Nat, data : {data}, overwrite : BOOLEAN,
                   shown : BOOLEAN, asked : Titles \cup {None}, skipped : BOOLEAN]
        /\ mid.wizard = o.wizard /\ mid.data = data /\ mid.step = 6 /\ mid.overwrite = FALSE
        /\ mid.skipped = sk
    BY <1>1, <1>4 DEF IsObject
  <2> HIDE DEF mid
  <2> QED BY <2>1 DEF IsObject, LastStep
<1> HIDE DEF mid
<1>6. PlanIsTyped(mid) /\ IsReady(mid)
  BY <1>1, <1>3, <1>5 DEF PlanIsTyped, IsReady, HasKeys
<1>7. PromptFits(mid)
  <2>1. data["kind"] = o.data["kind"] /\ data["prompt"] = o.data["prompt"]
        /\ ("target" \in DOMAIN o.data => "target" \in DOMAIN data)
        /\ ("target" \in DOMAIN data => data["target"] = o.data["target"])
    BY <1>1, <1>3 DEF HasKeys
  <2>2. ~sk => o.step >= 4 /\ ~o.skipped
    BY <1>1, <1>4 DEF IsObject
  <2> QED BY <2>1, <2>2, <1>1, <1>5 DEF PromptFits, PromptMatches
<1> QED BY <1>2, <1>3, <1>5, <1>6, <1>7, AskedFitsPlan

LEMMA AskOverwriteFits ==
  ASSUME NEW o, Fits(o), o.wizard # "schedule", Current(o).key = "review"
  PROVE  Fits(AskOverwrite(o)) /\ AskOverwrite(o).wizard = o.wizard
<1>1. IsObject(o) /\ DefinitionFits(o) /\ o.step = LastStep(o.wizard)
  BY DefinitionKeys DEF Fits
<1>2. o.data["name"] \in Names
  BY <1>1, DefinitionKeys DEF DefinitionFits
<1>3. AskOverwrite(o) = [o EXCEPT !.overwrite = TRUE, !.asked = o.data["name"]]
  BY DEF AskOverwrite
<1> DEFINE new == AskOverwrite(o)
<1>4. /\ new \in [wizard : Wizard, step : Nat, data : {o.data}, overwrite : BOOLEAN,
                   shown : BOOLEAN, asked : Titles \cup {None}, skipped : BOOLEAN]
      /\ new.wizard = o.wizard /\ new.data = o.data /\ new.step = o.step
      /\ new.shown = o.shown /\ new.asked = o.data["name"]
  BY <1>1, <1>2, <1>3 DEF IsObject, Titles
<1> HIDE DEF new
<1>5. IsObject(new) /\ DefinitionFits(new)
  BY <1>1, <1>2, <1>4 DEF IsObject, DefinitionFits
<1> QED BY <1>4, <1>5 DEF Fits, new

LEMMA NewWizardFits ==
  ASSUME NEW w \in Wizard, NEW hint \in Existing \cup {None}, w = "schedule" => hint = None
  PROVE  Fits(IF hint = None THEN NewWizard(w)
              ELSE [NewWizard(w) EXCEPT !.step = 2, !.data = With(<<>>, "name", hint)])
<1> DEFINE o == IF hint = None THEN NewWizard(w)
                ELSE [NewWizard(w) EXCEPT !.step = 2, !.data = With(<<>>, "name", hint)]
           name == With(<<>>, "name", hint)
<1> SUFFICES Fits(o)
  OBVIOUS
<1>1. CASE hint = None
  <2>1. o = NewWizard(w) /\ DOMAIN o.data = {}
    BY <1>1 DEF NewWizard
  <2> HIDE DEF o
  <2>2. /\ o \in [wizard : Wizard, step : Nat, data : {o.data}, overwrite : BOOLEAN,
                   shown : BOOLEAN, asked : Titles \cup {None}, skipped : BOOLEAN]
        /\ o.wizard = w /\ o.step = 1 /\ ~o.overwrite
    BY <2>1 DEF NewWizard
  <2>3. IsObject(o)
    BY <2>2 DEF IsObject, LastStep
  <2> QED BY <2>1, <2>2, <2>3 DEF Fits, DefinitionFits, PlanFits, PlanIsTyped, HasKeys,
                                  PromptFits, LastStep
<1>2. CASE hint # None
  <2>1. "name" \in DOMAIN name /\ name["name"] = hint /\ hint \in Names
    BY <1>2, WizardAssumption DEF With
  <2> HIDE DEF name
  <2>2. o = [NewWizard(w) EXCEPT !.step = 2, !.data = name]
    BY <1>2 DEF name
  <2> HIDE DEF o
  <2>3. /\ o \in [wizard : Wizard, step : Nat, data : {name}, overwrite : BOOLEAN,
                 shown : BOOLEAN, asked : Titles \cup {None}, skipped : BOOLEAN]
        /\ o.wizard = w /\ o.step = 2 /\ o.data = name /\ ~o.overwrite
    BY <2>2 DEF NewWizard
  <2>4. w # "schedule" /\ LastStep(w) \in {9, 14}
    BY <1>2 DEF LastStep, Wizard
  <2>5. IsObject(o) /\ DefinitionFits(o)
    BY <2>1, <2>3, <2>4 DEF IsObject, DefinitionFits
  <2> QED BY <2>3, <2>4, <2>5 DEF Fits
<1> QED BY <1>1, <1>2

(* ------------------------ the inductive invariant ------------------------ *)
Elements(h) == {h[i] : i \in DOMAIN h}
GoodHeap(h) ==
  /\ h \in Seq(Elements(h))
  /\ \A i \in DOMAIN h : h[i] = Gone \/ Fits(h[i])

ActiveFits(h, w, i) == i = 0 \/ (i \in DOMAIN h /\ Fits(h[i]) /\ h[i].wizard = w)
GoodActive(h, act) ==
  /\ DOMAIN act = Wizard
  /\ \A w \in Wizard : ActiveFits(h, w, act[w])

IsPlan(o) == Fits(o) /\ o.wizard = "schedule" /\ {"kind", "prompt"} \subseteq DOMAIN o.data
RowFits(s) == s.name \in Titles /\ (s.skipped \/ PromptMatches(s))

WaitFits(h, t) ==
  /\ t.at \in {"idle", "command", "sync", "create"}
  /\ t.at = "command" => /\ t.wizard \in Wizard /\ t.hint \in Existing \cup {None}
                         /\ t.wizard = "schedule" => t.hint = None
  /\ t.at = "sync" => t.data.name \in Names
  /\ t.at = "create" => t.of \in DOMAIN h /\ IsPlan(h[t.of]) /\ RowFits(t.data)
GoodTurns(h, waits) == DOMAIN waits = Cids /\ \A c \in Cids : WaitFits(h, waits[c])

RowsAreOwned ==
  \A n \in Names : agentRow[n] # None => agentRow[n].source \in {"user", "yaml"}
FilesAreKept ==
  /\ DOMAIN agentFile = Names /\ DOMAIN agentRow = Names
  /\ DOMAIN skillFile = Names /\ DOMAIN registry = Names
  /\ RowsAreOwned

OutcomesHold ==
  /\ \A s \in schedules : RowFits(s)
  /\ said.what \in {"skill created", "agent created"} => said.name \in Names
  /\ said.what = "skill created" => registry[said.name] = skillFile[said.name]
  /\ said.what = "agent created" => agentRow[said.name].source = "user"

ObjectsFit(h, act, waits) == GoodHeap(h) /\ GoodActive(h, act) /\ GoodTurns(h, waits)
WizardInv == ObjectsFit(heap, active, turn) /\ FilesAreKept /\ OutcomesHold

LiveIn(h, act, waits) ==
  [i \in DOMAIN h |->
     IF \/ \E w \in Wizard : act[w] = i
        \/ \E c \in Cids : waits[c].at = "create" /\ waits[c].of = i
     THEN h[i] ELSE Gone]

LEMMA LiveKeeps ==
  ASSUME NEW h, NEW act, NEW waits, ObjectsFit(h, act, waits)
  PROVE  ObjectsFit(LiveIn(h, act, waits), act, waits)
<1> DEFINE kept == LiveIn(h, act, waits)
<1>1. DOMAIN kept = DOMAIN h /\ \A i \in DOMAIN h : kept[i] = h[i] \/ kept[i] = Gone
  BY DEF LiveIn
<1>2. kept \in Seq(Elements(kept))
  BY DEF ObjectsFit, GoodHeap, Elements, LiveIn
<1>3. \A w \in Wizard : act[w] \in DOMAIN h => kept[act[w]] = h[act[w]]
  BY DEF LiveIn
<1>4. \A c \in Cids : waits[c].at = "create" /\ waits[c].of \in DOMAIN h =>
                     kept[waits[c].of] = h[waits[c].of]
  BY DEF LiveIn
<1> HIDE DEF kept
<1>5. GoodHeap(kept)
  BY <1>1, <1>2 DEF ObjectsFit, GoodHeap
<1>6. GoodActive(kept, act)
  <2>1. ASSUME NEW w \in Wizard, ActiveFits(h, w, act[w])
        PROVE  ActiveFits(kept, w, act[w])
    BY <2>1, <1>1, <1>3 DEF ActiveFits
  <2> QED BY <2>1 DEF ObjectsFit, GoodActive
<1>7. GoodTurns(kept, waits)
  BY <1>1, <1>4 DEF ObjectsFit, GoodTurns, WaitFits
<1> QED BY <1>5, <1>6, <1>7 DEF ObjectsFit, kept

LEMMA PutKeeps ==
  ASSUME NEW h, NEW act, NEW waits, ObjectsFit(h, act, waits),
         NEW i \in DOMAIN h, NEW o, Fits(h[i]), Fits(o), o.wizard = h[i].wizard,
         o.wizard = "schedule" => DOMAIN h[i].data \ {"name"} \subseteq DOMAIN o.data
  PROVE  ObjectsFit([h EXCEPT ![i] = o], act, waits)
<1> DEFINE g == [h EXCEPT ![i] = o]
<1>1. DOMAIN g = DOMAIN h /\ g[i] = o /\ \A j \in DOMAIN h : j # i => g[j] = h[j]
  OBVIOUS
<1>2. g \in Seq(Elements(g))
  <2>1. Len(h) \in Nat /\ DOMAIN h = 1..Len(h)
    BY DEF ObjectsFit, GoodHeap
  <2>2. g = [j \in 1..Len(h) |-> g[j]]
    BY <2>1
  <2> HIDE DEF g
  <2> QED BY <2>1, <2>2 DEF Elements
<1> HIDE DEF g
<1>3. GoodHeap(g)
  BY <1>1, <1>2 DEF ObjectsFit, GoodHeap
<1>4. GoodActive(g, act)
  <2>1. ASSUME NEW w \in Wizard, ActiveFits(h, w, act[w])
        PROVE  ActiveFits(g, w, act[w])
    BY <2>1, <1>1 DEF ActiveFits
  <2> QED BY <2>1 DEF ObjectsFit, GoodActive
<1>5. GoodTurns(g, waits)
  <2>1. \A j \in DOMAIN h : IsPlan(h[j]) => IsPlan(g[j])
    BY <1>1 DEF IsPlan
  <2> QED BY <1>1, <2>1 DEF ObjectsFit, GoodTurns, WaitFits
<1> QED BY <1>3, <1>4, <1>5 DEF ObjectsFit, g

LEMMA AppendKeeps ==
  ASSUME NEW h, NEW act, NEW waits, ObjectsFit(h, act, waits), NEW o, Fits(o)
  PROVE  /\ ObjectsFit(Append(h, o), act, waits)
         /\ Len(h) + 1 \in DOMAIN Append(h, o) /\ Append(h, o)[Len(h) + 1] = o
         /\ Len(h) + 1 # 0
<1> DEFINE g == Append(h, o)
<1>1. /\ Len(h) \in Nat /\ DOMAIN h = 1..Len(h) /\ DOMAIN g = 1..(Len(h) + 1)
      /\ g[Len(h) + 1] = o /\ \A j \in DOMAIN h : g[j] = h[j]
      /\ g \in Seq(Elements(g))
  BY DEF ObjectsFit, GoodHeap, Elements
<1> HIDE DEF g
<1>2. GoodHeap(g)
  BY <1>1 DEF ObjectsFit, GoodHeap
<1>3. DOMAIN h \subseteq DOMAIN g
  BY <1>1
<1>4. GoodActive(g, act)
  <2>1. ASSUME NEW w \in Wizard, ActiveFits(h, w, act[w])
        PROVE  ActiveFits(g, w, act[w])
    BY <2>1, <1>1, <1>3 DEF ActiveFits
  <2> QED BY <2>1 DEF ObjectsFit, GoodActive
<1>5. GoodTurns(g, waits)
  BY <1>1, <1>3 DEF ObjectsFit, GoodTurns, WaitFits
<1> QED BY <1>1, <1>2, <1>4, <1>5 DEF ObjectsFit, g

LEMMA ActiveKeeps ==
  ASSUME NEW h, NEW act, NEW waits, ObjectsFit(h, act, waits), NEW w \in Wizard, NEW i,
         ActiveFits(h, w, i)
  PROVE  ObjectsFit(h, [act EXCEPT ![w] = i], waits)
BY DEF ObjectsFit, GoodActive

LEMMA TurnKeeps ==
  ASSUME NEW h, NEW act, NEW waits, ObjectsFit(h, act, waits), NEW c \in Cids, NEW t,
         WaitFits(h, t)
  PROVE  ObjectsFit(h, act, [waits EXCEPT ![c] = t])
BY DEF ObjectsFit, GoodTurns

LEMMA IdleFits == \A h : WaitFits(h, Idle)
BY DEF WaitFits, Idle

LEMMA ObjectFits ==
  ASSUME NEW c \in Cids, WizardInv, Intercepted(c)
  PROVE  /\ Interceptor \in Wizard /\ active[Interceptor] \in DOMAIN heap
         /\ Fits(Object) /\ Object.wizard = Interceptor
BY DEF WizardInv, ObjectsFit, GoodActive, ActiveFits, Intercepted, Interceptor, Object, Wizard

LEMMA RefusedFits ==
  ASSUME NEW o, IsPlan(o), NEW name \in Titles
  PROVE  LET new == [o EXCEPT !.overwrite = TRUE, !.asked = name]
         IN  Fits(new) /\ new.wizard = "schedule" /\ new.data = o.data
<1> DEFINE new == [o EXCEPT !.overwrite = TRUE, !.asked = name]
<1>1. o \in [wizard : Wizard, step : Nat, data : {o.data}, overwrite : BOOLEAN,
            shown : BOOLEAN, asked : Titles \cup {None}, skipped : BOOLEAN]
      /\ o.wizard = "schedule"
  BY DEF IsPlan, Fits, IsObject
<1>2. /\ new \in [wizard : Wizard, step : Nat, data : {o.data}, overwrite : BOOLEAN,
                 shown : BOOLEAN, asked : Titles \cup {None}, skipped : BOOLEAN]
      /\ new.wizard = o.wizard /\ new.data = o.data /\ new.step = o.step
      /\ new.shown = o.shown /\ new.skipped = o.skipped
  BY <1>1
<1> HIDE DEF new
<1>3. IsObject(new)
  BY <1>1, <1>2 DEF IsObject, IsPlan, Fits
<1> QED BY <1>1, <1>2, <1>3
        DEF IsPlan, Fits, PlanFits, PlanIsTyped, HasKeys, PromptFits, new

LEMMA RowOfPlanFits ==
  ASSUME NEW o, Fits(o), o.wizard = "schedule", o.step = 7
  PROVE  RowFits(ScheduleOf(o)) /\ {"kind", "prompt"} \subseteq DOMAIN o.data
<1> DEFINE s == ScheduleOf(o)
<1>1. /\ {"kind", "prompt", "name"} \subseteq DOMAIN o.data /\ o.data["name"] \in Titles
  BY DEF Fits, PlanFits, PlanIsTyped, HasKeys
<1>2. /\ s["skipped"] = o.skipped /\ s["name"] = o.data["name"] /\ s["kind"] = o.data["kind"]
      /\ s["prompt"] = o.data["prompt"]
      /\ "target" \in DOMAIN o.data => s["target"] = o.data["target"]
  BY <1>1 DEF ScheduleOf, ScheduleFields, With
<1> HIDE DEF s
<1>3. s.skipped \/ PromptMatches(s)
  BY <1>1, <1>2 DEF Fits, PlanFits, PromptFits, PromptMatches
<1> QED BY <1>1, <1>2, <1>3 DEF RowFits, s

(* ------------------------------ the steps ------------------------------ *)
LEMMA WizardInitHolds == WizardInit => WizardInv
<1> SUFFICES ASSUME WizardInit PROVE WizardInv
  OBVIOUS
<1>1. ObjectsFit(heap, active, turn)
  <2>1. heap = <<>> /\ DOMAIN heap = {}
    BY DEF WizardInit
  <2>2. GoodHeap(heap)
    BY <2>1 DEF GoodHeap
  <2>3. GoodActive(heap, active)
    BY DEF GoodActive, ActiveFits, WizardInit
  <2>4. GoodTurns(heap, turn)
    BY IdleFits DEF GoodTurns, WizardInit
  <2> QED BY <2>2, <2>3, <2>4 DEF ObjectsFit
<1>2. FilesAreKept
  BY DEF FilesAreKept, RowsAreOwned, WizardInit
<1>3. OutcomesHold
  BY DEF OutcomesHold, WizardInit
<1> QED BY <1>1, <1>2, <1>3 DEF WizardInv

\* what a step does to the objects, whatever it does to the rest
LEMMA CollectKeeps ==
  ASSUME ObjectsFit(heap, active', turn'), heap' = Live(heap)
  PROVE  ObjectsFit(heap, active, turn)'
<1>1. Live(heap) = LiveIn(heap, active', turn')
  BY DEF Live, LiveIn
<1> QED BY <1>1, LiveKeeps

LEMMA PutObjectKeeps ==
  ASSUME WizardInv, NEW c \in Cids, Intercepted(c), NEW o, Fits(o), o.wizard = Interceptor,
         o.wizard = "schedule" => DOMAIN Object.data \ {"name"} \subseteq DOMAIN o.data,
         heap' = [heap EXCEPT ![active[Interceptor]] = o], UNCHANGED <<active, turn>>
  PROVE  ObjectsFit(heap, active, turn)'
<1>1. /\ active[Interceptor] \in DOMAIN heap /\ Fits(Object) /\ Object.wizard = Interceptor
      /\ Object = heap[active[Interceptor]]
  BY ObjectFits DEF Object
<1>2. ObjectsFit([heap EXCEPT ![active[Interceptor]] = o], active, turn)
  BY <1>1, PutKeeps DEF WizardInv
<1> QED BY <1>2

LEMMA CommandKeeps ==
  ASSUME WizardInv, NEW c \in Cids, NEW w \in Wizard, NEW hint \in Existing \cup {None},
         Command(c, w, hint)
  PROVE  WizardInv'
<1> DEFINE t == [at |-> "command", wizard |-> w, hint |-> hint]
<1>1. WaitFits(heap, t)
  BY DEF WaitFits, Command
<1> HIDE DEF t
<1>2. turn' = [turn EXCEPT ![c] = t] /\ heap' = heap /\ active' = active
  BY DEF Command, t
<1>3. ObjectsFit(heap, active, turn)'
  BY <1>1, <1>2, TurnKeeps DEF WizardInv
<1> QED BY <1>3 DEF WizardInv, Command, NoFileChange, FilesAreKept, RowsAreOwned, OutcomesHold

LEMMA StartKeeps ==
  ASSUME WizardInv, NEW c \in Cids, start_wizard(c)
  PROVE  WizardInv'
<1> DEFINE w == turn[c].wizard
           hint == turn[c].hint
           o == IF hint = None THEN NewWizard(w)
                ELSE [NewWizard(w) EXCEPT !.step = 2, !.data = With(<<>>, "name", hint)]
           h == Append(heap, o)
           n == Len(heap) + 1
<1>1. /\ active' = [active EXCEPT ![w] = n] /\ turn' = [turn EXCEPT ![c] = Idle]
      /\ heap' = Live(h)
  BY DEF start_wizard, Save
<1>2. w \in Wizard /\ Fits(o) /\ o.wizard = w
  <2>1. w \in Wizard /\ hint \in Existing \cup {None} /\ (w = "schedule" => hint = None)
    BY DEF WizardInv, ObjectsFit, GoodTurns, WaitFits, start_wizard
  <2>2. o.wizard = w
    BY DEF NewWizard
  <2> QED BY <2>1, <2>2, NewWizardFits
<1> HIDE DEF o
<1>3. ObjectsFit(h, active, turn) /\ n \in DOMAIN h /\ h[n] = o
  BY <1>2, AppendKeeps DEF WizardInv
<1> HIDE DEF h, w, n
<1>4. ObjectsFit(h, active', turn)
  BY <1>1, <1>2, <1>3, ActiveKeeps DEF ActiveFits
<1>5. ObjectsFit(h, active', turn')
  BY <1>1, <1>4, TurnKeeps, IdleFits
<1>6. Live(h) = LiveIn(h, active', turn')
  BY DEF Live, LiveIn
<1>7. ObjectsFit(heap, active, turn)'
  BY <1>1, <1>5, <1>6, LiveKeeps
<1> QED BY <1>7 DEF WizardInv, start_wizard, NoFileChange, FilesAreKept, RowsAreOwned, OutcomesHold

LEMMA ClearKeeps ==
  ASSUME WizardInv, NEW w \in Wizard, Clear(w), turn' = turn
  PROVE  ObjectsFit(heap, active', turn')
BY ActiveKeeps DEF WizardInv, Clear, ActiveFits

LEMMA SayWhat ==
  ASSUME NEW what, NEW name, Say(what, name)
  PROVE  said'.what = what /\ said'.name = name
BY DEF Say

LEMMA CancelKeeps ==
  ASSUME WizardInv, NEW c \in Cids, CancelWizard(c) \/ Decline(c)
  PROVE  WizardInv'
<1>1. Intercepted(c) /\ Clear(Interceptor) /\ turn' = turn /\ heap' = Live(heap)
  BY DEF CancelWizard, Decline
<1>2. ObjectsFit(heap, active, turn)'
  BY <1>1, ObjectFits, ClearKeeps, CollectKeeps
<1>3. NoFileChange /\ said'.what = "cancelled"
  BY DEF CancelWizard, Decline, Say
<1> QED BY <1>2, <1>3 DEF WizardInv, NoFileChange, FilesAreKept, RowsAreOwned, OutcomesHold

LEMMA BackKeeps ==
  ASSUME WizardInv, NEW c \in Cids, Back(c)
  PROVE  WizardInv'
<1>1. /\ Intercepted(c) /\ (Object.overwrite \/ Object.step > 1)
      /\ heap' = [heap EXCEPT ![active[Interceptor]] = StepBack(Object)]
      /\ UNCHANGED <<active, turn>>
  BY DEF Back, Put
<1>2. Fits(Object) /\ Object.wizard = Interceptor
  BY <1>1, ObjectFits
<1>3. /\ Fits(StepBack(Object)) /\ StepBack(Object).wizard = Object.wizard
      /\ Object.wizard = "schedule" => DOMAIN Object.data \subseteq DOMAIN StepBack(Object).data
  BY <1>1, <1>2, BackFits
<1>4. ObjectsFit(heap, active, turn)'
  BY <1>1, <1>2, <1>3, PutObjectKeeps
<1> QED BY <1>4 DEF WizardInv, Back, NoFileChange, FilesAreKept, RowsAreOwned, OutcomesHold

LEMMA AnswerKeeps ==
  ASSUME WizardInv, NEW c \in Cids, Answer(c)
  PROVE  WizardInv'
<1>1. PICK r \in Replies(Object) : Put(Consume(Object, r))
  BY DEF Answer
<1>2. /\ Intercepted(c) /\ ~Object.overwrite /\ Current(Object).key # "review"
      /\ ~Raises(Object) /\ UNCHANGED <<active, turn>>
      /\ heap' = [heap EXCEPT ![active[Interceptor]] = Consume(Object, r)]
  BY <1>1 DEF Answer, Put
<1>3. Fits(Object) /\ Object.wizard = Interceptor
  BY <1>2, ObjectFits
<1>4. /\ Fits(Consume(Object, r)) /\ Consume(Object, r).wizard = Object.wizard
      /\ Object.wizard = "schedule" =>
           DOMAIN Object.data \subseteq DOMAIN Consume(Object, r).data
  BY <1>2, <1>3, ConsumeFitsPlan, ConsumeFitsDefinition
<1>5. ObjectsFit(heap, active, turn)'
  BY <1>2, <1>3, <1>4, PutObjectKeeps
<1> QED BY <1>5 DEF WizardInv, Answer, NoFileChange, FilesAreKept, RowsAreOwned, OutcomesHold

LEMMA RenameKeeps ==
  ASSUME WizardInv, NEW c \in Cids, RenameSchedule(c)
  PROVE  WizardInv'
<1>1. /\ Intercepted(c) /\ Interceptor = "schedule" /\ Object.overwrite
      /\ heap' = [heap EXCEPT ![active[Interceptor]] = Rename(Object)]
      /\ UNCHANGED <<active, turn>>
  BY DEF RenameSchedule, Put
<1>2. Fits(Object) /\ Object.wizard = "schedule"
  BY <1>1, ObjectFits
<1>3. /\ Fits(Rename(Object)) /\ Rename(Object).wizard = "schedule"
      /\ DOMAIN Object.data \ {"name"} \subseteq DOMAIN Rename(Object).data
  BY <1>1, <1>2, RenameFits
<1>4. ObjectsFit(heap, active, turn)'
  BY <1>1, <1>2, <1>3, PutObjectKeeps
<1> QED BY <1>4 DEF WizardInv, RenameSchedule, NoFileChange, FilesAreKept, RowsAreOwned,
                    OutcomesHold

LEMMA AskKeeps ==
  ASSUME WizardInv, NEW c \in Cids, AskBeforeOverwrite(c)
  PROVE  WizardInv'
<1>1. /\ Intercepted(c) /\ Interceptor # "schedule" /\ Current(Object).key = "review"
      /\ heap' = [heap EXCEPT ![active[Interceptor]] = AskOverwrite(Object)]
      /\ UNCHANGED <<active, turn>>
  BY DEF AskBeforeOverwrite, Put, Agreed
<1>2. Fits(Object) /\ Object.wizard = Interceptor
  BY <1>1, ObjectFits
<1>3. Fits(AskOverwrite(Object)) /\ AskOverwrite(Object).wizard = Interceptor
  BY <1>1, <1>2, AskOverwriteFits
<1>4. ObjectsFit(heap, active, turn)'
  BY <1>1, <1>2, <1>3, PutObjectKeeps
<1> QED BY <1>4 DEF WizardInv, AskBeforeOverwrite, NoFileChange, FilesAreKept, RowsAreOwned,
                    OutcomesHold

LEMMA AgreedDefinition ==
  ASSUME NEW o, Fits(o), o.wizard # "schedule", o.overwrite \/ Current(o).key = "review"
  PROVE  /\ o.shown /\ o.data.name \in Names
         /\ o.overwrite => o.asked = o.data.name
<1>1. o.step = LastStep(o.wizard) /\ o.step >= 2
  BY DefinitionKeys DEF Fits, DefinitionFits
<1> QED BY <1>1 DEF Fits, DefinitionFits

LEMMA ConfirmAgentKeeps ==
  ASSUME WizardInv, NEW c \in Cids, ConfirmAgent(c)
  PROVE  WizardInv'
<1> DEFINE data == Object.data
<1>1. Intercepted(c) /\ Interceptor = "agents" /\ MayWrite("agents") /\ heap' = Live(heap)
  BY DEF ConfirmAgent
<1>2. data.name \in Names
  BY <1>1, ObjectFits, AgreedDefinition DEF MayWrite, Agreed
<1> HIDE DEF data
<1>3. CASE /\ agentFile' = [agentFile EXCEPT ![data.name] = data]
           /\ turn' = [turn EXCEPT ![c] = [at |-> "sync", data |-> data]]
           /\ UNCHANGED <<active, said>>
  <2>1. WaitFits(heap, [at |-> "sync", data |-> data])
    BY <1>2 DEF WaitFits
  <2>2. ObjectsFit(heap, active', turn')
    BY <1>3, <2>1, TurnKeeps DEF WizardInv
  <2> QED BY <1>1, <1>3, <2>2, CollectKeeps
          DEF WizardInv, ConfirmAgent, FilesAreKept, RowsAreOwned, OutcomesHold
<1>4. CASE Clear("agents") /\ Say("failed to write", data.name) /\ UNCHANGED <<agentFile, turn>>
  <2>1. ObjectsFit(heap, active', turn')
    BY <1>4, ClearKeeps DEF Wizard
  <2> QED BY <1>1, <1>4, <2>1, CollectKeeps, SayWhat
          DEF WizardInv, ConfirmAgent, FilesAreKept, RowsAreOwned, OutcomesHold
<1> QED BY <1>3, <1>4 DEF ConfirmAgent, write_agent_def, data

LEMMA SyncKeeps ==
  ASSUME WizardInv, NEW data, data.name \in Names, sync_agent_defs_to_db(data)
  PROVE  /\ DOMAIN agentRow' = Names /\ RowsAreOwned' /\ agentRow'[data.name].source = "user"
         /\ \A n \in Names : agentRow[n].source = "user" => agentRow'[n].source = "user"
BY DEF WizardInv, FilesAreKept, RowsAreOwned, sync_agent_defs_to_db

LEMMA FinishAgentKeeps ==
  ASSUME WizardInv, NEW c \in Cids, FinishAgent(c)
  PROVE  WizardInv'
<1> DEFINE data == turn[c].data
<1>1. data.name \in Names /\ heap' = Live(heap)
  BY DEF FinishAgent, WizardInv, ObjectsFit, GoodTurns, WaitFits
<1>2. ObjectsFit(heap, active', turn')
  <2>1. active' = [active EXCEPT !["agents"] = 0] /\ turn' = [turn EXCEPT ![c] = Idle]
    BY DEF FinishAgent, Clear
  <2>2. ObjectsFit(heap, active', turn)
    BY <2>1, ActiveKeeps DEF WizardInv, ActiveFits, Wizard
  <2> QED BY <2>1, <2>2, TurnKeeps, IdleFits
<1>3. ObjectsFit(heap, active, turn)'
  BY <1>1, <1>2, CollectKeeps
<1>4. UNCHANGED <<agentFile, skillFile, registry, schedules>>
  BY DEF FinishAgent
<1> HIDE DEF data
<1>5. CASE sync_agent_defs_to_db(data) /\ Say("agent created", data.name)
  <2>1. DOMAIN agentRow' = Names /\ RowsAreOwned' /\ agentRow'[data.name].source = "user"
    BY <1>1, <1>5, SyncKeeps
  <2>2. said'.what = "agent created" /\ said'.name = data.name
    BY <1>5, SayWhat
  <2>3. FilesAreKept'
    BY <1>4, <2>1 DEF WizardInv, FilesAreKept
  <2>4. OutcomesHold'
    BY <1>1, <1>4, <2>1, <2>2 DEF WizardInv, OutcomesHold
  <2> QED BY <1>3, <2>3, <2>4 DEF WizardInv
<1>6. CASE UNCHANGED agentRow /\ Say("failed to register", data.name)
  BY <1>3, <1>4, <1>6, SayWhat DEF WizardInv, FilesAreKept, RowsAreOwned, OutcomesHold
<1> QED BY <1>5, <1>6 DEF FinishAgent, data

LEMMA ConfirmSkillKeeps ==
  ASSUME WizardInv, NEW c \in Cids, ConfirmSkill(c)
  PROVE  WizardInv'
<1> DEFINE data == Object.data
<1>1. /\ Intercepted(c) /\ Interceptor = "skills" /\ MayWrite("skills") /\ heap' = Live(heap)
      /\ Clear("skills") /\ turn' = turn /\ UNCHANGED <<agentFile, agentRow, schedules>>
  BY DEF ConfirmSkill
<1>2. data.name \in Names
  BY <1>1, ObjectFits, AgreedDefinition DEF MayWrite, Agreed
<1>3. ObjectsFit(heap, active, turn)'
  BY <1>1, ClearKeeps, CollectKeeps DEF Wizard
<1>4. CASE write_skill_def(data) /\ register_skill(data) /\ Say("skill created", data.name)
  <2>1. FilesAreKept' /\ registry'[data.name] = data /\ skillFile'[data.name] = data
    <3> HIDE DEF data
    <3> QED BY <1>1, <1>2, <1>4
            DEF WizardInv, FilesAreKept, RowsAreOwned, write_skill_def, register_skill
  <2> HIDE DEF data
  <2> QED BY <1>1, <1>2, <1>3, <1>4, <2>1, SayWhat DEF WizardInv, OutcomesHold
<1>5. CASE UNCHANGED <<skillFile, registry>> /\ Say("failed to write", data.name)
  <2> HIDE DEF data
  <2> QED BY <1>1, <1>3, <1>5, SayWhat DEF WizardInv, FilesAreKept, RowsAreOwned, OutcomesHold
<1>6. CASE write_skill_def(data) /\ UNCHANGED registry /\ Say("failed to register", data.name)
  <2> HIDE DEF data
  <2> QED BY <1>1, <1>3, <1>6, SayWhat
          DEF WizardInv, FilesAreKept, RowsAreOwned, OutcomesHold, write_skill_def
<1> QED BY <1>4, <1>5, <1>6 DEF ConfirmSkill

LEMMA AgreedPlan ==
  ASSUME NEW o, Fits(o), o.wizard = "schedule", Current(o).key = "review"
  PROVE  o.step = 7 /\ o.shown
<1>1. o.step = 7
  BY PlanKeys DEF Fits, IsObject, LastStep, Step
<1> QED BY <1>1 DEF Fits, PlanFits, HasKeys

LEMMA ConfirmScheduleKeeps ==
  ASSUME WizardInv, NEW c \in Cids, ConfirmSchedule(c)
  PROVE  WizardInv' /\ Object.shown
<1> DEFINE t == [at |-> "create", of |-> active["schedule"], data |-> ScheduleOf(Object)]
<1>1. /\ Intercepted(c) /\ Interceptor = "schedule" /\ Current(Object).key = "review"
      /\ turn' = [turn EXCEPT ![c] = t] /\ UNCHANGED <<heap, active, said>> /\ NoFileChange
  BY DEF ConfirmSchedule, Agreed
<1>2. Fits(Object) /\ Object.wizard = "schedule" /\ active["schedule"] \in DOMAIN heap
      /\ Object = heap[active["schedule"]]
  BY <1>1, ObjectFits DEF Object
<1>3. Object.step = 7 /\ Object.shown
  BY <1>1, <1>2, AgreedPlan
<1>4. RowFits(ScheduleOf(Object)) /\ IsPlan(Object)
  BY <1>2, <1>3, RowOfPlanFits DEF IsPlan
<1>5. WaitFits(heap, t)
  BY <1>2, <1>4 DEF WaitFits
<1> HIDE DEF t
<1>6. ObjectsFit(heap, active, turn)'
  BY <1>1, <1>5, TurnKeeps DEF WizardInv
<1> QED BY <1>1, <1>3, <1>6 DEF WizardInv, NoFileChange, FilesAreKept, RowsAreOwned, OutcomesHold

LEMMA FinishScheduleKeeps ==
  ASSUME WizardInv, NEW c \in Cids, FinishSchedule(c)
  PROVE  WizardInv'
<1> DEFINE data == turn[c].data
           i == turn[c].of
           refused == [heap[i] EXCEPT !.overwrite = TRUE, !.asked = data.name]
<1>1. /\ i \in DOMAIN heap /\ IsPlan(heap[i]) /\ RowFits(data)
      /\ turn' = [turn EXCEPT ![c] = Idle] /\ UNCHANGED <<agentFile, agentRow, skillFile, registry>>
  BY DEF FinishSchedule, WizardInv, ObjectsFit, GoodTurns, WaitFits
<1>2. ObjectsFit(heap, active, turn')
  BY <1>1, TurnKeeps, IdleFits DEF WizardInv
<1>3. CASE /\ Clear("schedule") /\ heap' = Live(heap)
           /\ schedules' = schedules \/ schedules' = schedules \cup {data}
           /\ \/ Say("schedule created", data.name) \/ Say("failed to create", data.name)
  <2>1. ObjectsFit(heap, active', turn')
    BY <1>2, <1>3, ActiveKeeps DEF Clear, ActiveFits, Wizard
  <2>2. ObjectsFit(heap, active, turn)'
    BY <1>3, <2>1, CollectKeeps
  <2> HIDE DEF data
  <2> QED BY <1>1, <1>3, <2>2, SayWhat DEF WizardInv, FilesAreKept, RowsAreOwned, OutcomesHold
<1>4. CASE /\ Save("schedule", i) /\ heap' = Live([heap EXCEPT ![i] = refused])
           /\ UNCHANGED <<schedules, said>>
  <2> DEFINE h == [heap EXCEPT ![i] = refused]
  <2>1. Fits(refused) /\ refused.wizard = "schedule" /\ refused.data = heap[i].data
    BY <1>1, RefusedFits DEF RowFits
  <2> HIDE DEF refused, i
  <2>2. ObjectsFit(h, active, turn')
    BY <1>1, <1>2, <2>1, PutKeeps DEF IsPlan
  <2>3. i \in DOMAIN h /\ h[i] = refused
    BY <1>1
  <2> HIDE DEF h
  <2>4. ObjectsFit(h, active', turn')
    BY <1>4, <2>1, <2>2, <2>3, ActiveKeeps DEF Save, ActiveFits, Wizard
  <2>5. heap' = LiveIn(h, active', turn')
    BY <1>4 DEF Live, LiveIn, h
  <2>6. ObjectsFit(heap, active, turn)'
    BY <2>4, <2>5, LiveKeeps
  <2> QED BY <1>1, <1>4, <2>6 DEF WizardInv, FilesAreKept, RowsAreOwned, OutcomesHold
<1> QED BY <1>3, <1>4 DEF FinishSchedule

LEMMA StopKeeps ==
  ASSUME WizardInv, NEW c \in Cids, StopTurn(c)
  PROVE  WizardInv'
<1> DEFINE data == turn[c].data
<1>1. /\ turn' = [turn EXCEPT ![c] = Idle] /\ heap' = Live(heap)
      /\ UNCHANGED <<active, agentFile, skillFile, registry, said>>
  BY DEF StopTurn
<1>2. ObjectsFit(heap, active, turn)'
  <2>1. ObjectsFit(heap, active', turn')
    BY <1>1, TurnKeeps, IdleFits DEF WizardInv
  <2> QED BY <1>1, <2>1, CollectKeeps
<1>3. /\ turn[c].at = "sync" => data.name \in Names
      /\ turn[c].at = "create" => RowFits(data)
  BY DEF WizardInv, ObjectsFit, GoodTurns, WaitFits
<1> HIDE DEF data
<1>4. CASE UNCHANGED <<agentRow, schedules>>
  BY <1>1, <1>2, <1>4 DEF WizardInv, FilesAreKept, RowsAreOwned, OutcomesHold
<1>5. CASE turn[c].at = "sync" /\ sync_agent_defs_to_db(data) /\ UNCHANGED schedules
  BY <1>1, <1>2, <1>3, <1>5, SyncKeeps DEF WizardInv, FilesAreKept, OutcomesHold
<1>6. CASE /\ turn[c].at = "create" /\ schedules' = schedules \cup {data}
           /\ UNCHANGED agentRow
  BY <1>1, <1>2, <1>3, <1>6 DEF WizardInv, FilesAreKept, RowsAreOwned, OutcomesHold
<1> QED BY <1>4, <1>5, <1>6 DEF StopTurn, data

LEMMA WizardStutter ==
  ASSUME WizardInv, UNCHANGED wizardVars
  PROVE  WizardInv'
BY DEF WizardInv, wizardVars, FilesAreKept, RowsAreOwned, OutcomesHold

LEMMA WizardStep == WizardInv /\ [WizardNext]_wizardVars => WizardInv'
<1> SUFFICES ASSUME WizardInv, [WizardNext]_wizardVars PROVE WizardInv'
  OBVIOUS
<1>1. ASSUME NEW c \in Cids, NEW w \in Wizard, NEW hint \in Existing \cup {None},
             Command(c, w, hint)
      PROVE  WizardInv'
  BY <1>1, CommandKeeps
<1>2. ASSUME NEW c \in Cids,
             \/ start_wizard(c) \/ CancelWizard(c) \/ Decline(c) \/ Back(c) \/ Answer(c)
             \/ RenameSchedule(c) \/ AskBeforeOverwrite(c) \/ ConfirmAgent(c)
             \/ FinishAgent(c) \/ ConfirmSkill(c) \/ ConfirmSchedule(c)
             \/ FinishSchedule(c) \/ StopTurn(c)
      PROVE  WizardInv'
  BY <1>2, StartKeeps, CancelKeeps, BackKeeps, AnswerKeeps, RenameKeeps, AskKeeps,
     ConfirmAgentKeeps, FinishAgentKeeps, ConfirmSkillKeeps, ConfirmScheduleKeeps,
     FinishScheduleKeeps, StopKeeps
<1> QED BY <1>1, <1>2, WizardStutter DEF WizardNext

LEMMA WizardInvariant == WizardSpec => []WizardInv
BY WizardInitHolds, WizardStep, PTL DEF WizardSpec

\* Every wizard on the connection is an object of its kind at a step it has,
\* with its history fields typed.
THEOREM WizardTypeCorrect == WizardSpec => []WizardTypeOK
<1>1. WizardInv => WizardTypeOK
  <2> SUFFICES ASSUME WizardInv PROVE WizardTypeOK
    OBVIOUS
  <2>1. ASSUME NEW i \in DOMAIN heap, heap[i] # Gone
        PROVE  /\ heap[i].wizard \in Wizard /\ heap[i].step \in DOMAIN Steps(heap[i].wizard)
               /\ heap[i].overwrite \in BOOLEAN /\ heap[i].shown \in BOOLEAN
               /\ heap[i].skipped \in BOOLEAN
               /\ heap[i].asked \in Names \cup Labels \cup Texts \cup {None}
    <3>1. IsObject(heap[i])
      BY <2>1 DEF WizardInv, ObjectsFit, GoodHeap, Fits
    <3> QED BY <3>1, StepDomain DEF IsObject, Titles
  <2>2. \A w \in Wizard : active[w] # 0 =>
          active[w] \in DOMAIN heap /\ heap[active[w]].wizard = w
    BY DEF WizardInv, ObjectsFit, GoodActive, ActiveFits
  <2>3. \A c \in Cids : turn[c].at \in {"idle", "command", "sync", "create"}
    BY DEF WizardInv, ObjectsFit, GoodTurns, WaitFits
  <2>4. \A n \in Names : agentRow[n] # None => agentRow[n].source \in {"user", "yaml"}
    BY DEF WizardInv, FilesAreKept, RowsAreOwned
  <2> QED BY <2>1, <2>2, <2>3, <2>4 DEF WizardTypeOK
<1> QED BY <1>1, WizardInvariant, PTL

\* A schedule's prompt carries the dispatch token of its kind and target,
\* except where a rename jumped past a prompt step the user had gone back to;
\* a skill reported as created is the one registered.
THEOREM CreatedCorrect == WizardSpec => []CreatedRunsAsTold
<1>1. WizardInv => CreatedRunsAsTold
  BY DEF WizardInv, OutcomesHold, RowFits, CreatedRunsAsTold
<1> QED BY <1>1, WizardInvariant, PTL

LEMMA MayWriteConsents ==
  ASSUME WizardInv, NEW c \in Cids, NEW w \in {"agents", "skills"}, Intercepted(c),
         Interceptor = w, MayWrite(w)
  PROVE  Object.data.name \in Names /\ Consented(w, Object.data.name)
<1>1. /\ Fits(Object) /\ Object.wizard = w /\ active[w] \in DOMAIN heap
      /\ Object = heap[active[w]]
  BY ObjectFits DEF Object
<1>2. /\ Object.overwrite \/ Current(Object).key = "review"
      /\ Object.overwrite \/ Target(w, Object.data.name) = None
  BY DEF MayWrite, Agreed
<1>3. /\ Object.shown /\ Object.data.name \in Names
      /\ Object.overwrite => Object.asked = Object.data.name
  BY <1>1, <1>2, AgreedDefinition
<1> QED BY <1>1, <1>2, <1>3 DEF Consented

NothingCreated ==
  \A d \in Cids : turn'[d].at = "create" => turn[d].at = "create"

LEMMA TurnEnds ==
  ASSUME WizardInv, NEW c \in Cids, NEW t, t.at # "create",
         turn' = [turn EXCEPT ![c] = t] \/ turn' = turn
  PROVE  NothingCreated
BY DEF WizardInv, ObjectsFit, GoodTurns, NothingCreated

\* Files change only as a review listed them and, if they were there, as the
\* overwrite question named them; a schedule is submitted from its review.
THEOREM WrittenCorrect == WizardSpec => WrittenAsAgreed
<1> DEFINE Agreement ==
      /\ \A n \in Names : /\ agentFile'[n] # agentFile[n] => Consented("agents", n)
                          /\ skillFile'[n] # skillFile[n] => Consented("skills", n)
      /\ \A c \in Cids : turn[c].at # "create" /\ turn'[c].at = "create"
                         => heap[turn'[c].of].shown
<1>1. WizardInv /\ [WizardNext]_wizardVars => [Agreement]_wizardVars
  <2> SUFFICES ASSUME WizardInv, WizardNext PROVE Agreement
    OBVIOUS
  <2>1. ASSUME NEW c \in Cids, NEW w \in Wizard, NEW hint \in Existing \cup {None},
               Command(c, w, hint)
        PROVE  Agreement
    <3>1. NothingCreated
      <4> DEFINE t == [at |-> "command", wizard |-> w, hint |-> hint]
      <4>1. t.at # "create" /\ turn' = [turn EXCEPT ![c] = t]
        BY <2>1 DEF Command
      <4> HIDE DEF t
      <4> QED BY <4>1, TurnEnds
    <3> QED BY <2>1, <3>1 DEF Command, NoFileChange, NothingCreated
  <2>2. ASSUME NEW c \in Cids,
               \/ start_wizard(c) \/ CancelWizard(c) \/ Decline(c) \/ Back(c) \/ Answer(c)
               \/ RenameSchedule(c) \/ AskBeforeOverwrite(c) \/ FinishAgent(c)
               \/ FinishSchedule(c) \/ StopTurn(c)
        PROVE  Agreement
    <3>1. turn' = [turn EXCEPT ![c] = Idle] \/ turn' = turn
      BY <2>2 DEF start_wizard, CancelWizard, Decline, Back, Answer, RenameSchedule,
                  AskBeforeOverwrite, FinishAgent, FinishSchedule, StopTurn
    <3>2. NothingCreated
      <4>1. Idle.at # "create"
        BY DEF Idle
      <4> QED BY <3>1, <4>1, TurnEnds
    <3>3. agentFile' = agentFile /\ skillFile' = skillFile
      BY <2>2 DEF start_wizard, CancelWizard, Decline, Back, Answer, RenameSchedule,
                  AskBeforeOverwrite, FinishAgent, FinishSchedule, StopTurn, NoFileChange
    <3> QED BY <3>2, <3>3 DEF NothingCreated
  <2>3. ASSUME NEW c \in Cids, ConfirmAgent(c)
        PROVE  Agreement
    <3>1. Object.data.name \in Names /\ Consented("agents", Object.data.name)
      BY <2>3, MayWriteConsents DEF ConfirmAgent
    <3>2. NothingCreated /\ skillFile' = skillFile
      <4> DEFINE t == [at |-> "sync", data |-> Object.data]
      <4>1. /\ t.at # "create" /\ (turn' = [turn EXCEPT ![c] = t] \/ turn' = turn)
            /\ skillFile' = skillFile
        BY <2>3 DEF ConfirmAgent
      <4> HIDE DEF t
      <4> QED BY <4>1, TurnEnds
    <3>3. agentFile' = agentFile \/ agentFile' = [agentFile EXCEPT ![Object.data.name] = Object.data]
      BY <2>3 DEF ConfirmAgent, write_agent_def
    <3>4. \A n \in Names : agentFile'[n] # agentFile[n] => n = Object.data.name
      BY <3>3 DEF WizardInv, FilesAreKept
    <3> QED BY <3>1, <3>2, <3>4 DEF NothingCreated
  <2>4. ASSUME NEW c \in Cids, ConfirmSkill(c)
        PROVE  Agreement
    <3>1. Object.data.name \in Names /\ Consented("skills", Object.data.name)
      BY <2>4, MayWriteConsents DEF ConfirmSkill
    <3>2. turn' = turn /\ agentFile' = agentFile
      BY <2>4 DEF ConfirmSkill
    <3>3. skillFile' = skillFile \/ skillFile' = [skillFile EXCEPT ![Object.data.name] = Object.data]
      BY <2>4 DEF ConfirmSkill, write_skill_def
    <3>4. \A n \in Names : skillFile'[n] # skillFile[n] => n = Object.data.name
      BY <3>3 DEF WizardInv, FilesAreKept
    <3> QED BY <3>1, <3>2, <3>4
  <2>5. ASSUME NEW c \in Cids, ConfirmSchedule(c)
        PROVE  Agreement
    <3>1. Object.shown /\ Object = heap[active["schedule"]]
      BY <2>5, ConfirmScheduleKeeps DEF ConfirmSchedule, Object
    <3>2. turn' = [turn EXCEPT ![c] = [at |-> "create", of |-> active["schedule"],
                                       data |-> ScheduleOf(Object)]]
      BY <2>5 DEF ConfirmSchedule
    <3>3. \A d \in Cids : turn[d].at # "create" /\ turn'[d].at = "create"
                        => turn'[d].of = active["schedule"]
      BY <3>2 DEF WizardInv, ObjectsFit, GoodTurns
    <3>4. agentFile' = agentFile /\ skillFile' = skillFile
      BY <2>5 DEF ConfirmSchedule, NoFileChange
    <3> QED BY <3>1, <3>3, <3>4
  <2> QED BY <2>1, <2>2, <2>3, <2>4, <2>5 DEF WizardNext
<1> QED BY <1>1, WizardInvariant, PTL DEF WizardSpec, WrittenAsAgreed
=============================================================================
