----------------------------- MODULE Scheduler -----------------------------
(***************************************************************************)
(* The cron scheduler: core/scheduler.py (the polling loop, the job that   *)
(* runs one schedule, start and stop), core/schedule_crud.py (what a user  *)
(* may do to a schedule while the loop and the jobs run) and the asyncio   *)
(* side of core/job_queue.py (enqueue starts a task of this process).      *)
(*                                                                         *)
(* Everything runs on one event loop, so a step here is the code between   *)
(* two awaits that suspend.  The loop selects the due rows in one await    *)
(* and then works on those ORM objects: `snap' is the copy it goes on      *)
(* with, while users and finishing jobs change `rows' underneath it.       *)
(*                                                                         *)
(* Time is a number that only grows.  A cron expression fires at the       *)
(* multiples of its period in local time and a zone is its distance from   *)
(* UTC.  What an agent does, its result and the saved conversation are     *)
(* left out: nothing the scheduler decides depends on them.                *)
(***************************************************************************)
EXTENDS Integers, FiniteSets

CONSTANTS Ids,        \* schedule ids
          Crons,      \* cron expressions
          Zones,      \* time zones
          UTC,        \* the default zone of enqueue's job and of the model
          Period,     \* Period[c]: distance between two fire times of c
          Shift,      \* Shift[z]: local time of z minus UTC
          Slots,      \* slots for jobs that are queued or running (a bound)
          MaxTime,    \* bound of the clock
          MaxEdits,   \* bound on what users do but deletions
          MaxFaults,  \* bound on failed database calls, crashes and deletions
          NoRow,      \* an id that names no schedule yet
          Deleted,    \* an id whose schedule was deleted
          NoJob,      \* a free slot
          NoEdit,     \* no request in flight
          NoTime      \* next_run_at IS NULL

ASSUME ConstantsAssumption ==
    /\ UTC \in Zones
    /\ Period \in [Crons -> Nat \ {0}]
    /\ Shift \in [Zones -> Nat]
    /\ Shift[UTC] = 0
    /\ Slots \subseteq Nat
    /\ MaxTime \in Nat /\ MaxEdits \in Nat /\ MaxFaults \in Nat
    /\ NoTime \notin Int

VARIABLES
    clock,      \* datetime.now()
    rows,       \* the table schedules: next_run_at and what it depends on
    running,    \* number of schedule_runs rows of a schedule left "running"
    jobs,       \* asyncio tasks of run_scheduled_agent, queued or running
    pc,         \* where the polling loop is: down, sleeping, firing, committing
    tick,       \* the loop's `now'
    due,        \* the selected rows the loop has not come to yet
    snap,       \* those rows as the loop's session holds them
    cur,        \* the row whose commit is awaited
    edit,       \* the change to a row a user's request is about to commit
    edits,      \* user operations so far
    faults,     \* injected faults so far
    fired,      \* history: <<id, due time>> the loop enqueued a job for
    refired,    \* history: those it enqueued a second job for
    slips,      \* history: due times still in a row although they were passed,
                \* by a lost commit or by a write computed before the last poll
    lateFires   \* history: jobs enqueued for a schedule since it was disabled

table == <<rows, running>>
loop == <<pc, tick, due, snap, cur>>
history == <<fired, refired, slips, lateFires>>
users == <<edit, edits>>
vars == <<clock, table, jobs, loop, users, faults, history>>

Row == [enabled : BOOLEAN, cron : Crons, tz : Zones, next : Nat \cup {NoTime}]
Job == [sched : Ids, cron : Crons, tz : Zones, now : Nat,
        stage : {"queued", "running", "saving"}]
Edit == [sched : Ids, op : {"cron", "zone", "enable", "disable"},
         cron : Crons, tz : Zones, next : Nat \cup {NoTime}, now : Nat]

ASSUME NullAssumption ==
    /\ NoRow \notin Row /\ Deleted \notin Row /\ NoRow # Deleted
    /\ NoJob \notin Job /\ NoEdit \notin Edit

Stored(s) == rows[s] \notin {NoRow, Deleted}
Up == pc # "down"
Alive(s) == {j \in Slots : jobs[j] # NoJob /\ jobs[j].sched = s}
Started(s) == {j \in Alive(s) : jobs[j].stage # "queued"}

----------------------------------------------------------------------------
(* Cron arithmetic *)

to_local(t, z) == t + Shift[z]
to_utc(t, z) == t - Shift[z]
get_next_M_inclusive(c, t) ==
    IF t % Period[c] = 0 THEN t ELSE t + Period[c] - (t % Period[c])
get_next(c, t) == t + Period[c] - (t % Period[c])

compute_next_run_M_base_in_utc(c, base, z) == to_utc(get_next(c, base), z)

\* _compute_next_run: the base goes to local time, the next match strictly
\* after it is found there and comes back to UTC.
compute_next_run(c, base, z) == to_utc(get_next(c, to_local(base, z)), z)

----------------------------------------------------------------------------
(* The job queue *)

\* enqueue without Redis: asyncio.create_task in this process.
enqueue(s, c, z) ==
    \E j \in Slots :
        /\ jobs[j] = NoJob
        /\ \A i \in Slots : i < j => jobs[i] # NoJob
        /\ jobs' = [jobs EXCEPT ![j] = [sched |-> s, cron |-> c, tz |-> z,
                                        now |-> clock, stage |-> "queued"]]

BelowFaultBound == faults + Cardinality({s \in Ids : rows[s] = Deleted}) < MaxFaults

Fault ==
    /\ BelowFaultBound
    /\ faults' = faults + 1

\* A write of `t' into row s that was computed at `now': the loop may have
\* polled since, and t may be a time it has already fired.
Slip(s, t, now) ==
    slips' = IF now < tick THEN slips \cup {<<s, t>>} ELSE slips

----------------------------------------------------------------------------
(* The polling loop *)

\* A row of an earlier version of the program has no next_run_at.
Init ==
    /\ clock = 0 /\ tick = 0
    /\ rows \in [Ids -> {NoRow} \cup
                 [enabled : BOOLEAN, cron : Crons, tz : {UTC}, next : {NoTime}]]
    /\ running = [s \in Ids |-> 0]
    /\ jobs = [j \in Slots |-> NoJob]
    /\ pc = "down" /\ due = {} /\ cur \in Ids
    /\ snap = [s \in Ids |-> NoRow]
    /\ edit = NoEdit /\ edits = 0 /\ faults = 0
    /\ fired = {} /\ refired = {} /\ slips = {}
    /\ lateFires = [s \in Ids |-> 0]

\* start_scheduler: give every enabled row a time, then start the loop.
start_scheduler ==
    /\ pc = "down"
    /\ pc' = "sleeping"
    /\ rows' = [s \in Ids |->
                   IF Stored(s) /\ rows[s].enabled /\ rows[s].next = NoTime
                   THEN [rows[s] EXCEPT !.next =
                           compute_next_run(rows[s].cron, clock, rows[s].tz)]
                   ELSE rows[s]]
    /\ UNCHANGED <<clock, running, jobs, tick, due, snap, cur, users, faults,
                   history>>

due_rows_M_overlap_guard(now) ==
    {s \in Ids : Stored(s) /\ rows[s].enabled /\ rows[s].next # NoTime
                 /\ rows[s].next <= now /\ running[s] = 0}
due_rows_M_enabled_ignored(now) ==
    {s \in Ids : Stored(s) /\ rows[s].next # NoTime /\ rows[s].next <= now}

\* The loop's select: enabled rows whose time has come.
due_rows(now) ==
    {s \in Ids : /\ Stored(s) /\ rows[s].enabled
                 /\ rows[s].next # NoTime /\ rows[s].next <= now}

\* The loop wakes up and selects; the objects it gets are its own copies.
Wake ==
    /\ pc = "sleeping"
    /\ due_rows(clock) # {}
    /\ tick' = clock
    /\ due' = due_rows(clock)
    /\ snap' = [s \in Ids |-> IF s \in due' THEN rows[s] ELSE NoRow]
    /\ pc' = "firing"
    /\ UNCHANGED <<clock, table, jobs, cur, users, faults, history>>

\* Nothing is due: the loop goes back to sleep.
PollFindsNothing ==
    /\ pc = "sleeping"
    /\ due_rows(clock) = {}
    /\ UNCHANGED vars

\* One selected row: enqueue its job with the values of the copy, then await
\* the commit of the advanced next_run_at.  Nothing suspends in between.
FireDue(s) ==
    LET firing == <<s, snap[s].next>>
    IN /\ pc = "firing" /\ s \in due
       /\ enqueue(s, snap[s].cron, snap[s].tz)
       /\ pc' = "committing" /\ cur' = s /\ due' = due \ {s}
       /\ fired' = fired \cup {firing}
       /\ refired' = IF firing \in fired THEN refired \cup {firing} ELSE refired
       /\ lateFires' = IF Stored(s) /\ ~rows[s].enabled
                        THEN [lateFires EXCEPT ![s] = @ + 1] ELSE lateFires
       /\ UNCHANGED <<clock, table, tick, snap, users, faults, slips>>

AfterRow == IF due = {} THEN "sleeping" ELSE "firing"

\* The commit writes next_run_at and no other column, computed from the copy.
Commit ==
    /\ pc = "committing" /\ Stored(cur)
    /\ rows' = [rows EXCEPT ![cur].next =
                   compute_next_run(snap[cur].cron, tick, snap[cur].tz)]
    /\ pc' = AfterRow
    /\ UNCHANGED <<clock, running, jobs, tick, due, snap, cur, users, faults,
                   history>>

\* The failed commit rolls the session back, which expires the copies of the
\* rows still to come: reading the next one raises, and the rest of this poll
\* is given up.
AbandonPoll ==
    /\ pc' = "sleeping" /\ due' = {}
    /\ UNCHANGED <<tick, snap, cur>>

\* The row was deleted meanwhile: its UPDATE matches nothing and raises.
CommitFindsNoRow ==
    /\ pc = "committing" /\ ~Stored(cur)
    /\ AbandonPoll
    /\ UNCHANGED <<clock, table, jobs, users, faults, history>>

CommitFails ==
    /\ pc = "committing" /\ Stored(cur)
    /\ Fault
    /\ AbandonPoll
    /\ slips' = slips \cup {<<cur, snap[cur].next>>}
    /\ UNCHANGED <<clock, table, jobs, users, fired, refired, lateFires>>

----------------------------------------------------------------------------
(* The job: _execute_schedule *)

\* It records itself as running.  Nothing looks at the schedule again: a job
\* of a row that was disabled or changed meanwhile runs as it was enqueued.
JobStart(j) ==
    /\ jobs[j] # NoJob /\ jobs[j].stage = "queued"
    /\ jobs' = [jobs EXCEPT ![j].stage = "running"]
    /\ running' = IF Stored(jobs[j].sched)
                  THEN [running EXCEPT ![jobs[j].sched] = @ + 1] ELSE running
    /\ UNCHANGED <<clock, rows, loop, users, faults, history>>

\* The insert fails (for a deleted schedule, by its foreign key): no run.
JobStartFails(j) ==
    /\ jobs[j] # NoJob /\ jobs[j].stage = "queued"
    /\ IF Stored(jobs[j].sched) THEN Fault ELSE UNCHANGED faults
    /\ jobs' = [jobs EXCEPT ![j] = NoJob]
    /\ UNCHANGED <<clock, table, loop, users, history>>

\* The agent is done, with a result or an error; `now' is read before the
\* transaction that records it.
JobEnds(j) ==
    /\ jobs[j] # NoJob /\ jobs[j].stage = "running"
    /\ jobs' = [jobs EXCEPT ![j].stage = "saving", ![j].now = clock]
    /\ UNCHANGED <<clock, table, loop, users, faults, history>>

JobSaves_M_run_row_forgotten(j) ==
    LET job == jobs[j]
        s == job.sched
        next == compute_next_run(job.cron, job.now, job.tz)
    IN /\ job # NoJob /\ job.stage = "saving"
       /\ jobs' = [jobs EXCEPT ![j] = NoJob]
       /\ IF Stored(s)
          THEN /\ rows' = [rows EXCEPT ![s].next = next]
               /\ Slip(s, next, job.now)
          ELSE UNCHANGED <<rows, slips>>
       /\ UNCHANGED <<clock, running, loop, users, faults, fired, refired,
                      lateFires>>

\* One transaction ends the run row and writes next_run_at, computed from the
\* cron expression and the zone the job was enqueued with.
JobSaves(j) ==
    LET job == jobs[j]
        s == job.sched
        next == compute_next_run(job.cron, job.now, job.tz)
    IN /\ job # NoJob /\ job.stage = "saving"
       /\ jobs' = [jobs EXCEPT ![j] = NoJob]
       /\ IF Stored(s)
          THEN /\ rows' = [rows EXCEPT ![s].next = next]
               /\ running' = [running EXCEPT ![s] = @ - 1]
               /\ Slip(s, next, job.now)
          ELSE UNCHANGED <<table, slips>>
       /\ UNCHANGED <<clock, loop, users, faults, fired, refired, lateFires>>

\* That transaction fails, which is only logged: the run row stays "running".
JobSaveFails(j) ==
    /\ jobs[j] # NoJob /\ jobs[j].stage = "saving"
    /\ Fault
    /\ jobs' = [jobs EXCEPT ![j] = NoJob]
    /\ UNCHANGED <<clock, table, loop, users, history>>

----------------------------------------------------------------------------
(* What users do *)

Request ==
    /\ Up /\ edits < MaxEdits
    /\ edits' = edits + 1

create_schedule(s, c, z) ==
    /\ Request
    /\ rows[s] = NoRow
    /\ rows' = [rows EXCEPT ![s] = [enabled |-> TRUE, cron |-> c, tz |-> z,
                                     next |-> compute_next_run(c, clock, z)]]
    /\ UNCHANGED <<clock, running, jobs, loop, edit, faults, history>>

\* The run rows of the schedule go with it.
delete_schedule(s) ==
    /\ Up /\ BelowFaultBound
    /\ Stored(s)
    /\ rows' = [rows EXCEPT ![s] = Deleted]
    /\ running' = [running EXCEPT ![s] = 0]
    /\ UNCHANGED <<clock, jobs, loop, users, faults, history>>

\* The call leaves out user_timezone, so the job gets its default, UTC.
trigger_schedule_now(s) ==
    /\ Request
    /\ Stored(s)
    /\ enqueue(s, rows[s].cron, UTC)
    /\ UNCHANGED <<clock, table, loop, edit, faults, history>>

\* update_schedule reads the row and computes what its commit will write.
update_schedule(s, op, c, z) ==
    /\ Request
    /\ Stored(s) /\ edit = NoEdit
    /\ op # "cron" => c = rows[s].cron
    /\ op # "zone" => z = rows[s].tz
    /\ edit' = [sched |-> s, op |-> op, cron |-> c, tz |-> z, now |-> clock,
                next |-> IF \/ op \in {"cron", "zone"}
                            \/ op = "enable" /\ rows[s].next = NoTime
                         THEN compute_next_run(c, clock, z) ELSE NoTime]
    /\ UNCHANGED <<clock, table, jobs, loop, faults, history>>

\* Only the columns the request changed are written.
UpdateCommits ==
    LET s == edit.sched
        next == IF edit.next = NoTime THEN rows[s].next ELSE edit.next
        old == rows[s]
    IN /\ edit # NoEdit
       /\ edit' = NoEdit
       /\ Stored(s)
       /\ rows' = [rows EXCEPT ![s] =
                     CASE edit.op = "cron" ->
                            [old EXCEPT !.cron = edit.cron, !.next = next]
                       [] edit.op = "zone" ->
                            [old EXCEPT !.tz = edit.tz, !.next = next]
                       [] edit.op = "enable" ->
                            [old EXCEPT !.enabled = TRUE, !.next = next]
                       [] edit.op = "disable" ->
                            [old EXCEPT !.enabled = FALSE]]
       /\ IF edit.next = NoTime THEN UNCHANGED slips
          ELSE Slip(s, edit.next, edit.now)
       /\ lateFires' = IF edit.op = "enable" THEN [lateFires EXCEPT ![s] = 0]
                       ELSE lateFires
       /\ UNCHANGED <<clock, running, jobs, loop, edits, faults, fired, refired>>

\* The row went away between the read and the commit: the request fails.
UpdateFindsNoRow ==
    /\ edit # NoEdit /\ ~Stored(edit.sched)
    /\ edit' = NoEdit
    /\ UNCHANGED <<clock, table, jobs, loop, edits, faults, history>>

----------------------------------------------------------------------------
(* The process and the clock *)

\* The process ends, whether stopped (stop_scheduler) or killed: tasks and
\* requests are gone, an awaited commit may be lost, the tables stay.
Crash ==
    /\ Up
    /\ Fault
    /\ pc' = "down" /\ due' = {}
    /\ jobs' = [j \in Slots |-> NoJob]
    /\ edit' = NoEdit
    /\ slips' = IF pc = "committing" THEN slips \cup {<<cur, snap[cur].next>>}
                ELSE slips
    /\ UNCHANGED <<clock, table, tick, snap, cur, edits, fired, refired,
                   lateFires>>

Elapse ==
    /\ clock < MaxTime
    /\ clock' = clock + 1
    /\ UNCHANGED <<table, jobs, loop, users, faults, history>>

Loop ==
    \/ start_scheduler \/ Wake \/ PollFindsNothing
    \/ \E s \in Ids : FireDue(s)
    \/ Commit \/ CommitFindsNoRow \/ CommitFails

JobStep(j) == JobStart(j) \/ JobStartFails(j) \/ JobEnds(j) \/ JobSaves(j)
              \/ JobSaveFails(j)

\* A schedule is named by its id, the beginning of its id, or its name.
resolve_schedule == {s \in Ids : Stored(s)}

\* /schedule: the name is resolved in one transaction, and the operation runs
\* in another.
handle_schedule_command ==
    \/ \E s \in Ids, c \in Crons, z \in Zones : create_schedule(s, c, z)
    \/ \E s \in resolve_schedule :
          \/ delete_schedule(s) \/ trigger_schedule_now(s)
          \/ \E op \in {"enable", "disable"} :
                update_schedule(s, op, rows[s].cron, rows[s].tz)

\* The REST route also changes the expression and the zone.
api_update_schedule ==
    \E s \in Ids, c \in Crons, z \in Zones :
        \E op \in {"cron", "zone", "enable", "disable"} :
            update_schedule(s, op, c, z)

UserStep ==
    \/ handle_schedule_command \/ api_update_schedule
    \/ UpdateCommits \/ UpdateFindsNoRow

Next == Loop \/ (\E j \in Slots : JobStep(j)) \/ UserStep \/ Crash \/ Elapse

Spec == Init /\ [][Next]_vars

\* The loop is a task that is always scheduled again and a process that ends
\* is started again; a job ends only by assumption (see DueIsFired).
Fairness ==
    /\ WF_vars(start_scheduler) /\ WF_vars(Wake)
    /\ WF_vars(\E s \in Ids : FireDue(s))
    /\ WF_vars(Commit \/ CommitFindsNoRow)
    /\ \A j \in Slots : WF_vars(JobStart(j) \/ JobEnds(j) \/ JobSaves(j))

FairSpec == Spec /\ Fairness

----------------------------------------------------------------------------
(* Properties *)

TypeOK ==
    /\ clock \in Nat /\ tick \in Nat /\ tick <= clock
    /\ rows \in [Ids -> Row \cup {NoRow, Deleted}]
    /\ running \in [Ids -> Int]
    /\ jobs \in [Slots -> Job \cup {NoJob}]
    /\ pc \in {"down", "sleeping", "firing", "committing"}
    /\ due \subseteq Ids /\ cur \in Ids
    /\ snap \in [Ids -> Row \cup {NoRow}]
    /\ edit \in Edit \cup {NoEdit} /\ edits \in Nat /\ faults \in Nat
    /\ fired \subseteq Ids \X (Nat \cup {NoTime})
    /\ refired \subseteq fired
    /\ slips \subseteq Ids \X (Nat \cup {NoTime})
    /\ lateFires \in [Ids -> Nat]

\* The loop enqueues a second job for the same due time of a schedule only if
\* that time stayed in the row: the commit that follows the first enqueue was
\* lost, or a job or a request that had read the clock before the last poll
\* wrote it back.  Nothing else (jobs that overlap, edits in the commit's
\* await, a restart) makes a schedule run twice.
FiredOnce == refired \subseteq slips

\* A schedule that was disabled runs at most once more before it is enabled
\* again: only a poll that had already selected it can still enqueue it.
DisabledQuietens == \A s \in Ids : lateFires[s] <= 1

\* While no database call failed and the process did not end, exactly the jobs
\* that run are on record as running: each run row ends with its job, however
\* the jobs of a schedule overlap.
RunsSettle ==
    faults = 0 => \A s \in Ids : Stored(s) => running[s] = Cardinality(Started(s))

\* Stated of the table, not of the loop's query.
IsDue(s) == /\ Stored(s) /\ rows[s].enabled
            /\ rows[s].next # NoTime /\ rows[s].next <= clock

\* A due schedule does not stay due: the loop, after a crash or an abandoned
\* poll too, comes to fire it (or a user or a job moves it first).
DueIsFired == \A s \in Ids : IsDue(s) ~> ~IsDue(s)
=============================================================================
