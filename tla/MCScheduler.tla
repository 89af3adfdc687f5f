---------------------------- MODULE MCScheduler ----------------------------
(* Small instances of Scheduler: the cron matches every two units of time; *)
(* the zone "east" is three units ahead of UTC.                           *)
EXTENDS Scheduler

CONSTANTS minute, east, utc, s1, s2

OneCron == {minute}
Periods == [c \in Crons |-> 2]
TwoZones == {utc, east}
Shifts == [z \in Zones |-> IF z = utc THEN 0 ELSE 3]
TwoSlots == 1..2

(* The copies of rows the loop is done with are not looked at again, nor   *)
(* is when a job that has not ended was enqueued, nor when the last poll   *)
(* was but by what had read the clock before, nor a deleted schedule.      *)
InUse(s) == s \in due \/ (pc = "committing" /\ s = cur)
Polled == pc \in {"firing", "committing"}
Older == {j \in Slots : jobs[j] # NoJob /\ jobs[j].stage = "saving" /\ jobs[j].now < tick}
JobView(j) == IF jobs[j] # NoJob /\ jobs[j].stage # "saving" THEN [jobs[j] EXCEPT !.now = 0] ELSE jobs[j]
Kept(S) == {p \in S : rows[p[1]] # Deleted \/ (Polled /\ InUse(p[1]))}
View == <<clock, table, [j \in Slots |-> JobView(j)], users, faults, pc, due,
          IF Polled THEN tick ELSE <<Older, edit # NoEdit /\ edit.now < tick>>,
          IF pc = "committing" THEN cur ELSE NoRow,
          [s \in Ids |-> IF InUse(s) THEN snap[s] ELSE NoRow],
          Kept(fired), FiredOnce, Kept(slips), lateFires>>
=============================================================================
