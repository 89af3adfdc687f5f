----------------------------- MODULE RateLimits -----------------------------
(***************************************************************************)
(* The rate limits of one user (core/rate_limit.py): sliding windows in    *)
(* Redis, shared by the replicas, or, when there was no Redis at startup,  *)
(* token buckets in the process; the limit of the auth endpoints is a      *)
(* sliding window there too, and that of tool calls is in the process      *)
(* always.  An action passes its limits in order.                          *)
(*                                                                         *)
(* A check in Redis is one transaction, which counts and adds at once; a   *)
(* check over the limit takes its own entry out again with a second call,  *)
(* and asks for the oldest one with a third.  A check that Redis does not  *)
(* answer is let through: what rate_limit.py:3-4 and :110 say, that the    *)
(* process then counts in memory, it does only when Redis was not there at *)
(* startup.                                                                *)
(* Time is in ticks; two checks within a tick have different clock values  *)
(* in the code, so an entry has a number next to its tick.                 *)
(***************************************************************************)
EXTENDS Integers, Sequences, FiniteSets

CONSTANTS Requests,  \* requests served at a time
          Cascade,   \* [action -> sequence of the limits it passes]
          Capacity,  \* [limit -> checks it allows in a window]
          Window,    \* [limit -> length of its window]
          Sliding,   \* limits that are a sliding window in the process, too
          Local,     \* limits that are in the process always
          MaxTime, MaxFaults, \* bounds
          NoJob, NoEntry

Limits == DOMAIN Capacity
Actions == DOMAIN Cascade

ASSUME RateLimitsAssumption ==
  /\ \A a \in Actions : Cascade[a] \in Seq(Limits) /\ Cascade[a] # <<>>
  /\ DOMAIN Window = Limits /\ Sliding \subseteq Limits /\ Local \subseteq Limits
  /\ \A l \in Limits : Capacity[l] \in Nat \ {0} /\ Window[l] \in Nat \ {0}
  /\ MaxTime \in Nat /\ MaxFaults \in Nat

Entry == [at : 0..MaxTime, no : Nat]
Job == [action : Actions, step : Nat \ {0}, pc : {"check", "undo", "oldest"}, entry : Entry \cup {NoEntry}]

ASSUME NullsAssumption == NoEntry \notin Entry /\ NoJob \notin Job

VARIABLES now,
          redis,    \* "off" (unset, or no connection at startup), "on", "lost"
          entries,  \* sorted sets in Redis: [limit -> its entries]
          history,  \* the checks let through, in the process
          tokens,   \* buckets in the process, in units of 1/Window
          jobs,     \* [request -> NoJob or which limit of which action it is at]
          checks,   \* checks numbered so far
          admitted, \* history: [limit -> entries of the checks counted and let through]
          stuck,    \* history: [limit -> entries whose rejection could not be undone]
          unchecked, \* history: [limit -> checks let through because Redis failed]
          faults

limitsVars == <<now, redis, entries, history, tokens, jobs, checks, admitted, stuck, unchecked,
                faults>>

Full(l) == Capacity[l] * Window[l]
Shared(l) == redis # "off" /\ l \notin Local

At(r, pc) == IF jobs[r] = NoJob THEN FALSE ELSE jobs[r].pc = pc
Limit(r) == Cascade[jobs[r].action][jobs[r].step]
Answered(r) == jobs' = [jobs EXCEPT ![r] = NoJob]
Checking(a, i) == [action |-> a, step |-> i, pc |-> "check", entry |-> NoEntry]
(* The next limit of the action; after the last one the action is taken. *)
Passed(r) ==
  jobs' = [jobs EXCEPT ![r] = IF jobs[r].step = Len(Cascade[jobs[r].action]) THEN NoJob
                              ELSE Checking(jobs[r].action, jobs[r].step + 1)]

Fresh == /\ history = [l \in Limits |-> {}]
         /\ tokens = [l \in Limits |-> Full(l)]

LimitsInit == /\ now = 0 /\ faults = 0 /\ checks = 0 /\ redis \in {"off", "on"}
              /\ entries = [l \in Limits |-> {}] /\ Fresh
              /\ jobs = [r \in Requests |-> NoJob]
              /\ admitted = [l \in Limits |-> {}] /\ stuck = [l \in Limits |-> {}]
              /\ unchecked = [l \in Limits |-> {}]

InWindow(l, S) == {e \in S : e.at > now - Window[l]}
NewEntry == [at |-> now, no |-> checks]
Note(l) == admitted' = [admitted EXCEPT ![l] = @ \cup {NewEntry}]

Ask(r) == /\ jobs[r] = NoJob
          /\ \E a \in Actions : jobs' = [jobs EXCEPT ![r] = Checking(a, 1)]
          /\ UNCHANGED <<now, redis, entries, history, tokens, checks, admitted, stuck, unchecked, faults>>
----------------------------------------------------------------------------
(* In Redis *)

(* What left the window is dropped, the rest counted, and the check added. *)
Reached_M_above(l) == Cardinality(InWindow(l, entries[l])) > Capacity[l]
Reached(l) == Cardinality(InWindow(l, entries[l])) >= Capacity[l]
_redis_check(r) ==
  /\ At(r, "check") /\ Shared(Limit(r)) /\ redis = "on"
  /\ LET l == Limit(r) IN
     /\ entries' = [entries EXCEPT ![l] = InWindow(l, @) \cup {NewEntry}]
     /\ IF Reached(l)
        THEN jobs' = [jobs EXCEPT ![r].pc = "undo", ![r].entry = NewEntry] /\ UNCHANGED admitted
        ELSE Passed(r) /\ Note(l)
  /\ checks' = checks + 1
  /\ UNCHANGED <<now, redis, history, tokens, stuck, unchecked, faults>>

Undo_M_none(S, e) == S
Undo(S, e) == S \ {e}
Reject(r) ==
  /\ At(r, "undo") /\ redis = "on"
  /\ entries' = [entries EXCEPT ![Limit(r)] = Undo(@, jobs[r].entry)]
  /\ jobs' = [jobs EXCEPT ![r].pc = "oldest", ![r].entry = NoEntry]
  /\ UNCHANGED <<now, redis, history, tokens, checks, admitted, stuck, unchecked, faults>>

(* The oldest entry says when to retry; the check is rejected.             *)
Oldest(r) ==
  /\ At(r, "oldest") /\ redis = "on" /\ Answered(r)
  /\ UNCHANGED <<now, redis, entries, history, tokens, checks, admitted, stuck, unchecked, faults>>

(* Redis that does not answer lets everybody pass: a check that it did not *)
(* count, and also one that was over the limit, whose entry stays unless   *)
(* it was already taken out.                                               *)
RedisRaises(r) ==
  /\ redis = "lost"
  /\ \/ At(r, "check") /\ Shared(Limit(r)) /\ UNCHANGED stuck
     \/ At(r, "undo") /\ stuck' = [stuck EXCEPT ![Limit(r)] = @ \cup {jobs[r].entry}]
     \/ At(r, "oldest") /\ UNCHANGED stuck
  /\ Passed(r)
  /\ unchecked' = [unchecked EXCEPT ![Limit(r)] = @ \cup {NewEntry}] /\ checks' = checks + 1
  /\ UNCHANGED <<now, redis, entries, history, tokens, admitted, faults>>
----------------------------------------------------------------------------
(* In the process; limits that were passed stay consumed when a later one  *)
(* rejects.                                                                *)

consume_M_partial(l) == tokens[l] > 0
consume(l) == tokens[l] >= Window[l]
BucketCheck(r) ==
  /\ At(r, "check") /\ ~Shared(Limit(r)) /\ Limit(r) \notin Sliding
  /\ LET l == Limit(r) IN
       IF consume(l)
       THEN tokens' = [tokens EXCEPT ![l] = @ - Window[l]] /\ Passed(r) /\ Note(l)
       ELSE Answered(r) /\ UNCHANGED <<tokens, admitted>>
  /\ checks' = checks + 1
  /\ UNCHANGED <<now, redis, entries, history, stuck, unchecked, faults>>

SlidingCheck(r) ==
  /\ At(r, "check") /\ ~Shared(Limit(r)) /\ Limit(r) \in Sliding
  /\ LET l == Limit(r) IN
       IF Cardinality(InWindow(l, history[l])) >= Capacity[l]
       THEN Answered(r) /\ UNCHANGED <<history, admitted>>
       ELSE history' = [history EXCEPT ![l] = InWindow(l, @) \cup {NewEntry}] /\ Passed(r) /\ Note(l)
  /\ checks' = checks + 1
  /\ UNCHANGED <<now, redis, entries, tokens, stuck, unchecked, faults>>

(* A bucket gains its capacity in a window, and holds no more. *)
Refilled(l) == IF tokens[l] + Capacity[l] > Full(l) THEN Full(l) ELSE tokens[l] + Capacity[l]
Tick == /\ now < MaxTime /\ now' = now + 1
        /\ tokens' = [l \in Limits |-> Refilled(l)]
        /\ UNCHANGED <<redis, entries, history, jobs, checks, admitted, stuck, unchecked, faults>>
----------------------------------------------------------------------------
Lose == /\ redis = "on" /\ faults < MaxFaults
        /\ redis' = "lost" /\ faults' = faults + 1
        /\ UNCHANGED <<now, entries, history, tokens, jobs, checks, admitted, stuck, unchecked>>
Recover == /\ redis = "lost" /\ redis' = "on"
           /\ UNCHANGED <<now, entries, history, tokens, jobs, checks, admitted, stuck, unchecked, faults>>

(* The process starts again: Redis keeps its entries, those of the checks  *)
(* that were about to be undone among them; what was in the process is     *)
(* forgotten, and with it what it had counted.                             *)
Undoing(l) == {r \in Requests : IF At(r, "undo") THEN Limit(r) = l ELSE FALSE}
ToUndo(l) == {jobs[r].entry : r \in Undoing(l)}
Restart ==
  /\ faults < MaxFaults /\ faults' = faults + 1
  /\ jobs' = [r \in Requests |-> NoJob]
  /\ stuck' = [l \in Limits |-> stuck[l] \cup ToUndo(l)]
  /\ admitted' = [l \in Limits |-> IF Shared(l) THEN admitted[l] ELSE {}]
  /\ history' = [l \in Limits |-> {}] /\ tokens' = [l \in Limits |-> Full(l)]
  /\ UNCHANGED <<now, redis, entries, checks, unchecked>>

LimitsNext == \/ Tick \/ Lose \/ Recover \/ Restart
              \/ \E r \in Requests : \/ Ask(r) \/ _redis_check(r) \/ Reject(r) \/ Oldest(r)
                                     \/ RedisRaises(r) \/ BucketCheck(r) \/ SlidingCheck(r)

LimitsSpec == LimitsInit /\ [][LimitsNext]_limitsVars
----------------------------------------------------------------------------
LimitsTypeOK ==
  /\ now \in 0..MaxTime /\ redis \in {"off", "on", "lost"} /\ faults \in 0..MaxFaults
  /\ {entries, history, admitted, stuck, unchecked} \subseteq [Limits -> SUBSET Entry]
  /\ checks \in Nat
  /\ tokens \in [Limits -> Nat] /\ \A l \in Limits : tokens[l] <= Full(l)
  /\ jobs \in [Requests -> Job \cup {NoJob}]
  /\ \A r \in Requests : jobs[r] # NoJob =>
       /\ jobs[r].step <= Len(Cascade[jobs[r].action])
       /\ jobs[r].pc = "undo" <=> jobs[r].entry # NoEntry

(* Of the checks let through in a window of a limit, at most its capacity  *)
(* were not let through by a failing Redis: an outage lets checks through  *)
(* on top, without a bound, and neither it, nor what was about to be taken *)
(* back when it came or the process restarted, gives away what the limit   *)
(* itself allows.  Without an outage in the window that is the limit.  A   *)
(* bucket, which may be full when the window begins, adds to its capacity  *)
(* what it gains within the window.  (core/rate_limit.py:53-67, :104-111)  *)
LimitHolds ==
  \A l \in Limits :
    LET n == Cardinality(InWindow(l, admitted[l] \cup unchecked[l])) - Cardinality(InWindow(l, unchecked[l]))
    IN IF Shared(l) \/ l \in Sliding THEN n <= Capacity[l]
                                     ELSE n * Window[l] <= Full(l) + Capacity[l] * (Window[l] - 1)

(* A rejected check leaves nothing behind that counts against the user:    *)
(* what Redis holds of a window are the entries of checks let through, of  *)
(* checks about to be taken out, and those an outage or a restart kept     *)
(* from being taken out, and no entry of the first kind is of another.     *)
(* (core/rate_limit.py:101-103)                                            *)
RejectionsDoNotCount ==
  \A l \in Limits : Shared(l) =>
    /\ InWindow(l, entries[l]) = InWindow(l, admitted[l] \cup stuck[l] \cup ToUndo(l))
    /\ admitted[l] \cap (stuck[l] \cup ToUndo(l)) = {}
=============================================================================
