------------------------------ MODULE Memories ------------------------------
(***************************************************************************)
(* The memories of one user: rows that the tools, the REST routes and      *)
(* background jobs add, change and delete (memory/manager.py,              *)
(* routes/memory.py), and the jobs that extract them from a conversation   *)
(* (core/memory_extractor.py, _maybe_enqueue_extract of core/session.py,   *)
(* core/job_queue.py).                                                     *)
(*                                                                         *)
(* Titles that differ in case only are one title; the other fields of a    *)
(* memory are left out.  There is one session of one conversation, with    *)
(* one turn and one message of the router in flight (handlers/             *)
(* ws_router.py, core/context.py), and a list of messages is its length: a *)
(* deleted conversation is still a row and is extracted as well.  What the *)
(* model answers is a choice.                                              *)
(***************************************************************************)
EXTENDS Integers, Sequences

CONSTANTS Titles, Jobs,
          Arq,         \* jobs go to Redis first
          Minima,      \* values of auto_extract_min_messages
          MaxItems,    \* items of an answer that are used
          Summary,     \* messages that a summary asked for leaves (5 in the code)
          MaxRows, MaxMessages, MaxFaults, \* bounds
          None

(* by: the job that saved it under this title, if one did, and after: the  *)
(* number of memories there had been when that job read their titles.      *)
(* "raised": the job was told that the save had failed.                    *)
Memory == [title : Titles, by : Jobs \cup {"user", "renamed", "raised"}, after : 0..MaxRows]
Job == [pc : {"queued", "model", "save"}, existing : SUBSET Titles,
        after : 0..MaxRows, left : 0..MaxItems]

ASSUME MemoriesAssumption ==
  /\ {MaxItems, MaxRows, MaxMessages, Summary} \subseteq Nat \ {0}
  /\ MaxFaults \in Nat /\ Arq \in BOOLEAN
  /\ Minima \subseteq Nat \ {0} /\ Minima # {}
  /\ {"user", "renamed", "raised"} \cap Jobs = {}
  /\ None \notin Memory \cup Job \cup Nat

VARIABLES rows,     \* memories in the order of creation; None: deleted
          files,    \* titles of the files of the fallback
          settings, \* auto_extract_enabled and auto_extract_min_messages
          sess,     \* the session: messages, _last_extract_msg_count, within a save
          turn,     \* the list that the turn in flight began with, 0: the session's; or None
          router,   \* what a resume or a summary in flight gives the session, or None
          snapshot, \* messages before the last compression, 0: none
          stored,   \* messages of the conversation's rows
          jobs,     \* [job -> None or what it is doing]
          fresh,    \* history: messages that turns added since a job was queued
          back,     \* history: messages the session was given back since then
          faults

vars == <<rows, files, settings, sess, turn, router, snapshot, stored, jobs, fresh, back, faults>>
table == <<rows, files>>
session == <<sess, fresh, back>>
conversation == <<session, turn, router, snapshot, stored>>

Ids == 1..Len(rows)
Existing == {rows[i].title : i \in {j \in Ids : rows[j] # None}}

Queued == [pc |-> "queued", existing |-> {}, after |-> 0, left |-> 0]

Destroyed == [count |-> 0, last |-> 0, saving |-> FALSE]

Init == /\ rows = <<>> /\ files = {}
        /\ settings = [on |-> FALSE, min |-> CHOOSE n \in Minima : TRUE]
        /\ sess = Destroyed /\ turn = None /\ router = None /\ snapshot = 0 /\ stored = 0
        /\ jobs = [j \in Jobs |-> None]
        /\ fresh = 0 /\ back = 0 /\ faults = 0
----------------------------------------------------------------------------
(* memory/manager.py *)

InsertRow(t, j, after) ==
  /\ Len(rows) < MaxRows
  /\ rows' = Append(rows, [title |-> t, by |-> j, after |-> after])

_save_memory_file(t) == files' = files \cup {t}

(* A file when the database fails, also when it fails in the refresh after *)
(* the commit.                                                             *)
save_memory(t, j, after) ==
  \/ InsertRow(t, j, after) /\ UNCHANGED <<files, faults>>
  \/ /\ faults < MaxFaults /\ faults' = faults + 1
     /\ InsertRow(t, j, after) \/ UNCHANGED rows
     /\ _save_memory_file(t)

(* The file cannot be written either. *)
SaveRaises(t, j, after) ==
  /\ faults < MaxFaults /\ faults' = faults + 1
  /\ InsertRow(t, j, after) \/ UNCHANGED rows
  /\ UNCHANGED files

SaveMemory(t) ==
  /\ save_memory(t, "user", 0) \/ SaveRaises(t, "user", 0)
  /\ UNCHANGED <<settings, conversation, jobs>>

(* The columns that are given another value are written, and no other.     *)
update_memory(i, t) ==
  /\ rows[i] # None /\ t # rows[i].title
  /\ rows' = [rows EXCEPT ![i] = [title |-> t, by |-> "renamed", after |-> 0]]
  /\ UNCHANGED <<files, settings, conversation, jobs, faults>>

delete_memory(i) ==
  /\ rows[i] # None
  /\ rows' = [rows EXCEPT ![i] = None]
  /\ UNCHANGED <<files, settings, conversation, jobs, faults>>

api_update_settings ==
  /\ \E on \in BOOLEAN, n \in Minima : settings' = [on |-> on, min |-> n] /\ settings' # settings
  /\ UNCHANGED <<table, conversation, jobs, faults>>
----------------------------------------------------------------------------
(* The conversation's session *)

Positive(n) == IF n > 0 THEN n ELSE 0

(* The session gets a list of n messages, of which new are new to it.      *)
conv_session_set(n, new) ==
  /\ sess' = [sess EXCEPT !.count = n]
  /\ fresh' = fresh + new /\ back' = back + Positive(n - sess.count - new)
  /\ {n, fresh', back'} \subseteq 0..MaxMessages

(* The list the turn began with is no longer the session's. *)
Own == IF turn = 0 THEN sess.count ELSE turn
Replaced == turn' = IF turn = None THEN None ELSE Own

(* The user's message goes into the session's list. *)
BeginTurn ==
  /\ turn = None /\ turn' = 0
  /\ conv_session_set(sess.count + 1, 1)
  /\ UNCHANGED <<table, settings, router, snapshot, stored, jobs, faults>>

(* agent.run works on a list of its own, which is kept before it is        *)
(* compressed, also when there is nothing to compress.                     *)
compress_if_needed ==
  /\ turn # None /\ snapshot' \in Own..MaxMessages
  /\ UNCHANGED <<table, settings, session, turn, router, stored, jobs, faults>>

(* Done, with what is left of the list and the new messages after the      *)
(* compressions; stopped or failed, which loses what agent.run has added;  *)
(* or stopped where nothing is set, or with no session any more.           *)
EndTurn ==
  /\ turn # None /\ turn' = None
  /\ \/ \E new \in 0..MaxMessages, n \in 1..MaxMessages :
          n <= Own + new /\ conv_session_set(n, new)
     \/ conv_session_set(Own, 0)
     \/ UNCHANGED session
  /\ UNCHANGED <<table, settings, router, snapshot, stored, jobs, faults>>

save_conversation ==
  /\ ~sess.saving /\ sess.count > 0
  /\ stored' = sess.count /\ sess' = [sess EXCEPT !.saving = TRUE]
  /\ UNCHANGED <<table, settings, turn, router, snapshot, jobs, fresh, back, faults>>

(* A task of the server, also when Redis refuses the job.  What Redis has  *)
(* taken is not run: worker.py imports a module that does not exist.       *)
enqueue == \/ \E j \in Jobs : jobs[j] = None /\ jobs' = [jobs EXCEPT ![j] = Queued]
           \/ Arq /\ UNCHANGED jobs

(* After a save, and still within its lock: enough messages, and enough of *)
(* them new by their number.  The settings are read after another await.   *)
Due == /\ settings.on /\ sess.count >= settings.min
       /\ sess.count - sess.last >= settings.min
Counted_M_stored == stored
Counted == sess.count
_maybe_enqueue_extract ==
  /\ sess.saving
  /\ IF Due THEN /\ enqueue
                 /\ sess' = [sess EXCEPT !.saving = FALSE, !.last = Counted]
                 /\ fresh' = 0 /\ back' = 0
            ELSE sess' = [sess EXCEPT !.saving = FALSE] /\ UNCHANGED <<jobs, fresh, back>>
  /\ UNCHANGED <<table, settings, turn, router, snapshot, stored, faults>>
----------------------------------------------------------------------------
(* What else the router does to the session *)

(* What was saved is destroyed; a save still waiting counts as before it. *)
Clear == /\ ~sess.saving /\ sess.count \in {0, stored} /\ sess' = Destroyed /\ Replaced
         /\ fresh' = 0 /\ back' = 0
         /\ UNCHANGED <<table, settings, router, snapshot, stored, jobs, faults>>

(* A resume, or a user message to a session that is empty, reads the rows; *)
(* a summary is asked of the model.  The session gets the list after that. *)
Read == /\ router = None
        /\ router' = stored \/ (sess.count > Summary /\ router' = Summary)
        /\ UNCHANGED <<table, settings, session, turn, snapshot, stored, jobs, faults>>

Install == /\ router # None /\ router' = None
           /\ conv_session_set(router, 0) /\ Replaced
           /\ UNCHANGED <<table, settings, snapshot, stored, jobs, faults>>

rollback_compression ==
  /\ snapshot > 0 /\ snapshot' = 0
  /\ conv_session_set(snapshot, 0) /\ Replaced
  /\ UNCHANGED <<table, settings, router, stored, jobs, faults>>

(* A retry takes the last answer out of the list, also out of a turn's.    *)
Retry == /\ \E n \in 1..(sess.count - 1) : conv_session_set(n, 0)
         /\ UNCHANGED <<table, settings, turn, router, snapshot, stored, jobs, faults>>
----------------------------------------------------------------------------
(* extract_memories_from_conversation *)

Ends(j) == jobs' = [jobs EXCEPT ![j] = None]

(* The user, the messages and the titles are read one after the other:     *)
(* what is changed in between is as if changed before or after.            *)
JobReads(j) ==
  /\ jobs[j] # None /\ jobs[j].pc = "queued"
  /\ IF settings.on /\ stored >= settings.min
     THEN jobs' = [jobs EXCEPT ![j] = [@ EXCEPT !.pc = "model", !.existing = Existing, !.after = Len(rows)]]
     ELSE Ends(j)
  /\ UNCHANGED <<table, settings, conversation, faults>>

Capped_M_all(n) == n
Capped(n) == IF n < MaxItems THEN n ELSE MaxItems

(* The call fails, or nothing in the answer can be used. *)
_call_model(j) ==
  /\ jobs[j] # None /\ jobs[j].pc = "model"
  /\ \/ Ends(j)
     \/ \E n \in 1..(MaxItems + 1) :
          jobs' = [jobs EXCEPT ![j] = [@ EXCEPT !.pc = "save", !.left = Capped(n)]]
  /\ UNCHANGED <<table, settings, conversation, faults>>

(* One item after the other. *)
Seen_M_read(existing, t) == existing
Seen(existing, t) == existing \cup {t}
Used(j, existing) ==
  jobs' = [jobs EXCEPT ![j] = IF jobs[j].left = 1 THEN None
                              ELSE [jobs[j] EXCEPT !.left = @ - 1, !.existing = existing]]
JobSaves(j) ==
  /\ jobs[j] # None /\ jobs[j].pc = "save"
  /\ \E t \in Titles :
       \/ t \in jobs[j].existing /\ Used(j, jobs[j].existing) /\ UNCHANGED <<table, faults>>
       \/ /\ t \notin jobs[j].existing /\ Used(j, Seen(jobs[j].existing, t))
          /\ save_memory(t, j, jobs[j].after)
       \/ /\ t \notin jobs[j].existing /\ Used(j, jobs[j].existing)
          /\ SaveRaises(t, "raised", jobs[j].after)
  /\ UNCHANGED <<settings, conversation>>
----------------------------------------------------------------------------
(* The server starts again: the jobs were tasks of it. *)
Restart == /\ faults < MaxFaults /\ faults' = faults + 1
           /\ sess' = Destroyed /\ fresh' = 0 /\ back' = 0
           /\ turn' = None /\ router' = None /\ snapshot' = 0
           /\ jobs' = [j \in Jobs |-> None]
           /\ UNCHANGED <<table, settings, stored>>

Next == \/ \E t \in Titles : SaveMemory(t)
        \/ \E i \in Ids : delete_memory(i) \/ (\E t \in Titles : update_memory(i, t))
        \/ api_update_settings
        \/ BeginTurn \/ compress_if_needed \/ EndTurn
        \/ save_conversation \/ _maybe_enqueue_extract
        \/ Clear \/ Read \/ Install \/ rollback_compression \/ Retry
        \/ \E j \in Jobs : JobReads(j) \/ _call_model(j) \/ JobSaves(j)
        \/ Restart

Spec == Init /\ [][Next]_vars
----------------------------------------------------------------------------
TypeOK == /\ rows \in Seq(Memory \cup {None}) /\ Len(rows) <= MaxRows /\ files \subseteq Titles
          /\ settings \in [on : BOOLEAN, min : Minima]
          /\ sess \in [count : 0..MaxMessages, last : 0..MaxMessages, saving : BOOLEAN]
          /\ {turn, router} \subseteq 0..MaxMessages \cup {None}
          /\ {snapshot, stored, fresh, back} \subseteq 0..MaxMessages
          /\ jobs \in [Jobs -> Job \cup {None}] /\ faults \in 0..MaxFaults

(* A job adds a title that is there already only if the other memory came  *)
(* while the job was waiting for the model or saving: one that comes later *)
(* to the same messages, and an answer that says a thing twice, add        *)
(* nothing twice.                                                          *)
(* Memories that were given another title later are not counted, nor is a  *)
(* row whose save raised: the job does not note its title.                 *)
(* (core/memory_extractor.py:8 "so we can skip duplicates")                *)
DuplicatesOverlap ==
  \A a, b \in Ids :
    a # b /\ rows[a] # None /\ rows[b] # None =>
      LET x == rows[a] y == rows[b] IN
      x.by \in Jobs /\ y.by # "renamed" /\ x.title = y.title =>
        b > x.after /\ (y.by = x.by => y.after # x.after)

(* Within a session, a job is queued only after as many messages as the    *)
(* user asked for: new ones, and ones that the session was given back in   *)
(* the meantime, by the rollback of a compression, a resume, a summary or  *)
(* a turn that goes on with the list it began with.  Without these, there  *)
(* are that many new ones, also when saves overlap with turns and after a  *)
(* compression.  With them there may be fewer, down to none: the session's *)
(* number grows again and _last_extract_msg_count stays, so that "enough   *)
(* new messages" (core/session.py:398-399) is not what the code asks for.  *)
(* (core/session.py:397-402 "Debounced by auto_extract_min_messages")      *)
ExtractionIsDebounced ==
  [][\A j \in Jobs : jobs[j] = None /\ jobs'[j] # None => fresh + back >= settings.min]_vars
=============================================================================
