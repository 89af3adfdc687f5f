-------------------------- MODULE Memories_proofs --------------------------
(***************************************************************************)
(* Proofs about Memories: a job saves no memory under a title that was     *)
(* there when it read the titles or that it saved itself, and no job is    *)
(* queued before the session was given as many messages as asked for.      *)
(***************************************************************************)
EXTENDS Memories, TLAPS

(* A memory carries how many there were when its job read their titles: it *)
(* came later.                                                             *)
RowsOK == /\ rows \in Seq(Memory \cup {None}) /\ Len(rows) <= MaxRows
          /\ \A i \in Ids : rows[i] # None => rows[i].after < i
JobsOK == /\ jobs \in [Jobs -> Job \cup {None}]
          /\ \A j \in Jobs : jobs[j] # None => /\ jobs[j].after <= Len(rows)
                                               /\ jobs[j].pc = "save" => jobs[j].left > 0
SettingsOK == settings \in [on : BOOLEAN, min : Minima]
SessionOK == /\ sess \in [count : 0..MaxMessages, last : 0..MaxMessages, saving : BOOLEAN]
             /\ turn \in 0..MaxMessages \cup {None} /\ router \in 0..MaxMessages \cup {None}
             /\ snapshot \in 0..MaxMessages /\ stored \in 0..MaxMessages
             /\ fresh \in 0..MaxMessages /\ back \in 0..MaxMessages
FaultsOK == faults \in 0..MaxFaults /\ files \subseteq Titles

TypeInv == RowsOK /\ JobsOK /\ SettingsOK /\ SessionOK /\ FaultsOK

LEMMA TypeInvTypes == TypeInv => TypeOK
  BY DEF TypeInv, TypeOK, RowsOK, JobsOK, SettingsOK, SessionOK, FaultsOK

LEMMA Bounds ==
  /\ MaxItems \in Nat /\ MaxItems > 0 /\ MaxRows \in Nat /\ MaxMessages \in Nat /\ MaxFaults \in Nat
  /\ Minima \subseteq Nat /\ Minima # {} /\ None \notin Memory /\ None \notin Job
  /\ "user" \notin Jobs /\ "renamed" \notin Jobs /\ "raised" \notin Jobs
  /\ Summary \in Nat /\ \A n \in Nat : n # None
  BY MemoriesAssumption

----------------------------------------------------------------------------
(* What an operation does to the table of memories *)

Unchanged == rows' = rows
Inserts(t, j, after) ==
  Len(rows) < MaxRows /\ rows' = Append(rows, [title |-> t, by |-> j, after |-> after])
Renames(i, t) == rows' = [rows EXCEPT ![i] = [title |-> t, by |-> "renamed", after |-> 0]]
Deletes(i) == rows' = [rows EXCEPT ![i] = None]

LEMMA SaveEffect ==
  ASSUME FaultsOK, NEW t \in Titles, NEW j, NEW k, save_memory(t, j, k)
  PROVE  FaultsOK' /\ (Unchanged \/ Inserts(t, j, k))
  <1>1. files' \subseteq Titles
    BY DEF FaultsOK, save_memory, _save_memory_file
  <1>2. faults' \in 0..MaxFaults
    BY Bounds DEF FaultsOK, save_memory
  <1> QED
    BY <1>1, <1>2 DEF FaultsOK, save_memory, Unchanged, Inserts, InsertRow

LEMMA RaisesEffect ==
  ASSUME FaultsOK, NEW t \in Titles, NEW j, NEW k, SaveRaises(t, j, k)
  PROVE  FaultsOK' /\ (Unchanged \/ Inserts(t, j, k))
  BY Bounds DEF FaultsOK, SaveRaises, Unchanged, Inserts, InsertRow

LEMMA InsertOK ==
  ASSUME RowsOK, NEW t \in Titles, NEW j \in Jobs \cup {"user", "renamed", "raised"}, NEW k \in 0..MaxRows, k <= Len(rows),
         Inserts(t, j, k)
  PROVE  /\ RowsOK' /\ Len(rows') = Len(rows) + 1
         /\ \A i \in Ids : rows'[i] = rows[i]
         /\ rows'[Len(rows')] = [title |-> t, by |-> j, after |-> k]
  <1> DEFINE r == [title |-> t, by |-> j, after |-> k]
  <1>1. r \in Memory /\ r.after = k
    BY DEF Memory
  <1>2. rows \in Seq(Memory \cup {None}) /\ Len(rows) \in Nat
    BY DEF RowsOK
  <1>3. Len(rows) < MaxRows /\ rows' = Append(rows, r)
    BY DEF Inserts
  <1> HIDE DEF r
  <1>4. rows' \in Seq(Memory \cup {None}) /\ Len(rows') = Len(rows) + 1
    BY <1>1, <1>2, <1>3
  <1>5. rows'[Len(rows')] = r /\ \A i \in 1..Len(rows) : rows'[i] = rows[i]
    BY <1>1, <1>2, <1>3
  <1>6. Len(rows') <= MaxRows
    BY <1>2, <1>3, <1>4, Bounds
  <1>7. ASSUME NEW i \in Ids', rows'[i] # None PROVE rows'[i].after < i
    <2>1. i \in 1..Len(rows) \/ i = Len(rows')
      BY <1>2, <1>4 DEF Ids
    <2>2. CASE i \in 1..Len(rows)
      BY <1>5, <1>7, <2>2 DEF RowsOK, Ids
    <2>3. CASE i = Len(rows')
      BY <1>1, <1>2, <1>4, <1>5, <2>3
    <2> QED
      BY <2>1, <2>2, <2>3
  <1> QED
    BY <1>4, <1>5, <1>6, <1>7 DEF RowsOK, Ids, r

LEMMA ChangeOK ==
  ASSUME RowsOK, NEW i \in Ids, NEW r \in Memory \cup {None}, r # None => r.after < i,
         rows' = [rows EXCEPT ![i] = r]
  PROVE  /\ RowsOK' /\ Len(rows') = Len(rows) /\ rows'[i] = r
         /\ \A k \in Ids : k # i => rows'[k] = rows[k]
  <1>1. rows \in Seq(Memory \cup {None}) /\ i \in 1..Len(rows)
    BY DEF RowsOK, Ids
  <1>2. rows' \in Seq(Memory \cup {None}) /\ Len(rows') = Len(rows)
    BY <1>1
  <1>3. rows'[i] = r /\ \A k \in 1..Len(rows) : k # i => rows'[k] = rows[k]
    BY <1>1
  <1> QED
    BY <1>2, <1>3 DEF RowsOK, Ids

LEMMA RenameOK ==
  ASSUME RowsOK, NEW i \in Ids, NEW t \in Titles, Renames(i, t)
  PROVE  /\ RowsOK' /\ Len(rows') = Len(rows) /\ rows'[i].by = "renamed"
         /\ \A k \in Ids : k # i => rows'[k] = rows[k]
  <1> DEFINE r == [title |-> t, by |-> "renamed", after |-> 0]
  <1>1. r \in Memory /\ r.after < i /\ r.by = "renamed"
    BY Bounds DEF Memory, Ids, RowsOK
  <1>2. rows' = [rows EXCEPT ![i] = r]
    BY DEF Renames
  <1> HIDE DEF r
  <1> QED
    BY <1>1, <1>2, ChangeOK

LEMMA DeleteOK ==
  ASSUME RowsOK, NEW i \in Ids, Deletes(i)
  PROVE  /\ RowsOK' /\ Len(rows') = Len(rows) /\ rows'[i] = None
         /\ \A k \in Ids : k # i => rows'[k] = rows[k]
  BY ChangeOK DEF Deletes

(* A table that does not get shorter keeps the jobs right. *)
LEMMA JobsKept ==
  ASSUME JobsOK, jobs' = jobs, Len(rows) \in Nat, Len(rows') \in Nat, Len(rows') >= Len(rows)
  PROVE  JobsOK'
  <1>1. ASSUME NEW j \in Jobs, jobs[j] # None PROVE jobs[j].after <= Len(rows')
    <2>1. jobs[j].after \in Nat /\ jobs[j].after <= Len(rows)
      BY <1>1, Bounds DEF JobsOK, Job
    <2> QED
      BY <2>1
  <1> QED
    BY <1>1 DEF JobsOK

LEMMA JobChanges ==
  ASSUME JobsOK, NEW j \in Jobs, NEW job \in Job \cup {None},
         job # None => job.after <= Len(rows') /\ (job.pc = "save" => job.left > 0),
         jobs' = [jobs EXCEPT ![j] = job],
         Len(rows) \in Nat, Len(rows') \in Nat, Len(rows') >= Len(rows)
  PROVE  JobsOK'
  <1>1. jobs' \in [Jobs -> Job \cup {None}] /\ jobs'[j] = job /\ \A i \in Jobs : i # j => jobs'[i] = jobs[i]
    BY DEF JobsOK
  <1>2. ASSUME NEW i \in Jobs, i # j, jobs[i] # None PROVE jobs[i].after <= Len(rows')
    <2>1. jobs[i].after \in Nat /\ jobs[i].after <= Len(rows)
      BY <1>2, Bounds DEF JobsOK, Job
    <2> QED
      BY <2>1
  <1> QED
    BY <1>1, <1>2 DEF JobsOK

LEMMA RowsLen == RowsOK => Len(rows) \in Nat
  BY DEF RowsOK

LEMMA JobChangesOnly ==
  ASSUME JobsOK, RowsOK, rows' = rows, NEW j \in Jobs, NEW job \in Job \cup {None},
         job # None => job.after <= Len(rows) /\ (job.pc = "save" => job.left > 0),
         jobs' = [jobs EXCEPT ![j] = job]
  PROVE  JobsOK'
  <1>1. Len(rows) \in Nat /\ Len(rows') = Len(rows) /\ Len(rows') >= Len(rows)
    BY RowsLen
  <1>2. job # None => job.after <= Len(rows') /\ (job.pc = "save" => job.left > 0)
    BY <1>1
  <1> QED
    BY <1>1, <1>2, JobChanges

----------------------------------------------------------------------------
(* Type correctness *)

LEMMA InitTypeInv == Init => TypeInv
  <1> SUFFICES ASSUME Init PROVE TypeInv
    OBVIOUS
  <1>1. RowsOK
    BY Bounds DEF Init, RowsOK, Ids
  <1>2. JobsOK
    BY DEF Init, JobsOK
  <1>3. (CHOOSE n \in Minima : TRUE) \in Minima
    BY Bounds
  <1>4. SettingsOK
    BY <1>3 DEF Init, SettingsOK
  <1>5. SessionOK /\ FaultsOK
    BY Bounds DEF Init, Destroyed, SessionOK, FaultsOK
  <1> QED
    BY <1>1, <1>2, <1>4, <1>5 DEF TypeInv

(* A list that the session gets, and what becomes of the turn's.           *)
LEMMA SetOK ==
  ASSUME SessionOK, NEW n, NEW new, conv_session_set(n, new)
  PROVE  /\ sess' \in [count : 0..MaxMessages, last : 0..MaxMessages, saving : BOOLEAN]
         /\ fresh' \in 0..MaxMessages /\ back' \in 0..MaxMessages
  BY DEF SessionOK, conv_session_set

LEMMA ReplacedOK ==
  ASSUME SessionOK, Replaced
  PROVE  turn' \in 0..MaxMessages \cup {None}
  BY DEF SessionOK, Replaced, Own

LEMMA DestroyedOK ==
  Destroyed \in [count : 0..MaxMessages, last : 0..MaxMessages, saving : BOOLEAN]
  BY Bounds DEF Destroyed

Conversation == \/ BeginTurn \/ compress_if_needed \/ EndTurn \/ save_conversation \/ _maybe_enqueue_extract
                \/ Clear \/ Read \/ Install \/ rollback_compression \/ Retry

(* The session, the turn and the conversation's rows. *)
LEMMA SessionStep ==
  ASSUME TypeInv, Conversation \/ Restart
  PROVE  SessionOK'
  <1> DEFINE Sess == [count : 0..MaxMessages, last : 0..MaxMessages, saving : BOOLEAN]
             Lists == 0..MaxMessages \cup {None}
  <1>0. SessionOK /\ sess \in Sess /\ stored \in 0..MaxMessages /\ fresh \in 0..MaxMessages /\ back \in 0..MaxMessages
        /\ snapshot \in 0..MaxMessages /\ turn \in Lists /\ router \in Lists /\ MaxMessages \in Nat
    BY Bounds DEF TypeInv, SessionOK
  <1>1. CASE BeginTurn
    <2>1. turn' = 0 /\ conv_session_set(sess.count + 1, 1) /\ UNCHANGED <<router, snapshot, stored>>
      BY <1>1 DEF BeginTurn
    <2> QED
      BY <1>0, <2>1, SetOK DEF SessionOK
  <1>2. CASE compress_if_needed
    <2>1. Own \in Nat /\ snapshot' \in Own..MaxMessages
      BY <1>0, <1>2 DEF compress_if_needed, Own
    <2>2. snapshot' \in 0..MaxMessages
      BY <1>0, <2>1
    <2> QED
      BY <1>0, <1>2, <2>2 DEF compress_if_needed, session, SessionOK
  <1>3. CASE EndTurn
    <2>1. turn' = None /\ UNCHANGED <<router, snapshot, stored>>
          /\ (UNCHANGED session \/ \E n, new : conv_session_set(n, new))
      BY <1>3 DEF EndTurn
    <2>2. sess' \in Sess /\ fresh' \in 0..MaxMessages /\ back' \in 0..MaxMessages
      BY <1>0, <2>1, SetOK DEF session
    <2> QED
      BY <1>0, <2>1, <2>2 DEF SessionOK
  <1>4. CASE save_conversation
    <2>1. stored' = sess.count /\ sess' = [sess EXCEPT !.saving = TRUE]
          /\ UNCHANGED <<turn, router, snapshot, fresh, back>>
      BY <1>4 DEF save_conversation
    <2>2. sess' \in Sess /\ stored' \in 0..MaxMessages
      BY <1>0, <2>1
    <2> QED
      BY <1>0, <2>1, <2>2 DEF SessionOK
  <1>5. CASE _maybe_enqueue_extract
    <2>1. sess' = [sess EXCEPT !.saving = FALSE, !.last = sess.count] \/ sess' = [sess EXCEPT !.saving = FALSE]
      BY <1>5 DEF _maybe_enqueue_extract, Counted
    <2>2. sess' \in Sess
      BY <1>0, <2>1
    <2>3. /\ UNCHANGED <<turn, router, snapshot, stored>>
          /\ (fresh' = 0 /\ back' = 0) \/ UNCHANGED <<fresh, back>>
      BY <1>5 DEF _maybe_enqueue_extract
    <2> QED
      BY <1>0, <2>2, <2>3 DEF SessionOK
  <1>6. CASE Clear
    <2>1. sess' = Destroyed /\ Replaced /\ fresh' = 0 /\ back' = 0 /\ UNCHANGED <<router, snapshot, stored>>
      BY <1>6 DEF Clear
    <2> QED
      BY <1>0, <2>1, DestroyedOK, ReplacedOK DEF SessionOK
  <1>7. CASE Read
    <2>1. router' = stored \/ (sess.count > Summary /\ router' = Summary)
      BY <1>7 DEF Read
    <2>2. router' \in Lists
      BY <1>0, <2>1, Bounds
    <2> QED
      BY <1>0, <1>7, <2>2 DEF Read, session, SessionOK
  <1>8. CASE Install \/ rollback_compression
    <2>1. /\ \E n, new : conv_session_set(n, new)
          /\ Replaced /\ stored' = stored
          /\ \/ router' = None /\ snapshot' = snapshot
             \/ router' = router /\ snapshot' = 0
      BY <1>8 DEF Install, rollback_compression
    <2> QED
      BY <1>0, <2>1, SetOK, ReplacedOK DEF SessionOK
  <1>9. CASE Retry
    <2>1. (\E n, new : conv_session_set(n, new)) /\ UNCHANGED <<turn, router, snapshot, stored>>
      BY <1>9 DEF Retry
    <2> QED
      BY <1>0, <2>1, SetOK DEF SessionOK
  <1>10. CASE Restart
    <2>1. sess' = Destroyed /\ fresh' = 0 /\ back' = 0 /\ turn' = None /\ router' = None /\ snapshot' = 0
          /\ stored' = stored
      BY <1>10 DEF Restart
    <2> QED
      BY <1>0, <2>1, DestroyedOK DEF SessionOK
  <1> QED
    BY <1>1, <1>2, <1>3, <1>4, <1>5, <1>6, <1>7, <1>8, <1>9, <1>10 DEF Conversation

(* A job that is queued has read nothing. *)
LEMMA EnqueueOK ==
  ASSUME JobsOK, RowsOK, rows' = rows, enqueue
  PROVE  JobsOK'
  <1>1. CASE UNCHANGED jobs
    BY <1>1, JobsKept, RowsLen
  <1>2. ASSUME NEW j \in Jobs, jobs' = [jobs EXCEPT ![j] = Queued] PROVE JobsOK'
    <2>1. Queued \in Job /\ Queued.after = 0 /\ Queued.pc = "queued"
      BY Bounds DEF Queued, Job
    <2>2. Queued.after <= Len(rows)
      BY <2>1, RowsLen
    <2> QED
      BY <1>2, <2>1, <2>2, JobChangesOnly
  <1> QED
    BY <1>1, <1>2 DEF enqueue

LEMMA EndsOK ==
  ASSUME JobsOK, RowsOK, rows' = rows, NEW j \in Jobs, Ends(j)
  PROVE  JobsOK'
  BY JobChangesOnly DEF Ends

(* What a job takes from the table, and what it does with the answer.      *)
Reads(j) == /\ jobs[j] # None
            /\ jobs' = [jobs EXCEPT ![j] = [@ EXCEPT !.pc = "model", !.existing = Existing, !.after = Len(rows)]]
Answers(j) == /\ jobs[j] # None /\ jobs[j].pc = "model"
              /\ \E n \in 1..MaxItems : jobs' = [jobs EXCEPT ![j] = [@ EXCEPT !.pc = "save", !.left = n]]
Uses(j, t) == /\ jobs[j] # None /\ jobs[j].pc = "save"
              /\ Used(j, jobs[j].existing \cup {t})
Fails(j) == /\ jobs[j] # None /\ jobs[j].pc = "save"
            /\ Used(j, jobs[j].existing)

LEMMA ReadsOK ==
  ASSUME JobsOK, RowsOK, rows' = rows, NEW j \in Jobs, Reads(j)
  PROVE  /\ JobsOK' /\ jobs'[j] # None /\ jobs'[j].existing = Existing /\ jobs'[j].after = Len(rows)
         /\ \A i \in Jobs : i # j => jobs'[i] = jobs[i]
  <1> DEFINE job == [jobs[j] EXCEPT !.pc = "model", !.existing = Existing, !.after = Len(rows)]
  <1>1. jobs[j] \in Job /\ Len(rows) \in 0..MaxRows
    BY RowsLen DEF Reads, JobsOK, RowsOK
  <1>2. Existing \in SUBSET Titles
    BY DEF Existing, RowsOK, Memory, Ids
  <1>3. job \in Job /\ job.existing = Existing /\ job.after = Len(rows) /\ job.pc = "model"
    BY <1>1, <1>2 DEF Job
  <1>4. jobs' = [jobs EXCEPT ![j] = job]
    BY DEF Reads
  <1> HIDE DEF job
  <1>5. job.after <= Len(rows) /\ job.pc # "save"
    BY <1>1, <1>3
  <1>6. JobsOK'
    BY <1>3, <1>4, <1>5, JobChangesOnly
  <1> QED
    BY <1>3, <1>4, <1>6, Bounds DEF JobsOK

LEMMA AnswersOK ==
  ASSUME JobsOK, RowsOK, rows' = rows, NEW j \in Jobs, Answers(j)
  PROVE  /\ JobsOK' /\ jobs'[j] # None /\ jobs'[j].existing = jobs[j].existing /\ jobs'[j].after = jobs[j].after
         /\ \A i \in Jobs : i # j => jobs'[i] = jobs[i]
  <1>0. PICK n \in 1..MaxItems : jobs' = [jobs EXCEPT ![j] = [@ EXCEPT !.pc = "save", !.left = n]]
    BY DEF Answers
  <1> DEFINE job == [jobs[j] EXCEPT !.pc = "save", !.left = n]
  <1>1. jobs[j] \in Job /\ Len(rows) \in 0..MaxRows /\ jobs[j].after <= Len(rows)
    BY RowsLen DEF Answers, JobsOK, RowsOK
  <1>2. n \in 0..MaxItems /\ n > 0
    BY Bounds
  <1>3. job \in Job /\ job.existing = jobs[j].existing /\ job.after = jobs[j].after /\ job.pc = "save" /\ job.left = n
    BY <1>1, <1>2 DEF Job
  <1>4. jobs' = [jobs EXCEPT ![j] = job]
    BY <1>0
  <1> HIDE DEF job
  <1>5. JobsOK'
    BY <1>1, <1>2, <1>3, <1>4, JobChangesOnly
  <1> QED
    BY <1>3, <1>4, <1>5, Bounds DEF JobsOK

LEMMA UsedOK ==
  ASSUME JobsOK, RowsOK, NEW j \in Jobs, NEW e \in SUBSET Titles, Used(j, e),
         jobs[j] # None, jobs[j].pc = "save",
         Len(rows') \in Nat, Len(rows') >= Len(rows)
  PROVE  /\ JobsOK'
         /\ jobs'[j] # None => /\ jobs'[j].pc = "save" /\ jobs'[j].after = jobs[j].after
                               /\ jobs'[j].existing = e
         /\ \A i \in Jobs : i # j => jobs'[i] = jobs[i]
  <1> DEFINE job == [jobs[j] EXCEPT !.left = @ - 1, !.existing = e]
  <1>1. jobs[j] \in Job /\ Len(rows) \in Nat /\ jobs[j].after <= Len(rows) /\ jobs[j].left > 0 /\ jobs[j].pc = "save"
    BY RowsLen DEF JobsOK
  <1>2. jobs[j].left \in 0..MaxItems /\ jobs[j].after \in Nat
    BY <1>1, Bounds DEF Job
  <1>3. CASE jobs[j].left = 1
    <2>1. jobs' = [jobs EXCEPT ![j] = None]
      BY <1>3 DEF Used
    <2>2. JobsOK'
      BY <1>1, <2>1, JobChanges
    <2> QED
      BY <2>1, <2>2, Bounds DEF JobsOK
  <1>4. CASE jobs[j].left # 1
    <2>1. jobs[j].left - 1 \in 0..MaxItems /\ jobs[j].left - 1 > 0
      BY <1>1, <1>2, <1>4, Bounds
    <2>2. job \in Job /\ job.after = jobs[j].after /\ job.pc = "save" /\ job.left = jobs[j].left - 1
          /\ job.existing = e
      BY <1>1, <2>1 DEF Job
    <2>3. jobs' = [jobs EXCEPT ![j] = job]
      BY <1>4 DEF Used
    <2> HIDE DEF job
    <2>4. job.after <= Len(rows')
      BY <1>1, <1>2, <2>2
    <2>5. JobsOK'
      BY <1>1, <2>1, <2>2, <2>3, <2>4, JobChanges
    <2> QED
      BY <2>2, <2>3, <2>5, Bounds DEF JobsOK
  <1> QED
    BY <1>3, <1>4

LEMMA UsesOK ==
  ASSUME JobsOK, RowsOK, NEW j \in Jobs, NEW t \in Titles, Uses(j, t),
         Len(rows') \in Nat, Len(rows') >= Len(rows)
  PROVE  /\ JobsOK'
         /\ jobs'[j] # None => /\ jobs'[j].pc = "save" /\ jobs'[j].after = jobs[j].after
                               /\ jobs'[j].existing = jobs[j].existing \cup {t}
         /\ \A i \in Jobs : i # j => jobs'[i] = jobs[i]
  <1>1. jobs[j] # None /\ jobs[j].pc = "save" /\ Used(j, jobs[j].existing \cup {t})
    BY DEF Uses
  <1>2. jobs[j].existing \cup {t} \in SUBSET Titles
    BY <1>1 DEF JobsOK, Job
  <1> QED
    BY <1>1, <1>2, UsedOK

LEMMA FailsOK ==
  ASSUME JobsOK, RowsOK, NEW j \in Jobs, Fails(j),
         Len(rows') \in Nat, Len(rows') >= Len(rows)
  PROVE  /\ JobsOK'
         /\ jobs'[j] # None => /\ jobs'[j].pc = "save" /\ jobs'[j].after = jobs[j].after
                               /\ jobs'[j].existing = jobs[j].existing
         /\ \A i \in Jobs : i # j => jobs'[i] = jobs[i]
  <1>1. jobs[j] # None /\ jobs[j].pc = "save" /\ Used(j, jobs[j].existing)
    BY DEF Fails
  <1>2. jobs[j].existing \in SUBSET Titles
    BY <1>1 DEF JobsOK, Job
  <1> QED
    BY <1>1, <1>2, UsedOK

(* Which of these each job's step is. *)
LEMMA JobStep ==
  ASSUME TypeInv, NEW j \in Jobs, JobReads(j) \/ _call_model(j) \/ JobSaves(j)
  PROVE  /\ FaultsOK' /\ UNCHANGED <<settings, conversation>>
         /\ \/ Unchanged /\ (Ends(j) \/ Reads(j) \/ Answers(j))
            \/ \E t \in Titles :
                 /\ Uses(j, t)
                 /\ Unchanged \/ (t \notin jobs[j].existing /\ Inserts(t, j, jobs[j].after))
            \/ Fails(j) /\ (Unchanged \/ \E t \in Titles : Inserts(t, "raised", jobs[j].after))
  <1>1. CASE JobReads(j)
    BY <1>1 DEF JobReads, Reads, Unchanged, table, TypeInv, FaultsOK
  <1>2. CASE _call_model(j)
    <2>1. CASE Ends(j)
      BY <1>2, <2>1 DEF _call_model, Unchanged, table, TypeInv, FaultsOK
    <2>2. ASSUME NEW n \in 1..(MaxItems + 1), jobs' = [jobs EXCEPT ![j] = [@ EXCEPT !.pc = "save", !.left = Capped(n)]]
          PROVE  Answers(j)
      <3>1. Capped(n) \in 1..MaxItems
        BY Bounds DEF Capped
      <3> QED
        BY <1>2, <2>2, <3>1 DEF _call_model, Answers
    <2> QED
      BY <1>2, <2>1, <2>2 DEF _call_model, Unchanged, table, TypeInv, FaultsOK
  <1>3. CASE JobSaves(j)
    <2>0. jobs[j] # None /\ jobs[j].pc = "save" /\ UNCHANGED <<settings, conversation>>
      BY <1>3 DEF JobSaves
    <2>1. ASSUME NEW t \in Titles, t \in jobs[j].existing, Used(j, jobs[j].existing), UNCHANGED <<table, faults>>
          PROVE  FaultsOK' /\ Uses(j, t) /\ Unchanged
      <3>1. jobs[j].existing \cup {t} = jobs[j].existing
        BY <2>1
      <3> QED
        BY <2>0, <2>1, <3>1 DEF Uses, Unchanged, table, TypeInv, FaultsOK
    <2>2. ASSUME NEW t \in Titles, t \notin jobs[j].existing, Used(j, Seen(jobs[j].existing, t)),
                 save_memory(t, j, jobs[j].after)
          PROVE  FaultsOK' /\ Uses(j, t) /\ (Unchanged \/ Inserts(t, j, jobs[j].after))
      BY <2>0, <2>2, SaveEffect DEF Uses, Seen, TypeInv
    <2>3. ASSUME NEW t \in Titles, Used(j, jobs[j].existing), SaveRaises(t, "raised", jobs[j].after)
          PROVE  FaultsOK' /\ Fails(j) /\ (Unchanged \/ Inserts(t, "raised", jobs[j].after))
      BY <2>0, <2>3, RaisesEffect DEF Fails, TypeInv
    <2> QED
      BY <1>3, <2>0, <2>1, <2>2, <2>3 DEF JobSaves
  <1> QED
    BY <1>1, <1>2, <1>3

(* What an operation of the user's does. *)
LEMMA UserStep ==
  ASSUME TypeInv,
         \/ \E t \in Titles : SaveMemory(t)
         \/ \E i \in Ids : delete_memory(i) \/ \E t \in Titles : update_memory(i, t)
  PROVE  /\ FaultsOK' /\ UNCHANGED <<settings, conversation, jobs>>
         /\ \/ Unchanged
            \/ \E t \in Titles : Inserts(t, "user", 0)
            \/ \E i \in Ids : Deletes(i) \/ \E t \in Titles : Renames(i, t)
  <1>1. ASSUME NEW t \in Titles, SaveMemory(t)
        PROVE  FaultsOK' /\ (Unchanged \/ Inserts(t, "user", 0)) /\ UNCHANGED <<settings, conversation, jobs>>
    BY <1>1, SaveEffect, RaisesEffect DEF SaveMemory, TypeInv
  <1>2. ASSUME NEW i \in Ids, delete_memory(i)
        PROVE  FaultsOK' /\ Deletes(i) /\ UNCHANGED <<settings, conversation, jobs>>
    BY <1>2 DEF delete_memory, Deletes, TypeInv, FaultsOK
  <1>3. ASSUME NEW i \in Ids, NEW t \in Titles, update_memory(i, t)
        PROVE  FaultsOK' /\ Renames(i, t) /\ UNCHANGED <<settings, conversation, jobs>>
    BY <1>3 DEF update_memory, Renames, TypeInv, FaultsOK
  <1> QED
    BY <1>1, <1>2, <1>3

(* What any other step does to the jobs and the table. *)
Others == api_update_settings \/ Conversation \/ Restart \/ UNCHANGED vars

LEMMA OtherStep ==
  ASSUME TypeInv, Others
  PROVE  /\ Unchanged /\ FaultsOK' /\ SettingsOK' /\ SessionOK'
         /\ UNCHANGED jobs \/ enqueue \/ jobs' = [j \in Jobs |-> None]
  <1>1. Unchanged /\ (UNCHANGED jobs \/ enqueue \/ jobs' = [j \in Jobs |-> None])
    BY DEF Others, api_update_settings, Conversation, BeginTurn, compress_if_needed, EndTurn,
             save_conversation, _maybe_enqueue_extract, Clear, Read, Install, rollback_compression, Retry, Restart, vars,
           table, Unchanged
  <1>2. SettingsOK'
    <2>1. CASE api_update_settings
      BY <2>1 DEF api_update_settings, SettingsOK
    <2>2. CASE ~api_update_settings
      BY <2>2 DEF Others, Conversation, BeginTurn, compress_if_needed, EndTurn,
             save_conversation, _maybe_enqueue_extract, Clear, Read, Install, rollback_compression, Retry, Restart, vars,
                  TypeInv, SettingsOK
    <2> QED
      BY <2>1, <2>2
  <1>3. SessionOK'
    <2>1. CASE api_update_settings \/ UNCHANGED vars
      BY <2>1 DEF api_update_settings, vars, conversation, session, TypeInv, SessionOK
    <2> QED
      BY <2>1, SessionStep DEF Others
  <1>4. FaultsOK'
    <2>1. files' = files
      BY DEF Others, api_update_settings, Conversation, BeginTurn, compress_if_needed, EndTurn,
             save_conversation, _maybe_enqueue_extract, Clear, Read, Install, rollback_compression, Retry, Restart, vars,
             table
    <2>2. faults' = faults \/ (faults < MaxFaults /\ faults' = faults + 1)
      BY DEF Others, api_update_settings, Conversation, BeginTurn, compress_if_needed, EndTurn,
             save_conversation, _maybe_enqueue_extract, Clear, Read, Install, rollback_compression, Retry, Restart, vars
    <2> QED
      BY <2>1, <2>2, Bounds DEF TypeInv, FaultsOK
  <1> QED
    BY <1>1, <1>2, <1>3, <1>4

LEMMA NextSplit ==
  ASSUME [Next]_vars
  PROVE  \/ \/ \E t \in Titles : SaveMemory(t)
            \/ \E i \in Ids : delete_memory(i) \/ \E t \in Titles : update_memory(i, t)
         \/ \E j \in Jobs : JobReads(j) \/ _call_model(j) \/ JobSaves(j)
         \/ Others
  BY DEF Next, Others, Conversation

LEMMA StepTypeInv ==
  ASSUME TypeInv, [Next]_vars
  PROVE  TypeInv'
  <1>0. Len(rows) \in Nat
    BY RowsLen DEF TypeInv
  <1>1. CASE \/ \E t \in Titles : SaveMemory(t)
             \/ \E i \in Ids : delete_memory(i) \/ \E t \in Titles : update_memory(i, t)
    <2>1. FaultsOK' /\ SettingsOK' /\ SessionOK' /\ jobs' = jobs
      BY <1>1, UserStep DEF conversation, session, TypeInv, SettingsOK, SessionOK
    <2>2. RowsOK' /\ Len(rows') >= Len(rows)
      <3>1. CASE Unchanged
        BY <1>0, <3>1 DEF Unchanged, TypeInv, RowsOK, Ids
      <3>2. ASSUME NEW t \in Titles, Inserts(t, "user", 0) PROVE RowsOK' /\ Len(rows') >= Len(rows)
        <4>1. 0 \in 0..MaxRows /\ 0 <= Len(rows)
          BY <1>0, Bounds
        <4>2. RowsOK' /\ Len(rows') = Len(rows) + 1
          BY <3>2, <4>1, InsertOK DEF TypeInv
        <4> QED
          BY <1>0, <4>2
      <3>3. ASSUME NEW i \in Ids, Deletes(i) PROVE RowsOK' /\ Len(rows') >= Len(rows)
        BY <1>0, <3>3, DeleteOK DEF TypeInv
      <3>4. ASSUME NEW i \in Ids, NEW t \in Titles, Renames(i, t) PROVE RowsOK' /\ Len(rows') >= Len(rows)
        BY <1>0, <3>4, RenameOK DEF TypeInv
      <3> QED
        BY <1>1, <3>1, <3>2, <3>3, <3>4, UserStep
    <2>3. Len(rows') \in Nat
      BY <2>2 DEF RowsOK
    <2>4. JobsOK'
      BY <1>0, <2>1, <2>2, <2>3, JobsKept DEF TypeInv
    <2> QED
      BY <2>1, <2>2, <2>4 DEF TypeInv
  <1>2. CASE \E j \in Jobs : JobReads(j) \/ _call_model(j) \/ JobSaves(j)
    <2>1. PICK j \in Jobs : JobReads(j) \/ _call_model(j) \/ JobSaves(j)
      BY <1>2
    <2>2. FaultsOK' /\ SettingsOK' /\ SessionOK'
      BY <2>1, JobStep DEF conversation, session, TypeInv, SettingsOK, SessionOK
    <2>3. CASE Unchanged /\ (Ends(j) \/ Reads(j) \/ Answers(j))
      <3>1. RowsOK'
        BY <2>3 DEF Unchanged, TypeInv, RowsOK, Ids
      <3>2. JobsOK'
        BY <2>3, EndsOK, ReadsOK, AnswersOK DEF Unchanged, TypeInv
      <3> QED
        BY <2>2, <3>1, <3>2 DEF TypeInv
    <2>4. ASSUME NEW t \in Titles, Uses(j, t),
                 Unchanged \/ (t \notin jobs[j].existing /\ Inserts(t, j, jobs[j].after))
          PROVE  TypeInv'
      <3>1. RowsOK' /\ Len(rows') >= Len(rows)
        <4>1. CASE Unchanged
          BY <1>0, <4>1 DEF Unchanged, TypeInv, RowsOK, Ids
        <4>2. CASE Inserts(t, j, jobs[j].after)
          <5>1. jobs[j] \in Job /\ jobs[j].after <= Len(rows)
            BY <2>4 DEF Uses, TypeInv, JobsOK
          <5>2. jobs[j].after \in 0..MaxRows
            BY <5>1 DEF Job
          <5>3. RowsOK' /\ Len(rows') = Len(rows) + 1
            BY <4>2, <5>1, <5>2, InsertOK DEF TypeInv
          <5> QED
            BY <1>0, <5>3
        <4> QED
          BY <2>4, <4>1, <4>2
      <3>2. Len(rows') \in Nat
        BY <3>1 DEF RowsOK
      <3>3. JobsOK'
        BY <2>4, <3>1, <3>2, UsesOK DEF TypeInv
      <3> QED
        BY <2>2, <3>1, <3>3 DEF TypeInv
    <2>5. ASSUME Fails(j), Unchanged \/ \E t \in Titles : Inserts(t, "raised", jobs[j].after)
          PROVE  TypeInv'
      <3>1. RowsOK' /\ Len(rows') >= Len(rows)
        <4>1. CASE Unchanged
          BY <1>0, <4>1 DEF Unchanged, TypeInv, RowsOK, Ids
        <4>2. ASSUME NEW t \in Titles, Inserts(t, "raised", jobs[j].after) PROVE RowsOK' /\ Len(rows') >= Len(rows)
          <5>1. jobs[j] \in Job /\ jobs[j].after <= Len(rows)
            BY <2>5 DEF Fails, TypeInv, JobsOK
          <5>2. jobs[j].after \in 0..MaxRows
            BY <5>1 DEF Job
          <5>3. RowsOK' /\ Len(rows') = Len(rows) + 1
            BY <4>2, <5>1, <5>2, InsertOK DEF TypeInv
          <5> QED
            BY <1>0, <5>3
        <4> QED
          BY <2>5, <4>1, <4>2
      <3>2. Len(rows') \in Nat
        BY <3>1 DEF RowsOK
      <3>3. JobsOK'
        BY <2>5, <3>1, <3>2, FailsOK DEF TypeInv
      <3> QED
        BY <2>2, <3>1, <3>3 DEF TypeInv
    <2> QED
      BY <2>1, <2>3, <2>4, <2>5, JobStep
  <1>3. CASE Others
    <2>1. FaultsOK' /\ SettingsOK' /\ SessionOK' /\ rows' = rows
      BY <1>3, OtherStep DEF Unchanged
    <2>2. RowsOK'
      BY <2>1 DEF TypeInv, RowsOK, Ids
    <2>3. ASSUME UNCHANGED jobs PROVE JobsOK'
      BY <2>1, <2>3 DEF TypeInv, JobsOK
    <2>4. ASSUME jobs' = [j \in Jobs |-> None] PROVE JobsOK'
      BY <2>4 DEF JobsOK
    <2>5. ASSUME enqueue PROVE JobsOK'
      BY <2>1, <2>5, EnqueueOK DEF TypeInv
    <2>6. JobsOK'
      BY <1>3, <2>3, <2>4, <2>5, OtherStep
    <2> QED
      BY <2>1, <2>2, <2>6 DEF TypeInv
  <1> QED
    BY <1>1, <1>2, <1>3, NextSplit

LEMMA TypeInvHolds == Spec => []TypeInv
  <1>1. TypeInv /\ [Next]_vars => TypeInv'
    BY StepTypeInv
  <1> QED
    BY InitTypeInv, <1>1, PTL DEF Spec

(* The memories, the session and the jobs have their types, and a memory   *)
(* carries a number of memories that there had been before it.             *)
THEOREM TypeCorrect == Spec => []TypeOK
  BY TypeInvHolds, TypeInvTypes, PTL

----------------------------------------------------------------------------
(* Duplicates *)

(* A job that has read the titles knows that of every memory that was      *)
(* there then, unless it was renamed, and of every one it saved since.     *)
Concerns(j, i) == i <= jobs[j].after \/ (rows[i].by = j /\ rows[i].after = jobs[j].after)
Knows ==
  \A j \in Jobs, i \in Ids :
    /\ jobs[j] # None /\ jobs[j].pc # "queued"
    /\ rows[i] # None /\ rows[i].by # "renamed" /\ Concerns(j, i)
    => rows[i].title \in jobs[j].existing

(* A row of the table after a step is the row it was, new, gone, or has    *)
(* another title now.                                                      *)
ByAnother(t, w, k) == w \in {"user", "raised"} /\ k \in 0..MaxRows /\ k <= Len(rows) /\ Inserts(t, w, k)
Saves(j, t) == /\ jobs[j] # None /\ jobs[j].pc = "save" /\ t \notin jobs[j].existing
               /\ Inserts(t, j, jobs[j].after)

LEMMA TableStep ==
  ASSUME TypeInv, [Next]_vars
  PROVE  \/ Unchanged
         \/ \E t \in Titles : \E w, k : ByAnother(t, w, k)
         \/ \E j \in Jobs, t \in Titles : Saves(j, t)
         \/ \E i \in Ids : Deletes(i) \/ \E t \in Titles : Renames(i, t)
  <1>0. Len(rows) \in Nat /\ MaxRows \in Nat
    BY RowsLen, Bounds DEF TypeInv
  <1>1. CASE \/ \E t \in Titles : SaveMemory(t)
             \/ \E i \in Ids : delete_memory(i) \/ \E t \in Titles : update_memory(i, t)
    <2>1. 0 \in 0..MaxRows /\ 0 <= Len(rows)
      BY <1>0
    <2> QED
      BY <1>1, <2>1, UserStep DEF ByAnother
  <1>2. CASE \E j \in Jobs : JobReads(j) \/ _call_model(j) \/ JobSaves(j)
    <2>1. PICK j \in Jobs : JobReads(j) \/ _call_model(j) \/ JobSaves(j)
      BY <1>2
    <2>2. ASSUME Fails(j) PROVE jobs[j].after \in 0..MaxRows /\ jobs[j].after <= Len(rows)
      BY <2>2 DEF Fails, TypeInv, JobsOK, Job
    <2> QED
      BY <2>1, <2>2, JobStep DEF Saves, Uses, ByAnother
  <1>3. CASE Others
    BY <1>3, OtherStep
  <1> QED
    BY <1>1, <1>2, <1>3, NextSplit

LEMMA OtherInserts ==
  ASSUME TypeInv, NEW t \in Titles, NEW w, NEW k, ByAnother(t, w, k)
  PROVE  /\ Len(rows) \in Nat /\ Len(rows') = Len(rows) + 1
         /\ \A i \in Ids : rows'[i] = rows[i]
         /\ rows'[Len(rows')] = [title |-> t, by |-> w, after |-> k]
  BY RowsLen, InsertOK DEF TypeInv, ByAnother

LEMMA JobInserts ==
  ASSUME TypeInv, NEW j \in Jobs, NEW t \in Titles, Saves(j, t)
  PROVE  /\ Len(rows) \in Nat /\ Len(rows') = Len(rows) + 1
         /\ \A i \in Ids : rows'[i] = rows[i]
         /\ rows'[Len(rows')] = [title |-> t, by |-> j, after |-> jobs[j].after]
  <1>1. Len(rows) \in Nat
    BY RowsLen DEF TypeInv
  <1>2. jobs[j] \in Job /\ jobs[j].after <= Len(rows)
    BY DEF Saves, TypeInv, JobsOK
  <1>3. jobs[j].after \in 0..MaxRows
    BY <1>2 DEF Job
  <1> QED
    BY <1>1, <1>2, <1>3, InsertOK DEF TypeInv, Saves

LEMMA KnowsWhenRead ==
  ASSUME TypeInv, Knows, NEW q \in Jobs, Unchanged, Ends(q) \/ Reads(q) \/ Answers(q)
  PROVE  Knows'
  <1> SUFFICES ASSUME NEW j \in Jobs, NEW i \in Ids', jobs'[j] # None, jobs'[j].pc # "queued",
                      rows'[i] # None, rows'[i].by # "renamed", Concerns(j, i)'
               PROVE  rows'[i].title \in jobs'[j].existing
    BY DEF Knows
  <1>1. rows' = rows /\ i \in Ids
    BY DEF Unchanged, Ids
  <1>2. CASE j # q
    <2>1. jobs'[j] = jobs[j]
      BY <1>2, ReadsOK, AnswersOK DEF Ends, TypeInv, JobsOK, Unchanged
    <2> QED
      BY <1>1, <2>1 DEF Knows, Concerns
  <1>3. CASE j = q
    <2>1. CASE Ends(q)
      BY <1>3, <2>1 DEF Ends, TypeInv, JobsOK
    <2>2. CASE Reads(q)
      <3>1. jobs'[q].existing = Existing
        BY <2>2, ReadsOK DEF TypeInv, Unchanged
      <3>2. rows[i].title \in Existing
        BY <1>1 DEF Existing
      <3> QED
        BY <1>1, <1>3, <3>1, <3>2
    <2>3. CASE Answers(q)
      <3>1. jobs'[q].existing = jobs[q].existing /\ jobs'[q].after = jobs[q].after
        BY <2>3, AnswersOK DEF TypeInv, Unchanged
      <3>2. jobs[q] # None /\ jobs[q].pc # "queued"
        BY <2>3 DEF Answers
      <3> QED
        BY <1>1, <1>3, <3>1, <3>2 DEF Knows, Concerns
    <2> QED
      BY <2>1, <2>2, <2>3
  <1> QED
    BY <1>2, <1>3

LEMMA KnowsWhenSaved ==
  ASSUME TypeInv, Knows, NEW q \in Jobs, NEW t \in Titles, Uses(q, t), Unchanged \/ Saves(q, t)
  PROVE  Knows'
  <1> SUFFICES ASSUME NEW j \in Jobs, NEW i \in Ids', jobs'[j] # None, jobs'[j].pc # "queued",
                      rows'[i] # None, rows'[i].by # "renamed", Concerns(j, i)'
               PROVE  rows'[i].title \in jobs'[j].existing
    BY DEF Knows
  <1>0. Len(rows) \in Nat /\ Len(rows') \in Nat /\ Len(rows') >= Len(rows)
    <2>1. Len(rows) \in Nat
      BY RowsLen DEF TypeInv
    <2>2. CASE Unchanged
      BY <2>1, <2>2 DEF Unchanged
    <2>3. CASE Saves(q, t)
      <3>1. Len(rows') = Len(rows) + 1
        BY <2>3, JobInserts
      <3> QED
        BY <2>1, <3>1
    <2> QED
      BY <2>1, <2>2, <2>3
  <1>1. jobs[j] # None /\ jobs[j].pc # "queued" /\ jobs'[j].after = jobs[j].after
        /\ jobs'[j].existing = IF j = q THEN jobs[j].existing \cup {t} ELSE jobs[j].existing
    <2>0. RowsOK /\ JobsOK
      BY DEF TypeInv
    <2>1. CASE j = q
      <3>1. jobs[q] # None /\ jobs[q].pc # "queued"
        BY DEF Uses
      <3> QED
        BY <1>0, <2>0, <2>1, <3>1, UsesOK
    <2>2. CASE j # q
      BY <1>0, <2>2, UsesOK DEF TypeInv
    <2> QED
      BY <2>1, <2>2
  <1>2. CASE i \in Ids /\ rows'[i] = rows[i]
    <2>1. rows[i].title \in jobs[j].existing
      BY <1>1, <1>2 DEF Knows, Concerns
    <2> QED
      BY <1>1, <1>2, <2>1
  <1>3. CASE Saves(q, t) /\ i \notin Ids
    <2>0. Len(rows') = Len(rows) + 1 /\ rows'[Len(rows')] = [title |-> t, by |-> q, after |-> jobs[q].after]
      BY <1>3, JobInserts
    <2>1. i = Len(rows') /\ i > Len(rows)
      BY <1>0, <1>3, <2>0 DEF Ids
    <2>4. rows'[i].title = t /\ rows'[i].by = q
      BY <2>0, <2>1
    <2>2. jobs[j].after \in Nat /\ jobs[j].after <= Len(rows)
      BY <1>1, Bounds DEF TypeInv, JobsOK, Job
    <2>3. j = q
      BY <1>0, <1>1, <2>1, <2>2, <2>4 DEF Concerns
    <2> QED
      BY <1>1, <2>3, <2>4
  <1> QED
    BY <1>2, <1>3, JobInserts DEF Unchanged, Ids

(* A row that is there although the save raised concerns no job. *)
LEMMA KnowsWhenOther ==
  ASSUME TypeInv, Knows, NEW t \in Titles, NEW w, NEW k, ByAnother(t, w, k),
         \A j \in Jobs : jobs'[j] # None => /\ jobs[j] # None
                                            /\ jobs'[j].pc # "queued" => jobs[j].pc # "queued"
                                            /\ jobs'[j].after = jobs[j].after
                                            /\ jobs'[j].existing = jobs[j].existing
  PROVE  Knows'
  <1> SUFFICES ASSUME NEW j \in Jobs, NEW i \in Ids', jobs'[j] # None, jobs'[j].pc # "queued",
                      rows'[i] # None, rows'[i].by # "renamed", Concerns(j, i)'
               PROVE  rows'[i].title \in jobs'[j].existing
    BY DEF Knows
  <1>0. rows'[Len(rows')] = [title |-> t, by |-> w, after |-> k]
    BY OtherInserts
  <1>1. Len(rows) \in Nat /\ Len(rows') = Len(rows) + 1 /\ rows'[Len(rows')].by = w /\ w \notin Jobs
    BY <1>0, OtherInserts, Bounds DEF ByAnother
  <1>2. jobs[j].after \in Nat /\ jobs[j].after <= Len(rows)
    BY Bounds DEF TypeInv, JobsOK, Job
  <1>3. i # Len(rows')
    BY <1>1, <1>2 DEF Concerns
  <1>4. i \in Ids
    BY <1>1, <1>3 DEF Ids
  <1>5. rows'[i] = rows[i]
    BY <1>4, OtherInserts
  <1> QED
    BY <1>4, <1>5 DEF Knows, Concerns

LEMMA KnowsWhenFailed ==
  ASSUME TypeInv, Knows, NEW q \in Jobs, Fails(q),
         Unchanged \/ \E t \in Titles : Inserts(t, "raised", jobs[q].after)
  PROVE  Knows'
  <1>0. Len(rows) \in Nat /\ jobs[q].after \in 0..MaxRows /\ jobs[q].after <= Len(rows) /\ jobs[q].pc = "save"
    BY RowsLen DEF Fails, TypeInv, JobsOK, Job
  <1>1. \A t \in Titles : Inserts(t, "raised", jobs[q].after) => ByAnother(t, "raised", jobs[q].after)
    BY <1>0 DEF ByAnother
  <1>2. Len(rows') \in Nat /\ Len(rows') >= Len(rows)
    <2>1. CASE Unchanged
      BY <1>0, <2>1 DEF Unchanged
    <2>2. ASSUME NEW t \in Titles, ByAnother(t, "raised", jobs[q].after)
          PROVE  Len(rows') \in Nat /\ Len(rows') >= Len(rows)
      <3>1. Len(rows') = Len(rows) + 1
        BY <2>2, OtherInserts
      <3> QED
        BY <1>0, <3>1
    <2> QED
      BY <1>1, <2>1, <2>2
  <1>3. /\ jobs'[q] # None => /\ jobs'[q].pc = "save" /\ jobs'[q].after = jobs[q].after
                              /\ jobs'[q].existing = jobs[q].existing
        /\ \A i \in Jobs : i # q => jobs'[i] = jobs[i]
    BY <1>2, FailsOK DEF TypeInv
  <1>4. \A j \in Jobs : jobs'[j] # None => /\ jobs[j] # None
                                           /\ jobs'[j].pc # "queued" => jobs[j].pc # "queued"
                                           /\ jobs'[j].after = jobs[j].after
                                           /\ jobs'[j].existing = jobs[j].existing
    BY <1>0, <1>3 DEF Fails
  <1>5. CASE Unchanged
    BY <1>4, <1>5 DEF Knows, Concerns, Unchanged, Ids
  <1>6. ASSUME NEW t \in Titles, ByAnother(t, "raised", jobs[q].after) PROVE Knows'
    BY <1>4, <1>6, KnowsWhenOther
  <1> QED
    BY <1>1, <1>5, <1>6

LEMMA StepKnows ==
  ASSUME TypeInv, Knows, [Next]_vars
  PROVE  Knows'
  <1>1. CASE \/ \E t \in Titles : SaveMemory(t)
             \/ \E i \in Ids : delete_memory(i) \/ \E t \in Titles : update_memory(i, t)
    <2> SUFFICES ASSUME NEW j \in Jobs, NEW i \in Ids', jobs'[j] # None, jobs'[j].pc # "queued",
                        rows'[i] # None, rows'[i].by # "renamed", Concerns(j, i)'
                 PROVE  rows'[i].title \in jobs'[j].existing
      BY DEF Knows
    <2>1. jobs' = jobs
      BY <1>1, UserStep
    <2>2. CASE i \in Ids /\ rows'[i] = rows[i]
      BY <2>1, <2>2 DEF Knows, Concerns
    <2>3. ASSUME NEW t \in Titles, Inserts(t, "user", 0) PROVE rows'[i].title \in jobs'[j].existing
      <3>1. ByAnother(t, "user", 0)
        BY <2>3, RowsLen, Bounds DEF ByAnother, TypeInv
      <3>2. Knows'
        BY <2>1, <3>1, KnowsWhenOther
      <3> QED
        BY <3>2 DEF Knows
    <2>4. ASSUME NEW k \in Ids, Deletes(k) PROVE i \in Ids /\ rows'[i] = rows[i]
      BY <2>4, DeleteOK DEF TypeInv, Ids
    <2>5. ASSUME NEW k \in Ids, NEW t \in Titles, Renames(k, t) PROVE i \in Ids /\ rows'[i] = rows[i]
      BY <2>5, RenameOK DEF TypeInv, Ids
    <2>6. CASE Unchanged
      BY <2>2, <2>6 DEF Unchanged, Ids
    <2> QED
      BY <1>1, <2>2, <2>3, <2>4, <2>5, <2>6, UserStep
  <1>2. CASE \E j \in Jobs : JobReads(j) \/ _call_model(j) \/ JobSaves(j)
    BY <1>2, JobStep, KnowsWhenRead, KnowsWhenSaved, KnowsWhenFailed DEF Saves, Uses
  <1>3. CASE Others
    <2> SUFFICES ASSUME NEW j \in Jobs, NEW i \in Ids', jobs'[j] # None, jobs'[j].pc # "queued",
                        rows'[i] # None, rows'[i].by # "renamed", Concerns(j, i)'
                 PROVE  rows'[i].title \in jobs'[j].existing
      BY DEF Knows
    <2>1. rows' = rows /\ i \in Ids
      BY <1>3, OtherStep DEF Unchanged, Ids
    <2>2. jobs'[j] = jobs[j]
      BY <1>3, OtherStep DEF enqueue, Queued, TypeInv, JobsOK
    <2> QED
      BY <2>1, <2>2 DEF Knows, Concerns
  <1> QED
    BY <1>1, <1>2, <1>3, NextSplit

(* Two memories do not repeat each other, as DuplicatesOverlap has it. *)
Apart(x, y, b) ==
  x # None /\ y # None =>
    (x.by \in Jobs /\ y.by # "renamed" /\ x.title = y.title =>
       b > x.after /\ (y.by = x.by => y.after # x.after))

LEMMA ApartMeans == DuplicatesOverlap <=> \A a, b \in Ids : a # b => Apart(rows[a], rows[b], b)
  BY DEF DuplicatesOverlap, Apart

LEMMA StepOverlap ==
  ASSUME TypeInv, Knows, DuplicatesOverlap, [Next]_vars
  PROVE  DuplicatesOverlap'
  <1> SUFFICES ASSUME NEW a \in Ids', NEW b \in Ids', a # b PROVE Apart(rows'[a], rows'[b], b)
    BY DEF DuplicatesOverlap, Apart
  <1>0. RowsOK /\ Len(rows) \in Nat
    BY RowsLen DEF TypeInv
  <1>1. CASE a \in Ids /\ b \in Ids /\ rows'[a] = rows[a] /\ rows'[b] = rows[b]
    BY <1>1, ApartMeans
  <1>2. CASE Unchanged
    BY <1>1, <1>2 DEF Unchanged, Ids
  <1>3. ASSUME NEW t \in Titles, NEW w, NEW k, ByAnother(t, w, k) PROVE Apart(rows'[a], rows'[b], b)
    <2>0. w \notin Jobs
      BY <1>3, Bounds DEF ByAnother
    <2>1. Len(rows') = Len(rows) + 1 /\ rows'[Len(rows')] = [title |-> t, by |-> w, after |-> k]
      BY <1>3, OtherInserts
    <2>2. \A i \in Ids : rows'[i] = rows[i]
      BY <1>3, OtherInserts
    <2>3. CASE a = Len(rows')
      <3>1. rows'[a].by = w
        BY <2>1, <2>3
      <3> QED
        BY <2>0, <3>1 DEF Apart
    <2>4. CASE b = Len(rows') /\ a \in Ids
      <3>1. rows'[b].by = w /\ rows'[a] = rows[a]
        BY <2>1, <2>2, <2>4
      <3>2. rows[a] # None => rows[a].after \in Nat /\ rows[a].after < a
        BY <1>0, <2>4, Bounds DEF RowsOK, Memory, Ids
      <3>3. rows[a] # None => b > rows[a].after
        BY <1>0, <2>1, <2>4, <3>2 DEF Ids
      <3> QED
        BY <2>0, <3>1, <3>3 DEF Apart
    <2>5. a \in Ids \/ a = Len(rows')
      BY <1>0, <2>1 DEF Ids
    <2>6. b \in Ids \/ b = Len(rows')
      BY <1>0, <2>1 DEF Ids
    <2> QED
      BY <1>1, <2>2, <2>3, <2>4, <2>5, <2>6
  <1>4. ASSUME NEW q \in Jobs, NEW t \in Titles, Saves(q, t) PROVE Apart(rows'[a], rows'[b], b)
    <2>1. Len(rows') = Len(rows) + 1 /\ rows'[Len(rows')] = [title |-> t, by |-> q, after |-> jobs[q].after]
      BY <1>4, JobInserts
    <2>2. \A i \in Ids : rows'[i] = rows[i]
      BY <1>4, JobInserts
    <2>3. jobs[q] # None /\ jobs[q].pc # "queued" /\ t \notin jobs[q].existing
      BY <1>4 DEF Saves
    <2>4. jobs[q].after \in Nat
      BY <2>3, Bounds DEF TypeInv, JobsOK, Job
    <2>5. CASE a = Len(rows') /\ b \in Ids
      <3>1. rows'[a].title = t /\ rows'[a].by = q /\ rows'[a].after = jobs[q].after /\ rows'[b] = rows[b]
        BY <2>1, <2>2, <2>5
      <3>2. rows[b] # None /\ rows[b].by # "renamed" /\ rows[b].title = t => ~Concerns(q, b)
        BY <2>3, <2>5 DEF Knows
      <3>3. b \in Nat
        BY <1>0, <2>5 DEF Ids
      <3>4. ~Concerns(q, b) => b > jobs[q].after /\ (rows[b].by = q => rows[b].after # jobs[q].after)
        BY <2>4, <3>3 DEF Concerns
      <3> QED
        BY <3>1, <3>2, <3>4 DEF Apart
    <2>6. CASE b = Len(rows') /\ a \in Ids
      <3>1. rows'[b].title = t /\ rows'[b].by = q /\ rows'[b].after = jobs[q].after /\ rows'[a] = rows[a]
        BY <2>1, <2>2, <2>6
      <3>2. rows[a] # None => rows[a].after \in Nat /\ rows[a].after < a
        BY <1>0, <2>6, Bounds DEF RowsOK, Memory, Ids
      <3>3. rows[a] # None => b > rows[a].after
        BY <1>0, <2>1, <2>6, <3>2 DEF Ids
      <3>4. rows[a] # None /\ rows[a].by = q /\ rows[a].title = t => rows[a].after # jobs[q].after
        BY <2>3, <2>6, Bounds DEF Knows, Concerns
      <3> QED
        BY <3>1, <3>3, <3>4 DEF Apart
    <2>7. a \in Ids \/ a = Len(rows')
      BY <1>0, <2>1 DEF Ids
    <2>8. b \in Ids \/ b = Len(rows')
      BY <1>0, <2>1 DEF Ids
    <2> QED
      BY <1>1, <2>2, <2>5, <2>6, <2>7, <2>8
  <1>5. ASSUME NEW i \in Ids, Deletes(i) PROVE Apart(rows'[a], rows'[b], b)
    <2>1. rows'[i] = None /\ (\A k \in Ids : k # i => rows'[k] = rows[k]) /\ Ids' = Ids
      BY <1>0, <1>5, DeleteOK DEF Ids
    <2>2. CASE i \in {a, b}
      BY <2>1, <2>2 DEF Apart
    <2> QED
      BY <1>1, <2>1, <2>2
  <1>6. ASSUME NEW i \in Ids, NEW t \in Titles, Renames(i, t) PROVE Apart(rows'[a], rows'[b], b)
    <2>1. rows'[i].by = "renamed" /\ (\A k \in Ids : k # i => rows'[k] = rows[k]) /\ Ids' = Ids
      BY <1>0, <1>6, RenameOK DEF Ids
    <2>2. CASE i \in {a, b}
      BY <2>1, <2>2, Bounds DEF Apart
    <2> QED
      BY <1>1, <2>1, <2>2
  <1> QED
    BY <1>2, <1>3, <1>4, <1>5, <1>6, TableStep

(* A memory that a job adds repeats none that was there when the job read  *)
(* the titles, and none of the job's own.                                  *)
(* (core/memory_extractor.py:8 "so we can skip duplicates")                *)
THEOREM DuplicatesCorrect == Spec => []DuplicatesOverlap
  <1>1. Init => Knows /\ DuplicatesOverlap
    BY DEF Init, Knows, DuplicatesOverlap, Ids
  <1>2. TypeInv /\ Knows /\ DuplicatesOverlap /\ [Next]_vars => (Knows /\ DuplicatesOverlap)'
    BY StepKnows, StepOverlap
  <1> QED
    BY <1>1, <1>2, TypeInvHolds, PTL DEF Spec

----------------------------------------------------------------------------
(* Extraction *)

(* The messages that the session was given since the last job are at least *)
(* those it counts: a list that gets shorter only makes its number smaller.*)
FreshOK == fresh + back >= sess.count - sess.last

LEMMA SetFresh ==
  ASSUME SessionOK, FreshOK, NEW n \in Int, NEW new \in Nat, conv_session_set(n, new)
  PROVE  FreshOK'
  <1>1. /\ sess.count \in Nat /\ sess.last \in Nat /\ fresh \in Nat /\ back \in Nat
        /\ sess'.count = n /\ sess'.last = sess.last
    BY Bounds DEF SessionOK, conv_session_set
  <1>2. fresh' = fresh + new /\ back' = back + Positive(n - sess.count - new)
    BY DEF conv_session_set
  <1>3. Positive(n - sess.count - new) \in Nat /\ Positive(n - sess.count - new) >= n - sess.count - new
    BY <1>1 DEF Positive
  <1> QED
    BY <1>1, <1>2, <1>3 DEF FreshOK

LEMMA StepFresh ==
  ASSUME TypeInv, FreshOK, [Next]_vars
  PROVE  FreshOK'
  <1>0. SessionOK /\ sess.count \in Nat /\ sess.last \in Nat /\ MaxMessages \in Nat
        /\ fresh \in Nat /\ back \in Nat
    BY Bounds DEF TypeInv, SessionOK
  <1>1. CASE BeginTurn
    BY <1>0, <1>1, SetFresh DEF BeginTurn
  <1>2. CASE EndTurn
    <2>1. Own \in Nat
      BY <1>0, <1>2 DEF EndTurn, Own, SessionOK
    <2>2. ASSUME NEW new \in 0..MaxMessages, NEW n \in 1..MaxMessages, conv_session_set(n, new) PROVE FreshOK'
      BY <1>0, <2>2, SetFresh
    <2>3. CASE conv_session_set(Own, 0)
      BY <1>0, <2>1, <2>3, SetFresh
    <2>4. CASE UNCHANGED session
      BY <2>4 DEF session, FreshOK
    <2> QED
      BY <1>2, <2>2, <2>3, <2>4 DEF EndTurn
  <1>3. CASE save_conversation
    <2>1. sess'.count = sess.count /\ sess'.last = sess.last /\ fresh' = fresh /\ back' = back
      BY <1>0, <1>3 DEF save_conversation, SessionOK
    <2> QED
      BY <2>1 DEF FreshOK
  <1>4. CASE _maybe_enqueue_extract
    <2>1. \/ sess' = [sess EXCEPT !.saving = FALSE, !.last = sess.count] /\ fresh' = 0 /\ back' = 0
          \/ sess' = [sess EXCEPT !.saving = FALSE] /\ fresh' = fresh /\ back' = back
      BY <1>4 DEF _maybe_enqueue_extract, Counted
    <2>2. \/ sess'.count = sess.count /\ sess'.last = sess.count /\ fresh' = 0 /\ back' = 0
          \/ sess'.count = sess.count /\ sess'.last = sess.last /\ fresh' = fresh /\ back' = back
      BY <1>0, <2>1 DEF SessionOK
    <2> QED
      BY <1>0, <2>2 DEF FreshOK
  <1>5. CASE Clear \/ Restart
    <2>1. sess' = Destroyed /\ fresh' = 0 /\ back' = 0
      BY <1>5 DEF Clear, Restart
    <2> QED
      BY <2>1 DEF FreshOK, Destroyed
  <1>6. CASE Install
    <2>1. router \in Int
      BY <1>0, <1>6 DEF Install, SessionOK
    <2> QED
      BY <1>0, <1>6, <2>1, SetFresh DEF Install
  <1>7. CASE rollback_compression
    <2>1. snapshot \in Int
      BY <1>0 DEF SessionOK
    <2> QED
      BY <1>0, <1>7, <2>1, SetFresh DEF rollback_compression
  <1>8. CASE Retry
    <2>1. PICK n \in 1..(sess.count - 1) : conv_session_set(n, 0)
      BY <1>8 DEF Retry
    <2> QED
      BY <1>0, <2>1, SetFresh
  <1>9. CASE UNCHANGED session
    BY <1>9 DEF session, FreshOK
  <1>10. CASE compress_if_needed \/ Read
    BY <1>9, <1>10 DEF compress_if_needed, Read
  <1>11. ASSUME NEW j \in Jobs, JobReads(j) \/ _call_model(j) \/ JobSaves(j) PROVE UNCHANGED session
    BY <1>11, JobStep DEF conversation
  <1>12. CASE api_update_settings \/ UNCHANGED vars
    BY <1>9, <1>12 DEF api_update_settings, vars, conversation, session
  <1>13. CASE UNCHANGED conversation
    BY <1>9, <1>13 DEF conversation
  <1> QED
    BY <1>1, <1>2, <1>3, <1>4, <1>5, <1>6, <1>7, <1>8, <1>9, <1>10, <1>11, <1>12, <1>13, UserStep, NextSplit
    DEF Others, Conversation

LEMMA StepQueues ==
  ASSUME TypeInv, FreshOK, [Next]_vars, NEW j \in Jobs, jobs[j] = None, jobs'[j] # None
  PROVE  fresh + back >= settings.min
  <1>1. ASSUME NEW q \in Jobs, JobReads(q) \/ _call_model(q) \/ JobSaves(q) PROVE FALSE
    <2>1. jobs[q] # None
      BY <1>1 DEF JobReads, _call_model, JobSaves
    <2>2. \E job : jobs' = [jobs EXCEPT ![q] = job]
      BY <1>1 DEF JobReads, _call_model, JobSaves, Used, Ends
    <2> QED
      BY <2>1, <2>2 DEF TypeInv, JobsOK
  <1>2. Others
    BY <1>1, UserStep, NextSplit
  <1>3. jobs' # jobs /\ jobs' # [i \in Jobs |-> None]
    OBVIOUS
  <1>4. _maybe_enqueue_extract
    BY <1>2, <1>3 DEF Others, api_update_settings, Conversation, BeginTurn, compress_if_needed, EndTurn,
                      save_conversation, Clear, Read, Install, rollback_compression, Retry, Restart, vars
  <1>5. Due
    BY <1>3, <1>4 DEF _maybe_enqueue_extract
  <1>6. sess.count - sess.last >= settings.min
    BY <1>5 DEF Due
  <1>7. fresh \in Nat /\ back \in Nat /\ sess.count \in Nat /\ sess.last \in Nat
    BY Bounds DEF TypeInv, SessionOK
  <1>8. settings.min \in Minima
    BY DEF TypeInv, SettingsOK
  <1>9. settings.min \in Nat
    BY <1>8, Bounds
  <1> QED
    BY <1>6, <1>7, <1>9 DEF FreshOK

(* No job is queued before the session has been given as many messages as  *)
(* the user asked for, new ones or ones brought back, whatever turns,      *)
(* saves, compressions, rollbacks, resumes, summaries, retries and         *)
(* restarts come between.                                                  *)
(* (core/session.py:397-402 "Debounced by auto_extract_min_messages")      *)
THEOREM ExtractionCorrect == Spec => ExtractionIsDebounced
  <1>1. Init => FreshOK
    BY DEF Init, Destroyed, FreshOK
  <1>2. TypeInv /\ FreshOK /\ [Next]_vars => FreshOK'
    BY StepFresh
  <1>3. TypeInv /\ FreshOK /\ [Next]_vars =>
          [\A j \in Jobs : jobs[j] = None /\ jobs'[j] # None => fresh + back >= settings.min]_vars
    BY StepQueues
  <1> QED
    BY <1>1, <1>2, <1>3, TypeInvHolds, PTL DEF Spec, ExtractionIsDebounced
=============================================================================
