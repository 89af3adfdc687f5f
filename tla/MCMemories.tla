----------------------------- MODULE MCMemories -----------------------------
EXTENDS Memories, TLC
CONSTANTS j1, j2, a, b
(* Nothing reads the files of the fallback. *)
View == <<rows, settings, sess, turn, router, snapshot, stored, jobs, fresh, back, faults>>
(* The memories and the session meet in the jobs only: a save queues one,  *)
(* and what it reads of the conversation is the number of rows.  So every  *)
(* order of the session's steps is explored until the first job reads or   *)
(* the first memory is saved, and after that every order of the jobs' and  *)
(* the user's steps, with a session that has been saved and stays so.      *)
Saved == /\ turn = None /\ router = None /\ snapshot = 0
         /\ sess.count = stored /\ fresh = 0 /\ back = 0
Meet == Saved \/ (rows = <<>> /\ \A j \in Jobs : jobs[j] \in {None, Queued})
Symmetry == Permutations({j1, j2}) \cup Permutations({a, b})
=============================================================================
