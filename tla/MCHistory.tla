----------------------------- MODULE MCHistory -----------------------------
(* Small instances of History. *)
EXTENDS History, TLC

FiveRefs == 1 .. 5

Deref(r) == IF r = NoRef THEN NoList ELSE heap[r]

\* Which object is which number does not matter, only what the parties reach
\* and what they share.
Seen == <<Deref(session), Deref(own), Deref(summarizing), Deref(detached),
          session = own, session = summarizing, own = summarizing,
          detached = own, detached = summarizing,
          turn, working, round, clearing, loading, resending, snapshot, stored,
          nextId, prompts, edits, cut>>
=============================================================================
