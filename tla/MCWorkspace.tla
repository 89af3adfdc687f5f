---------------------------- MODULE MCWorkspace ----------------------------
(* Two conversations, on one connection. *)
EXTENDS Workspace, TLC

MCConnOf == [k \in Cids |-> CHOOSE n \in Conns : TRUE]
(* A second answer to a question changes nothing.                         *)
(* Of a call that ended, only that it did matters; of one that has its     *)
(* permission, what it edits and that it may; the modes, while calls are   *)
(* to be made.                                                             *)
Rest(c) == CASE calls[c] = None \/ At(c, "done") -> calls[c] = None
             [] At(c, "run") -> <<calls[c].cid, calls[c].file, calls[c].file # None /\ calls[c].tool = "Write",
                                  calls[c].by = "mode" \/ c \in allowed>>
             [] OTHER -> <<calls[c], answer[c], c \in allowed>>
(* A base is compared with no file that others changed; texts are only     *)
(* told apart, so of those around only their order counts.                 *)
Base(k, f) == IF f \in foreign[k] \/ base[k][f] = Binary THEN None ELSE base[k][f]
Around == UNION {{read_text(files[f]), read_text(Base(k, f))} \cup {e.text : e \in entries[k]} : k \in Cids, f \in Files}
Nth(t) == IF t \in Nat THEN Cardinality({u \in Around \cap Nat : u < t}) ELSE t
Seen(v) == IF v \in Text THEN [v EXCEPT !.text = Nth(@)] ELSE v
View == <<[f \in Files |-> Seen(files[f])], [k \in Cids |-> {[e EXCEPT !.text = Nth(@)] : e \in entries[k]}],
          [k \in Cids |-> [f \in Files |-> Seen(Base(k, f))]], foreign, Events,
          IF \A c \in Calls : calls[c] # None THEN None ELSE mode,
          {c \in pending : answer[c] = None /\ (At(c, "send") \/ At(c, "wait"))}, [c \in Calls |-> Rest(c)]>>
Symmetry == Permutations(Calls) \cup Permutations(Cids) \cup Permutations(Files)
=============================================================================
