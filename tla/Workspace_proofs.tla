-------------------------- MODULE Workspace_proofs --------------------------
(***************************************************************************)
(* Proofs about Workspace: no tool call runs without the permission it     *)
(* needs, and a revert gives back what the files held.                     *)
(***************************************************************************)
EXTENDS Workspace, FiniteSetTheorems, TLAPS

(* An edit or a write names its file.                                      *)
FilesNamed == \A c \in Calls : calls[c] # None => (calls[c].tool \in FILE_EDIT_TOOLS => calls[c].file \in Files)
TypeInv == TypeOK /\ FilesNamed

(* What a step may do to one call. *)
LEMMA GotoEffect ==
  ASSUME TypeOK, NEW c \in Calls, NEW pc0, At(c, pc0), NEW pc \in {"send", "wait", "run", "done"}, Goto(c, pc)
  PROVE  /\ calls' \in [Calls -> Call \cup {None}]
         /\ calls[c] \in Call
         /\ calls'[c] = [calls[c] EXCEPT !.pc = pc]
         /\ \A d \in Calls \ {c} : calls'[d] = calls[d]
  <1>1. calls \in [Calls -> Call \cup {None}] /\ calls[c] # None
    BY DEF TypeOK, At
  <1>2. calls[c] \in Call
    BY <1>1
  <1>3. calls' = [calls EXCEPT ![c] = [calls[c] EXCEPT !.pc = pc]]
    BY DEF Goto
  <1>4. [calls[c] EXCEPT !.pc = pc] \in Call
    BY <1>2 DEF Call
  <1> QED
    BY <1>1, <1>2, <1>3, <1>4

(* The calls that do not ask run by their mode.                            *)
LEMMA CallToolEffect ==
  ASSUME TypeOK, NEW c \in Calls, CallTool(c)
  PROVE  /\ calls' \in [Calls -> Call \cup {None}]
         /\ calls'[c] \in Call /\ calls'[c].pc \in {"send", "run", "done"}
         /\ calls'[c].pc = "run" => calls'[c].by = "mode"
         /\ calls'[c].tool \in FILE_EDIT_TOOLS => calls'[c].file \in Files
         /\ \A d \in Calls \ {c} : calls'[d] = calls[d]
         /\ pending' \subseteq pending \cup {c}
  <1>1. PICK k \in Cids, name \in Names, f \in Files, risky \in BOOLEAN :
          \E verdict \in {"deny", check_permission(mode[ConnOf[k]], name, risky)} : LET tool == resolve_tool_name(name) IN
            /\ calls' = [calls EXCEPT ![c] =
                 [cid |-> k, tool |-> tool, file |-> IF tool \in FILE_EDIT_TOOLS THEN f ELSE None,
                  pc |-> CASE verdict = "allow" -> "run" [] verdict = "deny" -> "done" [] verdict = "ask" -> "send",
                  by |-> IF verdict = "ask" THEN "user" ELSE "mode"]]
            /\ pending' = IF verdict = "ask" THEN pending \cup {c} ELSE pending
    BY DEF CallTool
  <1>3. check_permission(mode[ConnOf[k]], name, risky) \in {"allow", "deny", "ask"}
    BY DEF check_permission
  <1> DEFINE tool == resolve_tool_name(name)
  <1>4. PICK verdict \in {"allow", "deny", "ask"} :
            /\ calls' = [calls EXCEPT ![c] =
                 [cid |-> k, tool |-> tool, file |-> IF tool \in FILE_EDIT_TOOLS THEN f ELSE None,
                  pc |-> CASE verdict = "allow" -> "run" [] verdict = "deny" -> "done" [] verdict = "ask" -> "send",
                  by |-> IF verdict = "ask" THEN "user" ELSE "mode"]]
            /\ pending' = IF verdict = "ask" THEN pending \cup {c} ELSE pending
    BY <1>1, <1>3
  <1>2. tool \in Tools
    BY DEF resolve_tool_name, Names, Tools, FILE_EDIT_TOOLS, READ_ONLY_TOOLS
  <1> HIDE DEF tool
  <1> DEFINE new == [cid |-> k, tool |-> tool, file |-> IF tool \in FILE_EDIT_TOOLS THEN f ELSE None,
                     pc |-> CASE verdict = "allow" -> "run" [] verdict = "deny" -> "done" [] verdict = "ask" -> "send",
                     by |-> IF verdict = "ask" THEN "user" ELSE "mode"]
  <1>5. new.pc \in {"send", "run", "done"} /\ (new.pc = "run" => new.by = "mode") /\ (new.tool \in FILE_EDIT_TOOLS => new.file \in Files)
    OBVIOUS
  <1>6. new \in Call
    BY <1>2 DEF Call
  <1>7. calls \in [Calls -> Call \cup {None}]
    BY DEF TypeOK
  <1>8. calls' = [calls EXCEPT ![c] = new] /\ pending' \subseteq pending \cup {c}
    BY <1>4
  <1> QED
    BY <1>5, <1>6, <1>7, <1>8


LEMMA CancelEffect ==
  ASSUME TypeOK, NEW k \in Cids, Cancel(k)
  PROVE  /\ calls' \in [Calls -> Call \cup {None}]
         /\ \A c \in Calls : calls'[c] = calls[c] \/ (calls'[c] = [calls[c] EXCEPT !.pc = "done"] /\ calls[c] \in Call /\ calls'[c] \in Call)
         /\ pending' \subseteq pending
  <1>1. calls \in [Calls -> Call \cup {None}]
    BY DEF TypeOK
  <1>2. \A c \in Calls : calls[c] \in Call => [calls[c] EXCEPT !.pc = "done"] \in Call /\ [calls[c] EXCEPT !.pc = "done"].pc = "done"
    BY DEF Call
  <1>3. \A c \in Runs(k) : calls[c] # None
    BY DEF Runs
  <1>4. calls' = [c \in Calls |-> IF c \in Runs(k) THEN [calls[c] EXCEPT !.pc = "done"] ELSE calls[c]]
    BY DEF Cancel
  <1>5. pending' \subseteq pending
    BY DEF Cancel
  <1> QED
    BY <1>1, <1>2, <1>3, <1>4, <1>5

----------------------------------------------------------------------------
(* The disk and its snapshots *)

LEMMA ChangeEffect ==
  ASSUME TypeOK, NEW k, NEW new \in [Files -> Contents], Change(k, new)
  PROVE  /\ files' = new /\ files' \in [Files -> Contents] /\ foreign' \in [Cids -> SUBSET Files]
         /\ \A j \in Cids : foreign[j] \subseteq foreign'[j]
         /\ k \in Cids => foreign'[k] = foreign[k]
         /\ \A j \in Cids : j # k => \A f \in Files \ foreign'[j] : files'[f] = files[f]
  BY DEF TypeOK, Change, Touched

(* Reading what is not binary gives a text or nothing, and writing either  *)
(* gives a content.                                                        *)
LEMMA TextTypes ==
  /\ \A v \in Contents : v # Binary => read_text(v) \in Nat \cup {Absent}
  /\ \A t \in Nat \cup {Absent} : write_text(t) \in Contents
  BY WorkspaceAssumption DEF Contents, Text, read_text, write_text

LEMMA SnapshotEffect ==
  ASSUME TypeOK, NEW k \in Cids, NEW f \in Files, entries' = snapshot_file(k, f)
  PROVE  /\ entries' \in [Cids -> SUBSET [file : Files, turn : Nat, text : Nat \cup {Absent}]]
         /\ \A j \in Cids \ {k} : entries'[j] = entries[j]
         /\ \/ entries'[k] = entries[k] /\ (Entries(k, f) # {} \/ files[f] = Binary)
            \/ /\ Entries(k, f) = {} \/ \A e \in Entries(k, f) : e.turn # 0
               /\ files[f] # Binary
               /\ entries'[k] = entries[k] \cup {[file |-> f, turn |-> 0, text |-> read_text(files[f])]}
  <1> DEFINE s == Snapshot(k, f)
  <1>1. /\ s = [file |-> f, turn |-> 0, text |-> read_text(files[f])]
        /\ files[f] # Binary => s \in [file : Files, turn : Nat, text : Nat \cup {Absent}]
    <2>1. files[f] # Binary => read_text(files[f]) \in Nat \cup {Absent}
      BY TextTypes DEF TypeOK
    <2>2. s = [file |-> f, turn |-> 0, text |-> read_text(files[f])]
      BY DEF Snapshot, get_turn
    <2> QED
      BY <2>1, <2>2
  <1>2. CASE (\E e \in Entries(k, f) : e.turn = get_turn) \/ files[f] = Binary
    <2>1. entries' = entries
      BY <1>2 DEF snapshot_file
    <2> QED
      BY <1>2, <2>1 DEF TypeOK
  <1>3. CASE ~((\E e \in Entries(k, f) : e.turn = get_turn) \/ files[f] = Binary)
    <2>1. entries' = [entries EXCEPT ![k] = entries[k] \cup {s}]
      BY <1>3 DEF snapshot_file
    <2> HIDE DEF s
    <2>2. entries'[k] = entries[k] \cup {s} /\ \A j \in Cids \ {k} : entries'[j] = entries[j]
      BY <2>1 DEF TypeOK
    <2>3. entries' \in [Cids -> SUBSET [file : Files, turn : Nat, text : Nat \cup {Absent}]]
      BY <1>1, <1>3, <2>1 DEF TypeOK
    <2>4. \A e \in Entries(k, f) : e.turn # 0
      BY <1>3 DEF get_turn
    <2> QED
      BY <1>1, <1>3, <2>2, <2>3, <2>4
  <1> QED
    BY <1>2, <1>3

(* An edit or a write of a file by a call of k.                            *)
LEMMA EditEffect ==
  ASSUME TypeInv, NEW c \in Calls, handle_edit(c) \/ handle_write(c)
  PROVE  \E k \in Cids, f \in Files :
           /\ files' \in [Files -> Contents] /\ written' \in Nat /\ foreign' \in [Cids -> SUBSET Files]
           /\ foreign'[k] = foreign[k]
           /\ \A j \in Cids : foreign[j] \subseteq foreign'[j]
           /\ \A j \in Cids : j # k => \A g \in Files \ foreign'[j] : files'[g] = files[g]
           /\ \A g \in Files \ {f} : files'[g] = files[g]
           /\ \/ entries' = entries /\ files' = files
              \/ entries' = snapshot_file(k, f)
  <1> DEFINE k == calls[c].cid
             f == calls[c].file
  <1>1. calls[c] \in Call /\ calls[c] # None /\ calls[c].tool \in FILE_EDIT_TOOLS
    BY DEF handle_edit, handle_write, At, TypeInv, TypeOK, FILE_EDIT_TOOLS
  <1>2. k \in Cids /\ f \in Files
    BY <1>1 DEF Call, TypeInv, FilesNamed
  <1>3. (SameContent \/ NewContent(k, f)) /\ ((entries' = entries /\ SameContent) \/ entries' = snapshot_file(k, f))
    BY DEF handle_edit, handle_write
  <1> HIDE DEF k, f
  <1>4. CASE SameContent
    <2>1. files' = files /\ foreign' = foreign /\ written' = written
      BY <1>4 DEF SameContent
    <2>2. files' \in [Files -> Contents] /\ written' \in Nat /\ foreign' \in [Cids -> SUBSET Files]
      BY <2>1 DEF TypeInv, TypeOK
    <2>3. entries' = entries \/ entries' = snapshot_file(k, f)
      BY <1>3
    <2> QED
      BY <1>2, <2>1, <2>2, <2>3
  <1>5. CASE NewContent(k, f) /\ ~SameContent
    <2>6. PICK nl \in Newlines : Change(k, [files EXCEPT ![f] = [text |-> written + 1, nl |-> nl]])
      BY <1>5 DEF NewContent
    <2> DEFINE new == [files EXCEPT ![f] = [text |-> written + 1, nl |-> nl]]
    <2>1. Change(k, new) /\ written' = written + 1
      BY <1>5, <2>6 DEF NewContent
    <2>0. written \in Nat /\ written + 1 \in Nat /\ [text |-> written + 1, nl |-> nl] \in Contents
      BY DEF TypeInv, TypeOK, Contents, Text
    <2>2. new \in [Files -> Contents] /\ written' \in Nat /\ \A g \in Files \ {f} : new[g] = files[g]
      BY <2>1, <2>0 DEF TypeInv, TypeOK
    <2> HIDE DEF new
    <2>3. TypeOK
      BY DEF TypeInv
    <2>4. /\ files' = new /\ files' \in [Files -> Contents] /\ foreign' \in [Cids -> SUBSET Files]
          /\ \A j \in Cids : foreign[j] \subseteq foreign'[j]
          /\ foreign'[k] = foreign[k]
          /\ \A j \in Cids : j # k => \A g \in Files \ foreign'[j] : files'[g] = files[g]
      BY <1>2, <2>1, <2>2, <2>3, ChangeEffect
    <2>5. entries' = snapshot_file(k, f)
      BY <1>3, <1>5
    <2> QED
      BY <1>2, <2>2, <2>4, <2>5
  <1> QED
    BY <1>3, <1>4, <1>5

(* A revert of k that brings no file back for which it had no entry.       *)
LEMMA RevertEffect ==
  ASSUME TypeOK, NEW k \in Cids, Revert(k), \A e \in entries[k] : e.turn = 0
  PROVE  /\ files' \in [Files -> Contents] /\ failures' \in Nat
         /\ entries' \in [Cids -> SUBSET [file : Files, turn : Nat, text : Nat \cup {Absent}]]
         /\ base' \in [Cids -> [Files -> Contents]] /\ foreign' \in [Cids -> SUBSET Files]
         /\ \A j \in Cids \ {k} : /\ entries'[j] = entries[j] /\ base'[j] = base[j]
                                  /\ foreign[j] \subseteq foreign'[j]
                                  /\ \A f \in Files \ foreign'[j] : files'[f] = files[f]
         /\ \/ /\ entries'[k] = {} /\ base'[k] = files' /\ foreign'[k] = {}
               /\ failures' = failures =>
                    \A f \in Files : \/ Entries(k, f) = {} /\ files'[f] = files[f]
                                     \/ \E e \in Entries(k, f) : files'[f] = write_text(e.text)
            \/ entries' = entries /\ base' = base /\ foreign'[k] = foreign[k] /\ files' = files
  <1>1. PICK turn \in {0, 1}, broken \in SUBSET Files :
          failures' = failures + Cardinality(broken) /\ revert_to_turn(k, turn, broken)
    BY DEF Revert
  <1> DEFINE there == {f \in Files : Since(k, f, turn) # {}}
             new == [f \in Files |-> IF f \in there \ broken THEN write_text(First(k, f, turn).text) ELSE files[f]]
  <1>2. /\ broken \subseteq there
        /\ files' = new
        /\ entries' = [entries EXCEPT ![k] = {e \in entries[k] : e.turn < turn}]
        /\ base' = IF entries'[k] = {} THEN [base EXCEPT ![k] = files'] ELSE base
        /\ foreign' = [Touched(k, files') EXCEPT ![k] = IF entries'[k] = {} THEN {} ELSE Touched(k, files')[k]]
    BY <1>1 DEF revert_to_turn
  <1>3. IsFiniteSet(broken) /\ Cardinality(broken) \in Nat /\ (Cardinality(broken) = 0 => broken = {})
    BY WorkspaceAssumption, FS_Subset, FS_CardinalityType, FS_EmptySet
  <1>4. failures' \in Nat /\ (failures' = failures => broken = {})
    <2>1. failures \in Nat /\ failures' = failures + Cardinality(broken)
      BY <1>1 DEF TypeOK
    <2> HIDE DEF new, there
    <2> QED
      BY <1>3, <2>1
  <1>5. entries[k] \subseteq [file : Files, turn : Nat, text : Nat \cup {Absent}]
    BY DEF TypeOK
  <1>6. \A f \in there : First(k, f, turn) \in Since(k, f, turn)
    <2>1. TAKE f \in there
    <2>2. PICK e \in Since(k, f, turn) : TRUE
      BY <2>1
    <2>3. \A d \in Since(k, f, turn) : d.turn = 0
      BY DEF Since, Entries
    <2>4. \A d \in Since(k, f, turn) : e.turn <= d.turn
      BY <2>2, <2>3
    <2> QED
      BY <2>2, <2>4 DEF First
  <1>7. \A f \in there : First(k, f, turn) \in Entries(k, f) /\ write_text(First(k, f, turn).text) \in Contents
    BY <1>5, <1>6, TextTypes DEF Since, Entries
  <1>8. new \in [Files -> Contents]
    BY <1>7 DEF TypeOK
  <1>9. /\ entries' \in [Cids -> SUBSET [file : Files, turn : Nat, text : Nat \cup {Absent}]]
        /\ entries'[k] = {e \in entries[k] : e.turn < turn}
        /\ \A j \in Cids \ {k} : entries'[j] = entries[j]
    BY <1>2 DEF TypeOK
  <1>10. Touched(k, files') \in [Cids -> SUBSET Files] /\ Touched(k, files')[k] = foreign[k]
         /\ \A j \in Cids \ {k} : Touched(k, files')[j] = foreign[j] \cup {f \in Files : files'[f] # files[f]}
    BY DEF Touched, TypeOK
  <1>11. /\ foreign' \in [Cids -> SUBSET Files]
         /\ foreign'[k] = IF entries'[k] = {} THEN {} ELSE foreign[k]
         /\ \A j \in Cids \ {k} : foreign'[j] = foreign[j] \cup {f \in Files : files'[f] # files[f]}
    BY <1>2, <1>10
  <1>12. base' \in [Cids -> [Files -> Contents]] /\ \A j \in Cids \ {k} : base'[j] = base[j]
    BY <1>2, <1>8 DEF TypeOK
  <1>13. CASE turn = 0
    <2>1. entries'[k] = {} /\ foreign'[k] = {}
      BY <1>5, <1>9, <1>11, <1>13
    <2>2. base'[k] = files'
      BY <1>2, <2>1 DEF TypeOK
    <2>3. \A f \in Files : Since(k, f, turn) = Entries(k, f)
      BY <1>13 DEF Since, Entries
    <2>4. ASSUME failures' = failures, NEW f \in Files
          PROVE  \/ Entries(k, f) = {} /\ files'[f] = files[f]
                 \/ \E e \in Entries(k, f) : files'[f] = write_text(e.text)
      BY <1>2, <1>4, <1>7, <2>3, <2>4
    <2> HIDE DEF new, there
    <2> QED
      BY <1>2, <1>4, <1>8, <1>9, <1>11, <1>12, <2>1, <2>2, <2>4
  <1>14. CASE turn = 1
    <2>1. entries'[k] = entries[k] /\ entries[k] # {}
      BY <1>9, <1>14 DEF Revert
    <2>2. entries' = entries
      BY <1>2, <1>9, <2>1 DEF TypeOK
    <2>3. \A f \in Files : Since(k, f, turn) = {}
      BY <1>14 DEF Since, Entries
    <2>4. files' = files
      BY <1>2, <2>3 DEF TypeOK
    <2>5. base' = base /\ foreign'[k] = foreign[k]
      BY <1>2, <1>11, <2>1
    <2> HIDE DEF new, there
    <2> QED
      BY <1>2, <1>4, <1>8, <1>9, <1>11, <1>12, <2>2, <2>4, <2>5
  <1> QED
    BY <1>13, <1>14

LEMMA OutsideEffect ==
  ASSUME TypeOK, NEW f \in Files, Outside(f)
  PROVE  /\ files' \in [Files -> Contents] /\ written' \in Nat /\ outside' \in Nat
         /\ foreign' \in [Cids -> SUBSET Files]
         /\ \A j \in Cids : foreign[j] \subseteq foreign'[j] /\ \A g \in Files \ foreign'[j] : files'[g] = files[g]
  <1>1. /\ written \in Nat /\ written + 1 \in Nat /\ [text : {written + 1}, nl : Newlines] \subseteq Contents
        /\ Absent \in Contents /\ Binary \in Contents
    BY DEF TypeOK, Contents, Text
  <1>2. PICK v \in {Absent, Binary} \cup [text : {written + 1}, nl : Newlines] : Change(None, [files EXCEPT ![f] = v])
    BY DEF Outside
  <1>3. v \in Contents
    BY <1>1, <1>2
  <1> DEFINE new == [files EXCEPT ![f] = v]
  <1>4. new \in [Files -> Contents] /\ Change(None, new)
    BY <1>2, <1>3 DEF TypeOK
  <1> HIDE DEF new
  <1>5. files' = new /\ foreign' \in [Cids -> SUBSET Files]
    BY <1>4, ChangeEffect
  <1>6. \A j \in Cids : j # None
    BY WorkspaceAssumption
  <1>7. \A j \in Cids : foreign[j] \subseteq foreign'[j] /\ \A g \in Files \ foreign'[j] : files'[g] = files[g]
    BY <1>4, <1>6, ChangeEffect
  <1>8. outside' = outside + 1 /\ outside \in Nat /\ written' = written + 1
    BY DEF Outside, TypeOK
  <1>9. outside' \in Nat /\ written' \in Nat
    BY <1>1, <1>8
  <1> QED
    BY <1>4, <1>5, <1>7, <1>9

----------------------------------------------------------------------------
(* Types *)

(* The steps of a question and of a call that changes no file.             *)
Asks(c) == \/ CallTool(c) \/ QuestionSent(c) \/ PermissionResponse(c) \/ Answered(c) \/ TimedOut(c)
           \/ HookStops(c) \/ PathRefused(c) \/ OtherTool(c)
Edits(c) == handle_edit(c) \/ handle_write(c)

LEMMA NextSplit ==
  Next => \/ \E c \in Calls : Asks(c) \/ Edits(c)
          \/ \E k \in Cids : Cancel(k) \/ Revert(k)
          \/ \E f \in Files : Outside(f)
          \/ \E n \in Conns : SetMode(n) \/ clear_checkpoints(n)
  BY DEF Next, Asks, Edits

LEMMA AsksFrame ==
  ASSUME NEW c \in Calls, Asks(c)
  PROVE  UNCHANGED <<disk, entries, mode, bounds>>
  BY DEF Asks, CallTool, QuestionSent, PermissionResponse, Answered, TimedOut, HookStops, PathRefused, OtherTool

CallsOK == /\ calls \in [Calls -> Call \cup {None}] /\ pending \subseteq {c \in Calls : calls[c] # None}
           /\ answer \in [Calls -> BOOLEAN \cup {None}] /\ FilesNamed
DiskOK == /\ files \in [Files -> Contents] /\ written \in Nat
          /\ entries \in [Cids -> SUBSET [file : Files, turn : Nat, text : Nat \cup {Absent}]]
          /\ mode \in [Conns -> Modes]
          /\ base \in [Cids -> [Files -> Contents]] /\ foreign \in [Cids -> SUBSET Files]
          /\ {failures, outside, switches} \subseteq Nat

LEMMA TypeParts == CallsOK' /\ DiskOK' => TypeInv'
  BY DEF TypeInv, TypeOK, CallsOK, DiskOK

LEMMA GotoCallsOK ==
  ASSUME TypeInv, NEW c \in Calls, NEW pc0, At(c, pc0), NEW pc \in {"send", "wait", "run", "done"}, Goto(c, pc),
         pending' \subseteq pending, answer' = answer
  PROVE  CallsOK'
  <1>1. TypeOK /\ FilesNamed
    BY DEF TypeInv
  <1>2. /\ calls' \in [Calls -> Call \cup {None}]
        /\ calls[c] \in Call
        /\ calls'[c] = [calls[c] EXCEPT !.pc = pc]
        /\ \A d \in Calls \ {c} : calls'[d] = calls[d]
    BY <1>1, GotoEffect
  <1>3. calls[c] # None /\ calls'[c] \in Call /\ calls'[c] # None
    BY <1>2, WorkspaceAssumption DEF Call
  <1>4. calls'[c].tool = calls[c].tool /\ calls'[c].file = calls[c].file
    BY <1>2 DEF Call
  <1>5. FilesNamed'
    BY <1>1, <1>2, <1>3, <1>4 DEF FilesNamed
  <1>6. pending' \subseteq {d \in Calls : calls'[d] # None}
    BY <1>1, <1>2, <1>3 DEF TypeOK
  <1> QED
    BY <1>1, <1>2, <1>5, <1>6 DEF CallsOK, TypeOK

LEMMA AsksType ==
  ASSUME TypeInv, NEW c \in Calls, Asks(c)
  PROVE  TypeInv'
  <1>1. DiskOK'
    BY AsksFrame DEF TypeInv, TypeOK, DiskOK, disk, bounds
  <1>2. CASE CallTool(c)
    <2>1. /\ calls' \in [Calls -> Call \cup {None}]
          /\ calls'[c] \in Call /\ (calls'[c].tool \in FILE_EDIT_TOOLS => calls'[c].file \in Files)
          /\ \A d \in Calls \ {c} : calls'[d] = calls[d]
          /\ pending' \subseteq pending \cup {c} /\ answer' = answer
      BY <1>2, CallToolEffect DEF TypeInv, CallTool
    <2>2. calls'[c] # None
      BY <2>1, WorkspaceAssumption
    <2>3. pending' \subseteq {d \in Calls : calls'[d] # None}
      BY <2>1, <2>2 DEF TypeInv, TypeOK
    <2>4. FilesNamed'
      BY <2>1 DEF TypeInv, FilesNamed
    <2> QED
      BY <1>1, <2>1, <2>3, <2>4, TypeParts DEF CallsOK, TypeInv, TypeOK
  <1>3. CASE PermissionResponse(c)
    <2>1. calls' = calls /\ pending' \subseteq pending
      BY <1>3 DEF PermissionResponse
    <2>2. answer' \in [Calls -> BOOLEAN \cup {None}]
      BY <1>3 DEF PermissionResponse, TypeInv, TypeOK
    <2>3. CallsOK'
      BY <2>1, <2>2 DEF TypeInv, TypeOK, CallsOK, FilesNamed
    <2> QED
      BY <1>1, <2>3, TypeParts
  <1>4. CASE QuestionSent(c)
    BY <1>1, <1>4, GotoCallsOK, TypeParts DEF QuestionSent
  <1>5. CASE Answered(c)
    <2>1. PICK pc \in {"run", "done"} : Goto(c, pc)
      BY <1>5 DEF Answered
    <2> QED
      BY <1>1, <1>5, <2>1, GotoCallsOK, TypeParts DEF Answered
  <1>6. CASE TimedOut(c)
    BY <1>1, <1>6, GotoCallsOK, TypeParts DEF TimedOut
  <1>7. CASE HookStops(c) \/ PathRefused(c) \/ OtherTool(c)
    <2>1. At(c, "run") /\ Goto(c, "done") /\ pending' = pending /\ answer' = answer
      BY <1>7 DEF HookStops, PathRefused, OtherTool
    <2> QED
      BY <1>1, <2>1, GotoCallsOK, TypeParts
  <1> QED
    BY <1>2, <1>3, <1>4, <1>5, <1>6, <1>7 DEF Asks

LEMMA EditsType ==
  ASSUME TypeInv, NEW c \in Calls, Edits(c)
  PROVE  TypeInv'
  <1>1. At(c, "run") /\ Goto(c, "done") /\ pending' = pending /\ answer' = answer
        /\ UNCHANGED <<mode, base, bounds>>
    BY DEF Edits, handle_edit, handle_write
  <1>2. CallsOK'
    BY <1>1, GotoCallsOK
  <1>3. PICK k \in Cids, f \in Files :
          /\ files' \in [Files -> Contents] /\ written' \in Nat /\ foreign' \in [Cids -> SUBSET Files]
          /\ entries' = entries \/ entries' = snapshot_file(k, f)
    BY EditEffect DEF Edits
  <1>4. entries' \in [Cids -> SUBSET [file : Files, turn : Nat, text : Nat \cup {Absent}]]
    <2>1. CASE entries' = entries
      BY <2>1 DEF TypeInv, TypeOK
    <2>2. CASE entries' = snapshot_file(k, f)
      BY <2>2, SnapshotEffect DEF TypeInv
    <2> QED
      BY <1>3, <2>1, <2>2
  <1>5. DiskOK'
    BY <1>1, <1>3, <1>4 DEF DiskOK, TypeInv, TypeOK, bounds
  <1> QED
    BY <1>2, <1>5, TypeParts

(* An entry is of turn 0, the only one there is; a file that only the      *)
(* conversation's agents changed still is, or has for its entry, what it   *)
(* was when the conversation had no entries.                               *)
Original(k, f) ==
  IF Entries(k, f) = {} THEN files[f] = base[k][f]
                        ELSE \A e \in Entries(k, f) : e.text = read_text(base[k][f])
Snapshots == \A k \in Cids :
  /\ \A e \in entries[k] : e.turn = 0
  /\ \A f \in Files \ foreign[k] : base[k][f] # Binary => Original(k, f)

LEMMA RestType ==
  ASSUME TypeInv, Snapshots,
         \/ \E k \in Cids : Cancel(k) \/ Revert(k)
         \/ \E f \in Files : Outside(f)
         \/ \E n \in Conns : SetMode(n) \/ clear_checkpoints(n)
  PROVE  TypeInv'
  <1>0. TypeOK /\ FilesNamed
    BY DEF TypeInv
  <1>1. ASSUME NEW k \in Cids, Cancel(k) PROVE TypeInv'
    <2>1. UNCHANGED <<disk, entries, mode, answer, bounds>>
      BY <1>1 DEF Cancel
    <2>2. DiskOK'
      BY <1>0, <2>1 DEF DiskOK, TypeOK, disk, bounds
    <2>3. /\ calls' \in [Calls -> Call \cup {None}]
          /\ \A c \in Calls : calls'[c] = calls[c] \/ (calls'[c] = [calls[c] EXCEPT !.pc = "done"] /\ calls[c] \in Call /\ calls'[c] \in Call)
          /\ pending' \subseteq pending
      BY <1>0, <1>1, CancelEffect
    <2>4. \A c \in Calls : calls[c] # None => calls'[c] # None
      BY <2>3, WorkspaceAssumption
    <2>5. \A c \in Calls : calls'[c] = calls[c] \/ (calls'[c].tool = calls[c].tool /\ calls'[c].file = calls[c].file /\ calls[c] # None)
      BY <2>3, WorkspaceAssumption DEF Call
    <2>6. FilesNamed'
      BY <1>0, <2>5 DEF FilesNamed
    <2>7. pending' \subseteq {c \in Calls : calls'[c] # None}
      BY <1>0, <2>3, <2>4 DEF TypeOK
    <2>8. CallsOK'
      BY <1>0, <2>1, <2>3, <2>6, <2>7 DEF CallsOK, TypeOK
    <2> QED
      BY <2>2, <2>8, TypeParts
  <1>2. ASSUME NEW k \in Cids, Revert(k) PROVE TypeInv'
    <2>1. /\ files' \in [Files -> Contents] /\ failures' \in Nat
          /\ entries' \in [Cids -> SUBSET [file : Files, turn : Nat, text : Nat \cup {Absent}]]
          /\ base' \in [Cids -> [Files -> Contents]] /\ foreign' \in [Cids -> SUBSET Files]
      BY <1>0, <1>2, RevertEffect DEF Snapshots
    <2>2. UNCHANGED <<written, mode, calls, pending, answer, outside, switches>>
      BY <1>2 DEF Revert
    <2>3. DiskOK'
      BY <1>0, <2>1, <2>2 DEF DiskOK, TypeOK
    <2>4. CallsOK'
      BY <1>0, <2>2 DEF CallsOK, TypeOK, FilesNamed
    <2> QED
      BY <2>3, <2>4, TypeParts
  <1>3. ASSUME NEW f \in Files, Outside(f) PROVE TypeInv'
    <2>1. /\ files' \in [Files -> Contents] /\ written' \in Nat /\ outside' \in Nat
          /\ foreign' \in [Cids -> SUBSET Files]
      BY <1>0, <1>3, OutsideEffect
    <2>2. UNCHANGED <<entries, mode, calls, pending, answer, base, failures, switches>>
      BY <1>3 DEF Outside
    <2>3. DiskOK'
      BY <1>0, <2>1, <2>2 DEF DiskOK, TypeOK
    <2>4. CallsOK'
      BY <1>0, <2>2 DEF CallsOK, TypeOK, FilesNamed
    <2> QED
      BY <2>3, <2>4, TypeParts
  <1>4. ASSUME NEW n \in Conns, SetMode(n) \/ clear_checkpoints(n) PROVE TypeInv'
    <2>1. UNCHANGED <<files, written, calls, pending, answer, failures, outside>> /\ switches' = switches + 1
      BY <1>4 DEF SetMode, clear_checkpoints, disk
    <2>2. switches' \in Nat
      BY <1>0, <2>1 DEF TypeOK
    <2>3. \E m \in Modes : mode' = [mode EXCEPT ![n] = m]
      BY <1>4 DEF SetMode, clear_checkpoints, Modes
    <2>4. mode' \in [Conns -> Modes]
      BY <1>0, <2>3 DEF TypeOK
    <2>5. /\ entries' \in [Cids -> SUBSET [file : Files, turn : Nat, text : Nat \cup {Absent}]]
          /\ base' \in [Cids -> [Files -> Contents]] /\ foreign' \in [Cids -> SUBSET Files]
      <3>1. CASE SetMode(n)
        BY <1>0, <3>1 DEF TypeOK, SetMode, disk
      <3>2. CASE clear_checkpoints(n)
        BY <1>0, <3>2 DEF TypeOK, clear_checkpoints
      <3> QED
        BY <1>4, <3>1, <3>2
    <2>6. DiskOK'
      BY <1>0, <2>1, <2>2, <2>4, <2>5 DEF DiskOK, TypeOK
    <2>7. CallsOK'
      BY <1>0, <2>1 DEF CallsOK, TypeOK, FilesNamed
    <2> QED
      BY <2>6, <2>7, TypeParts
  <1> QED
    BY <1>1, <1>2, <1>3, <1>4

LEMMA StepType ==
  ASSUME TypeInv, Snapshots, [Next]_vars
  PROVE  TypeInv'
  <1>1. CASE UNCHANGED vars
    BY <1>1 DEF vars, disk, bounds, TypeInv, TypeOK, FilesNamed
  <1>2. CASE Next
    BY <1>2, NextSplit, AsksType, EditsType, RestType
  <1> QED
    BY <1>1, <1>2

----------------------------------------------------------------------------
(* What the snapshots hold *)

LEMMA EditsSnapshots ==
  ASSUME TypeInv, Snapshots, NEW c \in Calls, Edits(c)
  PROVE  Snapshots'
  <1>0. TypeOK /\ base' = base
    BY DEF TypeInv, Edits, handle_edit, handle_write
  <1>1. PICK k \in Cids, f \in Files :
           /\ files' \in [Files -> Contents] /\ foreign' \in [Cids -> SUBSET Files]
           /\ foreign'[k] = foreign[k]
           /\ \A j \in Cids : foreign[j] \subseteq foreign'[j]
           /\ \A j \in Cids : j # k => \A g \in Files \ foreign'[j] : files'[g] = files[g]
           /\ \A g \in Files \ {f} : files'[g] = files[g]
           /\ \/ entries' = entries /\ files' = files
              \/ entries' = snapshot_file(k, f)
    BY EditEffect DEF Edits
  <1>2. CASE entries' = entries /\ files' = files
    <2>1. \A j \in Cids, g \in Files : Original(j, g) <=> Original(j, g)'
      BY <1>0, <1>2 DEF Original, Entries
    <2> QED
      BY <1>0, <1>1, <1>2, <2>1 DEF Snapshots
  <1>3. CASE entries' = snapshot_file(k, f)
    <2>1. \A j \in Cids \ {k} : entries'[j] = entries[j]
      BY <1>0, <1>3, SnapshotEffect
    <2>2. \/ entries'[k] = entries[k] /\ (Entries(k, f) # {} \/ files[f] = Binary)
          \/ /\ Entries(k, f) = {} \/ \A e \in Entries(k, f) : e.turn # 0
             /\ files[f] # Binary
             /\ entries'[k] = entries[k] \cup {[file |-> f, turn |-> 0, text |-> read_text(files[f])]}
      BY <1>0, <1>3, SnapshotEffect
    <2>3. \A e \in Entries(k, f) : e.turn = 0
      BY DEF Entries, Snapshots
    <2>4. \A e \in entries'[k] : e.turn = 0
      BY <2>2 DEF Snapshots
    <2>5. ASSUME NEW g \in Files \ foreign'[k], base'[k][g] # Binary
          PROVE  Original(k, g)'
      <3>1. Original(k, g) /\ base'[k] = base[k]
        BY <1>0, <1>1, <2>5 DEF Snapshots
      <3>2. CASE g # f
        <4>1. Entries(k, g)' = Entries(k, g)
          BY <2>2, <3>2 DEF Entries
        <4>2. files'[g] = files[g]
          BY <1>1, <3>2
        <4> QED
          BY <3>1, <4>1, <4>2 DEF Original
      <3>3. CASE g = f /\ Entries(k, f) # {}
        <4>1. entries'[k] = entries[k]
          BY <2>2, <2>3, <3>3
        <4> QED
          BY <3>1, <3>3, <4>1 DEF Original, Entries
      <3>4. CASE g = f /\ Entries(k, f) = {}
        <4>1. files[f] = base[k][f] /\ files[f] # Binary
          BY <2>5, <3>1, <3>4 DEF Original
        <4>2. entries'[k] = entries[k] \cup {[file |-> f, turn |-> 0, text |-> read_text(files[f])]}
          BY <2>2, <3>4, <4>1
        <4>3. Entries(k, f)' = {[file |-> f, turn |-> 0, text |-> read_text(files[f])]}
          BY <3>4, <4>2 DEF Entries
        <4>4. Entries(k, f)' # {} /\ \A e \in Entries(k, f)' : e.text = read_text(base'[k][f])
          BY <3>1, <4>1, <4>3
        <4> QED
          BY <3>4, <4>4 DEF Original
      <3> QED
        BY <3>2, <3>3, <3>4
    <2>6. ASSUME NEW j \in Cids \ {k}, NEW g \in Files \ foreign'[j], base'[j][g] # Binary
          PROVE  Original(j, g)'
      <3>1. Original(j, g) /\ base'[j] = base[j]
        BY <1>0, <1>1, <2>6 DEF Snapshots
      <3>2. Entries(j, g)' = Entries(j, g) /\ files'[g] = files[g]
        BY <1>1, <2>1 DEF Entries
      <3> QED
        BY <3>1, <3>2 DEF Original
    <2> QED
      BY <2>1, <2>4, <2>5, <2>6 DEF Snapshots
  <1> QED
    BY <1>1, <1>2, <1>3

LEMMA OtherSnapshots ==
  ASSUME TypeInv, Snapshots, NEW K \in SUBSET Cids,
         \A k \in Cids \ K : /\ entries'[k] = entries[k] /\ base'[k] = base[k]
                             /\ foreign[k] \subseteq foreign'[k]
                             /\ \A f \in Files \ foreign'[k] : files'[f] = files[f],
         \A k \in K : entries'[k] = {} /\ base'[k] = files'
  PROVE  Snapshots'
  <1>1. ASSUME NEW k \in K, NEW f \in Files
        PROVE  Original(k, f)'
    BY DEF Original, Entries
  <1>2. ASSUME NEW k \in Cids \ K, NEW f \in Files \ foreign'[k], base'[k][f] # Binary
        PROVE  Original(k, f)'
    <2>1. Original(k, f)
      BY <1>2 DEF Snapshots
    <2>2. Entries(k, f)' = Entries(k, f) /\ files'[f] = files[f] /\ base'[k] = base[k]
      BY DEF Entries
    <2> QED
      BY <2>1, <2>2 DEF Original
  <1>3. \A k \in Cids : \A e \in entries'[k] : e.turn = 0
    BY DEF Snapshots
  <1> QED
    BY <1>1, <1>2, <1>3 DEF Snapshots

LEMMA KeptSnapshots ==
  ASSUME TypeInv, Snapshots,
         \A k \in Cids : /\ entries'[k] = entries[k] /\ base'[k] = base[k]
                         /\ foreign[k] \subseteq foreign'[k]
                         /\ \A f \in Files \ foreign'[k] : files'[f] = files[f]
  PROVE  Snapshots'
  <1> DEFINE K == {}
  <1>1. K \in SUBSET Cids /\ \A k \in K : entries'[k] = {} /\ base'[k] = files'
    OBVIOUS
  <1>2. \A k \in Cids \ K : /\ entries'[k] = entries[k] /\ base'[k] = base[k]
                            /\ foreign[k] \subseteq foreign'[k]
                            /\ \A f \in Files \ foreign'[k] : files'[f] = files[f]
    OBVIOUS
  <1> HIDE DEF K
  <1> QED
    BY <1>1, <1>2, OtherSnapshots

LEMMA StepSnapshots ==
  ASSUME TypeInv, Snapshots, [Next]_vars
  PROVE  Snapshots'
  <1>0. TypeOK
    BY DEF TypeInv
  <1>1. CASE UNCHANGED <<files, entries, base, foreign>>
    BY <1>1, KeptSnapshots
  <1>2. ASSUME NEW c \in Calls, Edits(c) PROVE Snapshots'
    BY <1>2, EditsSnapshots
  <1>3. ASSUME NEW k \in Cids, Revert(k) PROVE Snapshots'
    <2>1. \A j \in Cids \ {k} : /\ entries'[j] = entries[j] /\ base'[j] = base[j]
                                /\ foreign[j] \subseteq foreign'[j]
                                /\ \A f \in Files \ foreign'[j] : files'[f] = files[f]
      BY <1>0, <1>3, RevertEffect DEF Snapshots
    <2>2. \/ entries'[k] = {} /\ base'[k] = files'
          \/ entries' = entries /\ base' = base /\ foreign'[k] = foreign[k] /\ files' = files
      BY <1>0, <1>3, RevertEffect DEF Snapshots
    <2>3. CASE entries'[k] = {} /\ base'[k] = files'
      <3> DEFINE K == {k}
      <3>1. K \in SUBSET Cids /\ \A j \in K : entries'[j] = {} /\ base'[j] = files'
        BY <2>3
      <3>2. \A j \in Cids \ K : /\ entries'[j] = entries[j] /\ base'[j] = base[j]
                                /\ foreign[j] \subseteq foreign'[j]
                                /\ \A f \in Files \ foreign'[j] : files'[f] = files[f]
        BY <2>1
      <3> HIDE DEF K
      <3> QED
        BY <3>1, <3>2, OtherSnapshots
    <2>4. CASE entries' = entries /\ base' = base /\ foreign'[k] = foreign[k] /\ files' = files
      <3>1. \A j \in Cids : /\ entries'[j] = entries[j] /\ base'[j] = base[j]
                            /\ foreign[j] \subseteq foreign'[j]
                            /\ \A f \in Files \ foreign'[j] : files'[f] = files[f]
        BY <2>1, <2>4
      <3> QED
        BY <3>1, KeptSnapshots
    <2> QED
      BY <2>2, <2>3, <2>4
  <1>4. ASSUME NEW f \in Files, Outside(f) PROVE Snapshots'
    <2>1. entries' = entries /\ base' = base
      BY <1>4 DEF Outside
    <2>2. \A j \in Cids : foreign[j] \subseteq foreign'[j] /\ \A g \in Files \ foreign'[j] : files'[g] = files[g]
      BY <1>0, <1>4, OutsideEffect
    <2> QED
      BY <2>1, <2>2, KeptSnapshots
  <1>5. ASSUME NEW n \in Conns, clear_checkpoints(n) PROVE Snapshots'
    <2> DEFINE K == {k \in Cids : ConnOf[k] = n}
    <2>1. /\ entries' = [k \in Cids |-> IF k \in K THEN {} ELSE entries[k]]
          /\ base' = [k \in Cids |-> IF k \in K THEN files ELSE base[k]]
          /\ foreign' = [k \in Cids |-> IF k \in K THEN {} ELSE foreign[k]]
          /\ files' = files
      BY <1>5 DEF clear_checkpoints
    <2>2. K \in SUBSET Cids
      OBVIOUS
    <2> HIDE DEF K
    <2> QED
      BY <2>1, <2>2, OtherSnapshots
  <1>6. ASSUME NEW c \in Calls, Asks(c) PROVE UNCHANGED <<files, entries, base, foreign>>
    BY <1>6, AsksFrame DEF disk
  <1>7. ASSUME NEW k \in Cids, Cancel(k) PROVE UNCHANGED <<files, entries, base, foreign>>
    BY <1>7 DEF Cancel, disk
  <1>8. ASSUME NEW n \in Conns, SetMode(n) PROVE UNCHANGED <<files, entries, base, foreign>>
    BY <1>8 DEF SetMode, disk
  <1>9. CASE UNCHANGED vars
    BY <1>1, <1>9 DEF vars, disk
  <1> QED
    BY <1>1, <1>2, <1>3, <1>4, <1>5, <1>6, <1>7, <1>8, <1>9, NextSplit

LEMMA SnapshotsCorrect == Spec => [](TypeInv /\ Snapshots)
  <1>1. Init => TypeInv /\ Snapshots
    <2> SUFFICES ASSUME Init PROVE TypeInv /\ Snapshots
      OBVIOUS
    <2>1. files \in [Files -> Contents]
      <3>1. {Absent, Binary} \cup [text : {0}, nl : Newlines] \subseteq Contents
        BY DEF Contents, Text
      <3> QED
        BY <3>1 DEF Init
    <2>2. DiskOK
      BY <2>1 DEF Init, DiskOK, Modes
    <2>3. CallsOK
      BY DEF Init, CallsOK, FilesNamed
    <2>4. Snapshots
      BY DEF Init, Snapshots, Original, Entries
    <2> QED
      BY <2>2, <2>3, <2>4 DEF TypeInv, TypeOK, DiskOK, CallsOK
  <1>2. TypeInv /\ Snapshots /\ [Next]_vars => (TypeInv /\ Snapshots)'
    BY StepType, StepSnapshots
  <1> QED
    BY <1>1, <1>2, PTL DEF Spec

(* Files, snapshots, modes, calls and questions keep their types.          *)
(* (core/permission_modes.py, core/checkpoints.py)                         *)
THEOREM TypeCorrect == Spec => []TypeOK
  <1>1. TypeInv => TypeOK
    BY DEF TypeInv
  <1> QED
    BY <1>1, SnapshotsCorrect, PTL

----------------------------------------------------------------------------
(* The theorems *)

RestoredBy(k) ==
  entries[k] # {} /\ entries'[k] = {} /\ switches' = switches /\ failures' = failures =>
    \A f \in Files \ foreign[k] : LET before == base[k][f] IN
      \/ files'[f] = before \/ before = Binary
      \/ files'[f] = write_text(read_text(before)) /\ \E e \in entries[k] : e.file = f

LEMMA StepRestores ==
  ASSUME TypeInv, Snapshots, Next, NEW k \in Cids
  PROVE  RestoredBy(k)
  <1>0. TypeOK
    BY DEF TypeInv
  <1>1. CASE entries' = entries
    BY <1>1 DEF RestoredBy
  <1>2. ASSUME NEW c \in Calls, Edits(c) PROVE RestoredBy(k)
    <2>1. PICK j \in Cids, f \in Files : entries' = entries \/ entries' = snapshot_file(j, f)
      BY <1>2, EditEffect DEF Edits
    <2>2. CASE entries' = snapshot_file(j, f)
      <3>1. entries[k] \subseteq entries'[k]
        BY <1>0, <2>2, SnapshotEffect
      <3> QED
        BY <3>1 DEF RestoredBy
    <2> QED
      BY <1>1, <2>1, <2>2
  <1>3. ASSUME NEW j \in Cids, j # k, Revert(j) PROVE RestoredBy(k)
    <2>1. entries'[k] = entries[k]
      BY <1>0, <1>3, RevertEffect DEF Snapshots
    <2> QED
      BY <2>1 DEF RestoredBy
  <1>4. CASE Revert(k)
    <2>1. \/ /\ entries'[k] = {}
             /\ failures' = failures =>
                  \A f \in Files : \/ Entries(k, f) = {} /\ files'[f] = files[f]
                                   \/ \E e \in Entries(k, f) : files'[f] = write_text(e.text)
          \/ entries' = entries
      BY <1>0, <1>4, RevertEffect DEF Snapshots
    <2>2. SUFFICES ASSUME failures' = failures, entries' # entries,
                          NEW f \in Files \ foreign[k], base[k][f] # Binary
                   PROVE  \/ files'[f] = base[k][f]
                          \/ files'[f] = write_text(read_text(base[k][f])) /\ \E e \in entries[k] : e.file = f
      BY <1>1 DEF RestoredBy
    <2>3. Original(k, f)
      BY <2>2 DEF Snapshots
    <2>4. \/ Entries(k, f) = {} /\ files'[f] = files[f]
          \/ \E e \in Entries(k, f) : files'[f] = write_text(e.text)
      BY <2>1, <2>2
    <2> QED
      BY <2>3, <2>4 DEF Original, Entries
  <1>5. ASSUME NEW n \in Conns, clear_checkpoints(n) PROVE RestoredBy(k)
    <2>1. switches' = switches + 1 /\ switches \in Nat
      BY <1>0, <1>5 DEF clear_checkpoints, TypeOK
    <2>2. switches' # switches
      BY <2>1
    <2> QED
      BY <2>2 DEF RestoredBy
  <1>6. ASSUME NEW c \in Calls, Asks(c) PROVE entries' = entries
    BY <1>6, AsksFrame
  <1>7. ASSUME NEW j \in Cids, Cancel(j) PROVE entries' = entries
    BY <1>7 DEF Cancel
  <1>8. ASSUME NEW n \in Conns, SetMode(n) PROVE entries' = entries
    BY <1>8 DEF SetMode
  <1>9. ASSUME NEW f \in Files, Outside(f) PROVE entries' = entries
    BY <1>9 DEF Outside
  <1> QED
    BY <1>1, <1>2, <1>3, <1>4, <1>5, <1>6, <1>7, <1>8, <1>9, NextSplit

(* A revert gives back the text of each text file as it was at the last    *)
(* revert or clear, with its line ends or those of the platform, unless    *)
(* others changed it or writing it failed.                                 *)
(* (core/checkpoints.py:114)                                               *)
THEOREM RevertCorrect == Spec => RevertRestores
  <1>1. TypeInv /\ Snapshots /\ [Next]_vars =>
          [\A k \in Cids : entries[k] # {} /\ entries'[k] = {} /\ switches' = switches /\ failures' = failures =>
             \A f \in Files \ foreign[k] : LET before == base[k][f] IN
               \/ files'[f] = before \/ before = Binary
               \/ files'[f] = write_text(read_text(before)) /\ \E e \in entries[k] : e.file = f]_vars
    BY StepRestores DEF RestoredBy
  <1> QED
    BY <1>1, SnapshotsCorrect, PTL DEF Spec, RevertRestores

(* A yes in a future is an answer to the question of that very call.       *)
AnswersAllowed == \A c \in Calls : answer[c] = TRUE => c \in allowed
PermissionInv == AnswersAllowed /\ OnlyAllowedRuns

LEMMA GotoAllowed ==
  ASSUME TypeOK, OnlyAllowedRuns, NEW c \in Calls, NEW pc0, At(c, pc0), NEW pc \in {"send", "wait", "run", "done"}, Goto(c, pc),
         pc = "run" => c \in allowed, allowed' = allowed
  PROVE  OnlyAllowedRuns'
  <1>1. /\ calls[c] \in Call
        /\ calls'[c] = [calls[c] EXCEPT !.pc = pc]
        /\ \A d \in Calls \ {c} : calls'[d] = calls[d]
    BY GotoEffect
  <1>2. At(c, "run")' => pc = "run"
    BY <1>1 DEF At, Call
  <1>3. \A d \in Calls \ {c} : At(d, "run")' /\ calls'[d].by = "user" => d \in allowed'
    BY <1>1 DEF At, OnlyAllowedRuns
  <1> QED
    BY <1>2, <1>3 DEF OnlyAllowedRuns

LEMMA StepPermission ==
  ASSUME TypeInv, PermissionInv, [Next]_vars
  PROVE  PermissionInv'
  <1>0. TypeOK /\ OnlyAllowedRuns /\ AnswersAllowed
    BY DEF TypeInv, PermissionInv
  <1>1. ASSUME answer' = answer, allowed' = allowed PROVE AnswersAllowed'
    BY <1>0, <1>1 DEF AnswersAllowed
  <1>2. ASSUME calls' = calls, answer' = answer, allowed' = allowed PROVE PermissionInv'
    BY <1>0, <1>1, <1>2 DEF PermissionInv, OnlyAllowedRuns, At
  <1>3. ASSUME NEW c \in Calls, CallTool(c) PROVE PermissionInv'
    <2>1. /\ calls'[c] \in Call /\ (calls'[c].pc = "run" => calls'[c].by = "mode")
          /\ \A d \in Calls \ {c} : calls'[d] = calls[d]
          /\ answer' = answer /\ allowed' = allowed
      BY <1>0, <1>3, CallToolEffect DEF CallTool
    <2>2. OnlyAllowedRuns'
      BY <1>0, <2>1 DEF OnlyAllowedRuns, At
    <2> QED
      BY <1>1, <2>1, <2>2 DEF PermissionInv
  <1>4. ASSUME NEW c \in Calls, PermissionResponse(c) PROVE PermissionInv'
    <2>1. PICK yes \in BOOLEAN :
            /\ answer' = [d \in Calls |-> IF d \in FuturesOf(c) /\ answer[d] = None THEN yes ELSE answer[d]]
            /\ allowed' = IF yes /\ answer[c] = None THEN allowed \cup {c} ELSE allowed
      BY <1>4 DEF PermissionResponse
    <2>2. ASSUME NEW d \in Calls, answer'[d] = TRUE PROVE d \in allowed'
      <3>1. CASE d = c /\ answer[c] = None
        BY <2>1, <2>2, <3>1 DEF FuturesOf
      <3>2. CASE ~(d = c /\ answer[c] = None)
        <4>1. answer[d] = TRUE
          BY <2>1, <2>2, <3>2 DEF FuturesOf
        <4> QED
          BY <1>0, <2>1, <4>1 DEF AnswersAllowed
      <3> QED
        BY <3>1, <3>2
    <2>3. calls' = calls /\ allowed \subseteq allowed'
      BY <1>4, <2>1 DEF PermissionResponse
    <2>4. OnlyAllowedRuns'
      BY <1>0, <2>3 DEF OnlyAllowedRuns, At
    <2> QED
      BY <2>2, <2>4 DEF PermissionInv, AnswersAllowed
  <1>5. ASSUME NEW c \in Calls, Answered(c) PROVE PermissionInv'
    <2> DEFINE pc == IF answer[c] THEN "run" ELSE "done"
    <2>1. At(c, "wait") /\ Goto(c, pc) /\ answer' = answer /\ allowed' = allowed
      BY <1>5 DEF Answered
    <2>2. answer[c] \in BOOLEAN
      BY <1>0, <1>5 DEF Answered, TypeOK
    <2>3. pc \in {"send", "wait", "run", "done"} /\ (pc = "run" => c \in allowed)
      BY <1>0, <2>2 DEF AnswersAllowed
    <2> HIDE DEF pc
    <2>4. OnlyAllowedRuns'
      BY <1>0, <2>1, <2>3, GotoAllowed
    <2> QED
      BY <1>1, <2>1, <2>4 DEF PermissionInv
  <1>6. ASSUME NEW c \in Calls, QuestionSent(c) PROVE PermissionInv'
    <2>1. At(c, "send") /\ Goto(c, "wait") /\ answer' = answer /\ allowed' = allowed
      BY <1>6 DEF QuestionSent
    <2>2. OnlyAllowedRuns'
      BY <1>0, <2>1, GotoAllowed
    <2> QED
      BY <1>1, <2>1, <2>2 DEF PermissionInv
  <1>7. ASSUME NEW c \in Calls, TimedOut(c) \/ HookStops(c) \/ PathRefused(c) \/ OtherTool(c) \/ Edits(c)
        PROVE  PermissionInv'
    <2>1. (At(c, "wait") \/ At(c, "run")) /\ Goto(c, "done") /\ answer' = answer /\ allowed' = allowed
      BY <1>7 DEF TimedOut, HookStops, PathRefused, OtherTool, Edits, handle_edit, handle_write
    <2>2. OnlyAllowedRuns'
      BY <1>0, <2>1, GotoAllowed
    <2> QED
      BY <1>1, <2>1, <2>2 DEF PermissionInv
  <1>8. ASSUME NEW k \in Cids, Cancel(k) PROVE PermissionInv'
    <2>1. \A c \in Calls : calls'[c] = calls[c] \/ (calls'[c] = [calls[c] EXCEPT !.pc = "done"] /\ calls[c] \in Call /\ calls'[c] \in Call)
      BY <1>0, <1>8, CancelEffect
    <2>2. answer' = answer /\ allowed' = allowed
      BY <1>8 DEF Cancel
    <2>3. \A c \in Calls : At(c, "run")' => calls'[c] = calls[c]
      BY <2>1 DEF At, Call
    <2>4. OnlyAllowedRuns'
      BY <1>0, <2>2, <2>3 DEF OnlyAllowedRuns, At
    <2> QED
      BY <1>1, <2>2, <2>4 DEF PermissionInv
  <1>9. CASE UNCHANGED <<calls, answer, allowed>>
    BY <1>2, <1>9
  <1>10. ASSUME NEW k \in Cids, Revert(k) PROVE UNCHANGED <<calls, answer, allowed>>
    BY <1>10 DEF Revert
  <1>11. ASSUME NEW f \in Files, Outside(f) PROVE UNCHANGED <<calls, answer, allowed>>
    BY <1>11 DEF Outside
  <1>12. ASSUME NEW n \in Conns, SetMode(n) \/ clear_checkpoints(n) PROVE UNCHANGED <<calls, answer, allowed>>
    BY <1>12 DEF SetMode, clear_checkpoints
  <1>13. CASE UNCHANGED vars
    BY <1>9, <1>13 DEF vars
  <1> QED
    BY <1>3, <1>4, <1>5, <1>6, <1>7, <1>8, <1>9, <1>10, <1>11, <1>12, <1>13, NextSplit DEF Asks

(* A call the mode did not allow runs only when the user said yes to that  *)
(* very call, whatever is answered, cancelled or timed out meanwhile.      *)
(* (handlers/agent_handler.py:620, handlers/ws_router.py:274)              *)
THEOREM PermissionCorrect == Spec => []OnlyAllowedRuns
  <1>1. Init => PermissionInv
    BY WorkspaceAssumption DEF Init, PermissionInv, AnswersAllowed, OnlyAllowedRuns, At
  <1>2. TypeInv /\ PermissionInv /\ [Next]_vars => PermissionInv'
    BY StepPermission
  <1>3. PermissionInv => OnlyAllowedRuns
    BY DEF PermissionInv
  <1> QED
    BY <1>1, <1>2, <1>3, SnapshotsCorrect, PTL DEF Spec
=============================================================================
