----------------------------- MODULE Workspace -----------------------------
(***************************************************************************)
(* Tool calls of agent turns on the files of a workspace: the permission   *)
(* a call needs and the question to the user (core/permission_modes.py,    *)
(* core/permissions.py, handlers/agent_handler.py, core/agent_runs.py),    *)
(* the hooks before it (core/hooks.py), Edit and Write, and the snapshots  *)
(* from which a user takes the changes back (core/checkpoints.py).         *)
(*                                                                         *)
(* The calls of one answer of the model run at the same time; each is in   *)
(* steps that end where it awaits.  Edit, Write and a revert await         *)
(* nothing.  A text is a number, a new one for every change; a content is  *)
(* a text with its line ends, which reading translates and writing sets.   *)
(***************************************************************************)
EXTENDS Integers, Sequences, FiniteSets

CONSTANTS Calls,       \* tool calls; each is made once
          Cids, Conns, \* conversations and connections
          ConnOf,      \* [cid -> the connection its turns were started from]
          Files,
          Hooks,       \* hooks of PreToolUse
          Linesep,     \* line ends of the platform
          MaxEvents,   \* bound: changes by others than the agents' tools, reverts of a
                       \* file that fail, changes of a mode, ends of a connection
          Absent, Binary, None

Modes == {"default", "auto_edit", "plan", "auto"}
FILE_EDIT_TOOLS == {"Write", "Edit"}
READ_ONLY_TOOLS == {"Read"}
Tools == FILE_EDIT_TOOLS \cup READ_ONLY_TOOLS \cup {"Blocked", "Other"}
Names == Tools \cup {"write", "edit", "read"}

Call == [cid : Cids, tool : Tools, file : Files \cup {None},
         pc : {"send", "wait", "run", "done"}, by : {"mode", "user"}]

Newlines == {"lf", "crlf"}
Text == [text : Nat, nl : Newlines]
Contents == Text \cup {Absent, Binary}

ASSUME WorkspaceAssumption ==
  /\ ConnOf \in [Cids -> Conns]
  /\ Hooks \in Nat /\ MaxEvents \in Nat
  /\ IsFiniteSet(Files)
  /\ Linesep \in Newlines /\ Absent # Binary /\ {Absent, Binary} \cap (Nat \cup Text) = {}
  /\ None \notin BOOLEAN \cup Cids \cup Call

VARIABLES files,    \* [file -> content]
          written,  \* number of texts so far
          entries,  \* _checkpoints: [cid -> entries [file, turn, text], one for a file and turn]
          mode,     \* [connection -> permission mode]
          calls,    \* [call -> None or [cid, tool, file, pc, by]]
          pending,  \* _pending_permissions: calls with an entry there
          answer,   \* the futures: [call -> None, TRUE or FALSE]
          base,     \* history: [cid -> the files at its last revert or clear]
          foreign,  \* history: [cid -> files others changed since then]
          allowed,  \* history: calls whose question the user answered with yes
          failures, outside, switches

vars == <<files, written, entries, mode, calls, pending, answer, base, foreign, allowed, failures, outside, switches>>
disk == <<files, written, base, foreign>>
bounds == <<failures, outside, switches>>
Events == failures + outside + switches

At(c, pc) == IF calls[c] = None THEN FALSE ELSE calls[c].pc = pc
Runs(k) == {c \in Calls : IF calls[c] = None THEN FALSE ELSE calls[c].cid = k /\ calls[c].pc # "done"}
Goto(c, pc) == calls' = [calls EXCEPT ![c].pc = pc]

Init == /\ files \in [Files -> {Absent, Binary} \cup [text : {0}, nl : Newlines]] /\ written = 0
        /\ entries = [k \in Cids |-> {}]
        /\ mode = [n \in Conns |-> "default"]
        /\ calls = [c \in Calls |-> None]
        /\ pending = {} /\ answer = [c \in Calls |-> None]
        /\ base = [k \in Cids |-> files] /\ foreign = [k \in Cids |-> {}]
        /\ allowed = {} /\ failures = 0 /\ outside = 0 /\ switches = 0
----------------------------------------------------------------------------
(* The permission *)

(* A call may use an alias of a tool.                                      *)
resolve_tool_name(name) ==
  IF name = "write" THEN "Write" ELSE IF name = "edit" THEN "Edit" ELSE IF name = "read" THEN "Read" ELSE name

(* Blocked commands are denied in every mode.  The mode looks at the name  *)
(* as it was given: an edit by an alias is no edit to it, and is asked for *)
(* only where the path makes it risky.                                     *)
check_permission(m, name, risky) ==
  IF name = "Blocked" \/ (m = "plan" /\ name \notin READ_ONLY_TOOLS) THEN "deny"
  ELSE IF \/ name \in READ_ONLY_TOOLS \/ m = "auto"
          \/ (m = "auto_edit" /\ name \in FILE_EDIT_TOOLS)
          \/ (~risky /\ name \notin FILE_EDIT_TOOLS) THEN "allow"
  ELSE "ask"

(* The model calls a tool; its rate limit may refuse it at once.  When the *)
(* user must be asked, the question is registered before it is sent.       *)
CallTool(c) ==
  /\ calls[c] = None
  /\ \E k \in Cids, name \in Names, f \in Files, risky \in BOOLEAN :
       \E verdict \in {"deny", check_permission(mode[ConnOf[k]], name, risky)} : LET tool == resolve_tool_name(name) IN
         /\ calls' = [calls EXCEPT ![c] =
              [cid |-> k, tool |-> tool, file |-> IF tool \in FILE_EDIT_TOOLS THEN f ELSE None,
               pc |-> CASE verdict = "allow" -> "run" [] verdict = "deny" -> "done" [] verdict = "ask" -> "send",
               by |-> IF verdict = "ask" THEN "user" ELSE "mode"]]
         /\ pending' = IF verdict = "ask" THEN pending \cup {c} ELSE pending
  /\ UNCHANGED <<disk, entries, mode, answer, allowed, bounds>>

QuestionSent(c) ==
  /\ At(c, "send") /\ Goto(c, "wait")
  /\ UNCHANGED <<disk, entries, mode, pending, answer, allowed, bounds>>

(* A response names a request, and the conversation or not: only with it   *)
(* is the entry removed.  A question that was answered stays answered.     *)
FuturesOf_M_cid(c) == {d \in pending : calls[d].cid = calls[c].cid}
FuturesOf(c) == {c}
PermissionResponse(c) ==
  /\ c \in pending
  /\ \E yes \in BOOLEAN, named \in BOOLEAN :
       /\ pending' = IF named THEN pending \ {c} ELSE pending
       /\ answer' = [d \in Calls |-> IF d \in FuturesOf(c) /\ answer[d] = None THEN yes ELSE answer[d]]
       /\ allowed' = IF yes /\ answer[c] = None THEN allowed \cup {c} ELSE allowed
  /\ UNCHANGED <<disk, entries, mode, calls, bounds>>

Answered(c) ==
  /\ At(c, "wait") /\ answer[c] # None
  /\ pending' = pending \ {c}
  /\ Goto(c, IF answer[c] THEN "run" ELSE "done")
  /\ UNCHANGED <<disk, entries, mode, answer, allowed, bounds>>

TimedOut(c) ==
  /\ At(c, "wait") /\ answer[c] = None
  /\ pending' = pending \ {c} /\ Goto(c, "done")
  /\ UNCHANGED <<disk, entries, mode, answer, allowed, bounds>>

(* The PreToolUse hooks run one after the other, and none after one that   *)
(* fails; one that cannot be started, or takes too long and is killed, has *)
(* failed.  They read nothing of this state: what comes between them and   *)
(* the tool comes before the tool.                                         *)
_run_hook_script == {"ok", "failed"}
fire_hooks == {codes \in UNION {[1..n -> _run_hook_script] : n \in 0..Hooks} :
                 \A i \in 1..(Len(codes) - 1) : codes[i] = "ok"}
HookStops(c) ==
  /\ At(c, "run") /\ Goto(c, "done")
  /\ \E codes \in fire_hooks : \E i \in 1..Len(codes) : codes[i] = "failed"
  /\ UNCHANGED <<disk, entries, mode, pending, answer, allowed, bounds>>

(* Edit and Write refuse a path that is, with links followed, neither in   *)
(* the user's directories nor, for an administrator, in the shared ones.   *)
Places == {"own", "shared", "project", "elsewhere"}
validate_path(place, read_only, is_admin) ==
  \/ place = "own"
  \/ is_admin /\ place = "shared"
  \/ read_only /\ place \in {"project", "shared"}
PathRefused(c) ==
  /\ At(c, "run") /\ calls[c].tool \in FILE_EDIT_TOOLS /\ Goto(c, "done")
  /\ \E place \in Places, is_admin \in BOOLEAN : ~validate_path(place, FALSE, is_admin)
  /\ UNCHANGED <<disk, entries, mode, pending, answer, allowed, bounds>>

(* The turn is cancelled, and its calls where they are; the entry of a     *)
(* question being sent is not removed.                                     *)
Cancel(k) ==
  /\ Runs(k) # {}
  /\ calls' = [c \in Calls |-> IF c \in Runs(k) THEN [calls[c] EXCEPT !.pc = "done"] ELSE calls[c]]
  /\ pending' = pending \ {c \in Runs(k) : calls[c].pc = "wait"}
  /\ UNCHANGED <<disk, entries, mode, answer, allowed, bounds>>
----------------------------------------------------------------------------
(* core/checkpoints.py *)

(* increment_turn has no caller: the turn of every entry is this.          *)
get_turn_M_unset == None
get_turn == 0

Entries(k, f) == {e \in entries[k] : e.file = f}
(* Reading a text loses which line ends it had; writing one gives it the   *)
(* platform's.  What is not there stays so.                                *)
read_text(v) == IF v \in Text THEN v.text ELSE v
write_text(t) == IF t \in Nat THEN [text |-> t, nl |-> Linesep] ELSE t
Snapshot(k, f) == [file |-> f, turn |-> get_turn, text |-> read_text(files[f])]

(* One for a file and turn; a file that cannot be read has none.           *)
snapshot_file_M_replaced(k, f) ==
  IF files[f] = Binary THEN entries
  ELSE [entries EXCEPT ![k] = {e \in @ : e.file # f} \cup {Snapshot(k, f)}]
snapshot_file(k, f) ==
  IF (\E e \in Entries(k, f) : e.turn = get_turn) \/ files[f] = Binary
  THEN entries
  ELSE [entries EXCEPT ![k] = @ \cup {Snapshot(k, f)}]

(* The files now hold something else, by an agent of k or by another (None). *)
Touched(k, new) == [j \in Cids |-> IF j = k THEN foreign[j] ELSE foreign[j] \cup {f \in Files : new[f] # files[f]}]
Change(k, new) == files' = new /\ foreign' = Touched(k, new)

(* The text a model writes may have line ends of its own.  A write that    *)
(* fails leaves the file as it was, or cut short, which is another text.   *)
NewContent(k, f) ==
  /\ written' = written + 1
  /\ \E nl \in Newlines : Change(k, [files EXCEPT ![f] = [text |-> written + 1, nl |-> nl]])
SameContent == UNCHANGED <<files, foreign, written>>

(* The snapshot is taken before the text is looked for, which may fail.    *)
handle_edit(c) ==
  /\ At(c, "run") /\ calls[c].tool = "Edit" /\ Goto(c, "done")
  /\ LET k == calls[c].cid  f == calls[c].file IN
       IF files[f] = Absent THEN SameContent /\ UNCHANGED entries
       ELSE /\ entries' = snapshot_file(k, f)
            /\ IF files[f] = Binary THEN SameContent ELSE NewContent(k, f) \/ SameContent
  /\ UNCHANGED <<mode, pending, answer, base, allowed, bounds>>

handle_write(c) ==
  /\ At(c, "run") /\ calls[c].tool = "Write" /\ Goto(c, "done")
  /\ LET k == calls[c].cid  f == calls[c].file IN
       entries' = snapshot_file(k, f) /\ (NewContent(k, f) \/ SameContent)
  /\ UNCHANGED <<mode, pending, answer, base, allowed, bounds>>

OtherTool(c) ==
  /\ At(c, "run") /\ calls[c].tool \notin FILE_EDIT_TOOLS /\ Goto(c, "done")
  /\ UNCHANGED <<disk, entries, mode, pending, answer, allowed, bounds>>

(* A revert to a turn, or of the last one: each file goes back to its      *)
(* first entry from then on.  One that fails is left out of the answer,    *)
(* and loses its entries with the others.                                  *)
Since(k, f, turn) == {e \in Entries(k, f) : e.turn >= turn}
First(k, f, turn) == CHOOSE e \in Since(k, f, turn) : \A d \in Since(k, f, turn) : e.turn <= d.turn
revert_to_turn(k, turn, broken) ==
  LET there == {f \in Files : Since(k, f, turn) # {}}
  IN /\ broken \subseteq there
     /\ files' = [f \in Files |-> IF f \in there \ broken THEN write_text(First(k, f, turn).text) ELSE files[f]]
     /\ entries' = [entries EXCEPT ![k] = {e \in @ : e.turn < turn}]
     /\ base' = IF entries'[k] = {} THEN [base EXCEPT ![k] = files'] ELSE base
     /\ foreign' = [Touched(k, files') EXCEPT ![k] = IF entries'[k] = {} THEN {} ELSE @]

Revert(k) ==
  /\ entries[k] # {}
  /\ \E turn \in {0, 1}, broken \in SUBSET Files :
       /\ Events + Cardinality(broken) <= MaxEvents
       /\ failures' = failures + Cardinality(broken)
       /\ revert_to_turn(k, turn, broken)
  /\ UNCHANGED <<written, mode, calls, pending, answer, allowed, outside, switches>>
----------------------------------------------------------------------------
(* Shell commands, other programs and people change files, too. *)
Outside(f) ==
  /\ Events < MaxEvents /\ outside' = outside + 1
  /\ written' = written + 1
  /\ \E v \in {Absent, Binary} \cup [text : {written + 1}, nl : Newlines] : Change(None, [files EXCEPT ![f] = v])
  /\ UNCHANGED <<entries, mode, calls, pending, answer, base, allowed, failures, switches>>

SetMode(n) ==
  /\ Events < MaxEvents /\ switches' = switches + 1
  /\ \E m \in Modes \ {mode[n]} : mode' = [mode EXCEPT ![n] = m]
  /\ UNCHANGED <<disk, entries, calls, pending, answer, allowed, failures, outside>>

(* The connection ends, the turns go on: its checkpoints are cleared, and  *)
(* its mode is gone.  Another may come in its place.                       *)
clear_checkpoints(n) ==
  LET mine == {k \in Cids : ConnOf[k] = n} IN
  /\ Events < MaxEvents /\ switches' = switches + 1
  /\ entries' = [k \in Cids |-> IF k \in mine THEN {} ELSE entries[k]]
  /\ base' = [k \in Cids |-> IF k \in mine THEN files ELSE base[k]]
  /\ foreign' = [k \in Cids |-> IF k \in mine THEN {} ELSE foreign[k]]
  /\ mode' = [mode EXCEPT ![n] = "default"]
  /\ UNCHANGED <<files, written, calls, pending, answer, allowed, failures, outside>>

Next == \/ \E c \in Calls :
             \/ CallTool(c) \/ QuestionSent(c) \/ PermissionResponse(c) \/ Answered(c) \/ TimedOut(c)
             \/ HookStops(c) \/ PathRefused(c) \/ handle_edit(c) \/ handle_write(c) \/ OtherTool(c)
        \/ \E k \in Cids : Cancel(k) \/ Revert(k)
        \/ \E f \in Files : Outside(f)
        \/ \E n \in Conns : SetMode(n) \/ clear_checkpoints(n)

Spec == Init /\ [][Next]_vars
----------------------------------------------------------------------------
TypeOK == /\ files \in [Files -> Contents] /\ written \in Nat
          /\ entries \in [Cids -> SUBSET [file : Files, turn : Nat, text : Nat \cup {Absent}]]
          /\ mode \in [Conns -> Modes]
          /\ calls \in [Calls -> Call \cup {None}]
          /\ pending \subseteq {c \in Calls : calls[c] # None}
          /\ answer \in [Calls -> BOOLEAN \cup {None}]
          /\ base \in [Cids -> [Files -> Contents]] /\ foreign \in [Cids -> SUBSET Files]
          /\ {failures, outside, switches} \subseteq Nat

(* A call the mode did not allow runs only when the user said yes to that  *)
(* very call: not to another one, and not after its time had passed.       *)
(* (core/permission_modes.py:44, handlers/agent_handler.py:620,            *)
(* handlers/ws_router.py:274)                                              *)
OnlyAllowedRuns ==
  \A c \in Calls : At(c, "run") /\ calls[c].by = "user" => c \in allowed

(* A revert gives back the text of each text file as it was at the last    *)
(* revert, or when the conversation's checkpoints were last cleared,       *)
(* unless others changed it, or writing it failed: after any edits, failed *)
(* ones among them, of calls and conversations at the same time.  A file   *)
(* an agent touched may come back with the line ends of the platform, all  *)
(* else byte by byte.  (core/checkpoints.py:114, :74, :179)                *)
RevertRestores ==
  [][\A k \in Cids : entries[k] # {} /\ entries'[k] = {} /\ switches' = switches /\ failures' = failures =>
       \A f \in Files \ foreign[k] : LET before == base[k][f] IN
         \/ files'[f] = before \/ before = Binary
         \/ files'[f] = write_text(read_text(before)) /\ \E e \in entries[k] : e.file = f]_vars
=============================================================================
