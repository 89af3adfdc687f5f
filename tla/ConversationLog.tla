--------------------------- MODULE ConversationLog --------------------------
(* What saving promises: the history of a saved conversation is written    *)
(* whole and only grows, but for exchanges that were dropped: those that   *)
(* the user asked to take out of a list, by a retry, a summary or a        *)
(* rollback.  A contested conversation, one that two cids hold at once,    *)
(* whose cid was given another conversation while it was busy, or whose    *)
(* list had changed by the time it was installed, is merely written whole: *)
(* the last writer wins.  The server does not prevent contests, so they    *)
(* are the environment's choice here.                                      *)
EXTENDS FiniteSets

CONSTANTS Convs, Messages, NoRow

VARIABLES log, dropped, contested

Init == log = [c \in Convs |-> NoRow] /\ dropped \subseteq Messages /\ contested = {}

Write(c, l) ==
    /\ log[c] = NoRow \/ log[c] \ l \subseteq dropped \/ c \in contested
    /\ log' = [log EXCEPT ![c] = l]

Next ==
    /\ dropped \subseteq dropped' /\ contested \subseteq contested'
    /\ \/ \E c \in Convs, l \in SUBSET Messages : Write(c, l)
       \/ UNCHANGED log

Spec == Init /\ [][Next]_<<log, dropped, contested>>
=============================================================================
