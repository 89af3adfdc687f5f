--------------------------- MODULE Conversations ---------------------------
(***************************************************************************)
(* Conversations in memory and in the database: save_conversation and its  *)
(* locks, load, fork (core/session.py), the events that put a conversation *)
(* into a cid or take it out and those that write its message list (retry, *)
(* summarize, rollback: handlers/ws_router.py), the end of a turn          *)
(* (handlers/agent_handler.py) and the REST routes over the same rows      *)
(* (routes/conversations.py).                                              *)
(*                                                                         *)
(* A session is an object: a save keeps the one it was called with while   *)
(* the cid may get another.  A message list is the set of the exchanges in *)
(* it, told in full or in a summary (its order and repair are in History); *)
(* Cut is what is left of exchanges that lost their answer.  A step is the *)
(* code between two awaits; a transaction is one commit, and an UPDATE     *)
(* holds its row until then.                                               *)
(***************************************************************************)
EXTENDS Integers, FiniteSets

CONSTANTS Cids,
          Objects,      \* session objects (a bound)
          MaxConvs,     \* bound on conversation ids
          MaxExchanges, \* bound on user messages and imports
          MaxFaults,    \* bound on failed commits
          MaxRewrites,  \* bound on resumes, compressions, summaries and retries
          NoRow, Idle

ASSUME ConstantsAssumption ==
    /\ Objects \subseteq Nat /\ 0 \notin Objects
    /\ MaxConvs \in Nat /\ MaxExchanges \in Nat /\ MaxFaults \in Nat
    /\ MaxRewrites \in Nat
    /\ \A l \in SUBSET (0..MaxExchanges) : l # NoRow

VARIABLES
    sess,       \* _conv_sessions: cid -> object, 0 if none
    objs,       \* the objects: their messages and conversation_id (0: None)
    turns,      \* the turn of a cid
    saves,      \* calls of save_conversation in flight
    locks,      \* _save_locks: who has the lock of a cid
    rows,       \* conversations with their messages, as committed
    fork,       \* fork_conversation between its read and its commit
    snapshots,  \* _compression_snapshots: cid -> list, {} if none
    router,     \* what a handler read and has not installed (one at a time)
    ids,        \* conversation ids handed out so far
    exchanges,  \* exchanges begun so far
    faults,     \* injected faults so far
    rewrites,   \* resumes, compressions, summaries and retries so far
    created,    \* history: <<object, conversation>> of every INSERT
    rolled,     \* history: conversations whose INSERT was rolled back
    told,       \* history: <<exchange, conversation>> in a turn_complete
    dropped,    \* history: exchanges the router took out of a list
    contested   \* history: conversations held twice or mixed (ConversationLog)

memory == <<sess, objs>>
saving == <<saves, locks>>
rewriting == <<snapshots, router, rewrites, dropped>>
counters == <<ids, exchanges, faults>>
history == <<created, rolled, told>>
vars == <<memory, turns, saving, rows, fork, rewriting, counters, history, contested>>

Convs == 1..MaxConvs
Cut == 0
Exchanges == 1..MaxExchanges
Lists == SUBSET ({Cut} \cup Exchanges)
Savers == Cids \X {"turn", "event"}

Session == [messages : Lists, conv : 0..MaxConvs]
Turn == [stage : {"recover", "load", "loop", "save", "resave"}, obj : Objects,
         hint : 0..MaxConvs, exchange : Exchanges, messages : Lists]
Save == [obj : Objects, stage : {"lock", "create", "update", "commit"},
         conv : 0..MaxConvs, messages : Lists]
Fork == [cid : Cids, messages : Lists]
Router == [op : {"resume", "summarize"}, cid : Cids, conv : 0..MaxConvs, messages : Lists]

ASSUME IdleAssumption ==
    /\ Idle \notin Session /\ Idle \notin Turn /\ Idle \notin Save /\ Idle \notin Fork
    /\ Idle \notin Router /\ Idle \notin Savers

TypeOK ==
    /\ sess \in [Cids -> Objects \cup {0}]
    /\ objs \in [Objects -> Session \cup {Idle}]
    /\ turns \in [Cids -> Turn \cup {Idle}]
    /\ saves \in [Savers -> Save \cup {Idle}]
    /\ locks \in [Cids -> Savers \cup {Idle}]
    /\ \A k \in Cids : locks[k] # Idle => saves[locks[k]] # Idle
    /\ rows \in [Convs -> Lists \cup {NoRow}]
    /\ fork \in Fork \cup {Idle}
    /\ snapshots \in [Cids -> Lists] /\ router \in Router \cup {Idle}
    /\ ids \in 0..MaxConvs /\ exchanges \in 0..MaxExchanges
    /\ faults \in 0..MaxFaults /\ rewrites \in 0..MaxRewrites
    /\ dropped \subseteq {Cut} \cup Exchanges
    /\ contested \subseteq Convs

Init ==
    /\ sess = [k \in Cids |-> 0]
    /\ objs = [o \in Objects |-> Idle]
    /\ turns = [k \in Cids |-> Idle]
    /\ saves = [p \in Savers |-> Idle] /\ locks = [k \in Cids |-> Idle]
    /\ rows = [c \in Convs |-> NoRow]
    /\ fork = Idle /\ ids = 0 /\ exchanges = 0 /\ faults = 0
    /\ snapshots = [k \in Cids |-> {}] /\ router = Idle /\ rewrites = 0 /\ dropped = {Cut}
    /\ created = {} /\ rolled = {} /\ told = {} /\ contested = {}

Saving(p) == saves[p] # Idle
Holds(k, c) ==
    \/ sess[k] # 0 /\ objs[sess[k]].conv = c
    \/ \E p \in Savers : p[1] = k /\ Saving(p) /\ objs[saves[p].obj].conv = c

HeldTwice(c) == \E j, k \in Cids : j # k /\ Holds(j, c) /\ Holds(k, c)

\* Two cids hold one conversation, or S are mixed with each other.
Contest(S) == contested' = contested \cup S \cup {c \in Convs : HeldTwice(c)'}

----------------------------------------------------------------------------
(* save_conversation *)

Fresh(o) == objs[o] = Idle /\ \A i \in Objects : i < o => objs[i] # Idle
create_conv_session(k, o, session) ==
    /\ Fresh(o)
    /\ sess' = [sess EXCEPT ![k] = o]
    /\ objs' = [objs EXCEPT ![o] = session]

\* Nothing to save: no session, or an empty one.
Empty(k) == sess[k] = 0 \/ objs[sess[k]].messages = {}

\* The object is the one the cid has now.
Begin(p, o) ==
    [saves EXCEPT ![p] = [obj |-> o, stage |-> "lock", conv |-> 0, messages |-> {}]]

AcquireSaveLock_M_unlocked(p) ==
    /\ Saving(p) /\ saves[p].stage = "lock"
    /\ UNCHANGED locks
    /\ LET c == objs[saves[p].obj].conv IN
       saves' = [saves EXCEPT ![p] =
                    [@ EXCEPT !.conv = c, !.stage = IF c = 0 THEN "create" ELSE "update"]]
    /\ UNCHANGED <<memory, turns, rows, fork, rewriting, counters, history>>
    /\ Contest({})

AcquireSaveLock(p) ==
    /\ Saving(p) /\ saves[p].stage = "lock"
    /\ locks[p[1]] = Idle
    /\ locks' = [locks EXCEPT ![p[1]] = p]
    /\ LET c == objs[saves[p].obj].conv IN
       saves' = [saves EXCEPT ![p] =
                    [@ EXCEPT !.conv = c, !.stage = IF c = 0 THEN "create" ELSE "update"]]
    /\ UNCHANGED <<memory, turns, rows, fork, rewriting, counters, history>>
    /\ Contest({})

\* The flushed INSERT gives an id, which the session keeps from here on, also
\* when it was given another conversation during the await.
FlushNewRow(p) ==
    LET o == saves[p].obj IN
    /\ Saving(p) /\ saves[p].stage = "create"
    /\ ids < MaxConvs
    /\ ids' = ids + 1
    /\ objs' = [objs EXCEPT ![o] = [@ EXCEPT !.conv = ids']]
    /\ created' = created \cup {<<o, ids'>>}
    /\ saves' = [saves EXCEPT ![p] =
                    [@ EXCEPT !.conv = ids', !.stage = "commit", !.messages = objs[o].messages]]
    /\ UNCHANGED <<sess, turns, locks, rows, fork, rewriting, exchanges, faults, rolled, told>>
    /\ Contest(IF objs[o].conv # 0 THEN {ids'} ELSE {})

\* UPDATE and DELETE; the list is read after them.
UpdateRow(p) ==
    /\ Saving(p) /\ saves[p].stage = "update"
    /\ \A q \in Savers \ {p} :
           ~(Saving(q) /\ saves[q].stage = "commit" /\ saves[q].conv = saves[p].conv)
    /\ saves' = [saves EXCEPT ![p] =
                    [@ EXCEPT !.stage = "commit", !.messages = objs[saves[p].obj].messages]]
    /\ UNCHANGED <<memory, turns, locks, rows, fork, rewriting, counters, history>>
    /\ Contest({})

IsNew(p) == <<saves[p].obj, saves[p].conv>> \in created /\ rows[saves[p].conv] = NoRow
                /\ saves[p].conv \notin rolled

Release_M_lock_kept(p) ==
    /\ saves' = [saves EXCEPT ![p] = Idle]
    /\ UNCHANGED locks

Release(p) ==
    /\ saves' = [saves EXCEPT ![p] = Idle]
    /\ locks' = [locks EXCEPT ![p[1]] = Idle]

\* Who called goes on: a clear drops the cid's session and a disconnect leaves
\* it, a turn says it is complete and names the conversation.
Returned(p, c) ==
    LET k == p[1] IN
    IF p[2] = "event"
    THEN /\ sess' \in {sess, [sess EXCEPT ![k] = 0]}
         /\ UNCHANGED <<turns, told>>
    ELSE /\ turns' = [turns EXCEPT ![k] = Idle]
         /\ told' = IF turns[k].stage = "save" /\ c # 0
                    THEN told \cup {<<turns[k].exchange, c>>} ELSE told
         /\ UNCHANGED sess

\* A clear that raised leaves the session.  A turn whose save raised saves once
\* more from its error handler, and ends whatever comes of that.
Raised(p) ==
    LET k == p[1] IN
    IF p[2] = "event"
    THEN UNCHANGED turns
    ELSE turns' = [turns EXCEPT ![k] =
                      IF @.stage = "save" THEN [@ EXCEPT !.stage = "resave"] ELSE Idle]

CommitSave(p) ==
    LET c == saves[p].conv IN
    /\ Saving(p) /\ saves[p].stage = "commit"
    /\ rows[c] # NoRow \/ IsNew(p)
    /\ rows' = [rows EXCEPT ![c] = saves[p].messages]
    /\ Release(p) /\ Returned(p, c)
    /\ UNCHANGED <<objs, fork, rewriting, counters, created, rolled>>
    /\ Contest({})

RollBack_M_swallowed(p) ==
    LET c == saves[p].conv IN
    /\ Saving(p) /\ saves[p].stage = "commit"
    /\ IF rows[c] # NoRow \/ IsNew(p)
       THEN faults < MaxFaults /\ faults' = faults + 1
       ELSE UNCHANGED faults
    /\ rolled' = IF IsNew(p) THEN rolled \cup {c} ELSE rolled
    /\ Release(p) /\ Returned(p, c)
    /\ UNCHANGED <<objs, rows, fork, rewriting, ids, exchanges, created>>
    /\ Contest({})

\* The commit fails, always so when the session names a row that was rolled
\* back.  The session keeps the id.
RollBack(p) ==
    LET c == saves[p].conv IN
    /\ Saving(p) /\ saves[p].stage = "commit"
    /\ IF rows[c] # NoRow \/ IsNew(p)
       THEN faults < MaxFaults /\ faults' = faults + 1
       ELSE UNCHANGED faults
    /\ rolled' = IF IsNew(p) THEN rolled \cup {c} ELSE rolled
    /\ Release(p) /\ Raised(p)
    /\ UNCHANGED <<memory, rows, fork, rewriting, ids, exchanges, created, told>>
    /\ Contest({})

----------------------------------------------------------------------------
(* A turn *)

NewExchange == exchanges < MaxExchanges /\ exchanges' = exchanges + 1

\* The cid of a fork is new: no event names it before the fork is there.
Known(k) == IF fork = Idle THEN TRUE ELSE fork.cid # k

Blank == [messages |-> {}, conv |-> 0]

\* _handle_user_msg: an empty session of a cid that names a conversation
\* (hint) is to be filled from the database, ...
UserMessage(k, hint) ==
    /\ turns[k] = Idle /\ Known(k)
    /\ NewExchange
    /\ \/ sess[k] # 0 /\ UNCHANGED memory
       \/ sess[k] = 0 /\ \E o \in Objects : create_conv_session(k, o, Blank)
    /\ turns' = [turns EXCEPT ![k] =
                    [stage |-> "recover", obj |-> sess'[k],
                     hint |-> IF objs'[sess'[k]] = Blank THEN hint ELSE 0,
                     exchange |-> exchanges', messages |-> {}]]
    /\ UNCHANGED <<saving, rows, fork, rewriting, ids, faults, history>>
    /\ Contest({})

\* ... its messages are read (or the load fails, which is only logged) ...
Recover(k) ==
    LET c == turns[k].hint IN
    /\ turns[k] # Idle /\ turns[k].stage = "recover" /\ c # 0
    /\ turns' \in {[turns EXCEPT ![k] = [@ EXCEPT !.stage = "load", !.messages = rows[c]]],
                  [turns EXCEPT ![k] = [@ EXCEPT !.hint = 0]]}
    /\ UNCHANGED <<memory, saving, rows, fork, rewriting, counters, history>>
    /\ Contest({})

SavesOf(k) == {p \in Savers : p[1] = k /\ Saving(p)}

\* What another conversation's list is mixed with when c is put into cid k.
Mixed(k, c) == {d \in Convs : d = c \/ Holds(k, d)}

BeginTurn_M_only_id_recovered(k) ==
    LET t == turns[k]
        found == t.stage = "load"
        loaded == IF found THEN [objs EXCEPT ![t.obj] = [messages |-> {}, conv |-> t.hint]] ELSE objs
        list == (IF sess[k] = 0 THEN {} ELSE loaded[sess[k]].messages) \cup {t.exchange}
    IN
    /\ t # Idle
    /\ found \/ (t.stage = "recover" /\ t.hint = 0)
    /\ turns' = [turns EXCEPT ![k] = [@ EXCEPT !.stage = "loop", !.messages = list]]
    /\ objs' = IF sess[k] = 0 THEN loaded
               ELSE [loaded EXCEPT ![sess[k]] = [@ EXCEPT !.messages = list]]
    /\ UNCHANGED <<sess, saving, rows, fork, rewriting, counters, history>>
    /\ Contest(IF ~found THEN {}
               ELSE (IF rows[t.hint] = t.messages THEN {} ELSE {t.hint})
                    \cup (IF objs[t.obj] = Blank /\ SavesOf(k) = {} THEN {} ELSE Mixed(k, t.hint)))

\* ... and go into the session of before the awaits; the turn works on the
\* list of the session the cid has now.
BeginTurn(k) ==
    LET t == turns[k]
        found == t.stage = "load"
        loaded == IF found THEN [objs EXCEPT ![t.obj] = [messages |-> t.messages, conv |-> t.hint]] ELSE objs
        list == (IF sess[k] = 0 THEN {} ELSE loaded[sess[k]].messages) \cup {t.exchange}
    IN
    /\ t # Idle
    /\ found \/ (t.stage = "recover" /\ t.hint = 0)
    /\ turns' = [turns EXCEPT ![k] = [@ EXCEPT !.stage = "loop", !.messages = list]]
    /\ objs' = IF sess[k] = 0 THEN loaded
               ELSE [loaded EXCEPT ![sess[k]] = [@ EXCEPT !.messages = list]]
    /\ UNCHANGED <<sess, saving, rows, fork, rewriting, counters, history>>
    /\ Contest(IF ~found THEN {}
               ELSE (IF rows[t.hint] = t.messages THEN {} ELSE {t.hint})
                    \cup (IF objs[t.obj] = Blank /\ SavesOf(k) = {} THEN {} ELSE Mixed(k, t.hint)))

\* conv_session_set and save_conversation, on the session of this moment.
SaveTurn(k, stage) ==
    IF sess[k] = 0
    THEN turns' = [turns EXCEPT ![k] = Idle] /\ UNCHANGED <<objs, saves>>
    ELSE /\ objs' = [objs EXCEPT ![sess[k]] = [@ EXCEPT !.messages = turns[k].messages]]
         /\ turns' = [turns EXCEPT ![k] = [@ EXCEPT !.stage = stage]]
         /\ saves' = Begin(<<k, "turn">>, sess[k])

\* The loop returns, or fails or is stopped: both save.
EndLoop(k, stage) ==
    /\ turns[k] # Idle /\ turns[k].stage = "loop"
    /\ SaveTurn(k, stage)
    /\ UNCHANGED <<sess, locks, rows, fork, rewriting, counters, history>>
    /\ Contest({})

Resave(k) ==
    /\ turns[k] # Idle /\ turns[k].stage = "resave" /\ ~Saving(<<k, "turn">>)
    /\ SaveTurn(k, "resave")
    /\ UNCHANGED <<sess, locks, rows, fork, rewriting, counters, history>>
    /\ Contest({})

----------------------------------------------------------------------------
(* Events and routes *)

InBudget == rewrites < MaxRewrites /\ rewrites' = rewrites + 1
Busy(k) == turns[k] # Idle \/ SavesOf(k) # {}

\* _handle_clear and the end of the connection save; a turn goes on.
Event(k) ==
    /\ sess[k] # 0 /\ ~Saving(<<k, "event">>)
    /\ IF Empty(k)
       THEN sess' = [sess EXCEPT ![k] = 0] /\ UNCHANGED saves
       ELSE saves' = Begin(<<k, "event">>, sess[k]) /\ UNCHANGED sess
    /\ UNCHANGED <<objs, turns, locks, rows, fork, rewriting, counters, history>>
    /\ Contest({})

\* _handle_resume reads the saved list, whether or not it was deleted
\* (is_deleted is read by the REST lists only), ...
Resume(k, c) ==
    /\ router = Idle /\ Known(k) /\ rows[c] # NoRow /\ InBudget
    /\ router' = [op |-> "resume", cid |-> k, conv |-> c, messages |-> rows[c]]
    /\ UNCHANGED <<memory, turns, saving, rows, fork, snapshots, dropped, counters, history>>
    /\ Contest({})

\* ... and puts it into the cid's session, busy or not, changed or not.
Install ==
    LET k == router.cid  c == router.conv
        s == [messages |-> router.messages, conv |-> c]
    IN
    /\ router # Idle /\ router.op = "resume"
    /\ \/ sess[k] # 0 /\ objs' = [objs EXCEPT ![sess[k]] = s] /\ UNCHANGED sess
       \/ sess[k] = 0 /\ \E o \in Objects : create_conv_session(k, o, s)
    /\ router' = Idle
    /\ UNCHANGED <<turns, saving, rows, fork, snapshots, rewrites, dropped, counters, history>>
    /\ Contest((IF Busy(k) THEN Mixed(k, c) ELSE {}) \cup (IF rows[c] = router.messages THEN {} ELSE {c}))

----------------------------------------------------------------------------
(* The router's writes of a message list *)

Running(k) == turns[k] # Idle /\ turns[k].stage \in {"loop", "save", "resave"}

\* The session of k gets list l.  What is not in l is gone, and what a turn
\* that runs does not have is gone when the turn writes its own list.
Rewrite(k, l) ==
    IF sess[k] = 0 THEN UNCHANGED <<objs, dropped>>
    ELSE /\ objs' = [objs EXCEPT ![sess[k]] = [@ EXCEPT !.messages = l]]
         /\ dropped' = dropped \cup (objs[sess[k]].messages \ l)
                         \cup (IF Running(k) THEN l \ turns[k].messages ELSE {})

\* The exchange that has no answer yet is not in the list.
Answered(k, l) ==
    IF turns[k] # Idle /\ turns[k].stage = "loop" /\ turns[k].exchange \in l
    THEN {Cut} \cup (l \ {turns[k].exchange}) ELSE l

\* compress_if_needed keeps a copy of the list for the cid.
compress_if_needed(k) ==
    /\ turns[k] # Idle /\ turns[k].stage = "loop" /\ InBudget
    /\ snapshots' = [snapshots EXCEPT ![k] = Answered(k, turns[k].messages)]
    /\ UNCHANGED <<memory, turns, saving, rows, fork, router, dropped, counters, history>>
    /\ Contest({})

\* The copy goes into whatever session the cid has by then.
rollback_compression(k) ==
    /\ snapshots[k] # {}
    /\ snapshots' = [snapshots EXCEPT ![k] = {}]
    /\ Rewrite(k, snapshots[k])
    /\ UNCHANGED <<sess, turns, saving, rows, fork, router, rewrites, counters, history>>
    /\ Contest({})

\* summarize_context reads the list, awaits the model, and writes a list of
\* what it read: what was added meanwhile is gone.
summarize_context(k) ==
    /\ router = Idle /\ ~Empty(k) /\ InBudget
    /\ router' = [op |-> "summarize", cid |-> k, conv |-> 0,
                  messages |-> Answered(k, objs[sess[k]].messages)]
    /\ UNCHANGED <<memory, turns, saving, rows, fork, snapshots, dropped, counters, history>>
    /\ Contest({})

Summarized ==
    /\ router # Idle /\ router.op = "summarize"
    /\ Rewrite(router.cid, router.messages)
    /\ router' = Idle
    /\ UNCHANGED <<sess, turns, saving, rows, fork, snapshots, rewrites, counters, history>>
    /\ Contest({})

\* retry takes the last answer out of the list, in place (a turn may work on
\* it), before the message is sent again, which may be refused.
Last(l) == CHOOSE x \in l : \A y \in l : y <= x
retry(k) ==
    /\ ~Empty(k) /\ InBudget
    /\ LET l == objs[sess[k]].messages
           cut == {Cut} \cup (l \ {Last(l)})
       IN /\ Rewrite(k, cut)
          /\ turns' = IF Running(k) /\ turns[k].messages = l
                      THEN [turns EXCEPT ![k] = [@ EXCEPT !.messages = cut]] ELSE turns
    /\ UNCHANGED <<sess, saving, rows, fork, snapshots, router, counters, history>>
    /\ Contest({})

----------------------------------------------------------------------------
(* Forks and imports *)

Unused(k) == sess[k] = 0 /\ ~Busy(k) /\ snapshots[k] = {} /\ (router # Idle => router.cid # k)

\* fork_conversation reads what is committed; its lock is of another key.
StartFork(k, c) ==
    /\ fork = Idle /\ Unused(k)
    /\ rows[c] # NoRow
    /\ fork' = [cid |-> k, messages |-> rows[c]]
    /\ UNCHANGED <<memory, turns, saving, rows, rewriting, counters, history>>
    /\ Contest({})

\* The copy is committed and its cid, which is new, gets a session.
CommitFork ==
    /\ fork # Idle
    /\ ids < MaxConvs /\ ids' = ids + 1
    /\ rows' = [rows EXCEPT ![ids'] = fork.messages]
    /\ \E o \in Objects : create_conv_session(fork.cid, o,
           [messages |-> fork.messages, conv |-> ids'])
    /\ fork' = Idle
    /\ UNCHANGED <<turns, saving, rewriting, exchanges, faults, history>>
    /\ Contest({})

import_conversation ==
    /\ ids < MaxConvs /\ ids' = ids + 1
    /\ NewExchange
    /\ rows' = [rows EXCEPT ![ids'] = {exchanges'}]
    /\ UNCHANGED <<memory, turns, saving, fork, rewriting, faults, history>>
    /\ Contest({})

SaveStep(p) ==
    AcquireSaveLock(p) \/ FlushNewRow(p) \/ UpdateRow(p) \/ CommitSave(p) \/ RollBack(p)

Next ==
    \/ \E k \in Cids :
         \/ \E hint \in {0} \cup {c \in Convs : rows[c] # NoRow} : UserMessage(k, hint)
         \/ Recover(k) \/ BeginTurn(k) \/ EndLoop(k, "save") \/ EndLoop(k, "resave") \/ Resave(k)
         \/ Event(k) \/ compress_if_needed(k) \/ rollback_compression(k)
         \/ summarize_context(k) \/ retry(k)
         \/ \E c \in Convs : Resume(k, c) \/ StartFork(k, c)
    \/ \E p \in Savers : SaveStep(p)
    \/ Install \/ Summarized \/ CommitFork \/ import_conversation

Spec == Init /\ [][Next]_vars

----------------------------------------------------------------------------
(* Properties *)

\* An exchange whose turn_complete named a conversation is saved in it,
\* unless the conversation was contested, or a retry, a summary or the
\* rollback of a compression took the exchange out of the list.
ToldIsSaved ==
    \A x \in told : \/ x[2] \in contested \/ x[1] \in dropped
                    \/ rows[x[2]] # NoRow /\ x[1] \in rows[x[2]]

\* A session and its row belong together.  Saving it twice at once, at the end
\* of a turn and in a clear or a disconnect, inserts one conversation only
\* (_save_locks); and it names a conversation that does not exist only while
\* the INSERT is in flight, or for ever after that was rolled back: then no
\* save of this session succeeds any more.
OneRowPerSession ==
    /\ \A x, y \in created : x[1] = y[1] => x = y
    /\ \A k \in Cids : sess[k] # 0 =>
        LET c == objs[sess[k]].conv IN
        \/ c = 0 \/ rows[c] # NoRow \/ c \in rolled
        \/ \E p \in Savers : Saving(p) /\ saves[p].conv = c /\ saves[p].stage = "commit"

\* The saved histories are whole and only grow (ConversationLog).
Log == INSTANCE ConversationLog WITH log <- rows, Messages <- {Cut} \cup Exchanges
ImplementsLog == Log!Spec
=============================================================================
