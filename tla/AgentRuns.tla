----------------------------- MODULE AgentRuns -----------------------------
(***************************************************************************)
(* The turn registry of core/agent_runs.py and the part of the WebSocket   *)
(* router (handlers/ws_router.py) that fills, reads and empties it.        *)
(*                                                                         *)
(* One agent turn is one asyncio task.  The process is single threaded:    *)
(* between two awaits nothing interleaves, so every action below is the    *)
(* code from one suspension point to the next.  The suspension points that *)
(* matter are the recovery load of _handle_user_msg, the awaits of         *)
(* clear and resume, the saves of the disconnect path, every send of the   *)
(* broadcast that ends a turn, and the gap between a task being done and   *)
(* its done-callback running (asyncio queues the callback for the next     *)
(* iteration of the loop).                                                 *)
(*                                                                         *)
(* Left out: permission futures, streamed events that do not end a turn,   *)
(* the text of messages and errors, the per-minute rate limit (it only     *)
(* rejects before the first check below).                                  *)
(***************************************************************************)
EXTENDS Naturals, FiniteSets

CONSTANTS
  Sockets,                \* WebSocket connections; each is used once
  Cids,                   \* conversation ids, chosen by the client
  StoredCids,             \* those that name a stored conversation ("srv_<id>")
  Users,                  \* user accounts
  UserOf,                 \* the account a socket authenticates as
  MaxTurns,               \* bound: how many turns are ever started
  MAX_CONCURRENT_AGENTS,  \* the router's limit (3 in the code)
  NoTurn, NoCid, NoUser   \* absent values

ASSUME ConstantsAssumption ==
  /\ StoredCids \subseteq Cids
  /\ UserOf \in [Sockets -> Users]
  /\ MaxTurns \in Nat
  /\ MAX_CONCURRENT_AGENTS \in Nat \ {0}
  /\ NoTurn \notin Nat
  /\ NoCid \notin Cids
  /\ NoUser \notin Users

VARIABLES
  phase,       \* phase[s]: where the handler coroutine of socket s is suspended
  target,      \* target[s]: the cid its suspended handler works on
  owner,       \* owner[c]: _conv_sessions[c]["user_id"], NoUser when no session
  filled,      \* sessions that have messages or a conversation_id
  agentTasks,  \* _agent_tasks
  subscribers, \* _subscribers
  created,     \* number of turns started; turns are numbered from 1
  status,      \* status[t]: progress of turn t
  cidOf,       \* cidOf[t]: the conversation turn t works on
  startedBy,   \* startedBy[t]: the account whose socket started turn t
  cancelReq,   \* turns with a cancellation requested and not yet delivered
  pendingSend, \* pendingSend[t]: sockets the final broadcast of t has still to reach
  overwritten  \* cids where register_task found an entry in place (history)

vars == <<phase, target, owner, filled, agentTasks, subscribers, created, status,
          cidOf, startedBy, cancelReq, pendingSend, overwritten>>

sessionVars == <<owner, filled>>
turnVars    == <<created, status, cidOf, startedBy, cancelReq, pendingSend>>
registry    == <<agentTasks, overwritten>>

Turns == 1 .. MaxTurns

Phases == {"new", "idle",
           "recovering",               \* _handle_user_msg awaiting load_conversation
           "clearing",                 \* _handle_clear awaiting save_conversation
           "loading", "counting",      \* the two awaits of _handle_resume
           "saving", "detached",       \* the disconnect path
           "closed"}

Statuses == {"none",
             "created",     \* create_task done, first step not run
             "preparing",   \* in handle_user_message, before its try block
            "replying",    \* a wizard handles the message
             "generating",  \* inside the try block
             "completing",  \* broadcasting turn_complete, inside the try block
             "recovering",  \* in an except branch, awaiting the save
             "closing",     \* final broadcast outside the try block
             "done",        \* task finished, done-callback queued
             "gone"}        \* done-callback has run

Finished == {"done", "gone"}
Live(t)  == status[t] \notin Finished \cup {"none"}

\* The session of a disconnected socket is gone from the main loop.
Connected(s) == phase[s] \notin {"new", "closed"}

is_generating(c) == agentTasks[c] # NoTurn /\ status[agentTasks[c]] \notin Finished
generating_cids  == {c \in Cids : is_generating(c)}

\* The router's count of a user's running turns, taken from the sessions.
UserActive(u) == Cardinality({c \in generating_cids : owner[c] = u})
-----------------------------------------------------------------------------
Init ==
  /\ phase = [s \in Sockets |-> "new"]
  /\ target = [s \in Sockets |-> NoCid]
  /\ owner = [c \in Cids |-> NoUser]
  /\ filled = {}
  /\ agentTasks = [c \in Cids |-> NoTurn]
  /\ subscribers = [c \in Cids |-> {}]
  /\ created = 0
  /\ status = [t \in Turns |-> "none"]
  /\ cidOf = [t \in Turns |-> NoCid]
  /\ startedBy = [t \in Turns |-> NoUser]
  /\ cancelReq = {}
  /\ pendingSend = [t \in Turns |-> {}]
  /\ overwritten = {}
-----------------------------------------------------------------------------
(***************************************************************************)
(* Registry operations (core/agent_runs.py).                               *)
(***************************************************************************)
\* (Wrong variants used to test the properties carry a suffix after "_M_".)
register_task_M_setdefault(c, t) ==
  /\ agentTasks' = [agentTasks EXCEPT ![c] = IF @ = NoTurn THEN t ELSE @]
  /\ overwritten' = IF agentTasks[c] = NoTurn THEN overwritten ELSE overwritten \cup {c}

register_task(c, t) ==
  /\ agentTasks' = [agentTasks EXCEPT ![c] = t]
  /\ overwritten' = IF agentTasks[c] = NoTurn THEN overwritten ELSE overwritten \cup {c}

\* The done-callback pops the entry of its cid, whichever task it holds.
pop_task(c) == agentTasks' = [agentTasks EXCEPT ![c] = NoTurn]

subscribe(c, s)    == subscribers' = [subscribers EXCEPT ![c] = @ \cup {s}]
unsubscribe(c, s)  == subscribers' = [subscribers EXCEPT ![c] = @ \ {s}]
unsubscribe_all(s) == subscribers' = [c \in Cids |-> subscribers[c] \ {s}]

cancel_tasks_M_unchecked(C) == cancelReq' = cancelReq \cup {agentTasks[c] : c \in C}

cancel_tasks(C) ==
  cancelReq' = cancelReq \cup {agentTasks[c] : c \in {d \in C : is_generating(d)}}

\* get_or_create_conv_session: the account is copied in at creation.
create_session(c, s) ==
  owner' = IF owner[c] = NoUser THEN [owner EXCEPT ![c] = UserOf[s]] ELSE owner
-----------------------------------------------------------------------------
(***************************************************************************)
(* The router: one coroutine per socket, one event at a time.              *)
(***************************************************************************)
Connect(s) ==
  /\ phase[s] = "new"
  /\ phase' = [phase EXCEPT ![s] = "idle"]
  /\ UNCHANGED <<target, sessionVars, registry, subscribers, turnVars>>

\* The checks of _handle_user_msg, in the order of the code.
Admissible(s, c) ==
  /\ UserActive(UserOf[s]) < MAX_CONCURRENT_AGENTS
  /\ ~is_generating(c)

\* subscribe, create_task, register_task: one step, with no check before it.
StartTurn(s, c) ==
  LET t == created + 1 IN
  /\ created < MaxTurns
  /\ created' = t
  /\ status' = [status EXCEPT ![t] = "created"]
  /\ cidOf' = [cidOf EXCEPT ![t] = c]
  /\ startedBy' = [startedBy EXCEPT ![t] = UserOf[s]]
  /\ subscribe(c, s)
  /\ register_task(c, t)
  /\ UNCHANGED <<cancelReq, pendingSend>>

\* The session has content, or neither the cid nor a hint in the event names a
\* stored conversation: no await between the checks and the registration.
UserMessage(s, c) ==
  /\ phase[s] = "idle"
  /\ c \in filled \/ c \notin StoredCids
  /\ Admissible(s, c)
  /\ create_session(c, s)
  /\ StartTurn(s, c)
  /\ UNCHANGED <<phase, target, filled>>

\* An empty session of a stored conversation (named by the cid, or by the
\* conversation_id of the event): the handler awaits its load.
UserMessageRecovers(s, c) ==
  /\ phase[s] = "idle"
  /\ Admissible(s, c)
  /\ c \notin filled
  /\ create_session(c, s)
  /\ phase' = [phase EXCEPT ![s] = "recovering"]
  /\ target' = [target EXCEPT ![s] = c]
  /\ UNCHANGED <<filled, registry, subscribers, turnVars>>

\* The load returns.  Its messages go into the session fetched before the
\* await; when that session has been destroyed meanwhile they go nowhere.
RecoveryLoaded(s) ==
  /\ phase[s] = "recovering"
  /\ filled' \in {filled, IF owner[target[s]] = NoUser THEN filled
                          ELSE filled \cup {target[s]}}
  /\ StartTurn(s, target[s])
  /\ phase' = [phase EXCEPT ![s] = "idle"]
  /\ target' = [target EXCEPT ![s] = NoCid]
  /\ UNCHANGED owner

SubscribeCid(s, c) ==
  /\ phase[s] = "idle"
  /\ subscribe(c, s)
  /\ UNCHANGED <<phase, target, sessionVars, registry, turnVars>>

UnsubscribeCid(s, c) ==
  /\ phase[s] = "idle"
  /\ unsubscribe(c, s)
  /\ UNCHANGED <<phase, target, sessionVars, registry, turnVars>>

\* cancel_generation for one cid, or (no cid in the event) for every cid
\* that is generating, whoever started it.
CancelTurns(s, C) ==
  /\ phase[s] = "idle"
  /\ cancel_tasks(C)
  /\ UNCHANGED <<phase, target, sessionVars, registry, subscribers, created, status,
                 cidOf, startedBy, pendingSend>>

CancelGeneration(s) == CancelTurns(s, Cids) \/ \E c \in Cids : CancelTurns(s, {c})

\* A handler that awaits: the socket's loop stays in it until it returns.
Await(s, c, where) ==
  /\ phase' = [phase EXCEPT ![s] = where]
  /\ target' = [target EXCEPT ![s] = c]
  /\ UNCHANGED <<sessionVars, registry, subscribers, turnVars>>

Return(s) ==
  /\ phase' = [phase EXCEPT ![s] = "idle"]
  /\ target' = [target EXCEPT ![s] = NoCid]

ClearConversation(s, c) ==
  /\ phase[s] = "idle"
  /\ owner[c] # NoUser
  /\ Await(s, c, "clearing")

\* The save returned: destroy_conv_session, running turn or not.
ClearSaved(s) ==
  /\ phase[s] = "clearing"
  /\ owner' = [owner EXCEPT ![target[s]] = NoUser]
  /\ filled' = filled \ {target[s]}
  /\ Return(s)
  /\ UNCHANGED <<registry, subscribers, turnVars>>

\* Nothing catches a failing save here: the main loop leaves through finally.
ClearFails(s) ==
  /\ phase[s] = "clearing"
  /\ phase' = [phase EXCEPT ![s] = "saving"]
  /\ target' = [target EXCEPT ![s] = NoCid]
  /\ UNCHANGED <<sessionVars, registry, subscribers, turnVars>>

ResumeConversation(s, c) ==
  /\ phase[s] = "idle"
  /\ Await(s, c, "loading")

\* Unknown conversation or a database error: an error event, nothing else.
ResumeFails(s) ==
  /\ phase[s] = "loading"
  /\ Return(s)
  /\ UNCHANGED <<sessionVars, registry, subscribers, turnVars>>

\* The messages replace the session's; the token count is awaited next.
ResumeLoaded(s) ==
  /\ phase[s] = "loading"
  /\ create_session(target[s], s)
  /\ filled' = filled \cup {target[s]}
  /\ phase' = [phase EXCEPT ![s] = "counting"]
  /\ UNCHANGED <<target, registry, subscribers, turnVars>>

ResumeCounted(s) ==
  /\ phase[s] = "counting"
  /\ subscribe(target[s], s)
  /\ Return(s)
  /\ UNCHANGED <<sessionVars, registry, turnVars>>

\* finally: saves first, then the subscriptions, then (past the SessionEnd
\* hooks) the connection.  No turn is cancelled.
Disconnect(s) ==
  /\ phase[s] = "idle"
  /\ phase' = [phase EXCEPT ![s] = "saving"]
  /\ UNCHANGED <<target, sessionVars, registry, subscribers, turnVars>>

Detach_M_keeps_subscriptions(s) ==
  /\ phase[s] = "saving"
  /\ phase' = [phase EXCEPT ![s] = "detached"]
  /\ UNCHANGED <<target, sessionVars, registry, subscribers, turnVars>>

Detach(s) ==
  /\ phase[s] = "saving"
  /\ unsubscribe_all(s)
  /\ phase' = [phase EXCEPT ![s] = "detached"]
  /\ UNCHANGED <<target, sessionVars, registry, turnVars>>

DestroyConnection(s) ==
  /\ phase[s] = "detached"
  /\ phase' = [phase EXCEPT ![s] = "closed"]
  /\ UNCHANGED <<target, sessionVars, registry, subscribers, turnVars>>

Router(s) ==
  \/ Connect(s)
  \/ \E c \in Cids : \/ UserMessage(s, c)
                     \/ UserMessageRecovers(s, c)
                     \/ SubscribeCid(s, c)
                     \/ UnsubscribeCid(s, c)
                     \/ ClearConversation(s, c)
                     \/ ResumeConversation(s, c)
  \/ CancelGeneration(s)
  \/ RecoveryLoaded(s)
  \/ ClearSaved(s)
  \/ ClearFails(s)
  \/ ResumeFails(s)
  \/ ResumeLoaded(s)
  \/ ResumeCounted(s)
  \/ Disconnect(s)
  \/ Detach(s)
  \/ DestroyConnection(s)
-----------------------------------------------------------------------------
(***************************************************************************)
(* The turn: handle_user_message as the event loop runs it.                *)
(***************************************************************************)
\* A step of t's own; a requested cancellation is delivered instead of it.
Runs(t, at) == status[t] = at /\ t \notin cancelReq

Moves(t, to) == status' = [status EXCEPT ![t] = to]

\* The chat path appends the user message to the session, if there is one.
BeginTurn(t) ==
  /\ Runs(t, "created")
  /\ Moves(t, "preparing")
  /\ filled' = IF owner[cidOf[t]] = NoUser THEN filled ELSE filled \cup {cidOf[t]}
  /\ UNCHANGED <<phase, target, owner, registry, subscribers, created, cidOf, startedBy,
                 cancelReq, pendingSend>>

\* A wizard owns the reply: nothing is appended to the conversation.
BeginWizardTurn(t) ==
  /\ Runs(t, "created")
  /\ Moves(t, "replying")
  /\ UNCHANGED <<phase, target, sessionVars, registry, subscribers, created, cidOf,
                 startedBy, cancelReq, pendingSend>>

EnterAgentLoop(t) ==
  /\ Runs(t, "preparing")
  /\ Moves(t, "generating")
  /\ UNCHANGED <<phase, target, sessionVars, registry, subscribers, created, cidOf,
                 startedBy, cancelReq, pendingSend>>

\* broadcast: a snapshot of the subscribers, then one awaited send each.
\* With no subscriber it returns at once, and so does the handler.
BroadcastEnd(t, at) ==
  /\ pendingSend' = [pendingSend EXCEPT ![t] = subscribers[cidOf[t]]]
  /\ Moves(t, IF subscribers[cidOf[t]] = {} THEN "done" ELSE at)
  /\ UNCHANGED <<phase, target, sessionVars, registry, subscribers, created, cidOf,
                 startedBy, cancelReq>>

\* turn_complete after agent.run and the save.
CompleteTurn(t) == Runs(t, "generating") /\ BroadcastEnd(t, "completing")

\* turn_complete (or response_end) of wizards, slash commands and mentions.
ReplyDirectly(t) ==
  /\ Runs(t, "preparing") \/ Runs(t, "replying")
  /\ BroadcastEnd(t, "closing")

\* generation_cancelled or error, once the save of the except branch is done.
AnnounceFailure(t) == Runs(t, "recovering") /\ BroadcastEnd(t, "closing")

SendEnd(t, s) ==
  /\ status[t] \in {"completing", "closing"}
  /\ t \notin cancelReq
  /\ s \in pendingSend[t]
  /\ pendingSend' = [pendingSend EXCEPT ![t] = @ \ {s}]
  /\ UNCHANGED <<phase, target, sessionVars, registry, subscribers, created, status,
                 cidOf, startedBy, cancelReq>>

ReturnFromHandler(t) ==
  /\ status[t] \in {"completing", "closing"}
  /\ t \notin cancelReq
  /\ pendingSend[t] = {}
  /\ Moves(t, "done")
  /\ UNCHANGED <<phase, target, sessionVars, registry, subscribers, created, cidOf,
                 startedBy, cancelReq, pendingSend>>

\* The task ends with an exception nobody handles: no event is sent.
EndSilently(t) ==
  /\ Moves(t, "done")
  /\ pendingSend' = [pendingSend EXCEPT ![t] = {}]

AgentFails_M_unregisters(t) ==
  /\ Runs(t, "generating")
  /\ Moves(t, "recovering")
  /\ pop_task(cidOf[t])
  /\ UNCHANGED <<phase, target, sessionVars, overwritten, subscribers, created, cidOf,
                 startedBy, cancelReq, pendingSend>>

\* An exception in agent.run or the save after it: the except branch.
AgentFails(t) ==
  /\ Runs(t, "generating")
  /\ Moves(t, "recovering")
  /\ UNCHANGED <<phase, target, sessionVars, registry, subscribers, created, cidOf,
                 startedBy, cancelReq, pendingSend>>

\* An exception before the try block, or in the save of an except branch.
HandlerFails(t) ==
  /\ \E at \in {"preparing", "replying", "recovering"} : Runs(t, at)
  /\ EndSilently(t)
  /\ UNCHANGED <<phase, target, sessionVars, registry, subscribers, created, cidOf,
                 startedBy, cancelReq>>

DeliverCancel_M_swallowed(t) ==
  /\ t \in cancelReq
  /\ cancelReq' = cancelReq \ {t}
  /\ UNCHANGED <<phase, target, sessionVars, registry, subscribers, created, status, cidOf,
                 startedBy, pendingSend>>

\* CancelledError is raised at the point where t waits.  Only inside the try
\* block does the handler catch it.
DeliverCancel(t) ==
  /\ t \in cancelReq
  /\ cancelReq' = cancelReq \ {t}
  /\ IF status[t] \in {"generating", "completing"}
     THEN /\ Moves(t, "recovering")
          /\ pendingSend' = [pendingSend EXCEPT ![t] = {}]
     ELSE EndSilently(t)
  /\ UNCHANGED <<phase, target, sessionVars, registry, subscribers, created, cidOf,
                 startedBy>>

DoneCallback(t) ==
  /\ status[t] = "done"
  /\ Moves(t, "gone")
  /\ pop_task(cidOf[t])
  /\ UNCHANGED <<phase, target, sessionVars, overwritten, subscribers, created, cidOf,
                 startedBy, cancelReq, pendingSend>>

Turn(t) ==
  \/ BeginTurn(t)
  \/ BeginWizardTurn(t)
  \/ EnterAgentLoop(t)
  \/ CompleteTurn(t)
  \/ ReplyDirectly(t)
  \/ AnnounceFailure(t)
  \/ \E s \in Sockets : SendEnd(t, s)
  \/ ReturnFromHandler(t)
  \/ AgentFails(t)
  \/ HandlerFails(t)
  \/ DeliverCancel(t)
  \/ DoneCallback(t)
-----------------------------------------------------------------------------
Next == (\E s \in Sockets : Router(s)) \/ (\E t \in Turns : Turn(t))

\* What the event loop guarantees of a turn that has been stopped: a pending
\* CancelledError is raised, the save and the sends of the except branch
\* return (database and socket answer or fail), the callback runs.  Nothing
\* is assumed of a turn that is generating.
Fairness ==
  \A t \in Turns : /\ WF_vars(DeliverCancel(t))
                   /\ WF_vars(AnnounceFailure(t) \/ HandlerFails(t))
                   /\ WF_vars(\E s \in Sockets : SendEnd(t, s))
                   /\ WF_vars(ReturnFromHandler(t))
                   /\ WF_vars(DoneCallback(t))

Spec     == Init /\ [][Next]_vars
FairSpec == Spec /\ Fairness
-----------------------------------------------------------------------------
(***************************************************************************)
(* Properties.                                                             *)
(***************************************************************************)
\* Every variable keeps its shape, and turns are numbered without gaps.
TypeOK ==
  /\ phase \in [Sockets -> Phases]
  /\ target \in [Sockets -> Cids \cup {NoCid}]
  /\ owner \in [Cids -> Users \cup {NoUser}]
  /\ filled \subseteq Cids
  /\ agentTasks \in [Cids -> Turns \cup {NoTurn}]
  /\ subscribers \in [Cids -> SUBSET Sockets]
  /\ created \in 0 .. MaxTurns
  /\ status \in [Turns -> Statuses]
  /\ cidOf \in [Turns -> Cids \cup {NoCid}]
  /\ startedBy \in [Turns -> Users \cup {NoUser}]
  /\ cancelReq \subseteq Turns
  /\ pendingSend \in [Turns -> SUBSET Sockets]
  /\ overwritten \subseteq Cids
  /\ \A t \in Turns : status[t] = "none" <=> t > created

\* An entry of _agent_tasks is the newest turn of its cid and one whose
\* done-callback is still to come.  So a cancel never hits a superseded turn
\* while a newer one is registered, and no entry is left behind that would
\* make is_generating answer for a turn that is over.
RegistryIsNewest ==
  \A c \in Cids : LET t == agentTasks[c] IN
    t # NoTurn => /\ cidOf[t] = c
                  /\ status[t] \notin {"none", "gone"}
                  /\ \A u \in Turns : cidOf[u] = c => u <= t

\* Until a registration of a cid finds an older entry in place, every running
\* turn of that cid is the registered one: there is at most one, it counts
\* as generating, and the Stop button reaches it.  The overwriting
\* registration is therefore the only way the registry can lose a turn.
ExactUntilOverwrite ==
  \A t \in Turns : Live(t) /\ cidOf[t] \notin overwritten => agentTasks[cidOf[t]] = t

\* No broadcast goes to a connection past its cleanup: handlers that
\* subscribe after an await never run once the socket has left its loop.
NoDeadSubscriber ==
  \A c \in Cids : \A s \in subscribers[c] : phase[s] \notin {"new", "detached", "closed"}

\* The Stop button frees the conversation (docs/OPERATIONS.md section 1): a
\* cid whose registered turn has been cancelled stops counting as generating.
StopFreesConversation ==
  \A c \in Cids : is_generating(c) /\ agentTasks[c] \in cancelReq ~> ~is_generating(c)
=============================================================================
