----------------------------- MODULE SubAgents -----------------------------
(***************************************************************************)
(* Agents that run beside a turn: the Agent and SendMessage tools          *)
(* (tools/subagent.py), the hot path every agent definition goes through   *)
(* and its AgentRun rows (core/agent_runner.py), and the REST calls that   *)
(* start a run or delete the definition under it (routes/agents.py,        *)
(* core/agent_crud.py).                                                    *)
(*                                                                         *)
(* A call is one invocation of a tool or of the run API.  Calls of one     *)
(* loop iteration run concurrently (asyncio.gather), a definition's run    *)
(* gets every tool and can make calls of its own, and a background         *)
(* dispatch outlives the turn that made it.  A conversation of a           *)
(* sub-agent is the set of prompts it holds.  There is one definition and  *)
(* one built-in agent type; the TTL of a settled sub-agent is a choice.    *)
(***************************************************************************)
EXTENDS Integers, FiniteSets

CONSTANTS Ids,          \* agent ids
          Cids,         \* conversations
          Calls,        \* slots for calls in flight (a bound)
          MaxPrompts,   \* bound on dispatches and messages
          MaxSessions,  \* bound on connections, one after another
          MaxEvents,    \* bound on failed database calls, cancellations, crashes,
                        \* reconnects and edits of the definition
          Nobody,       \* no conversation, no caller
          NoAgent, Idle

VARIABLES
    state,      \* SubAgentState objects by id
    active,     \* ids in _active_agents
    ahead,      \* [call -> the calls before it at state.lock, which is fair]
    calls,      \* calls in flight
    rows,       \* number of agent_runs rows that are "running"
    definition, \* the definition: "enabled", "disabled" or "deleted"
    session,    \* the session of the connection, whose callback is registered
    prompts,    \* prompts used so far
    events,     \* such events so far
    answered,   \* history: <<agent, prompt>> whose caller got an answer
    announced,  \* history: background agents whose end was notified
    cancelled,  \* history: agents whose dispatch was cancelled
    unhooked,   \* history: those cancelled in the SubagentStart hook
    excused     \* history: how many of these were cut off or not recorded

subagents == <<state, active, ahead>>
history == <<answered, announced, cancelled, unhooked, excused>>
vars == <<subagents, calls, rows, definition, session, prompts, events, history>>

Prompts == 1..MaxPrompts
Statuses == {"running", "completed", "failed"}

SubAgentState ==
    [kind : {"definition", "builtin"}, cid : Cids \cup {Nobody},
     session : 1..MaxSessions, background : BOOLEAN,
     status : Statuses, done : BOOLEAN, messages : SUBSET Prompts]

Call ==
    [op : {"Agent", "SendMessage", "run"}, from : Cids \cup Calls \cup {Nobody},
     root : Cids \cup {Nobody},     \* the turn that awaits it
     cid : Cids \cup {Nobody},      \* _current_cid of its context
     kind : {"definition", "builtin"}, background : BOOLEAN,
     agent : Ids \cup {NoAgent}, prompt : Prompts, prior : SUBSET Prompts,
     row : {"none", "running", "deleted"}, outcome : {"none", "completed", "failed"},
     stage : {"resolve", "hook", "wait", "resume", "lock", "lookup", "insert",
              "loop", "record"}]

ASSUME ConstantsAssumption ==
    /\ MaxPrompts \in Nat /\ MaxEvents \in Nat /\ MaxSessions \in Nat \ {0}
    /\ IsFiniteSet(Calls) /\ Cids \cap Calls = {} /\ Nobody \notin Cids \cup Calls
    /\ NoAgent \notin Ids \cup SubAgentState /\ Idle \notin Call

Live(c) == calls[c] # Idle
At(c, s) == Live(c) /\ calls[c].stage = s
Children(c) == {d \in Calls : Live(d) /\ calls[d].from = c}
Exists(a) == state[a] # NoAgent

TypeOK ==
    /\ state \in [Ids -> SubAgentState \cup {NoAgent}]
    /\ active \subseteq {a \in Ids : Exists(a)}
    /\ ahead \in [Calls -> SUBSET Calls]
    /\ calls \in [Calls -> Call \cup {Idle}]
    /\ rows \in Nat /\ excused \in Nat
    /\ definition \in {"enabled", "disabled", "deleted"}
    /\ session \in 1..MaxSessions
    /\ prompts \in 0..MaxPrompts /\ events \in 0..MaxEvents
    /\ answered \subseteq Ids \X Prompts
    /\ announced \cup cancelled \subseteq Ids /\ unhooked \subseteq cancelled

Init ==
    /\ state = [a \in Ids |-> NoAgent] /\ active = {}
    /\ ahead = [c \in Calls |-> {}]
    /\ calls = [c \in Calls |-> Idle]
    /\ definition = "enabled" /\ session = 1
    /\ prompts = 0 /\ events = 0
    /\ answered = {} /\ announced = {} /\ cancelled = {} /\ unhooked = {}
    /\ rows = 0 /\ excused = 0

----------------------------------------------------------------------------
(* How a call begins and ends *)

\* A turn calls tools, and so does the loop of a definition, whose tool list
\* excludes neither Agent nor SendMessage.
MayCall(q) ==
    IF q \in Cids THEN TRUE ELSE At(q, "loop") /\ calls[q].kind = "definition"
CidOf(q) == IF q \in Cids THEN q ELSE IF q = Nobody THEN Nobody ELSE calls[q].cid
RootOf(q) == IF q \in Cids THEN q ELSE IF q = Nobody THEN Nobody ELSE calls[q].root

FreeSlot(c) == calls[c] = Idle /\ \A d \in Calls : d < c => Live(d)

NewCall(op, q, k, s) ==
    [op |-> op, from |-> q, root |-> RootOf(q), cid |-> CidOf(q), kind |-> k,
     background |-> FALSE, agent |-> NoAgent, prompt |-> prompts + 1, prior |-> {},
     row |-> "none", outcome |-> "none", stage |-> s]

Starts(c, call) ==
    /\ FreeSlot(c)
    /\ prompts < MaxPrompts
    /\ prompts' = prompts + 1
    /\ calls' = [calls EXCEPT ![c] = call]

Goes(c, s) == calls' = [calls EXCEPT ![c].stage = s]
Ends(c) == calls' = [calls EXCEPT ![c] = Idle]

\* The message list of a run is what it was given, its prompt, and answers.
Updated(c) == calls[c].prior \cup {calls[c].prompt}

DispatchReturns_M_status_kept(c, out) ==
    LET a == calls[c].agent IN
    /\ calls[c].op = "Agent"
    /\ state' = [state EXCEPT ![a].done = TRUE,
                   ![a].status = IF out = "raised" THEN @ ELSE out,
                   ![a].messages = IF out = "raised" THEN @ ELSE Updated(c)]
    /\ answered' = IF out = "raised" THEN answered
                   ELSE answered \cup {<<a, calls[c].prompt>>}
    /\ announced' = IF calls[c].background /\ state[a].session = session
                    THEN announced \cup {a} ELSE announced
    /\ UNCHANGED ahead

DispatchReturns_M_silent_failure(c, out) ==
    LET a == calls[c].agent IN
    /\ calls[c].op = "Agent"
    /\ state' = [state EXCEPT ![a].done = TRUE,
                   ![a].status = IF out = "raised" THEN "failed" ELSE out,
                   ![a].messages = IF out = "raised" THEN @ ELSE Updated(c)]
    /\ answered' = IF out = "raised" THEN answered
                   ELSE answered \cup {<<a, calls[c].prompt>>}
    /\ announced' = IF calls[c].background /\ state[a].session = session
                       /\ out # "raised"
                    THEN announced \cup {a} ELSE announced
    /\ UNCHANGED ahead

\* _run_foreground after the run, and _bg's notification through the callback
\* of the session that dispatched the agent.
DispatchReturns(c, out) ==
    LET a == calls[c].agent IN
    /\ calls[c].op = "Agent"
    /\ state' = [state EXCEPT ![a].done = TRUE,
                   ![a].status = IF out = "raised" THEN "failed" ELSE out,
                   ![a].messages = IF out = "raised" THEN @ ELSE Updated(c)]
    /\ answered' = IF out = "raised" THEN answered
                   ELSE answered \cup {<<a, calls[c].prompt>>}
    /\ announced' = IF calls[c].background /\ state[a].session = session
                    THEN announced \cup {a} ELSE announced
    /\ UNCHANGED ahead

\* handle_send_message: keep the list and leave the lock.
SendReturns(c, out) ==
    LET a == calls[c].agent IN
    /\ calls[c].op = "SendMessage"
    /\ ahead' = [d \in Calls |-> ahead[d] \ {c}]
    /\ state' = IF out = "raised" THEN state
                ELSE [state EXCEPT ![a].messages = Updated(c)]
    /\ answered' = IF out = "raised" THEN answered
                   ELSE answered \cup {<<a, calls[c].prompt>>}
    /\ UNCHANGED announced

RunReturns(c) == calls[c].op = "run" /\ UNCHANGED <<state, ahead, answered, announced>>

Returns(c, out) ==
    /\ Ends(c)
    /\ DispatchReturns(c, out) \/ SendReturns(c, out) \/ RunReturns(c)
    /\ UNCHANGED <<active, definition, session, prompts, cancelled, unhooked>>

Event ==
    /\ events < MaxEvents
    /\ events' = events + 1

----------------------------------------------------------------------------
(* The Agent tool *)

\* There is an id for every dispatch under way (a bound).
FreeId ==
    Cardinality({a \in Ids : Exists(a)}) + Cardinality({c \in Calls : At(c, "resolve")})
        < Cardinality(Ids)

handle_task(c, q, k, bg) ==
    /\ MayCall(q)
    /\ FreeId
    /\ Starts(c, [NewCall("Agent", q, k, "resolve") EXCEPT !.background = bg])
    /\ UNCHANGED <<subagents, rows, definition, session, events, history>>

\* _resolve_agent_definition found nothing of that name, and no built-in has it.
UnknownType(c) ==
    /\ At(c, "resolve")
    /\ calls[c].kind = "definition" /\ definition # "enabled"
    /\ Ends(c)
    /\ UNCHANGED <<subagents, rows, definition, session, prompts, events, history>>

Settled(a) == Exists(a) /\ state[a].status \in {"completed", "failed"}

\* _cleanup_agents drops settled agents past their time; the new one is
\* registered and its SubagentStart hook fires.
RegisterAgent(c, a, expired) ==
    /\ At(c, "resolve")
    /\ calls[c].kind = "builtin" \/ definition = "enabled"
    /\ ~Exists(a) /\ \A b \in Ids : b < a => Exists(b)
    /\ active' = (active \ expired) \cup {a}
    /\ state' = [state EXCEPT ![a] =
           [kind |-> calls[c].kind, cid |-> calls[c].cid, session |-> session,
            background |-> calls[c].background, status |-> "running",
            done |-> FALSE, messages |-> {}]]
    /\ calls' = [calls EXCEPT ![c].agent = a, ![c].stage = "hook"]
    /\ UNCHANGED <<ahead, rows, definition, session, prompts, events, history>>

\* A background dispatch becomes a task nobody awaits.
HookReturns(c) ==
    LET detached == calls[c].background IN
    /\ At(c, "hook")
    /\ calls' = [calls EXCEPT
           ![c].stage = IF calls[c].kind = "definition" THEN "insert" ELSE "loop",
           ![c].from = IF detached THEN Nobody ELSE @,
           ![c].root = IF detached THEN Nobody ELSE @]
    /\ UNCHANGED <<subagents, rows, definition, session, prompts, events, history>>

----------------------------------------------------------------------------
(* The SendMessage tool *)

\* Only the user and the conversation are compared, and only where both are
\* known; the session is not.
SameConversation(a, x) ==
    state[a].cid = Nobody \/ x = Nobody \/ state[a].cid = x

handle_send_message(c, q, a) ==
    /\ MayCall(q)
    /\ a \in active
    /\ SameConversation(a, CidOf(q))
    /\ Starts(c, [NewCall("SendMessage", q, state[a].kind, IF state[a].done THEN "resume" ELSE "wait")
                  EXCEPT !.agent = a])
    /\ UNCHANGED <<subagents, rows, definition, session, events, history>>

DispatchDone(c) ==
    /\ At(c, "wait")
    /\ state[calls[c].agent].done
    /\ Goes(c, "resume")
    /\ UNCHANGED <<subagents, rows, definition, session, prompts, events, history>>

\* Waiting for done_event times out.
WaitTimesOut(c) ==
    /\ At(c, "wait")
    /\ ~state[calls[c].agent].done
    /\ Ends(c)
    /\ UNCHANGED <<subagents, rows, definition, session, prompts, events, history>>

\* The dispatch failed, or the definition is gone by now.
CannotResume(c) ==
    /\ At(c, "resume")
    /\ \/ state[calls[c].agent].status = "failed"
       \/ calls[c].kind = "definition" /\ definition # "enabled"
    /\ Ends(c)
    /\ UNCHANGED <<subagents, rows, definition, session, prompts, events, history>>

\* The calls that hold or wait for state.lock of a.
Queued(a) == {c \in Calls : /\ Live(c) /\ calls[c].op = "SendMessage" /\ calls[c].agent = a
                            /\ calls[c].stage \in {"lock", "insert", "loop", "record"}}

Resume(c) ==
    /\ At(c, "resume")
    /\ state[calls[c].agent].status # "failed"
    /\ calls[c].kind = "builtin" \/ definition = "enabled"
    /\ ahead' = [ahead EXCEPT ![c] = Queued(calls[c].agent)]
    /\ Goes(c, "lock")
    /\ UNCHANGED <<state, active, rows, definition, session, prompts, events, history>>

\* The list to go on from is read under the lock.
AcquireLock_M_unlocked(c) ==
    /\ At(c, "lock")
    /\ calls' = [calls EXCEPT
           ![c].prior = state[calls[c].agent].messages,
           ![c].stage = IF calls[c].kind = "definition" THEN "insert" ELSE "loop"]
    /\ UNCHANGED <<subagents, rows, definition, session, prompts, events, history>>

AcquireLock(c) ==
    /\ At(c, "lock")
    /\ ahead[c] = {}
    /\ calls' = [calls EXCEPT
           ![c].prior = state[calls[c].agent].messages,
           ![c].stage = IF calls[c].kind = "definition" THEN "insert" ELSE "loop"]
    /\ UNCHANGED <<subagents, rows, definition, session, prompts, events, history>>

----------------------------------------------------------------------------
(* run_agent_once and the run API *)

\* trigger_agent_run commits a row before it enqueues the job.
TriggerRun(c) ==
    /\ definition = "enabled"
    /\ rows' = rows + 1
    /\ Starts(c, [NewCall("run", Nobody, "definition", "lookup") EXCEPT !.row = "running"])
    /\ UNCHANGED <<subagents, definition, session, events, history>>

\* The job reads the definition again; it may have gone, and its rows with it.
JobFindsAgent(c) ==
    /\ At(c, "lookup") /\ definition # "deleted"
    /\ Goes(c, "loop")
    /\ UNCHANGED <<subagents, rows, definition, session, prompts, events, history>>

JobFindsNothing(c) ==
    /\ At(c, "lookup") /\ definition = "deleted"
    /\ Ends(c)
    /\ UNCHANGED <<subagents, rows, definition, session, prompts, events, history>>

\* POST /run/sync awaits the run.
SyncRun(c) ==
    /\ definition = "enabled"
    /\ Starts(c, NewCall("run", Nobody, "definition", "insert"))
    /\ UNCHANGED <<subagents, rows, definition, session, events, history>>

InsertRow(c) ==
    /\ At(c, "insert") /\ definition # "deleted"
    /\ rows' = rows + 1
    /\ calls' = [calls EXCEPT ![c].row = "running", ![c].stage = "loop"]
    /\ UNCHANGED <<subagents, definition, session, prompts, events, history>>

InsertFails_M_retried(c) ==
    /\ At(c, "insert")
    /\ \/ definition = "deleted" /\ UNCHANGED events
       \/ Event
    /\ UNCHANGED <<subagents, calls, rows, definition, session, prompts, history>>

\* The insert raises: the definition is gone, or the database fails.
InsertFails(c) ==
    /\ At(c, "insert")
    /\ \/ definition = "deleted" /\ UNCHANGED events
       \/ Event
    /\ Returns(c, "raised")
    /\ UNCHANGED <<rows, excused>>

LoopEnds_M_uncaught(c, out) ==
    /\ At(c, "loop") /\ Children(c) = {}
    /\ calls[c].kind = "definition"
    /\ calls' = [calls EXCEPT ![c].outcome =
                     IF out = "failed" THEN "raised" ELSE out,
                 ![c].stage = "record"]
    /\ UNCHANGED <<subagents, rows, definition, session, prompts, events, history>>

\* The loop of a definition returns or raises, which is caught.
LoopEnds(c, out) ==
    /\ At(c, "loop") /\ Children(c) = {}
    /\ calls[c].kind = "definition"
    /\ calls' = [calls EXCEPT ![c].outcome = out, ![c].stage = "record"]
    /\ UNCHANGED <<subagents, rows, definition, session, prompts, events, history>>

Open(C) == Cardinality({c \in C : Live(c) /\ calls[c].row = "running"})

\* The row gets the outcome, if it was not deleted meanwhile.
RecordRun(c) ==
    /\ At(c, "record")
    /\ rows' = rows - Open({c})
    /\ Returns(c, calls[c].outcome)
    /\ UNCHANGED <<events, excused>>

\* A failed final transaction is logged; the result is returned all the same.
RecordFails(c) ==
    /\ At(c, "record")
    /\ Event
    /\ excused' = excused + Open({c})
    /\ Returns(c, calls[c].outcome)
    /\ UNCHANGED rows

\* _run_via_builtin answers, exceeds its time ("failed"), or raises.
BuiltinEnds(c, out) ==
    /\ At(c, "loop")
    /\ calls[c].kind = "builtin"
    /\ Returns(c, out)
    /\ UNCHANGED <<rows, events, excused>>

----------------------------------------------------------------------------
(* Around them *)

set_enabled ==
    /\ definition # "deleted"
    /\ definition' = IF definition = "enabled" THEN "disabled" ELSE "enabled"
    /\ Event
    /\ UNCHANGED <<subagents, calls, rows, session, prompts, history>>

\* The rows go with their definition.
delete_agent ==
    /\ definition # "deleted"
    /\ definition' = "deleted"
    /\ rows' = 0 /\ excused' = 0
    /\ calls' = [c \in Calls |-> IF Live(c) /\ calls[c].row = "running"
                                 THEN [calls[c] EXCEPT !.row = "deleted"]
                                 ELSE calls[c]]
    /\ Event
    /\ UNCHANGED <<subagents, session, prompts, answered, announced, cancelled,
                   unhooked>>

\* The browser reconnects: the old session's callback is removed.
Reconnect ==
    /\ session < MaxSessions
    /\ session' = session + 1
    /\ Event
    /\ UNCHANGED <<subagents, calls, rows, definition, prompts, history>>

\* CancelledError goes through every call the turn awaits: finally sets
\* done_event and the lock is left, but no except clause catches it.
CancelTurn(x) ==
    LET hit == {c \in Calls : Live(c) /\ calls[c].root = x}
        cut == {c \in hit : calls[c].op = "Agent" /\ calls[c].agent # NoAgent}
        hooked == {calls[c].agent : c \in {d \in cut : At(d, "hook")}}
        started == {calls[c].agent : c \in cut} \ hooked
    IN
    /\ hit # {}
    /\ Event
    /\ calls' = [c \in Calls |-> IF c \in hit THEN Idle ELSE calls[c]]
    /\ ahead' = [c \in Calls |-> IF c \in hit THEN {} ELSE ahead[c] \ hit]
    /\ state' = [a \in Ids |-> IF a \in started
                               THEN [state[a] EXCEPT !.done = TRUE] ELSE state[a]]
    /\ cancelled' = cancelled \cup hooked \cup started
    /\ unhooked' = unhooked \cup hooked
    /\ excused' = excused + Open(hit)
    /\ UNCHANGED <<active, rows, definition, session, prompts, answered, announced>>

\* The process restarts: the table is all that is left.
Crash ==
    /\ Event
    /\ calls' = [c \in Calls |-> Idle]
    /\ state' = [a \in Ids |-> NoAgent] /\ active' = {}
    /\ ahead' = [c \in Calls |-> {}]
    /\ answered' = {} /\ announced' = {} /\ cancelled' = {} /\ unhooked' = {}
    /\ excused' = excused + Open(Calls)
    /\ UNCHANGED <<rows, definition, session, prompts>>

Progress(c) ==
    \/ UnknownType(c)
    \/ /\ At(c, "resolve")
       /\ \E a \in Ids, expired \in SUBSET {b \in active : Settled(b)} : RegisterAgent(c, a, expired)
    \/ HookReturns(c)
    \/ DispatchDone(c) \/ WaitTimesOut(c) \/ CannotResume(c) \/ Resume(c)
    \/ AcquireLock(c)
    \/ JobFindsAgent(c) \/ JobFindsNothing(c)
    \/ InsertRow(c)
    \/ InsertFails(c)
    \/ \E out \in {"completed", "failed"} : LoopEnds(c, out)
    \/ RecordRun(c) \/ RecordFails(c)
    \/ \E out \in {"completed", "failed", "raised"} : BuiltinEnds(c, out)

Next ==
    \/ \E c \in Calls :
         \/ \E q \in Cids \cup Calls, k \in {"definition", "builtin"}, bg \in BOOLEAN :
                handle_task(c, q, k, bg)
         \/ \E q \in Cids \cup Calls, a \in Ids : handle_send_message(c, q, a)
         \/ TriggerRun(c)
         \/ SyncRun(c)
         \/ Progress(c)
    \/ set_enabled \/ delete_agent \/ Reconnect \/ Crash
    \/ \E x \in Cids : CancelTurn(x)

Spec == Init /\ [][Next]_vars

\* The API answers, hooks have a timeout and the loop has max_turns: what a
\* call can do by itself it does.
FairSpec == Spec /\ \A c \in Calls : WF_vars(Progress(c))

----------------------------------------------------------------------------
(* Properties *)

\* What a sub-agent answered stays in its conversation: concurrent messages
\* to one agent go on from each other's lists (the lock of SubAgentState).
AnswersAreKept ==
    \A e \in answered : e[2] \in state[e[1]].messages

\* A row left "running" belongs to a run in flight, or to one that was
\* cancelled, killed or not recorded: nothing else is left open.
RunsSettle == rows = Open(Calls) + excused

\* When nobody is dispatching an agent any more, those who wait for it are
\* woken and it says how it ended, unless its turn was stopped: then it is
\* "running" for ever and is never cleaned up, and a stop inside the
\* SubagentStart hook does not even wake them.  Its row settles as well.
DispatchSettles ==
    /\ RunsSettle
    /\ \A a \in Ids :
        Exists(a) /\ (\A c \in Calls : Live(c) /\ calls[c].op = "Agent"
                                        => calls[c].agent # a)
        => /\ state[a].done \/ a \in unhooked
           /\ Settled(a) \/ a \in cancelled

\* The dispatching session hears of the end of a background agent, whatever
\* the end, if it is still connected.
BackgroundIsAnnounced ==
    \A a \in Ids :
        Exists(a) /\ state[a].background /\ Settled(a)
                  /\ state[a].session = session
        => a \in announced

\* c cannot go on before d: its loop awaits the call d, or d is before it at a
\* lock.
WaitsFor(c, d) == d \in Children(c) \/ (At(c, "lock") /\ d \in ahead[c])

\* c is in a cycle of such calls or behind one: wherever it waits, one waits on.
Entangled(c) ==
    \E S \in SUBSET Calls : c \in S /\ \A d \in S : \E e \in S : WaitsFor(d, e)

\* Every call returns, or waits behind runs of definitions that wait for each
\* other's locks: nothing else keeps a caller for ever.
CallsReturn ==
    \A c \in Calls : Live(c) ~> (~Live(c) \/ Entangled(c))
=============================================================================
