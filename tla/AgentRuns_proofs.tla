------------------------- MODULE AgentRuns_proofs --------------------------
(***************************************************************************)
(* Theorems about what stands between a message and its turn: the turn     *)
(* registry, for any number of sockets, cids and turns and any concurrency *)
(* limit; and the rate limits (the second part), for any cascades of any   *)
(* limits and windows and any number of requests at a time.                *)
(***************************************************************************)
EXTENDS AgentRuns, RateLimits, FiniteSetTheorems, TLAPS

\* A suspended handler knows its cid, a started turn has one, and only started
\* turns are registered.
TargetsKnown ==
  /\ \A s \in Sockets :
       phase[s] \in {"recovering", "clearing", "loading", "counting"} => target[s] \in Cids
  /\ \A t \in Turns : IF status[t] = "none" THEN cidOf[t] = NoCid ELSE cidOf[t] \in Cids
  /\ \A c \in Cids : agentTasks[c] # NoTurn => status[agentTasks[c]] # "none"

\* A cancellation is only ever requested of a turn that has not finished.
CancelsAreLive == \A t \in cancelReq : Live(t)

\* ExactUntilOverwrite, strengthened to turns that are done but whose
\* callback is still queued: that callback pops the entry of its own turn.
ExactUntilReaped ==
  \A t \in Turns :
    status[t] \notin {"none", "gone"} /\ cidOf[t] \notin overwritten
      => agentTasks[cidOf[t]] = t

TypeInv == TypeOK /\ TargetsKnown /\ CancelsAreLive

IInv == TypeInv /\ RegistryIsNewest /\ ExactUntilReaped
-----------------------------------------------------------------------------
LEMMA InitTypeInv == Init => TypeInv
  BY ConstantsAssumption DEF Init, TypeInv, TypeOK, TargetsKnown, CancelsAreLive, Turns,
     Phases, Statuses

\* The steps of a socket's handler preserve the type invariant.
LEMMA RouterTypeInv ==
  ASSUME TypeInv, NEW s \in Sockets, Router(s)
  PROVE  TypeInv'
<1> USE ConstantsAssumption DEF TypeInv, TypeOK, TargetsKnown, CancelsAreLive, Live, Finished,
        Turns, Phases, Statuses, sessionVars, turnVars, registry
<1>1. CASE Connect(s)
  BY <1>1 DEF Connect
<1>2. ASSUME NEW c \in Cids, UserMessage(s, c) PROVE TypeInv'
  BY <1>2 DEF UserMessage, StartTurn, subscribe, register_task, create_session
<1>3. ASSUME NEW c \in Cids, UserMessageRecovers(s, c) PROVE TypeInv'
  BY <1>3 DEF UserMessageRecovers, create_session
<1>4. ASSUME NEW c \in Cids, SubscribeCid(s, c) PROVE TypeInv'
  BY <1>4 DEF SubscribeCid, subscribe
<1>5. ASSUME NEW c \in Cids, UnsubscribeCid(s, c) PROVE TypeInv'
  BY <1>5 DEF UnsubscribeCid, unsubscribe
<1>6. ASSUME NEW c \in Cids, ClearConversation(s, c) PROVE TypeInv'
  BY <1>6 DEF ClearConversation, Await
<1>7. ASSUME NEW c \in Cids, ResumeConversation(s, c) PROVE TypeInv'
  BY <1>7 DEF ResumeConversation, Await
<1>8. ASSUME NEW C \in SUBSET Cids, CancelTurns(s, C) PROVE TypeInv'
  <2>1. \A c \in Cids : is_generating(c) => agentTasks[c] \in Turns /\ Live(agentTasks[c])
    BY <1>8 DEF is_generating
  <2>2. \A t \in cancelReq' : t \in Turns /\ Live(t)
    BY <1>8, <2>1 DEF CancelTurns, cancel_tasks
  <2> QED
    BY <1>8, <2>2 DEF CancelTurns
<1>9. CASE CancelGeneration(s)
  BY <1>8, <1>9 DEF CancelGeneration
<1>10. CASE RecoveryLoaded(s)
  BY <1>10 DEF RecoveryLoaded, StartTurn, subscribe, register_task
<1>11. CASE ClearSaved(s)
  BY <1>11 DEF ClearSaved, Return
<1>12. CASE ClearFails(s)
  BY <1>12 DEF ClearFails
<1>13. CASE ResumeFails(s)
  BY <1>13 DEF ResumeFails, Return
<1>14. CASE ResumeLoaded(s)
  BY <1>14 DEF ResumeLoaded, create_session
<1>15. CASE ResumeCounted(s)
  BY <1>15 DEF ResumeCounted, Return, subscribe
<1>16. CASE Disconnect(s)
  BY <1>16 DEF Disconnect
<1>17. CASE Detach(s)
  BY <1>17 DEF Detach, unsubscribe_all
<1>18. CASE DestroyConnection(s)
  BY <1>18 DEF DestroyConnection
<1> QED
  BY <1>1, <1>2, <1>3, <1>4, <1>5, <1>6, <1>7, <1>9, <1>10, <1>11, <1>12, <1>13, <1>14,
     <1>15, <1>16, <1>17, <1>18 DEF Router

\* So do the steps of a turn.
LEMMA TurnTypeInv ==
  ASSUME TypeInv, NEW t \in Turns, Turn(t)
  PROVE  TypeInv'
<1> USE ConstantsAssumption DEF TypeInv, TypeOK, TargetsKnown, CancelsAreLive, Live, Finished,
        Turns, Phases, Statuses, sessionVars, registry, Runs, Moves
<1>1. CASE BeginTurn(t)
  BY <1>1 DEF BeginTurn
<1>2. CASE BeginWizardTurn(t)
  BY <1>2 DEF BeginWizardTurn
<1>3. CASE EnterAgentLoop(t)
  BY <1>3 DEF EnterAgentLoop
<1>4. ASSUME NEW at \in {"completing", "closing"}, BroadcastEnd(t, at),
             t \notin cancelReq, status[t] # "none"
      PROVE  TypeInv'
  BY <1>4 DEF BroadcastEnd
<1>5. ASSUME NEW s \in Sockets, SendEnd(t, s) PROVE TypeInv'
  BY <1>5 DEF SendEnd
<1>6. CASE ReturnFromHandler(t)
  BY <1>6 DEF ReturnFromHandler
<1>7. CASE AgentFails(t)
  BY <1>7 DEF AgentFails
<1>8. CASE HandlerFails(t)
  BY <1>8 DEF HandlerFails, EndSilently
<1>9. CASE DeliverCancel(t)
  <2>1. CASE status[t] \in {"generating", "completing"}
    <3>1. /\ status' = [status EXCEPT ![t] = "recovering"]
          /\ cancelReq' = cancelReq \ {t}
          /\ pendingSend' = [pendingSend EXCEPT ![t] = {}]
      BY <1>9, <2>1 DEF DeliverCancel
    <3> QED
      BY <1>9, <2>1, <3>1 DEF DeliverCancel
  <2>2. CASE status[t] \notin {"generating", "completing"}
    <3>1. EndSilently(t) /\ cancelReq' = cancelReq \ {t}
      BY <1>9, <2>2 DEF DeliverCancel
    <3>2. status[t] # "none"
      BY <1>9 DEF DeliverCancel
    <3> QED
      BY <1>9, <3>1, <3>2 DEF DeliverCancel, EndSilently
  <2> QED
    BY <2>1, <2>2
<1>10. CASE DoneCallback(t)
  BY <1>10 DEF DoneCallback, pop_task
<1>11. CASE CompleteTurn(t) \/ ReplyDirectly(t) \/ AnnounceFailure(t)
  BY <1>4, <1>11 DEF CompleteTurn, ReplyDirectly, AnnounceFailure
<1> QED
  BY <1>1, <1>2, <1>3, <1>5, <1>6, <1>7, <1>8, <1>9, <1>10, <1>11 DEF Turn

LEMMA NextTypeInv == TypeInv /\ [Next]_vars => TypeInv'
<1> SUFFICES ASSUME TypeInv, [Next]_vars PROVE TypeInv'
  OBVIOUS
<1>1. CASE Next
  BY <1>1, RouterTypeInv, TurnTypeInv DEF Next
<1>2. CASE UNCHANGED vars
  BY <1>2 DEF vars, TypeInv, TypeOK, TargetsKnown, CancelsAreLive, Live, Turns, Phases,
     Statuses
<1> QED
  BY <1>1, <1>2

\* Type correctness, for every value of the constants.
THEOREM TypeCorrect == Spec => []TypeOK
<1>1. Spec => []TypeInv
  BY InitTypeInv, NextTypeInv, PTL DEF Spec
<1>2. TypeInv => TypeOK
  BY DEF TypeInv
<1> QED
  BY <1>1, <1>2, PTL
-----------------------------------------------------------------------------
(***************************************************************************)
(* What a step does to the registry: three cases, whatever the action.     *)
(***************************************************************************)
RegistryUnchanged == UNCHANGED <<agentTasks, overwritten, created, status, cidOf>>

\* A running turn makes progress, or ends, and stays registered as it was.
TurnMoves ==
  /\ UNCHANGED <<agentTasks, overwritten, created, cidOf>>
  /\ \E t \in Turns, to \in Statuses \ {"none", "gone"} :
       /\ status[t] \notin {"none", "gone"}
       /\ status' = [status EXCEPT ![t] = to]

TurnStarts == \E s \in Sockets, c \in Cids : StartTurn(s, c)

LEMMA RegistryStep ==
  ASSUME TypeInv, Next
  PROVE  \/ RegistryUnchanged
         \/ TurnMoves
         \/ TurnStarts
         \/ \E t \in Turns : DoneCallback(t)
<1>1. ASSUME NEW s \in Sockets, Router(s)
      PROVE  RegistryUnchanged \/ TurnStarts
  <2> USE DEF turnVars, registry, RegistryUnchanged
  <2>1. CASE \E c \in Cids : UserMessage(s, c)
    BY <2>1 DEF UserMessage, TurnStarts
  <2>2. CASE RecoveryLoaded(s)
    BY <2>2 DEF RecoveryLoaded, TurnStarts, TypeInv, TargetsKnown
  <2>3. CASE CancelGeneration(s)
    BY <2>3 DEF CancelGeneration, CancelTurns
  <2>4. CASE \E c \in Cids : \/ UserMessageRecovers(s, c)
                             \/ SubscribeCid(s, c)
                             \/ UnsubscribeCid(s, c)
                             \/ ClearConversation(s, c)
                             \/ ResumeConversation(s, c)
    BY <2>4 DEF UserMessageRecovers, SubscribeCid, UnsubscribeCid, ClearConversation,
       ResumeConversation, Await
  <2>5. CASE \/ Connect(s) \/ ClearSaved(s) \/ ClearFails(s) \/ ResumeFails(s)
             \/ ResumeLoaded(s) \/ ResumeCounted(s) \/ Disconnect(s) \/ Detach(s)
             \/ DestroyConnection(s)
    BY <2>5 DEF Connect, ClearSaved, ClearFails, ResumeFails, ResumeLoaded, ResumeCounted,
       Disconnect, Detach, DestroyConnection
  <2> QED
    BY <1>1, <2>1, <2>2, <2>3, <2>4, <2>5 DEF Router
<1>2. ASSUME NEW t \in Turns, Turn(t)
      PROVE  RegistryUnchanged \/ TurnMoves \/ DoneCallback(t)
  <2> USE DEF registry, Runs, Moves, TurnMoves, Statuses
  <2>1. CASE BeginTurn(t) \/ BeginWizardTurn(t) \/ EnterAgentLoop(t)
    BY <2>1 DEF BeginTurn, BeginWizardTurn, EnterAgentLoop
  <2>2. CASE CompleteTurn(t) \/ ReplyDirectly(t) \/ AnnounceFailure(t)
    BY <2>2 DEF CompleteTurn, ReplyDirectly, AnnounceFailure, BroadcastEnd
  <2>3. CASE \E s \in Sockets : SendEnd(t, s)
    BY <2>3 DEF SendEnd, RegistryUnchanged
  <2>4. CASE ReturnFromHandler(t) \/ AgentFails(t) \/ HandlerFails(t)
    BY <2>4 DEF ReturnFromHandler, AgentFails, HandlerFails, EndSilently
  <2>5. CASE DeliverCancel(t)
    <3>1. status[t] \notin {"none", "gone"}
      BY <2>5 DEF DeliverCancel, TypeInv, CancelsAreLive, Live, Finished
    <3>2. \E to \in {"recovering", "done"} : status' = [status EXCEPT ![t] = to]
      BY <2>5 DEF DeliverCancel, EndSilently
    <3> QED
      BY <2>5, <3>1, <3>2 DEF DeliverCancel
  <2> QED
    BY <1>2, <2>1, <2>2, <2>3, <2>4, <2>5 DEF Turn
<1> QED
  BY <1>1, <1>2 DEF Next
-----------------------------------------------------------------------------
LEMMA InitIInv == Init => IInv
<1> SUFFICES ASSUME Init PROVE IInv
  OBVIOUS
<1>1. TypeInv
  BY InitTypeInv
<1>2. RegistryIsNewest
  BY DEF Init, RegistryIsNewest
<1>3. ExactUntilReaped
  BY DEF Init, ExactUntilReaped
<1> QED
  BY <1>1, <1>2, <1>3 DEF IInv

LEMMA NextIInv == IInv /\ [Next]_vars => IInv'
<1> SUFFICES ASSUME IInv, [Next]_vars PROVE IInv'
  OBVIOUS
<1> USE DEF IInv
<1>1. TypeInv'
  BY NextTypeInv
<1>2. CASE RegistryUnchanged
  BY <1>1, <1>2 DEF RegistryUnchanged, RegistryIsNewest, ExactUntilReaped
<1>3. CASE TurnMoves
  <2>1. PICK t \in Turns, to \in Statuses \ {"none", "gone"} :
          /\ status[t] \notin {"none", "gone"}
          /\ status' = [status EXCEPT ![t] = to]
    BY <1>3 DEF TurnMoves
  <2>2. UNCHANGED <<agentTasks, overwritten, created, cidOf>>
    BY <1>3 DEF TurnMoves
  <2>3. RegistryIsNewest'
    BY <2>1, <2>2 DEF RegistryIsNewest, TypeInv, TypeOK
  <2>4. ExactUntilReaped'
    BY <2>1, <2>2 DEF ExactUntilReaped, TypeInv, TypeOK
  <2> QED
    BY <1>1, <2>3, <2>4
<1>4. CASE TurnStarts
  <2>1. PICK s \in Sockets, c \in Cids : StartTurn(s, c)
    BY <1>4 DEF TurnStarts
  <2> DEFINE t == created + 1
  <2>2. t \in Turns /\ \A u \in Turns : status[u] # "none" => u < t
    BY <2>1, ConstantsAssumption DEF StartTurn, Turns, TypeInv, TypeOK
  <2>3. /\ agentTasks' = [agentTasks EXCEPT ![c] = t]
        /\ status' = [status EXCEPT ![t] = "created"]
        /\ cidOf' = [cidOf EXCEPT ![t] = c]
        /\ overwritten' = IF agentTasks[c] = NoTurn THEN overwritten ELSE overwritten \cup {c}
    BY <2>1 DEF StartTurn, register_task
  <2>4. RegistryIsNewest'
    BY <1>1, <2>2, <2>3, ConstantsAssumption
       DEF RegistryIsNewest, TypeInv, TypeOK, TargetsKnown, Turns
  <2>5. ExactUntilReaped'
    BY <1>1, <2>2, <2>3, ConstantsAssumption
       DEF ExactUntilReaped, TypeInv, TypeOK, TargetsKnown, Turns
  <2> QED
    BY <1>1, <2>4, <2>5
<1>5. CASE \E t \in Turns : DoneCallback(t)
  <2>1. PICK t \in Turns : DoneCallback(t)
    BY <1>5
  <2>2. /\ status[t] = "done"
        /\ status' = [status EXCEPT ![t] = "gone"]
        /\ agentTasks' = [agentTasks EXCEPT ![cidOf[t]] = NoTurn]
        /\ UNCHANGED <<overwritten, created, cidOf>>
    BY <2>1 DEF DoneCallback, Moves, pop_task
  <2>3. RegistryIsNewest'
    <3> SUFFICES ASSUME NEW c \in Cids, agentTasks'[c] # NoTurn
                 PROVE  /\ cidOf[agentTasks'[c]] = c
                        /\ status'[agentTasks'[c]] \notin {"none", "gone"}
                        /\ \A u \in Turns : cidOf[u] = c => u <= agentTasks'[c]
      BY <2>2 DEF RegistryIsNewest
    <3>1. c # cidOf[t] /\ agentTasks'[c] = agentTasks[c] /\ agentTasks[c] \in Turns
      BY <2>2 DEF TypeInv, TypeOK, TargetsKnown
    <3>2. agentTasks[c] # t
      BY <3>1 DEF RegistryIsNewest
    <3> QED
      BY <2>2, <3>1, <3>2 DEF RegistryIsNewest, TypeInv, TypeOK
  <2>4. ExactUntilReaped'
    BY <2>2 DEF ExactUntilReaped, TypeInv, TypeOK, TargetsKnown
  <2> QED
    BY <1>1, <2>3, <2>4
<1>6. CASE UNCHANGED vars
  BY <1>2, <1>6 DEF vars, RegistryUnchanged
<1> QED
  BY <1>2, <1>3, <1>4, <1>5, <1>6, RegistryStep

\* A registered turn is the newest of its cid and not yet reaped.
THEOREM RegistryCorrect == Spec => []RegistryIsNewest
<1>1. Spec => []IInv
  BY InitIInv, NextIInv, PTL DEF Spec
<1>2. IInv => RegistryIsNewest
  BY DEF IInv
<1> QED
  BY <1>1, <1>2, PTL

\* A socket that left its loop is in no subscriber set, and never gets back in.
THEOREM SubscribersConnected == Spec => []NoDeadSubscriber
<1>1. Init => NoDeadSubscriber
  BY DEF Init, NoDeadSubscriber
<1>2. TypeInv /\ NoDeadSubscriber /\ [Next]_vars => NoDeadSubscriber'
  <2> SUFFICES ASSUME TypeInv, NoDeadSubscriber, [Next]_vars PROVE NoDeadSubscriber'
    OBVIOUS
  <2> USE DEF NoDeadSubscriber
  <2>1. CASE UNCHANGED vars
    BY <2>1 DEF vars
  <2>2. ASSUME NEW t \in Turns, Turn(t) PROVE NoDeadSubscriber'
    <3>1. UNCHANGED <<phase, subscribers>>
      BY <2>2 DEF Turn, BeginTurn, BeginWizardTurn, EnterAgentLoop, CompleteTurn,
         ReplyDirectly, AnnounceFailure, BroadcastEnd, SendEnd, ReturnFromHandler,
         AgentFails, HandlerFails, DeliverCancel, DoneCallback
    <3> QED
      BY <3>1
  <2>3. ASSUME NEW s \in Sockets, Router(s) PROVE NoDeadSubscriber'
    <3> USE DEF TypeInv, TypeOK
    <3>1. CASE \E c \in Cids : UserMessage(s, c)
      BY <3>1 DEF UserMessage, StartTurn, subscribe
    <3>2. CASE RecoveryLoaded(s)
      BY <3>2 DEF RecoveryLoaded, StartTurn, subscribe, TargetsKnown
    <3>3. CASE CancelGeneration(s)
      BY <3>3 DEF CancelGeneration, CancelTurns
    <3>4. CASE \E c \in Cids : SubscribeCid(s, c) \/ UnsubscribeCid(s, c)
      BY <3>4 DEF SubscribeCid, UnsubscribeCid, subscribe, unsubscribe
    <3>5. CASE ResumeCounted(s)
      BY <3>5 DEF ResumeCounted, Return, subscribe, TargetsKnown
    <3>6. CASE Detach(s)
      BY <3>6 DEF Detach, unsubscribe_all
    <3>7. CASE \/ \E c \in Cids : \/ UserMessageRecovers(s, c)
                                  \/ ClearConversation(s, c)
                                  \/ ResumeConversation(s, c)
               \/ Connect(s) \/ ClearSaved(s) \/ ClearFails(s) \/ ResumeFails(s)
               \/ ResumeLoaded(s) \/ Disconnect(s) \/ DestroyConnection(s)
      <4>1. UNCHANGED subscribers
        BY <3>7 DEF UserMessageRecovers, ClearConversation, ResumeConversation, Await,
           Connect, ClearSaved, ClearFails, ResumeFails, ResumeLoaded, Disconnect,
           DestroyConnection
      <4>2. \E to \in Phases :
              /\ phase' = [phase EXCEPT ![s] = to]
              /\ phase[s] = "detached" \/ to \notin {"new", "detached", "closed"}
        BY <3>7 DEF UserMessageRecovers, ClearConversation, ResumeConversation, Await,
           Connect, ClearSaved, ClearFails, ResumeFails, ResumeLoaded, Disconnect,
           DestroyConnection, Return, Phases
      <4> QED
        BY <4>1, <4>2
    <3> QED
      BY <2>3, <3>1, <3>2, <3>3, <3>4, <3>5, <3>6, <3>7 DEF Router
  <2> QED
    BY <2>1, <2>2, <2>3 DEF Next
<1> QED
  BY <1>1, <1>2, InitTypeInv, NextTypeInv, PTL DEF Spec

\* At most one running turn per cid, and that one registered, for as long as
\* no registration of the cid has overwritten an entry.
THEOREM ExactCorrect == Spec => []ExactUntilOverwrite
<1>1. Spec => []IInv
  BY InitIInv, NextIInv, PTL DEF Spec
<1>2. IInv => ExactUntilOverwrite
  BY DEF IInv, ExactUntilReaped, ExactUntilOverwrite, Live, Finished
<1> QED
  BY <1>1, <1>2, PTL
-----------------------------------------------------------------------------
(* The rate limits *)

\* Every entry was made by a check that is over, no later than now.
EntriesAreMade ==
  \A l \in Limits : \A e \in entries[l] \cup history[l] \cup admitted[l] \cup stuck[l] \cup ToUndo(l) \cup unchecked[l] :
    e.at <= now /\ e.no < checks

\* No two requests are about to take out the same entry.
UndoesAreDistinct ==
  \A r, q \in Requests : At(r, "undo") /\ At(q, "undo") /\ jobs[r].entry = jobs[q].entry => r = q

SetsAreFinite ==
  \A l \in Limits : /\ IsFiniteSet(entries[l]) /\ IsFiniteSet(history[l])
                     /\ IsFiniteSet(admitted[l]) /\ IsFiniteSet(unchecked[l])

\* What a rejection left in Redis for good is no longer about to be taken out.
StuckIsOver == \A l \in Limits : stuck[l] \cap ToUndo(l) = {}

RejectionsInv == StuckIsOver /\ RejectionsDoNotCount

\* The sliding windows of the process hold what was let through.
HistoryIsAdmitted ==
  \A l \in Sliding : ~Shared(l) => InWindow(l, history[l]) = InWindow(l, admitted[l])

WindowsHold ==
  \A l \in Limits : Shared(l) \/ l \in Sliding => Cardinality(InWindow(l, admitted[l])) <= Capacity[l]

\* What a bucket has left and has given since s is at most what it started
\* with and what it gained since s.
Since(l, s) == {e \in admitted[l] : e.at >= s}
BucketsBalance ==
  \A l \in Limits \ Sliding : ~Shared(l) => \A s \in 0..now :
    tokens[l] + Window[l] * Cardinality(Since(l, s)) <= Full(l) + Capacity[l] * (now - s)

LimitsInv ==
  /\ LimitsTypeOK /\ EntriesAreMade /\ UndoesAreDistinct /\ SetsAreFinite
  /\ RejectionsInv /\ HistoryIsAdmitted /\ WindowsHold /\ BucketsBalance
-----------------------------------------------------------------------------
LEMMA LimitsTypes ==
  ASSUME LimitsTypeOK, NEW r \in Requests, jobs[r] # NoJob
  PROVE  /\ jobs[r] \in Job /\ Limit(r) \in Limits
         /\ jobs[r].step \in 1..Len(Cascade[jobs[r].action])
         /\ At(r, "undo") <=> jobs[r].entry # NoEntry
         /\ At(r, "undo") => jobs[r].entry \in Entry
         /\ At(r, "check") \/ At(r, "undo") \/ At(r, "oldest")
<1>1. jobs[r] \in Job
  BY DEF LimitsTypeOK
<1>2. jobs[r].step \in 1..Len(Cascade[jobs[r].action]) /\ Cascade[jobs[r].action] \in Seq(Limits)
  BY <1>1, RateLimitsAssumption DEF LimitsTypeOK, Job
<1>3. QED
  BY <1>1, <1>2 DEF LimitsTypeOK, Job, At, Limit

\* A request that goes on or is answered is no longer at an undo.
Undone(r) == jobs' = [jobs EXCEPT ![r].pc = "oldest", ![r].entry = NoEntry]
LEMMA LeavesUndo ==
  ASSUME LimitsTypeOK, NEW r \in Requests, jobs[r] # NoJob, Passed(r) \/ Answered(r) \/ Undone(r)
  PROVE  /\ jobs' \in [Requests -> Job \cup {NoJob}]
         /\ \A q \in Requests : jobs'[q] # NoJob =>
              /\ jobs'[q].step <= Len(Cascade[jobs'[q].action])
              /\ jobs'[q].pc = "undo" <=> jobs'[q].entry # NoEntry
         /\ \A q \in Requests \ {r} : jobs'[q] = jobs[q]
         /\ ~At(r, "undo")'
<1>1. jobs[r] \in Job /\ jobs[r].step \in 1..Len(Cascade[jobs[r].action]) /\ jobs \in [Requests -> Job \cup {NoJob}]
  BY LimitsTypes DEF LimitsTypeOK
<1> DEFINE next == Checking(jobs[r].action, jobs[r].step + 1)
<1>2. next \in Job /\ next.step = jobs[r].step + 1 /\ next.action = jobs[r].action /\ next.pc = "check"
        /\ next.entry = NoEntry
  BY <1>1 DEF Job, Checking
<1> DEFINE done == [jobs[r] EXCEPT !.pc = "oldest", !.entry = NoEntry]
<1>7. /\ done \in Job /\ done.step = jobs[r].step /\ done.action = jobs[r].action /\ done.pc = "oldest"
      /\ done.entry = NoEntry
  BY <1>1 DEF Job
<1> HIDE DEF next, done
<1>3. jobs' \in [Requests -> Job \cup {NoJob}] /\ (\A q \in Requests \ {r} : jobs'[q] = jobs[q])
        /\ \/ jobs'[r] = NoJob \/ (jobs'[r] = next /\ jobs[r].step # Len(Cascade[jobs[r].action]))
           \/ jobs'[r] = done
  <2>1. CASE Answered(r)
    BY <1>1, <2>1 DEF Answered
  <2>2. CASE Passed(r)
    <3>1. jobs' = [jobs EXCEPT ![r] = IF jobs[r].step = Len(Cascade[jobs[r].action]) THEN NoJob ELSE next]
      BY <2>2 DEF Passed, next
    <3>2. QED
      BY <1>1, <1>2, <3>1
  <2>3. CASE Undone(r)
    <3>1. jobs' = [jobs EXCEPT ![r] = done]
      BY <2>3 DEF Undone, done
    <3>2. QED
      BY <1>1, <1>7, <3>1
  <2>4. QED
    BY <2>1, <2>2, <2>3
<1>4. ASSUME NEW q \in Requests, jobs'[q] # NoJob
      PROVE  /\ jobs'[q].step <= Len(Cascade[jobs'[q].action])
             /\ jobs'[q].pc = "undo" <=> jobs'[q].entry # NoEntry
  <2>1. CASE q = r
    <3>1. jobs[r].step # Len(Cascade[jobs[r].action]) => jobs[r].step + 1 <= Len(Cascade[jobs[r].action])
      BY <1>1
    <3>2. jobs[r].step <= Len(Cascade[jobs[r].action])
      BY <1>1
    <3>3. QED
      BY <1>2, <1>3, <1>4, <1>7, <2>1, <3>1, <3>2
  <2>2. CASE q # r
    BY <1>3, <1>4, <2>2 DEF LimitsTypeOK
  <2>3. QED
    BY <2>1, <2>2
<1>5. ~At(r, "undo")'
  BY <1>2, <1>3, <1>7 DEF At
<1>6. QED
  BY <1>3, <1>4, <1>5

LEMMA UndoingAfter ==
  ASSUME LimitsTypeOK, NEW r \in Requests, jobs[r] # NoJob, Passed(r) \/ Answered(r) \/ Undone(r), NEW l \in Limits
  PROVE  /\ ToUndo(l)' = {jobs[q].entry : q \in Undoing(l) \ {r}}
         /\ ToUndo(l)' \subseteq ToUndo(l)
         /\ \A q \in Requests : At(q, "undo")' <=> q # r /\ At(q, "undo")
<1>1. ~At(r, "undo")' /\ \A q \in Requests \ {r} : jobs'[q] = jobs[q]
  BY LeavesUndo
<1>2. \A q \in Requests : (q \in Undoing(l))' <=> q # r /\ q \in Undoing(l)
  BY <1>1 DEF Undoing, At, Limit
<1>3. QED
  BY <1>1, <1>2 DEF ToUndo, Undoing, At

LEMMA SharedStays ==
  ASSUME [LimitsNext]_limitsVars
  PROVE  \A l : Shared(l)' <=> Shared(l)
<1>1. (redis' = "off") <=> (redis = "off")
  BY DEF LimitsNext, limitsVars, Tick, Lose, Recover, Restart, Ask, _redis_check, Reject, Oldest, RedisRaises,
         BucketCheck, SlidingCheck
<1>2. QED
  BY <1>1 DEF Shared

LEMMA WindowIsFinite ==
  ASSUME NEW l, NEW S, IsFiniteSet(S)
  PROVE  IsFiniteSet(InWindow(l, S)) /\ Cardinality(InWindow(l, S)) \in Nat
BY FS_Subset, FS_CardinalityType DEF InWindow

\* One element more makes a set larger by at most one.
LEMMA OneMoreElement ==
  ASSUME NEW S, NEW e, IsFiniteSet(S)
  PROVE  /\ IsFiniteSet(S \cup {e}) /\ Cardinality(S \cup {e}) \in Nat
         /\ Cardinality(S \cup {e}) <= Cardinality(S) + 1
<1>1. /\ IsFiniteSet(S \cup {e})
      /\ Cardinality(S \cup {e}) = IF e \in S THEN Cardinality(S) ELSE Cardinality(S) + 1
  BY FS_AddElement
<1>2. Cardinality(S) \in Nat /\ Cardinality(S \cup {e}) \in Nat
  BY <1>1, FS_CardinalityType
<1>3. QED
  BY <1>1, <1>2

LEMMA FullIsNat ==
  ASSUME NEW l \in Limits
  PROVE  Full(l) \in Nat /\ Capacity[l] \in Nat \ {0} /\ Window[l] \in Nat \ {0}
BY RateLimitsAssumption DEF Full

LEMMA NewEntryType ==
  ASSUME LimitsTypeOK
  PROVE  NewEntry \in Entry /\ NewEntry # NoEntry
BY NullsAssumption DEF LimitsTypeOK, NewEntry, Entry

LEMMA InitInv == LimitsInit => LimitsInv
<1> SUFFICES ASSUME LimitsInit PROVE LimitsInv
  OBVIOUS
<1> USE DEF LimitsInit, Fresh
<1>1. LimitsTypeOK
  BY FullIsNat, RateLimitsAssumption DEF LimitsTypeOK
<1>2. \A l \in Limits : ToUndo(l) = {} /\ entries[l] = {} /\ history[l] = {} /\ admitted[l] = {}
                          /\ stuck[l] = {} /\ unchecked[l] = {}
  BY DEF ToUndo, Undoing, At
<1>3. EntriesAreMade /\ UndoesAreDistinct /\ SetsAreFinite
  BY <1>2, FS_EmptySet DEF EntriesAreMade, UndoesAreDistinct, SetsAreFinite, At
<1>4. RejectionsInv /\ HistoryIsAdmitted
  BY <1>2, RateLimitsAssumption DEF RejectionsInv, StuckIsOver, RejectionsDoNotCount, HistoryIsAdmitted, InWindow
<1>5. WindowsHold
  <2> SUFFICES ASSUME NEW l \in Limits PROVE Cardinality(InWindow(l, admitted[l])) <= Capacity[l]
    BY DEF WindowsHold
  <2>1. InWindow(l, admitted[l]) = {}
    BY <1>2 DEF InWindow
  <2>2. Cardinality(InWindow(l, admitted[l])) = 0
    BY <2>1, FS_EmptySet
  <2>3. QED
    BY <2>2, FullIsNat
<1>6. BucketsBalance
  <2> SUFFICES ASSUME NEW l \in Limits, NEW s \in 0..now
               PROVE  tokens[l] + Window[l] * Cardinality(Since(l, s)) <= Full(l) + Capacity[l] * (now - s)
    BY DEF BucketsBalance
  <2>1. Since(l, s) = {} /\ s = 0 /\ now = 0 /\ tokens[l] = Full(l)
    BY <1>2 DEF Since
  <2>2. Cardinality(Since(l, s)) = 0
    BY <2>1, FS_EmptySet
  <2>3. QED
    BY <2>1, <2>2, FullIsNat
<1>7. QED
  BY <1>1, <1>3, <1>4, <1>5, <1>6 DEF LimitsInv

LEMMA TypeStep == LimitsTypeOK /\ [LimitsNext]_limitsVars => LimitsTypeOK'
<1> SUFFICES ASSUME LimitsTypeOK, [LimitsNext]_limitsVars PROVE LimitsTypeOK'
  OBVIOUS
<1>1. CASE UNCHANGED limitsVars
  BY <1>1 DEF LimitsTypeOK, limitsVars
<1>2. CASE Tick
  <2>1. now' \in 0..MaxTime
    BY <1>2, RateLimitsAssumption DEF Tick, LimitsTypeOK
  <2>2. \A l \in Limits : Refilled(l) \in Nat /\ Refilled(l) <= Full(l)
    BY FullIsNat DEF LimitsTypeOK, Refilled
  <2>3. tokens' \in [Limits -> Nat] /\ \A l \in Limits : tokens'[l] <= Full(l)
    BY <1>2, <2>2 DEF Tick
  <2>4. QED
    BY <1>2, <2>1, <2>3 DEF Tick, LimitsTypeOK, Full
<1>3. CASE Lose \/ Recover
  BY <1>3, RateLimitsAssumption DEF Lose, Recover, LimitsTypeOK, Full
<1>4. CASE Restart
  <2>1. \A l \in Limits : ToUndo(l) \subseteq Entry
    BY LimitsTypes DEF ToUndo, Undoing, At
  <2>2. stuck' \in [Limits -> SUBSET Entry] /\ admitted' \in [Limits -> SUBSET Entry]
        /\ history' \in [Limits -> SUBSET Entry]
    BY <1>4, <2>1 DEF Restart, LimitsTypeOK
  <2>3. tokens' \in [Limits -> Nat] /\ \A l \in Limits : tokens'[l] <= Full(l)
    BY <1>4, FullIsNat DEF Restart
  <2>4. jobs' = [r \in Requests |-> NoJob] /\ faults' \in 0..MaxFaults
    BY <1>4, RateLimitsAssumption DEF Restart, LimitsTypeOK
  <2>5. QED
    BY <1>4, <2>2, <2>3, <2>4 DEF Restart, LimitsTypeOK, Full
<1>5. ASSUME NEW r \in Requests, Ask(r)
      PROVE  LimitsTypeOK'
  <2>1. PICK a \in Actions : jobs' = [jobs EXCEPT ![r] = Checking(a, 1)]
    BY <1>5 DEF Ask
  <2>2. Checking(a, 1) \in Job /\ Cascade[a] \in Seq(Limits) /\ Cascade[a] # <<>>
        /\ Checking(a, 1).action = a /\ Checking(a, 1).step = 1
        /\ Checking(a, 1).pc = "check" /\ Checking(a, 1).entry = NoEntry
    BY RateLimitsAssumption DEF Checking, Job
  <2>3. 1 <= Len(Cascade[a])
    BY <2>2
  <2>4. jobs' \in [Requests -> Job \cup {NoJob}]
    BY <2>1, <2>2 DEF LimitsTypeOK
  <2>5. ASSUME NEW q \in Requests, jobs'[q] # NoJob
        PROVE  /\ jobs'[q].step <= Len(Cascade[jobs'[q].action])
               /\ jobs'[q].pc = "undo" <=> jobs'[q].entry # NoEntry
    <3>1. CASE q = r
      BY <2>1, <2>2, <2>3, <3>1 DEF LimitsTypeOK
    <3>2. CASE q # r
      BY <2>1, <2>5, <3>2 DEF LimitsTypeOK
    <3>3. QED
      BY <3>1, <3>2
  <2>6. QED
    BY <1>5, <2>4, <2>5 DEF Ask, LimitsTypeOK, Full
<1>6. ASSUME NEW r \in Requests, _redis_check(r)
      PROVE  LimitsTypeOK'
  <2> DEFINE l == Limit(r)
  <2>1. jobs[r] # NoJob /\ l \in Limits /\ NewEntry \in Entry /\ NewEntry # NoEntry
    BY <1>6, LimitsTypes, NewEntryType DEF _redis_check, At
  <2>2. entries' \in [Limits -> SUBSET Entry] /\ checks' \in Nat
    BY <1>6, <2>1 DEF _redis_check, LimitsTypeOK, InWindow
  <2>3. CASE Reached(l)
    <3>1. jobs' = [jobs EXCEPT ![r].pc = "undo", ![r].entry = NewEntry] /\ UNCHANGED admitted
      BY <1>6, <2>3 DEF _redis_check
    <3>2. jobs[r] \in Job
      BY <2>1, LimitsTypes
    <3>3. /\ jobs'[r] \in Job /\ jobs'[r].pc = "undo" /\ jobs'[r].entry = NewEntry
          /\ jobs'[r].step = jobs[r].step /\ jobs'[r].action = jobs[r].action
      BY <2>1, <3>1, <3>2 DEF LimitsTypeOK, Job
    <3>4. jobs' \in [Requests -> Job \cup {NoJob}]
      BY <2>1, <3>1, <3>3 DEF LimitsTypeOK
    <3>5. \A q \in Requests : jobs'[q] # NoJob =>
            /\ jobs'[q].step <= Len(Cascade[jobs'[q].action])
            /\ jobs'[q].pc = "undo" <=> jobs'[q].entry # NoEntry
      BY <2>1, <3>1, <3>3 DEF LimitsTypeOK
    <3>6. QED
      BY <1>6, <2>2, <3>1, <3>4, <3>5 DEF _redis_check, LimitsTypeOK, Full
  <2>4. CASE ~Reached(l)
    <3>1. Passed(r) /\ Note(l)
      BY <1>6, <2>4 DEF _redis_check
    <3>2. admitted' \in [Limits -> SUBSET Entry]
      BY <2>1, <3>1 DEF Note, LimitsTypeOK
    <3>3. QED
      BY <1>6, <2>1, <2>2, <3>1, <3>2, LeavesUndo DEF _redis_check, LimitsTypeOK, Full
  <2>5. QED
    BY <2>3, <2>4
<1>7. ASSUME NEW r \in Requests, Reject(r)
      PROVE  LimitsTypeOK'
  <2>1. jobs[r] # NoJob /\ Limit(r) \in Limits
    BY <1>7, LimitsTypes DEF Reject, At
  <2>2. entries' \in [Limits -> SUBSET Entry]
    BY <1>7, <2>1 DEF Reject, LimitsTypeOK, Undo
  <2>3. Undone(r)
    BY <1>7 DEF Reject, Undone
  <2>4. /\ jobs' \in [Requests -> Job \cup {NoJob}]
        /\ \A q \in Requests : jobs'[q] # NoJob =>
             /\ jobs'[q].step <= Len(Cascade[jobs'[q].action])
             /\ jobs'[q].pc = "undo" <=> jobs'[q].entry # NoEntry
    BY <2>1, <2>3, LeavesUndo
  <2>5. UNCHANGED <<now, redis, history, tokens, checks, admitted, stuck, unchecked, faults>>
    BY <1>7 DEF Reject
  <2>6. QED
    BY <2>2, <2>4, <2>5 DEF LimitsTypeOK, Full
<1>12. ASSUME NEW r \in Requests, Oldest(r)
       PROVE  LimitsTypeOK'
  <2>1. jobs[r] # NoJob
    BY <1>12 DEF Oldest, At
  <2>2. QED
    BY <1>12, <2>1, LeavesUndo DEF Oldest, LimitsTypeOK, Full
<1>8. ASSUME NEW r \in Requests, RedisRaises(r)
      PROVE  LimitsTypeOK'
  <2>1. jobs[r] # NoJob /\ Limit(r) \in Limits
    BY <1>8, LimitsTypes DEF RedisRaises, At
  <2>2. stuck' \in [Limits -> SUBSET Entry]
    <3>1. CASE UNCHANGED stuck
      BY <3>1 DEF LimitsTypeOK
    <3>2. CASE At(r, "undo") /\ stuck' = [stuck EXCEPT ![Limit(r)] = @ \cup {jobs[r].entry}]
      BY <2>1, <3>2, LimitsTypes DEF LimitsTypeOK
    <3>3. QED
      BY <1>8, <3>1, <3>2 DEF RedisRaises
  <2>3. unchecked' \in [Limits -> SUBSET Entry] /\ checks' \in Nat
    BY <1>8, <2>1, NewEntryType DEF RedisRaises, LimitsTypeOK
  <2>4. QED
    BY <1>8, <2>1, <2>2, <2>3, LeavesUndo DEF RedisRaises, LimitsTypeOK, Full
<1>9. ASSUME NEW r \in Requests, BucketCheck(r)
      PROVE  LimitsTypeOK'
  <2> DEFINE l == Limit(r)
  <2>1. jobs[r] # NoJob /\ l \in Limits /\ NewEntry \in Entry
    BY <1>9, LimitsTypes, NewEntryType DEF BucketCheck, At
  <2>2. /\ tokens' \in [Limits -> Nat] /\ \A k \in Limits : tokens'[k] <= Full(k)
        /\ admitted' \in [Limits -> SUBSET Entry] /\ checks' \in Nat
    <3>1. checks' \in Nat
      BY <1>9 DEF BucketCheck, LimitsTypeOK
    <3>2. CASE ~consume(l)
      BY <1>9, <3>1, <3>2 DEF BucketCheck, LimitsTypeOK
    <3>3. CASE consume(l)
      <4>1. tokens' = [tokens EXCEPT ![l] = @ - Window[l]] /\ Note(l)
        BY <1>9, <3>3 DEF BucketCheck
      <4>2. tokens[l] - Window[l] \in Nat /\ tokens[l] - Window[l] <= Full(l)
        BY <2>1, <3>3, FullIsNat DEF consume, LimitsTypeOK
      <4>3. admitted' \in [Limits -> SUBSET Entry]
        BY <2>1, <4>1 DEF Note, LimitsTypeOK
      <4>4. QED
        BY <2>1, <3>1, <4>1, <4>2, <4>3 DEF LimitsTypeOK
    <3>4. QED
      BY <3>2, <3>3
  <2>3. Passed(r) \/ Answered(r)
    BY <1>9 DEF BucketCheck
  <2>4. /\ jobs' \in [Requests -> Job \cup {NoJob}]
        /\ \A q \in Requests : jobs'[q] # NoJob =>
             /\ jobs'[q].step <= Len(Cascade[jobs'[q].action])
             /\ jobs'[q].pc = "undo" <=> jobs'[q].entry # NoEntry
    BY <2>1, <2>3, LeavesUndo
  <2>5. UNCHANGED <<now, redis, entries, history, stuck, unchecked, faults>>
    BY <1>9 DEF BucketCheck
  <2>6. QED
    BY <2>2, <2>4, <2>5 DEF LimitsTypeOK, Full
<1>10. ASSUME NEW r \in Requests, SlidingCheck(r)
       PROVE  LimitsTypeOK'
  <2> DEFINE l == Limit(r)
  <2>1. jobs[r] # NoJob /\ l \in Limits /\ NewEntry \in Entry
    BY <1>10, LimitsTypes, NewEntryType DEF SlidingCheck, At
  <2>2. /\ history' \in [Limits -> SUBSET Entry] /\ admitted' \in [Limits -> SUBSET Entry]
        /\ checks' \in Nat
    <3>1. history' \in [Limits -> SUBSET Entry]
      <4>1. UNCHANGED history \/ history' = [history EXCEPT ![l] = InWindow(l, @) \cup {NewEntry}]
        BY <1>10 DEF SlidingCheck
      <4>2. QED
        BY <2>1, <4>1 DEF LimitsTypeOK, InWindow
    <3>2. admitted' \in [Limits -> SUBSET Entry]
      <4>1. UNCHANGED admitted \/ Note(l)
        BY <1>10 DEF SlidingCheck
      <4>2. QED
        BY <2>1, <4>1 DEF LimitsTypeOK, Note
    <3>3. QED
      BY <1>10, <3>1, <3>2 DEF SlidingCheck, LimitsTypeOK
  <2>3. Passed(r) \/ Answered(r)
    BY <1>10 DEF SlidingCheck
  <2>4. QED
    BY <1>10, <2>1, <2>2, <2>3, LeavesUndo DEF SlidingCheck, LimitsTypeOK, Full
<1>11. QED
  BY <1>1, <1>2, <1>3, <1>4, <1>5, <1>6, <1>7, <1>8, <1>9, <1>10, <1>12 DEF LimitsNext

\* What a step adds to the sets of a limit: only the entry that it made.
Made == IF checks' = checks THEN {} ELSE {NewEntry}
LEMMA Growth ==
  ASSUME LimitsTypeOK, [LimitsNext]_limitsVars, NEW l \in Limits
  PROVE  /\ entries'[l] \subseteq entries[l] \cup Made
         /\ history'[l] \subseteq history[l] \cup Made
         /\ admitted'[l] \subseteq admitted[l] \cup Made
         /\ stuck'[l] \subseteq stuck[l] \cup ToUndo(l)
         /\ ToUndo(l)' \subseteq ToUndo(l) \cup Made
         /\ unchecked'[l] \subseteq unchecked[l] \cup Made
         /\ checks' \in {checks, checks + 1} /\ now' \in {now, now + 1}
<1> USE DEF Made
<1>0. checks # checks + 1
  BY DEF LimitsTypeOK
<1>1. CASE UNCHANGED limitsVars \/ Tick \/ Lose \/ Recover
  BY <1>1 DEF limitsVars, Tick, Lose, Recover, ToUndo, Undoing, At, Limit
<1>2. CASE Restart
  <2>1. ToUndo(l)' = {}
    BY <1>2 DEF Restart, ToUndo, Undoing, At
  <2>2. QED
    BY <1>2, <2>1 DEF Restart
<1>3. ASSUME NEW r \in Requests, Ask(r)
      PROVE  /\ UNCHANGED <<entries, history, admitted, stuck, unchecked, checks, now>>
             /\ \A k : ToUndo(k)' = ToUndo(k)
  <2>1. PICK a \in Actions : jobs' = [jobs EXCEPT ![r] = Checking(a, 1)]
    BY <1>3 DEF Ask
  <2>2. \A q \in Requests : At(q, "undo")' <=> At(q, "undo")
    BY <1>3, <2>1 DEF Ask, At, Checking, LimitsTypeOK
  <2>3. \A q \in Requests : At(q, "undo") => jobs'[q] = jobs[q]
    BY <1>3, <2>1 DEF Ask, At, LimitsTypeOK
  <2>4. QED
    BY <1>3, <2>2, <2>3 DEF Ask, ToUndo, Undoing, Limit
<1>4. ASSUME NEW r \in Requests, _redis_check(r), Reached(Limit(r))
      PROVE  ToUndo(l)' = IF l = Limit(r) THEN ToUndo(l) \cup {NewEntry} ELSE ToUndo(l)
  <2>1. jobs[r] \in Job /\ jobs' = [jobs EXCEPT ![r].pc = "undo", ![r].entry = NewEntry]
    BY <1>4, LimitsTypes DEF _redis_check, At
  <2>2. /\ jobs'[r] # NoJob /\ jobs'[r].pc = "undo" /\ jobs'[r].entry = NewEntry
        /\ jobs'[r].action = jobs[r].action /\ jobs'[r].step = jobs[r].step
    <3>1. jobs'[r] \in Job /\ jobs'[r].pc = "undo" /\ jobs'[r].entry = NewEntry
          /\ jobs'[r].action = jobs[r].action /\ jobs'[r].step = jobs[r].step
      BY <2>1, NewEntryType DEF LimitsTypeOK, Job
    <3>2. QED
      BY <3>1, NullsAssumption
  <2>3. \A q \in Requests \ {r} : jobs'[q] = jobs[q]
    BY <2>1 DEF LimitsTypeOK
  <2>4. Undoing(l)' = IF l = Limit(r) THEN Undoing(l) \cup {r} ELSE Undoing(l)
    BY <1>4, <2>2, <2>3 DEF Undoing, At, Limit, _redis_check
  <2>5. r \notin Undoing(l)
    BY <1>4 DEF _redis_check, Undoing, At
  <2>6. QED
    BY <2>2, <2>3, <2>4, <2>5 DEF ToUndo, Undoing
<1>5. ASSUME NEW r \in Requests, _redis_check(r)
      PROVE  /\ entries'[l] \subseteq entries[l] \cup {NewEntry} /\ UNCHANGED <<history, stuck, unchecked, now>>
             /\ admitted'[l] \subseteq admitted[l] \cup {NewEntry} /\ checks' = checks + 1
             /\ ToUndo(l)' \subseteq ToUndo(l) \cup {NewEntry}
  <2>1. entries'[l] \subseteq entries[l] \cup {NewEntry} /\ UNCHANGED <<history, stuck, unchecked, now>>
        /\ checks' = checks + 1
    BY <1>5 DEF _redis_check, LimitsTypeOK, InWindow
  <2>2. CASE Reached(Limit(r))
    BY <1>4, <1>5, <2>1, <2>2 DEF _redis_check
  <2>3. CASE ~Reached(Limit(r))
    <3>1. jobs[r] # NoJob /\ Passed(r) /\ Note(Limit(r))
      BY <1>5, <2>3 DEF _redis_check, At
    <3>2. ToUndo(l)' \subseteq ToUndo(l)
      BY <3>1, UndoingAfter
    <3>3. QED
      BY <2>1, <3>1, <3>2 DEF Note, LimitsTypeOK
  <2>4. QED
    BY <2>2, <2>3
<1>6. ASSUME NEW r \in Requests, Reject(r) \/ Oldest(r)
      PROVE  /\ entries'[l] \subseteq entries[l] /\ UNCHANGED <<history, admitted, stuck, unchecked, checks, now>>
             /\ ToUndo(l)' \subseteq ToUndo(l)
  <2>1. jobs[r] # NoJob /\ (Undone(r) \/ Answered(r))
    BY <1>6 DEF Reject, Oldest, Undone, At
  <2>2. ToUndo(l)' \subseteq ToUndo(l)
    BY <2>1, UndoingAfter
  <2>3. entries'[l] \subseteq entries[l] /\ UNCHANGED <<history, admitted, stuck, unchecked, checks, now>>
    BY <1>6 DEF Reject, Oldest, Undo, LimitsTypeOK
  <2>4. QED
    BY <2>2, <2>3
<1>13. ASSUME NEW r \in Requests, RedisRaises(r)
       PROVE  /\ UNCHANGED <<entries, history, admitted, now>> /\ checks' = checks + 1
              /\ stuck'[l] \subseteq stuck[l] \cup ToUndo(l) /\ ToUndo(l)' \subseteq ToUndo(l)
              /\ unchecked'[l] \subseteq unchecked[l] \cup {NewEntry}
  <2>1. jobs[r] # NoJob /\ Passed(r)
    BY <1>13 DEF RedisRaises, At
  <2>2. ToUndo(l)' \subseteq ToUndo(l)
    BY <2>1, UndoingAfter
  <2>3. UNCHANGED <<entries, history, admitted, now>> /\ checks' = checks + 1
    BY <1>13 DEF RedisRaises
  <2>4. stuck'[l] \subseteq stuck[l] \cup ToUndo(l)
    BY <1>13 DEF RedisRaises, LimitsTypeOK, ToUndo, Undoing
  <2>5. unchecked'[l] \subseteq unchecked[l] \cup {NewEntry}
    BY <1>13 DEF RedisRaises, LimitsTypeOK
  <2>6. QED
    BY <2>2, <2>3, <2>4, <2>5
<1>7. ASSUME NEW r \in Requests, BucketCheck(r) \/ SlidingCheck(r)
      PROVE  /\ UNCHANGED <<entries, stuck, unchecked, now>> /\ checks' = checks + 1
             /\ history'[l] \subseteq history[l] \cup {NewEntry}
             /\ admitted'[l] \subseteq admitted[l] \cup {NewEntry}
             /\ ToUndo(l)' \subseteq ToUndo(l)
  <2>1. jobs[r] # NoJob /\ (Passed(r) \/ Answered(r))
    BY <1>7 DEF BucketCheck, SlidingCheck, At
  <2>2. ToUndo(l)' \subseteq ToUndo(l)
    BY <2>1, UndoingAfter
  <2>3. UNCHANGED <<entries, stuck, unchecked, now>> /\ checks' = checks + 1
    BY <1>7 DEF BucketCheck, SlidingCheck
  <2>4. history'[l] \subseteq history[l] \cup {NewEntry}
    BY <1>7 DEF BucketCheck, SlidingCheck, LimitsTypeOK, InWindow
  <2>5. admitted'[l] \subseteq admitted[l] \cup {NewEntry}
    BY <1>7 DEF BucketCheck, SlidingCheck, LimitsTypeOK, Note
  <2>6. QED
    BY <2>2, <2>3, <2>4, <2>5
<1>8. CASE \E r \in Requests : Ask(r)
  BY <1>3, <1>8
<1>9. CASE \E r \in Requests : _redis_check(r)
  BY <1>0, <1>5, <1>9
<1>10. CASE \E r \in Requests : Reject(r) \/ Oldest(r)
  BY <1>6, <1>10
<1>14. CASE \E r \in Requests : RedisRaises(r)
  BY <1>0, <1>13, <1>14
<1>11. CASE \E r \in Requests : BucketCheck(r) \/ SlidingCheck(r)
  BY <1>0, <1>7, <1>11
<1>12. QED
  BY <1>1, <1>2, <1>8, <1>9, <1>10, <1>11, <1>14 DEF LimitsNext

LEMMA EntriesStep ==
  ASSUME LimitsTypeOK, EntriesAreMade, SetsAreFinite, [LimitsNext]_limitsVars
  PROVE  EntriesAreMade' /\ SetsAreFinite'
<1> SUFFICES ASSUME NEW l \in Limits
             PROVE  /\ \A e \in entries'[l] \cup history'[l] \cup admitted'[l] \cup stuck'[l] \cup ToUndo(l)' \cup unchecked'[l] :
                         e.at <= now' /\ e.no < checks'
                    /\ IsFiniteSet(entries'[l]) /\ IsFiniteSet(history'[l]) /\ IsFiniteSet(admitted'[l])
                    /\ IsFiniteSet(unchecked'[l])
  BY DEF EntriesAreMade, SetsAreFinite
<1>1. checks' \in {checks, checks + 1} /\ now' \in {now, now + 1} /\ checks \in Nat /\ now \in Nat
  BY Growth DEF LimitsTypeOK
<1>2. ASSUME NEW e \in entries[l] \cup history[l] \cup admitted[l] \cup stuck[l] \cup ToUndo(l) \cup unchecked[l]
      PROVE  e.at <= now' /\ e.no < checks'
  <2>1. e \in Entry
    BY LimitsTypes DEF LimitsTypeOK, ToUndo, Undoing, At
  <2>2. e.at <= now /\ e.no < checks
    BY DEF EntriesAreMade
  <2>3. QED
    BY <1>1, <2>1, <2>2 DEF Entry
<1>3. ASSUME NEW e \in Made
      PROVE  e.at <= now' /\ e.no < checks'
  BY <1>1, <1>3 DEF Made, NewEntry
<1>4. IsFiniteSet(Made)
  BY FS_EmptySet, FS_Singleton DEF Made
<1>5. ASSUME NEW S, NEW T, IsFiniteSet(S), T \subseteq S \cup Made
      PROVE  IsFiniteSet(T)
  BY <1>4, <1>5, FS_Union, FS_Subset
<1>6. IsFiniteSet(entries[l]) /\ IsFiniteSet(history[l]) /\ IsFiniteSet(admitted[l]) /\ IsFiniteSet(unchecked[l])
  BY DEF SetsAreFinite
<1>7. /\ entries'[l] \subseteq entries[l] \cup Made /\ history'[l] \subseteq history[l] \cup Made
      /\ admitted'[l] \subseteq admitted[l] \cup Made /\ stuck'[l] \subseteq stuck[l] \cup ToUndo(l)
      /\ ToUndo(l)' \subseteq ToUndo(l) \cup Made /\ unchecked'[l] \subseteq unchecked[l] \cup Made
  BY Growth
<1>8. IsFiniteSet(entries'[l]) /\ IsFiniteSet(history'[l]) /\ IsFiniteSet(admitted'[l]) /\ IsFiniteSet(unchecked'[l])
  BY <1>5, <1>6, <1>7
<1>9. QED
  BY <1>2, <1>3, <1>7, <1>8

\* Where a request's undo lies: it is typed, and among those of its limit.
LEMMA UndoKnown ==
  ASSUME LimitsTypeOK, NEW r \in Requests, At(r, "undo")
  PROVE  Limit(r) \in Limits /\ jobs[r].entry \in ToUndo(Limit(r)) /\ r \in Undoing(Limit(r))
         /\ jobs[r] # NoJob
<1>1. jobs[r] # NoJob /\ r \in Undoing(Limit(r))
  BY DEF At, Undoing
<1>2. QED
  BY <1>1, LimitsTypes DEF ToUndo

\* A check in Redis that finds its limit reached.
LEMMA CheckReached ==
  ASSUME LimitsTypeOK, NEW r \in Requests, _redis_check(r), Reached(Limit(r))
  PROVE  /\ \A q \in Requests : At(q, "undo")' <=> At(q, "undo") \/ q = r
         /\ \A q \in Requests \ {r} : jobs'[q] = jobs[q]
         /\ jobs'[r].entry = NewEntry
         /\ \A l \in Limits : ToUndo(l)' = IF l = Limit(r) THEN ToUndo(l) \cup {NewEntry} ELSE ToUndo(l)
<1>1. jobs[r] \in Job /\ jobs' = [jobs EXCEPT ![r].pc = "undo", ![r].entry = NewEntry]
  BY LimitsTypes DEF _redis_check, At
<1>2. /\ jobs'[r] # NoJob /\ jobs'[r].pc = "undo" /\ jobs'[r].entry = NewEntry
      /\ jobs'[r].action = jobs[r].action /\ jobs'[r].step = jobs[r].step
  <2>1. jobs'[r] \in Job /\ jobs'[r].pc = "undo" /\ jobs'[r].entry = NewEntry
        /\ jobs'[r].action = jobs[r].action /\ jobs'[r].step = jobs[r].step
    BY <1>1, NewEntryType DEF LimitsTypeOK, Job
  <2>2. QED
    BY <2>1, NullsAssumption
<1>3. \A q \in Requests \ {r} : jobs'[q] = jobs[q]
  BY <1>1 DEF LimitsTypeOK
<1>4. ASSUME NEW l \in Limits
      PROVE  ToUndo(l)' = IF l = Limit(r) THEN ToUndo(l) \cup {NewEntry} ELSE ToUndo(l)
  <2>1. Undoing(l)' = IF l = Limit(r) THEN Undoing(l) \cup {r} ELSE Undoing(l)
    BY <1>2, <1>3 DEF Undoing, At, Limit, _redis_check
  <2>2. r \notin Undoing(l)
    BY DEF _redis_check, Undoing, At
  <2>3. QED
    BY <1>2, <1>3, <2>1, <2>2 DEF ToUndo, Undoing
<1>5. QED
  BY <1>2, <1>3, <1>4 DEF At

\* A request that goes on or is answered, not from an undo, leaves the undos alone.
LEMMA CheckLeavesUndos ==
  ASSUME LimitsTypeOK, NEW r \in Requests, jobs[r] # NoJob, ~At(r, "undo"), Passed(r) \/ Answered(r), NEW l \in Limits
  PROVE  ToUndo(l)' = ToUndo(l)
<1>1. jobs[r] # NoJob /\ r \notin Undoing(l)
  BY DEF At, Undoing
<1>2. ToUndo(l)' = {jobs[q].entry : q \in Undoing(l) \ {r}}
  BY <1>1, UndoingAfter
<1>3. QED
  BY <1>1, <1>2 DEF ToUndo

LEMMA AskLeavesUndos ==
  ASSUME LimitsTypeOK, NEW r \in Requests, Ask(r)
  PROVE  /\ \A q \in Requests : At(q, "undo")' <=> At(q, "undo")
         /\ \A q \in Requests : At(q, "undo") => jobs'[q] = jobs[q]
         /\ \A l : ToUndo(l)' = ToUndo(l)
<1>1. PICK a \in Actions : jobs' = [jobs EXCEPT ![r] = Checking(a, 1)]
  BY DEF Ask
<1>2. \A q \in Requests : At(q, "undo")' <=> At(q, "undo")
  BY <1>1 DEF Ask, At, Checking, LimitsTypeOK
<1>3. \A q \in Requests : At(q, "undo") => jobs'[q] = jobs[q]
  BY <1>1 DEF Ask, At, LimitsTypeOK
<1>4. QED
  BY <1>2, <1>3 DEF ToUndo, Undoing, Limit

LEMMA DistinctStep ==
  ASSUME LimitsTypeOK, EntriesAreMade, UndoesAreDistinct, [LimitsNext]_limitsVars
  PROVE  UndoesAreDistinct'
<1> SUFFICES ASSUME NEW r \in Requests, NEW q \in Requests, At(r, "undo")', At(q, "undo")',
                    jobs'[r].entry = jobs'[q].entry
             PROVE  r = q
  BY DEF UndoesAreDistinct
<1> DEFINE Same(p) == At(p, "undo") /\ jobs'[p] = jobs[p]
<1>1. CASE Same(r) /\ Same(q)
  BY <1>1 DEF UndoesAreDistinct
<1>2. CASE UNCHANGED jobs
  BY <1>1, <1>2 DEF At
<1>3. CASE Restart
  BY <1>3 DEF Restart, At
<1>4. ASSUME NEW p \in Requests, Ask(p)
      PROVE  Same(r) /\ Same(q)
  BY <1>4, AskLeavesUndos
<1>5. ASSUME NEW p \in Requests, jobs[p] # NoJob, Passed(p) \/ Answered(p) \/ Undone(p)
      PROVE  Same(r) /\ Same(q)
  <2>1. r # p /\ q # p
    BY <1>5, LeavesUndo
  <2>2. jobs'[r] = jobs[r] /\ jobs'[q] = jobs[q]
    BY <1>5, <2>1, LeavesUndo
  <2>3. QED
    BY <2>2 DEF At
<1>6. ASSUME NEW p \in Requests, _redis_check(p), Reached(Limit(p))
      PROVE  r = q
  <2>1. ASSUME NEW o \in Requests, o # p, At(o, "undo")'
        PROVE  jobs'[o].entry # NewEntry /\ Same(o)
    <3>1. Same(o)
      BY <1>6, <2>1, CheckReached
    <3>2. jobs[o].entry.no < checks /\ checks \in Nat
      BY <3>1, UndoKnown DEF EntriesAreMade, LimitsTypeOK
    <3>3. QED
      BY <3>1, <3>2 DEF NewEntry
  <2>2. jobs'[p].entry = NewEntry
    BY <1>6, CheckReached
  <2>3. CASE r = p \/ q = p
    BY <2>1, <2>2, <2>3
  <2>4. CASE r # p /\ q # p
    BY <1>1, <2>1, <2>4
  <2>5. QED
    BY <2>3, <2>4
<1>7. ASSUME NEW p \in Requests, _redis_check(p), ~Reached(Limit(p))
      PROVE  Same(r) /\ Same(q)
  <2>1. jobs[p] # NoJob /\ Passed(p)
    BY <1>7 DEF _redis_check, At
  <2>2. QED
    BY <1>5, <2>1
<1>8. ASSUME NEW p \in Requests,
             Reject(p) \/ Oldest(p) \/ RedisRaises(p) \/ BucketCheck(p) \/ SlidingCheck(p)
      PROVE  Same(r) /\ Same(q)
  <2>1. jobs[p] # NoJob /\ (Passed(p) \/ Answered(p) \/ Undone(p))
    BY <1>8 DEF Reject, Oldest, Undone, RedisRaises, BucketCheck, SlidingCheck, At
  <2>2. QED
    BY <1>5, <2>1
<1>9. QED
  BY <1>1, <1>2, <1>3, <1>4, <1>6, <1>7, <1>8 DEF LimitsNext, limitsVars, Tick, Lose, Recover

\* Over the step, the window of a limit only loses entries.
LEMMA WindowMoves ==
  ASSUME LimitsTypeOK, [LimitsNext]_limitsVars, NEW l \in Limits, NEW S \in SUBSET Entry, NEW T \in SUBSET Entry,
         InWindow(l, S) = InWindow(l, T)
  PROVE  /\ {e \in S : e.at > now' - Window[l]} = {e \in T : e.at > now' - Window[l]}
         /\ {e \in S : e.at > now' - Window[l]} \subseteq InWindow(l, S)
<1>1. now' \in {now, now + 1} /\ now \in Nat /\ Window[l] \in Nat
  BY Growth, FullIsNat DEF LimitsTypeOK
<1>2. ASSUME NEW e \in Entry, e.at > now' - Window[l]
      PROVE  e.at > now - Window[l]
  BY <1>1, <1>2 DEF Entry
<1>3. \A e \in Entry : e.at > now' - Window[l] => (e \in S <=> e \in T)
  BY <1>2 DEF InWindow
<1>4. QED
  BY <1>2, <1>3 DEF InWindow

LEMMA FreshEntry ==
  ASSUME LimitsTypeOK, EntriesAreMade, NEW l \in Limits
  PROVE  NewEntry \notin entries[l] \cup history[l] \cup admitted[l] \cup stuck[l] \cup ToUndo(l)
BY DEF EntriesAreMade, NewEntry, LimitsTypeOK

LEMMA RejectionsStep ==
  ASSUME LimitsTypeOK, LimitsTypeOK', EntriesAreMade, UndoesAreDistinct, RejectionsInv, [LimitsNext]_limitsVars
  PROVE  RejectionsInv'
<1> SUFFICES ASSUME NEW l \in Limits
             PROVE  /\ stuck'[l] \cap ToUndo(l)' = {}
                    /\ Shared(l) => /\ InWindow(l, entries[l])' = InWindow(l, admitted[l] \cup stuck[l] \cup ToUndo(l))'
                                    /\ admitted'[l] \cap (stuck'[l] \cup ToUndo(l)') = {}
  BY SharedStays DEF RejectionsInv, StuckIsOver, RejectionsDoNotCount
<1> DEFINE U == ToUndo(l)
           Sound(E, A, S, D) == /\ S \cap D = {}
                                /\ Shared(l) => /\ InWindow(l, E) = InWindow(l, A \cup S \cup D)
                                                /\ A \cap (S \cup D) = {}
<1>1. Sound(entries[l], admitted[l], stuck[l], U)
  BY DEF RejectionsInv, StuckIsOver, RejectionsDoNotCount
<1>2. NewEntry \notin entries[l] \cup admitted[l] \cup stuck[l] \cup U
  BY FreshEntry
<1>3. NewEntry.at > now - Window[l] /\ NewEntry \in Entry
  BY FullIsNat, NewEntryType DEF NewEntry, LimitsTypeOK
<1>4. U \subseteq Entry /\ entries[l] \subseteq Entry /\ admitted[l] \subseteq Entry /\ stuck[l] \subseteq Entry
  BY LimitsTypes DEF LimitsTypeOK, ToUndo, Undoing, At
<1>5. SUFFICES Sound(entries'[l], admitted'[l], stuck'[l], ToUndo(l)')
  <2>1. ToUndo(l)' \subseteq Entry /\ entries'[l] \subseteq Entry /\ admitted'[l] \subseteq Entry /\ stuck'[l] \subseteq Entry
    <3>1. ToUndo(l)' \subseteq ToUndo(l) \cup {NewEntry}
      BY Growth DEF Made
    <3>2. QED
      BY <1>3, <1>4, <3>1 DEF LimitsTypeOK
  <2>2. CASE Shared(l)
    BY <1>5, <2>1, <2>2, WindowMoves DEF InWindow
  <2>3. QED
    BY <1>5, <2>2
<1> HIDE DEF Sound
<1>6. CASE UNCHANGED <<entries, admitted, stuck, jobs>>
  <2>1. ToUndo(l)' = U
    BY <1>6 DEF ToUndo, Undoing, At, Limit
  <2>2. QED
    BY <1>1, <1>6, <2>1
<1>7. CASE Restart
  <2>1. ToUndo(l)' = {} /\ entries' = entries /\ stuck'[l] = stuck[l] \cup U
        /\ (Shared(l) => admitted'[l] = admitted[l])
    BY <1>7 DEF Restart, ToUndo, Undoing, At
  <2>2. QED
    BY <1>1, <2>1 DEF Sound, InWindow
<1>8. ASSUME NEW r \in Requests, Ask(r)
      PROVE  Sound(entries'[l], admitted'[l], stuck'[l], ToUndo(l)')
  BY <1>1, <1>8, AskLeavesUndos DEF Ask
<1>9. ASSUME NEW r \in Requests, _redis_check(r)
      PROVE  Sound(entries'[l], admitted'[l], stuck'[l], ToUndo(l)')
  <2>1. CASE l # Limit(r)
    <3>1. entries'[l] = entries[l] /\ admitted'[l] = admitted[l] /\ stuck' = stuck
      BY <1>9, <2>1 DEF _redis_check, Note, LimitsTypeOK
    <3>2. ToUndo(l)' = U
      <4>1. CASE Reached(Limit(r))
        BY <1>9, <2>1, <4>1, CheckReached
      <4>2. CASE ~Reached(Limit(r))
        BY <1>9, <4>2, CheckLeavesUndos DEF _redis_check, At
      <4>3. QED
        BY <4>1, <4>2
    <3>3. QED
      BY <1>1, <3>1, <3>2
  <2>2. CASE l = Limit(r) /\ Reached(l)
    <3>1. entries'[l] = InWindow(l, entries[l]) \cup {NewEntry} /\ admitted' = admitted /\ stuck' = stuck
      BY <1>9, <2>2 DEF _redis_check, LimitsTypeOK
    <3>2. ToUndo(l)' = U \cup {NewEntry}
      BY <1>9, <2>2, CheckReached
    <3>3. QED
      BY <1>1, <1>2, <1>3, <3>1, <3>2 DEF Sound, InWindow
  <2>3. CASE l = Limit(r) /\ ~Reached(l)
    <3>1. entries'[l] = InWindow(l, entries[l]) \cup {NewEntry} /\ admitted'[l] = admitted[l] \cup {NewEntry}
          /\ stuck' = stuck
      BY <1>9, <2>3 DEF _redis_check, Note, LimitsTypeOK
    <3>2. ToUndo(l)' = U
      BY <1>9, <2>3, CheckLeavesUndos DEF _redis_check, At
    <3>3. QED
      BY <1>1, <1>2, <1>3, <3>1, <3>2 DEF Sound, InWindow
  <2>4. QED
    BY <2>1, <2>2, <2>3
<1>10. ASSUME NEW r \in Requests, At(r, "undo"), Passed(r) \/ Undone(r)
       PROVE  ToUndo(l)' = IF l = Limit(r) THEN U \ {jobs[r].entry} ELSE U
  <2>1. ToUndo(l)' = {jobs[q].entry : q \in Undoing(l) \ {r}}
    BY <1>10, UndoKnown, UndoingAfter
  <2>2. CASE l = Limit(r)
    BY <1>10, <2>1, <2>2 DEF ToUndo, Undoing, UndoesAreDistinct
  <2>3. CASE l # Limit(r)
    BY <1>10, <2>1, <2>3 DEF ToUndo, Undoing
  <2>4. QED
    BY <2>2, <2>3
<1>11. ASSUME NEW r \in Requests, Reject(r)
       PROVE  Sound(entries'[l], admitted'[l], stuck'[l], ToUndo(l)')
  <2>1. ToUndo(l)' = IF l = Limit(r) THEN U \ {jobs[r].entry} ELSE U
    BY <1>10, <1>11 DEF Reject, Undone
  <2>2. /\ entries'[l] = IF l = Limit(r) THEN entries[l] \ {jobs[r].entry} ELSE entries[l]
        /\ admitted' = admitted /\ stuck' = stuck
    BY <1>11 DEF Reject, Undo, LimitsTypeOK
  <2>3. l = Limit(r) => jobs[r].entry \in U
    BY <1>11, UndoKnown DEF Reject
  <2>4. QED
    BY <1>1, <2>1, <2>2, <2>3 DEF Sound, InWindow
<1>12. ASSUME NEW r \in Requests, RedisRaises(r)
       PROVE  Sound(entries'[l], admitted'[l], stuck'[l], ToUndo(l)')
  <2>1. entries' = entries /\ admitted' = admitted /\ Passed(r)
    BY <1>12 DEF RedisRaises
  <2>2. CASE ~At(r, "undo") /\ jobs[r] # NoJob /\ UNCHANGED stuck
    BY <1>1, <2>1, <2>2, CheckLeavesUndos
  <2>3. CASE At(r, "undo") /\ stuck' = [stuck EXCEPT ![Limit(r)] = @ \cup {jobs[r].entry}]
    <3>1. ToUndo(l)' = IF l = Limit(r) THEN U \ {jobs[r].entry} ELSE U
      BY <1>10, <2>1, <2>3
    <3>2. stuck'[l] = IF l = Limit(r) THEN stuck[l] \cup {jobs[r].entry} ELSE stuck[l]
      BY <2>3 DEF LimitsTypeOK
    <3>3. l = Limit(r) => jobs[r].entry \in U
      BY <2>3, UndoKnown
    <3>4. QED
      BY <1>1, <2>1, <3>1, <3>2, <3>3 DEF Sound, InWindow
  <2>4. QED
    BY <1>12, <2>2, <2>3 DEF RedisRaises, At
<1>15. ASSUME NEW r \in Requests, Oldest(r)
       PROVE  Sound(entries'[l], admitted'[l], stuck'[l], ToUndo(l)')
  <2>1. ToUndo(l)' = U
    BY <1>15, CheckLeavesUndos DEF Oldest, At
  <2>2. QED
    BY <1>1, <1>15, <2>1 DEF Oldest
<1>13. ASSUME NEW r \in Requests, BucketCheck(r) \/ SlidingCheck(r)
       PROVE  Sound(entries'[l], admitted'[l], stuck'[l], ToUndo(l)')
  <2>1. entries' = entries /\ stuck' = stuck /\ ~Shared(Limit(r))
    BY <1>13 DEF BucketCheck, SlidingCheck
  <2>2. ToUndo(l)' = U
    BY <1>13, CheckLeavesUndos DEF BucketCheck, SlidingCheck, At
  <2>3. Shared(l) => admitted'[l] = admitted[l]
    BY <1>13, <2>1 DEF BucketCheck, SlidingCheck, Note, LimitsTypeOK
  <2>4. QED
    BY <1>1, <2>1, <2>2, <2>3 DEF Sound
<1>14. QED
  BY <1>6, <1>7, <1>8, <1>9, <1>11, <1>12, <1>13, <1>15 DEF LimitsNext, limitsVars, Tick, Lose, Recover

LEMMA HistoryStep ==
  ASSUME LimitsTypeOK, LimitsTypeOK', HistoryIsAdmitted, [LimitsNext]_limitsVars
  PROVE  HistoryIsAdmitted'
<1> SUFFICES ASSUME NEW l \in Sliding, ~Shared(l)
             PROVE  InWindow(l, history[l])' = InWindow(l, admitted[l])'
  BY SharedStays DEF HistoryIsAdmitted
<1>1. l \in Limits /\ InWindow(l, history[l]) = InWindow(l, admitted[l])
  BY RateLimitsAssumption DEF HistoryIsAdmitted
<1>2. SUFFICES InWindow(l, history'[l]) = InWindow(l, admitted'[l])
  <2>1. history'[l] \subseteq Entry /\ admitted'[l] \subseteq Entry
    BY <1>1 DEF LimitsTypeOK
  <2>2. QED
    BY <1>1, <1>2, <2>1, WindowMoves DEF InWindow
<1>3. CASE UNCHANGED <<history, admitted>>
  BY <1>1, <1>3
<1>4. CASE Restart
  BY <1>1, <1>4 DEF Restart
<1>5. ASSUME NEW r \in Requests, _redis_check(r)
      PROVE  UNCHANGED history /\ admitted'[l] = admitted[l]
  BY <1>1, <1>5 DEF _redis_check, Note, LimitsTypeOK
<1>6. ASSUME NEW r \in Requests, BucketCheck(r)
      PROVE  UNCHANGED history /\ admitted'[l] = admitted[l]
  BY <1>1, <1>6 DEF BucketCheck, Note, LimitsTypeOK
<1>7. ASSUME NEW r \in Requests, SlidingCheck(r)
      PROVE  InWindow(l, history'[l]) = InWindow(l, admitted'[l])
  <2>1. CASE UNCHANGED <<history, admitted>>
    BY <1>1, <2>1
  <2>2. CASE history' = [history EXCEPT ![Limit(r)] = InWindow(Limit(r), @) \cup {NewEntry}] /\ Note(Limit(r))
    <3>1. CASE l = Limit(r)
      BY <1>1, <2>2, <3>1 DEF Note, LimitsTypeOK, InWindow
    <3>2. CASE l # Limit(r)
      BY <1>1, <2>2, <3>2 DEF Note, LimitsTypeOK
    <3>3. QED
      BY <3>1, <3>2
  <2>3. QED
    BY <1>7, <2>1, <2>2 DEF SlidingCheck
<1>8. QED
  BY <1>1, <1>3, <1>4, <1>5, <1>6, <1>7
     DEF LimitsNext, limitsVars, Tick, Lose, Recover, Ask, Reject, Oldest, RedisRaises

\* Below capacity, one more check fits: those let through are among those counted.
LEMMA OneMoreFits ==
  ASSUME LimitsTypeOK, SetsAreFinite, NEW l \in Limits, NEW S, IsFiniteSet(S),
         InWindow(l, admitted[l]) \subseteq InWindow(l, S),
         ~(Cardinality(InWindow(l, S)) >= Capacity[l])
  PROVE  Cardinality(InWindow(l, admitted[l] \cup {NewEntry})) <= Capacity[l]
<1>1. IsFiniteSet(InWindow(l, S)) /\ Cardinality(InWindow(l, S)) \in Nat
  BY WindowIsFinite
<1>2. Cardinality(InWindow(l, S)) + 1 <= Capacity[l]
  BY <1>1, FullIsNat
<1>3. IsFiniteSet(InWindow(l, S) \cup {NewEntry})
      /\ Cardinality(InWindow(l, S) \cup {NewEntry}) <= Cardinality(InWindow(l, S)) + 1
  BY <1>1, OneMoreElement
<1>4. InWindow(l, admitted[l] \cup {NewEntry}) \subseteq InWindow(l, S) \cup {NewEntry}
  BY DEF InWindow
<1>5. Cardinality(InWindow(l, admitted[l] \cup {NewEntry})) <= Cardinality(InWindow(l, S) \cup {NewEntry})
  BY <1>3, <1>4, FS_Subset
<1>6. IsFiniteSet(InWindow(l, admitted[l] \cup {NewEntry}))
  BY <1>3, <1>4, FS_Subset
<1>7. /\ Cardinality(InWindow(l, admitted[l] \cup {NewEntry})) \in Nat
      /\ Cardinality(InWindow(l, S) \cup {NewEntry}) \in Nat
  BY <1>3, <1>6, FS_CardinalityType
<1>8. QED
  BY <1>1, <1>2, <1>3, <1>5, <1>7, FullIsNat

LEMMA WindowsStep ==
  ASSUME LimitsTypeOK, LimitsTypeOK', SetsAreFinite, SetsAreFinite', RejectionsDoNotCount, HistoryIsAdmitted,
         WindowsHold, [LimitsNext]_limitsVars
  PROVE  WindowsHold'
<1> SUFFICES ASSUME NEW l \in Limits, Shared(l) \/ l \in Sliding
             PROVE  Cardinality(InWindow(l, admitted[l]))' <= Capacity[l]
  BY SharedStays DEF WindowsHold
<1>1. Cardinality(InWindow(l, admitted[l])) <= Capacity[l]
  BY DEF WindowsHold
<1>2. SUFFICES Cardinality(InWindow(l, admitted'[l])) <= Capacity[l]
  <2>1. admitted'[l] \subseteq Entry /\ IsFiniteSet(admitted'[l])
    BY DEF LimitsTypeOK, SetsAreFinite
  <2>2. InWindow(l, admitted[l])' \subseteq InWindow(l, admitted'[l])
    BY <2>1, WindowMoves DEF InWindow
  <2>3. IsFiniteSet(InWindow(l, admitted'[l])) /\ Cardinality(InWindow(l, admitted'[l])) \in Nat
    BY <2>1, WindowIsFinite
  <2>4. /\ Cardinality(InWindow(l, admitted[l])') \in Nat
        /\ Cardinality(InWindow(l, admitted[l])') <= Cardinality(InWindow(l, admitted'[l]))
    BY <2>2, <2>3, FS_Subset, FS_CardinalityType
  <2>5. QED
    BY <1>2, <2>3, <2>4, FullIsNat
<1>3. CASE admitted'[l] = admitted[l]
  BY <1>1, <1>3
<1>4. CASE Restart
  <2>1. admitted'[l] = admitted[l] \/ admitted'[l] = {}
    BY <1>4 DEF Restart
  <2>2. InWindow(l, {}) = {} /\ Cardinality({}) = 0
    BY FS_EmptySet DEF InWindow
  <2>3. QED
    BY <1>1, <2>1, <2>2, FullIsNat
<1>5. ASSUME NEW r \in Requests, _redis_check(r)
      PROVE  Cardinality(InWindow(l, admitted'[l])) <= Capacity[l]
  <2>1. CASE l # Limit(r) \/ Reached(l)
    BY <1>3, <1>5, <2>1 DEF _redis_check, Note, LimitsTypeOK
  <2>2. CASE l = Limit(r) /\ ~Reached(l)
    <3>1. admitted'[l] = admitted[l] \cup {NewEntry} /\ Shared(l)
      BY <1>5, <2>2 DEF _redis_check, Note, LimitsTypeOK
    <3>2. InWindow(l, admitted[l]) \subseteq InWindow(l, entries[l])
      BY <3>1 DEF RejectionsDoNotCount, InWindow
    <3>3. IsFiniteSet(entries[l])
      BY DEF SetsAreFinite
    <3>4. QED
      BY <2>2, <3>1, <3>2, <3>3, OneMoreFits DEF Reached
  <2>3. QED
    BY <2>1, <2>2
<1>6. ASSUME NEW r \in Requests, SlidingCheck(r)
      PROVE  Cardinality(InWindow(l, admitted'[l])) <= Capacity[l]
  <2>1. CASE l # Limit(r) \/ Cardinality(InWindow(l, history[l])) >= Capacity[l]
    BY <1>3, <1>6, <2>1 DEF SlidingCheck, Note, LimitsTypeOK
  <2>2. CASE l = Limit(r) /\ ~(Cardinality(InWindow(l, history[l])) >= Capacity[l])
    <3>1. Note(l) /\ ~Shared(l) /\ l \in Sliding
      BY <1>6, <2>2 DEF SlidingCheck
    <3>2. admitted'[l] = admitted[l] \cup {NewEntry}
      BY <3>1 DEF Note, LimitsTypeOK
    <3>3. InWindow(l, admitted[l]) \subseteq InWindow(l, history[l])
      BY <3>1 DEF HistoryIsAdmitted
    <3>4. IsFiniteSet(history[l])
      BY DEF SetsAreFinite
    <3>5. QED
      BY <2>2, <3>2, <3>3, <3>4, OneMoreFits
  <2>3. QED
    BY <2>1, <2>2
<1>7. ASSUME NEW r \in Requests, BucketCheck(r)
      PROVE  admitted'[l] = admitted[l]
  BY <1>7 DEF BucketCheck, Note, LimitsTypeOK
<1>8. QED
  BY <1>3, <1>4, <1>5, <1>6, <1>7
     DEF LimitsNext, limitsVars, Tick, Lose, Recover, Ask, Reject, Oldest, RedisRaises

LEMMA SinceIsFinite ==
  ASSUME SetsAreFinite, NEW l \in Limits, NEW s
  PROVE  IsFiniteSet(Since(l, s)) /\ Cardinality(Since(l, s)) \in Nat
<1>1. IsFiniteSet(admitted[l]) /\ Since(l, s) \subseteq admitted[l]
  BY DEF SetsAreFinite, Since
<1>2. QED
  BY <1>1, FS_Subset, FS_CardinalityType

LEMMA BucketsStep ==
  ASSUME LimitsTypeOK, LimitsTypeOK', SetsAreFinite, EntriesAreMade, BucketsBalance, [LimitsNext]_limitsVars
  PROVE  BucketsBalance'
<1> SUFFICES ASSUME NEW l \in Limits \ Sliding, ~Shared(l), NEW s \in 0..now'
             PROVE  tokens'[l] + Window[l] * Cardinality(Since(l, s)') <= Full(l) + Capacity[l] * (now' - s)
  BY SharedStays DEF BucketsBalance, Full
<1> DEFINE C == Capacity[l]  W == Window[l]  F == Full(l)
<1>0. C \in Nat \ {0} /\ W \in Nat \ {0} /\ F \in Nat /\ now \in Nat /\ tokens[l] \in Nat /\ tokens[l] <= F
  BY FullIsNat DEF LimitsTypeOK
<1>1. s \in 0..now => tokens[l] + W * Cardinality(Since(l, s)) <= F + C * (now - s)
  BY DEF BucketsBalance
<1>2. CASE UNCHANGED now /\ tokens'[l] = tokens[l] /\ admitted'[l] = admitted[l]
  BY <1>1, <1>2 DEF Since
<1>3. CASE Tick
  <2>1. now' = now + 1 /\ tokens'[l] <= tokens[l] + C /\ tokens'[l] <= F /\ tokens'[l] \in Nat
        /\ admitted' = admitted
    BY <1>0, <1>3 DEF Tick, Refilled, LimitsTypeOK
  <2>2. CASE s = now + 1
    <3>1. Since(l, s)' = {}
      <4>1. \A e \in admitted[l] : e \in Entry /\ e.at <= now
        BY DEF EntriesAreMade, LimitsTypeOK
      <4>2. \A e \in admitted[l] : ~(e.at >= s)
        BY <1>0, <2>2, <4>1 DEF Entry
      <4>3. QED
        BY <2>1, <4>2 DEF Since
    <3>2. Cardinality(Since(l, s)') = 0
      BY <3>1, FS_EmptySet
    <3>3. QED
      BY <1>0, <2>1, <2>2, <3>2
  <2>3. CASE s \in 0..now
    <3>1. Since(l, s)' = Since(l, s)
      BY <2>1 DEF Since
    <3>2. C * (now' - s) = C * (now - s) + C
      BY <1>0, <2>1, <2>3
    <3> DEFINE n == Cardinality(Since(l, s))  x == W * n  y == C * (now - s)
    <3>3. x \in Nat /\ y \in Nat
      <4>1. n \in Nat /\ now - s \in Nat
        BY <1>0, <2>3, SinceIsFinite
      <4> HIDE DEF n
      <4>2. QED
        BY <1>0, <4>1
    <3>4. tokens[l] + x <= F + y
      BY <1>1, <2>3
    <3>5. x = W * Cardinality(Since(l, s)') /\ C * (now' - s) = y + C
      BY <3>1, <3>2
    <3> HIDE DEF x, y, F, C, W
    <3>6. tokens'[l] + x <= F + (y + C)
      BY <1>0, <2>1, <3>3, <3>4
    <3>7. QED
      BY <3>5, <3>6 DEF F, C, W
  <2>4. QED
    BY <1>0, <2>1, <2>2, <2>3
<1>4. CASE Restart
  <2>1. admitted'[l] = {} /\ tokens'[l] = F /\ now' = now
    BY <1>4 DEF Restart
  <2>2. Since(l, s)' = {}
    BY <2>1 DEF Since
  <2>3. Cardinality(Since(l, s)') = 0
    BY <2>2, FS_EmptySet
  <2>4. now' - s \in Nat
    BY <1>0, <2>1
  <2>5. C * (now' - s) \in Nat
    BY <1>0, <2>4
  <2>6. QED
    BY <1>0, <2>1, <2>3, <2>5
<1>5. ASSUME NEW r \in Requests, BucketCheck(r), l = Limit(r), consume(l)
      PROVE  tokens'[l] + W * Cardinality(Since(l, s)') <= F + C * (now' - s)
  <2>1. tokens'[l] = tokens[l] - W /\ admitted'[l] = admitted[l] \cup {NewEntry} /\ now' = now
    BY <1>5 DEF BucketCheck, Note, LimitsTypeOK
  <2> DEFINE n == Cardinality(Since(l, s))  m == Cardinality(Since(l, s)')
  <2>2. n \in Nat /\ IsFiniteSet(Since(l, s))
    BY SinceIsFinite
  <2>3. Since(l, s)' \subseteq Since(l, s) \cup {NewEntry}
    BY <2>1 DEF Since
  <2>4. m \in Nat /\ m <= n + 1
    <3>1. /\ IsFiniteSet(Since(l, s) \cup {NewEntry}) /\ Cardinality(Since(l, s) \cup {NewEntry}) <= n + 1
          /\ Cardinality(Since(l, s) \cup {NewEntry}) \in Nat
      BY <2>2, OneMoreElement
    <3>2. IsFiniteSet(Since(l, s)') /\ m <= Cardinality(Since(l, s) \cup {NewEntry})
      BY <2>3, <3>1, FS_Subset
    <3>3. m \in Nat
      BY <3>2, FS_CardinalityType
    <3>4. QED
      BY <2>2, <3>1, <3>2, <3>3
  <2>5. tokens[l] + W * n <= F + C * (now - s)
    BY <1>1, <2>1
  <2> HIDE DEF n, m, C, W, F
  <2>6. W * m <= W * (n + 1) /\ W * (n + 1) = W * n + W /\ W * m \in Nat /\ W * n \in Nat
    BY <1>0, <2>2, <2>4
  <2>7. C * (now - s) \in Int
    BY <1>0, <2>1
  <2>8. tokens[l] - W + W * m <= F + C * (now - s)
    BY <1>0, <2>5, <2>6, <2>7
  <2>9. QED
    BY <2>1, <2>8 DEF W, C, F, m
<1>6. ASSUME NEW r \in Requests, BucketCheck(r), l # Limit(r) \/ ~consume(l)
      PROVE  UNCHANGED now /\ tokens'[l] = tokens[l] /\ admitted'[l] = admitted[l]
  BY <1>6 DEF BucketCheck, Note, LimitsTypeOK
<1>7. ASSUME NEW r \in Requests, _redis_check(r) \/ SlidingCheck(r)
      PROVE  UNCHANGED now /\ tokens'[l] = tokens[l] /\ admitted'[l] = admitted[l]
  BY <1>7 DEF _redis_check, SlidingCheck, Note, LimitsTypeOK
<1>8. QED
  BY <1>2, <1>3, <1>4, <1>5, <1>6, <1>7 DEF LimitsNext, limitsVars, Lose, Recover, Ask, Reject, Oldest, RedisRaises

\* What a bucket gives in a window follows from its balance at the window's start.
LEMMA BalanceBounds ==
  ASSUME LimitsInv, NEW l \in Limits, ~Shared(l), l \notin Sliding
  PROVE  Cardinality(InWindow(l, admitted[l])) * Window[l] <= Full(l) + Capacity[l] * (Window[l] - 1)
<1> DEFINE C == Capacity[l]  W == Window[l]  F == Full(l)
           s == IF now - W + 1 >= 0 THEN now - W + 1 ELSE 0
           n == Cardinality(Since(l, s))
<1>1. C \in Nat \ {0} /\ W \in Nat \ {0} /\ F \in Nat /\ now \in Nat /\ tokens[l] \in Nat
  BY FullIsNat DEF LimitsInv, LimitsTypeOK
<1>2. s \in 0..now /\ now - s <= W - 1 /\ now - s \in Nat
  BY <1>1
<1>3. InWindow(l, admitted[l]) = Since(l, s)
  <2>1. \A e \in admitted[l] : e.at \in Nat
    BY RateLimitsAssumption DEF LimitsInv, LimitsTypeOK, Entry
  <2>2. QED
    BY <1>1, <2>1 DEF InWindow, Since
<1>4. tokens[l] + W * n <= F + C * (now - s)
  BY <1>2 DEF LimitsInv, BucketsBalance
<1>5. n \in Nat
  BY SinceIsFinite DEF LimitsInv
<1> HIDE DEF s, n, C, W, F
<1>6. C * (now - s) <= C * (W - 1) /\ C * (now - s) \in Nat /\ C * (W - 1) \in Nat /\ W * n \in Nat /\ n * W = W * n
  BY <1>1, <1>2, <1>5
<1>7. n * W <= F + C * (W - 1)
  BY <1>1, <1>4, <1>6
<1>8. QED
  BY <1>3, <1>7 DEF C, W, F, n

\* The invariant of the limits: types, numbered entries, distinct undos, what
\* Redis and the process hold of a window, and the balance of the buckets.
THEOREM LimitsInvariant == LimitsSpec => []LimitsInv
<1>1. LimitsInv /\ [LimitsNext]_limitsVars => LimitsInv'
  <2> SUFFICES ASSUME LimitsInv, [LimitsNext]_limitsVars PROVE LimitsInv'
    OBVIOUS
  <2>1. LimitsTypeOK'
    BY TypeStep DEF LimitsInv
  <2>2. EntriesAreMade' /\ SetsAreFinite'
    BY EntriesStep DEF LimitsInv
  <2>3. UndoesAreDistinct'
    BY DistinctStep DEF LimitsInv
  <2>4. RejectionsInv'
    BY <2>1, RejectionsStep DEF LimitsInv
  <2>5. HistoryIsAdmitted'
    BY <2>1, HistoryStep DEF LimitsInv
  <2>6. WindowsHold'
    BY <2>1, <2>2, WindowsStep DEF LimitsInv, RejectionsInv
  <2>7. BucketsBalance'
    BY <2>1, BucketsStep DEF LimitsInv
  <2>8. QED
    BY <2>1, <2>2, <2>3, <2>4, <2>5, <2>6, <2>7 DEF LimitsInv
<1>2. QED
  BY InitInv, <1>1, PTL DEF LimitsSpec

\* The types of the limits, and no bucket above its capacity.
THEOREM LimitsTypeCorrect == LimitsSpec => []LimitsTypeOK
<1>1. LimitsInv => LimitsTypeOK
  BY DEF LimitsInv
<1>2. QED
  BY <1>1, LimitsInvariant, PTL

\* Of what was let through, what a failing Redis did not let through is among
\* what was counted.
LEMMA UncheckedOnTop ==
  ASSUME LimitsInv, NEW l \in Limits
  PROVE  \E n \in Int :
           /\ n = Cardinality(InWindow(l, admitted[l] \cup unchecked[l])) - Cardinality(InWindow(l, unchecked[l]))
           /\ n <= Cardinality(InWindow(l, admitted[l])) /\ Cardinality(InWindow(l, admitted[l])) \in Nat
<1> DEFINE A == InWindow(l, admitted[l])  U == InWindow(l, unchecked[l])
           B == InWindow(l, admitted[l] \cup unchecked[l])
<1>1. IsFiniteSet(A) /\ IsFiniteSet(U) /\ Cardinality(A) \in Nat /\ Cardinality(U) \in Nat
  BY WindowIsFinite DEF LimitsInv, SetsAreFinite
<1>2. B = A \cup U
  BY DEF InWindow
<1>3. IsFiniteSet(A \cap U) /\ Cardinality(A \cap U) \in Nat
  BY <1>1, FS_Subset, FS_CardinalityType
<1>4. Cardinality(B) = Cardinality(A) + Cardinality(U) - Cardinality(A \cap U)
  BY <1>1, <1>2, FS_Union
<1>5. QED
  BY <1>1, <1>3, <1>4

\* For any limits, windows and number of requests at a time: of what a window of
\* a limit lets through, at most what the limit and its kind allow was not let
\* through by a Redis that failed.
THEOREM LimitsCorrect == LimitsSpec => []LimitHolds
<1>1. LimitsInv => LimitHolds
  <2> SUFFICES ASSUME LimitsInv, NEW l \in Limits
               PROVE  LET n == Cardinality(InWindow(l, admitted[l] \cup unchecked[l]))
                                 - Cardinality(InWindow(l, unchecked[l]))
                      IN IF Shared(l) \/ l \in Sliding THEN n <= Capacity[l]
                         ELSE n * Window[l] <= Full(l) + Capacity[l] * (Window[l] - 1)
    BY DEF LimitHolds
  <2>1. PICK n \in Int :
          /\ n = Cardinality(InWindow(l, admitted[l] \cup unchecked[l])) - Cardinality(InWindow(l, unchecked[l]))
          /\ n <= Cardinality(InWindow(l, admitted[l])) /\ Cardinality(InWindow(l, admitted[l])) \in Nat
    BY UncheckedOnTop
  <2>2. CASE Shared(l) \/ l \in Sliding
    <3>1. Cardinality(InWindow(l, admitted[l])) <= Capacity[l] /\ Capacity[l] \in Nat
      BY <2>2, FullIsNat DEF LimitsInv, WindowsHold
    <3>2. n <= Capacity[l]
      BY <2>1, <3>1
    <3>3. QED
      BY <2>1, <2>2, <3>2
  <2>3. CASE ~(Shared(l) \/ l \in Sliding)
    <3> DEFINE m == Cardinality(InWindow(l, admitted[l]))  W == Window[l]  R == Full(l) + Capacity[l] * (Window[l] - 1)
    <3>1. m * W <= R
      BY <2>3, BalanceBounds
    <3>2. W \in Nat /\ m \in Nat /\ n <= m
      BY <2>1, FullIsNat
    <3>3. R \in Int
      BY FullIsNat
    <3> HIDE DEF m, W, R
    <3>4. n * W <= m * W /\ n * W \in Int /\ m * W \in Int
      BY <2>1, <3>2
    <3>5. n * W <= R
      BY <3>1, <3>3, <3>4
    <3>6. QED
      BY <2>1, <2>3, <3>5 DEF W, R
  <2>4. QED
    BY <2>2, <2>3
<1>2. QED
  BY <1>1, LimitsInvariant, PTL

\* A rejected check leaves nothing behind in Redis, but for an outage or a
\* restart between the check and its undoing.
THEOREM RejectionsCorrect == LimitsSpec => []RejectionsDoNotCount
<1>1. LimitsInv => RejectionsDoNotCount
  BY DEF LimitsInv, RejectionsInv
<1>2. QED
  BY <1>1, LimitsInvariant, PTL
=============================================================================
