------------------------------ MODULE History ------------------------------
(***************************************************************************)
(* The message list of one conversation: what the agent loop               *)
(* (core/agent.py), the compression of its context (core/context.py), the  *)
(* message handler (handlers/agent_handler.py) and the router's summarize, *)
(* retry, rollback, clear and resume (handlers/ws_router.py) do to it.     *)
(*                                                                         *)
(* The API accepts a list only if every tool_use is answered by a          *)
(* tool_result in the next message and every tool_result answers a         *)
(* tool_use of the message before.                                         *)
(*                                                                         *)
(* Lists are Python objects: the handler appends to the session's own      *)
(* list, retry pops from it, and summarize reads the one it got before its *)
(* await, while others put a new list into the session.  `heap' holds the  *)
(* lists that several parties can reach; the loop's own list, a copy made  *)
(* by repair_tool_use_pairs, is `working'.  Steps are the code between two *)
(* awaits.  One turn of the conversation runs at a time and one request of *)
(* each kind is in flight: what two turns do to the registry is AgentRuns. *)
(***************************************************************************)
EXTENDS Naturals, Sequences, FiniteSets

CONSTANTS Refs,         \* identities of list objects
          Keep,         \* messages compression keeps: keep_recent * 2 (8)
          SummaryMin,   \* summarize refuses shorter lists (6)
          SummaryKeep,  \* messages summarize keeps (4)
          MaxRounds,    \* max_turns of the loop
          MaxIds,       \* bound on tool calls
          MaxPrompts,   \* bound on turns
          MaxEdits,     \* bound on summarize, retry, rollback, clear, resume
          NoRef,        \* no list
          NoList        \* no snapshot, nothing loaded

ASSUME ConstantsAssumption ==
  /\ Refs \subseteq Nat
  /\ Keep \in Nat \ {0} /\ SummaryKeep \in Nat \ {0} /\ SummaryMin \in Nat
  /\ MaxRounds \in Nat \ {0}
  /\ MaxIds \in Nat /\ MaxPrompts \in Nat /\ MaxEdits \in Nat
  /\ NoRef \notin Refs

Ids == 1 .. MaxIds

\* What the rules of the API see of a message.
Message == [role : {"user", "assistant"}, uses : SUBSET Ids, results : SUBSET Ids]

ASSUME NullAssumption == NoList \notin Seq(Message)

VARIABLES
  heap,        \* heap[r]: the value of list object r
  session,     \* _conv_sessions[cid]["messages"], NoRef without a session
  turn,        \* where the turn's coroutine is suspended
  own,         \* the handler's `messages'
  working,     \* agent.run's `messages'
  round,       \* iterations of the loop so far
  summarizing, \* the list a summarize request has in hand
  clearing,    \* a clear (or the cleanup of the socket) awaits its save
  loading,     \* what a resume request has read from the database
  resending,   \* retry awaits the rate limit before it sends the message
  detached,    \* the list of a session destroyed while its save is under way
  snapshot,    \* _compression_snapshots[cid]
  stored,      \* the messages table
  nextId, prompts, edits,  \* counters
  cut          \* calls whose result a summary kept without them (history)

lists    == <<heap, session>>
coroutine == <<turn, own, working, round>>
requests == <<summarizing, clearing, loading, resending>>
kept     == <<detached, snapshot, stored>>
counters == <<nextId, prompts, edits, cut>>
historyVars == <<lists, coroutine, requests, kept, counters>>

\* The awaits inside the handler's try block.
InTry == {"counting", "compressing", "streaming", "tools", "saving", "announcing"}
TurnStates == InTry \cup
  {"idle", "created", "preparing", "replying", "failing", "closing"}
Saving == {"saving", "replying", "failing"}
-----------------------------------------------------------------------------
(* Messages and lists *)

UserMessage   == [role |-> "user", uses |-> {}, results |-> {}]
AssistantText == [role |-> "assistant", uses |-> {}, results |-> {}]
Calls(U)      == [role |-> "assistant", uses |-> U, results |-> {}]
Results(U)    == [role |-> "user", uses |-> {}, results |-> U]

\* tool_use ids of message i that the next message does not answer.
Missing(l, i) ==
  l[i].uses \ (IF i < Len(l) /\ l[i + 1].role = "user" THEN l[i + 1].results ELSE {})

\* tool_result ids of message i that answer nothing in the message before.
Orphaned(l, i) == l[i].results \ (IF i = 1 THEN {} ELSE l[i - 1].uses)

Dangling(l) == UNION {Missing(l, i) : i \in DOMAIN l}
Orphans(l)  == UNION {Orphaned(l, i) : i \in DOMAIN l}
Valid(l)    == Dangling(l) = {} /\ Orphans(l) = {}

LastN(l, n) == IF Len(l) <= n THEN l ELSE SubSeq(l, Len(l) - n + 1, Len(l))

\* repair_tool_use_pairs: a list in which every tool_use is answered, in the
\* user message that follows it or in one inserted for it.
repair_tool_use_pairs(l) ==
  LET Answered(i) == IF i > 1 /\ l[i].role = "user"
                     THEN [l[i] EXCEPT !.results = @ \cup Missing(l, i - 1)] ELSE l[i]
      needing == {i \in DOMAIN l : Missing(l, i) # {} /\ ~(i < Len(l) /\ l[i + 1].role = "user")}
      Place(i) == i + Cardinality({j \in needing : j < i})
  IN [k \in 1 .. Len(l) + Cardinality(needing) |->
        IF \E i \in DOMAIN l : Place(i) = k
        THEN Answered(CHOOSE i \in DOMAIN l : Place(i) = k)
        ELSE Results(Missing(l, CHOOSE i \in needing : Place(i) = k - 1))]

starts_with_tool_result(m) == m.results # {}

boundaries_M_unguarded(l) == (Len(l) - Keep + 1) .. Len(l)

\* Where compress_if_needed may split: at or after the last Keep messages,
\* never in front of a tool_result.
boundaries(l) ==
  {i \in (Len(l) - Keep + 1) .. Len(l) : ~starts_with_tool_result(l[i])}

Compressible(l) == Len(l) > Keep /\ boundaries(l) # {}

compress(l) ==
  LET split == CHOOSE i \in boundaries(l) : \A j \in boundaries(l) : i <= j
  IN <<UserMessage, AssistantText>> \o SubSeq(l, split, Len(l))

\* retry: pop until the last message is a user's.
pop_to_user(l) ==
  LET users == {i \in DOMAIN l : l[i].role = "user"}
  IN IF users = {} THEN <<>>
     ELSE SubSeq(l, 1, CHOOSE i \in users : \A j \in users : j <= i)

\* A new list object.
Fresh(r) ==
  LET free == Refs \ {session, own, summarizing, detached}
  IN r \in free /\ \A q \in free : r <= q

New(r, l) == Fresh(r) /\ heap' = [heap EXCEPT ![r] = l]

HistoryInit ==
  /\ heap = [r \in Refs |-> <<>>]
  /\ session = NoRef
  /\ turn = "idle" /\ own = NoRef /\ working = <<>> /\ round = 0
  /\ summarizing = NoRef /\ clearing = FALSE /\ loading = NoList /\ resending = FALSE
  /\ detached = NoRef /\ snapshot = NoList /\ stored = <<>>
  /\ nextId = 1 /\ prompts = 0 /\ edits = 0 /\ cut = {}
-----------------------------------------------------------------------------
(* The turn: handle_user_message and agent.run *)

\* _handle_user_msg: a session with an empty list if there is none, then the
\* task, which reads the list only when it runs.
StartTurn ==
  /\ turn = "idle"
  /\ prompts < MaxPrompts
  /\ prompts' = prompts + 1
  /\ turn' = "created"
  /\ \/ session # NoRef /\ UNCHANGED lists
     \/ session = NoRef /\ session' \in Refs /\ New(session', <<>>)
  /\ UNCHANGED <<own, working, round, nextId, edits, cut>>

SendMessage == StartTurn /\ UNCHANGED <<requests, kept>>

\* The user's message goes into the session's own list.  A session destroyed
\* since then leaves the handler with a list nobody else has.
BeginTurn ==
  /\ turn = "created"
  /\ turn' = "preparing"
  /\ \/ /\ session # NoRef
        /\ own' = session
        /\ heap' = [heap EXCEPT ![session] = Append(@, UserMessage)]
     \/ session = NoRef /\ own' \in Refs /\ New(own', <<UserMessage>>)
  /\ UNCHANGED <<session, working, round, requests, kept, counters>>

\* The coroutine is over, whatever it returned or raised.
Over ==
  /\ turn' = "idle" /\ own' = NoRef /\ working' = <<>> /\ round' = 0
  /\ detached' = NoRef

\* A wizard's reply, a built-in command, an exception or a cancellation
\* outside the try block: nothing is recorded but what already is.
EndUnrecorded ==
  /\ turn \in {"created", "preparing", "replying", "failing", "closing"}
  /\ Over
  /\ UNCHANGED <<lists, requests, snapshot, stored, counters>>

\* conv_session_set: the session, if there is one, gets the handler's list.
\* save_conversation then has something to save or returns at once.
PutIntoSession(r, whenSaving, otherwise) ==
  /\ session' = IF session = NoRef THEN NoRef ELSE r
  /\ turn' = IF session = NoRef THEN otherwise ELSE whenSaving

\* An @agent mention or a skill that runs in a sub-agent.
ReplyDirectly ==
  /\ turn = "preparing"
  /\ heap' = [heap EXCEPT ![own] = Append(@, AssistantText)]
  /\ PutIntoSession(own, "replying", "closing")
  /\ UNCHANGED <<own, working, round, requests, kept, counters>>

\* agent.run starts on a copy; the first thing it awaits is a token count.
EnterLoop ==
  /\ turn = "preparing"
  /\ turn' = "counting"
  /\ working' = repair_tool_use_pairs(heap[own])
  /\ UNCHANGED <<lists, own, round, requests, kept, counters>>

\* Below the threshold.
CountSuffices ==
  /\ turn = "counting"
  /\ turn' = "streaming"
  /\ UNCHANGED <<lists, own, working, round, requests, kept, counters>>

\* Above it: the snapshot is taken before it is known whether the list can be
\* split at all.
CountExceeds ==
  /\ turn = "counting"
  /\ snapshot' = working
  /\ turn' = IF Compressible(working) THEN "compressing" ELSE "streaming"
  /\ UNCHANGED <<lists, own, working, round, requests, detached, stored, counters>>

\* The summary arrives, or its request fails and the list stays.
CompressionEnds ==
  /\ turn = "compressing"
  /\ turn' = "streaming"
  /\ working' \in {working, compress(working)}
  /\ UNCHANGED <<lists, own, round, requests, kept, counters>>

\* The loop is over: handle_user_message gets the list, puts it into the
\* session and saves it.
FinishLoop(l) ==
  /\ own' \in Refs /\ New(own', l)
  /\ PutIntoSession(own', "saving", "announcing")
  /\ working' = <<>>

\* The model answers with text.  It answers only a list the API accepts.
AnswerText ==
  /\ turn = "streaming" /\ Valid(working)
  /\ FinishLoop(Append(working, AssistantText))
  /\ UNCHANGED <<round, requests, kept, counters>>

AnswerCalls(n) ==
  LET last == nextId + n - 1 IN
  /\ turn = "streaming" /\ Valid(working)
  /\ last <= MaxIds
  /\ working' = Append(working, Calls(nextId .. last))
  /\ nextId' = last + 1
  /\ turn' = "tools"
  /\ UNCHANGED <<lists, own, round, requests, kept, prompts, edits, cut>>

ToolsReturn_M_one_round_more ==
  LET l == Append(working, Results(working[Len(working)].uses)) IN
  /\ turn = "tools"
  /\ round' = round + 1
  /\ \/ /\ round' <= MaxRounds
        /\ turn' = "counting"
        /\ working' = l
        /\ UNCHANGED <<lists, own>>
     \/ round' > MaxRounds /\ FinishLoop(l)
  /\ UNCHANGED <<requests, kept, counters>>

\* Every tool has returned, an error too is a result.
ToolsReturn ==
  LET l == Append(working, Results(working[Len(working)].uses)) IN
  /\ turn = "tools"
  /\ round' = round + 1
  /\ \/ /\ round' < MaxRounds
        /\ turn' = "counting"
        /\ working' = l
        /\ UNCHANGED <<lists, own>>
     \/ round' = MaxRounds /\ FinishLoop(l)
  /\ UNCHANGED <<requests, kept, counters>>

SavedList == heap[IF detached = NoRef THEN session ELSE detached]

\* The transaction replaces the messages of the conversation.
SaveTurn ==
  /\ turn = "saving"
  /\ stored' = SavedList
  /\ turn' = "announcing"
  /\ detached' = NoRef
  /\ UNCHANGED <<lists, own, working, round, requests, snapshot, counters>>

TurnCompletes ==
  /\ turn = "announcing"
  /\ Over
  /\ UNCHANGED <<lists, requests, snapshot, stored, counters>>

FailInTry_M_keeps_progress ==
  /\ turn \in InTry
  /\ own' \in Refs
  /\ New(own', IF working = <<>> THEN heap[own] ELSE working)
  /\ PutIntoSession(own', "failing", "closing")
  /\ working' = <<>> /\ detached' = NoRef
  /\ UNCHANGED <<round, requests, snapshot, stored, counters>>

FailInTry_M_repairs_progress ==
  /\ turn \in InTry
  /\ own' \in Refs
  /\ New(own', repair_tool_use_pairs(IF working = <<>> THEN heap[own] ELSE working))
  /\ PutIntoSession(own', "failing", "closing")
  /\ working' = <<>> /\ detached' = NoRef
  /\ UNCHANGED <<round, requests, snapshot, stored, counters>>

\* Stopped, or an exception of the API, a tool or the save: both except
\* branches repair the handler's list, which is the one from before the loop
\* unless the loop had returned, and save it.
FailInTry ==
  /\ turn \in InTry
  /\ own' \in Refs /\ New(own', repair_tool_use_pairs(heap[own]))
  /\ PutIntoSession(own', "failing", "closing")
  /\ working' = <<>> /\ detached' = NoRef
  /\ UNCHANGED <<round, requests, snapshot, stored, counters>>

\* The save of a direct reply or of an except branch.
SaveAndEnd ==
  /\ turn \in {"replying", "failing"}
  /\ stored' = SavedList
  /\ Over
  /\ UNCHANGED <<lists, requests, snapshot, counters>>

Turn ==
  \/ BeginTurn \/ EndUnrecorded \/ ReplyDirectly \/ EnterLoop
  \/ CountSuffices \/ CountExceeds \/ CompressionEnds
  \/ AnswerText \/ (\E n \in 1 .. 2 : AnswerCalls(n)) \/ ToolsReturn
  \/ SaveTurn \/ TurnCompletes \/ FailInTry \/ SaveAndEnd
-----------------------------------------------------------------------------
(* The router's requests on the same conversation *)

Edit == edits < MaxEdits /\ edits' = edits + 1

SummarizeContext ==
  /\ summarizing = NoRef /\ session # NoRef
  /\ Len(heap[session]) >= SummaryMin
  /\ Edit
  /\ summarizing' = session
  /\ UNCHANGED <<lists, coroutine, clearing, loading, resending, kept, nextId,
                 prompts, cut>>

\* The last messages are taken from the list object after the await and go
\* into whatever session there is by then.
SummaryArrives ==
  LET l == <<UserMessage>> \o LastN(heap[summarizing], SummaryKeep) IN
  /\ summarizing # NoRef
  /\ summarizing' = NoRef
  /\ \/ /\ session # NoRef
        /\ session' \in Refs /\ New(session', l)
        /\ cut' = cut \cup Orphans(l)
     \/ session = NoRef /\ UNCHANGED <<lists, cut>>
  /\ UNCHANGED <<coroutine, clearing, loading, resending, kept, nextId, prompts, edits>>

SummaryFails ==
  /\ summarizing # NoRef
  /\ summarizing' = NoRef
  /\ UNCHANGED <<lists, coroutine, clearing, loading, resending, kept, counters>>

\* Pops in place, and only then awaits what may refuse the message.
Retry ==
  /\ session # NoRef /\ ~resending
  /\ Edit
  /\ LET l == pop_to_user(heap[session]) IN
     /\ heap' = [heap EXCEPT ![session] = l]
     /\ resending' = (l # <<>>)
  /\ UNCHANGED <<session, coroutine, summarizing, clearing, loading, kept, nextId,
                 prompts, cut>>

Resend ==
  /\ resending /\ resending' = FALSE
  /\ StartTurn
  /\ UNCHANGED <<summarizing, clearing, loading, kept>>

\* Rate limited, or the conversation is generating.
ResendRefused ==
  /\ resending /\ resending' = FALSE
  /\ UNCHANGED <<lists, coroutine, summarizing, clearing, loading, kept, counters>>

RollbackCompression ==
  /\ snapshot # NoList
  /\ Edit
  /\ snapshot' = NoList
  /\ \/ session # NoRef /\ snapshot # <<>> /\ session' \in Refs /\ New(session', snapshot)
     \/ (session = NoRef \/ snapshot = <<>>) /\ UNCHANGED lists
  /\ UNCHANGED <<coroutine, requests, detached, stored, nextId, prompts, cut>>

\* A sub-agent, which a tool call of this conversation started, inherits its
\* cid: when its own context is compressed, its list (of which only that it is
\* not this conversation's matters) becomes the snapshot.
SubAgentCompresses ==
  /\ nextId > 1
  /\ Edit
  /\ snapshot' = <<UserMessage>>
  /\ UNCHANGED <<lists, coroutine, requests, detached, stored, nextId, prompts, cut>>

\* clear_conversation, and the cleanup of the socket the session belongs to.
ClearConversation ==
  /\ session # NoRef /\ ~clearing
  /\ Edit
  /\ clearing' = TRUE
  /\ UNCHANGED <<lists, coroutine, summarizing, loading, resending, kept, nextId,
                 prompts, cut>>

\* Saved (an empty list is not, nor is any if the save fails), then destroyed.
ClearSaved ==
  /\ clearing /\ clearing' = FALSE
  /\ session # NoRef
  /\ stored' \in {stored, IF heap[session] = <<>> THEN stored ELSE heap[session]}
  /\ session' = NoRef
  /\ detached' = IF turn \in Saving /\ detached = NoRef THEN session ELSE detached
  /\ UNCHANGED <<heap, coroutine, summarizing, loading, resending, snapshot, counters>>

ResumeConversation ==
  /\ loading = NoList /\ stored # <<>>
  /\ Edit
  /\ loading' = stored
  /\ UNCHANGED <<lists, coroutine, summarizing, clearing, resending, kept, nextId,
                 prompts, cut>>

ResumeLoaded ==
  /\ loading # NoList
  /\ loading' = NoList
  /\ session' \in Refs /\ New(session', loading)
  /\ UNCHANGED <<coroutine, summarizing, clearing, resending, kept, counters>>

Router ==
  \/ SendMessage
  \/ SummarizeContext \/ SummaryArrives \/ SummaryFails
  \/ Retry \/ Resend \/ ResendRefused
  \/ RollbackCompression \/ SubAgentCompresses
  \/ ClearConversation \/ ClearSaved
  \/ ResumeConversation \/ ResumeLoaded

HistoryNext == Turn \/ Router

HistorySpec == HistoryInit /\ [][HistoryNext]_historyVars
-----------------------------------------------------------------------------
(* Properties *)

Reachable == {session, own, summarizing, detached} \ {NoRef}

\* Every list somebody may send, show, save or restore.
Histories == {heap[r] : r \in Reachable} \cup {stored}
             \cup ({snapshot, loading} \ {NoList})

\* Every variable keeps its shape, and the loop stops after MaxRounds requests.
HistoryTypeOK ==
  /\ turn \in InTry \ {"saving", "announcing"} => round < MaxRounds
  /\ heap \in [Refs -> Seq(Message)]
  /\ {session, own, summarizing, detached} \subseteq Refs \cup {NoRef}
  /\ turn \in TurnStates /\ working \in Seq(Message) /\ round \in 0 .. MaxRounds
  /\ clearing \in BOOLEAN /\ resending \in BOOLEAN
  /\ {loading, snapshot} \subseteq Seq(Message) \cup {NoList}
  /\ stored \in Seq(Message)
  /\ nextId \in 1 .. MaxIds + 1 /\ prompts \in Nat /\ edits \in Nat
  /\ cut \subseteq Ids

\* No list outside the loop ever holds a tool_use without its result, and no
\* request does, however a turn was stopped and whatever summarize, retry,
\* rollback, clear or resume did to the conversation meanwhile.
UsesAreAnswered ==
  /\ \A l \in Histories : Dangling(l) = {}
  /\ turn \in {"counting", "compressing", "streaming"} => Dangling(working) = {}

\* A tool_result without its tool_use comes from a summary that kept the one
\* and not the other, and from nowhere else: compression never splits a pair,
\* and retry, rollback and the repair never undo one.
OrphansComeFromSummaries ==
  \A l \in Histories \cup {working} : Orphans(l) \subseteq cut

\* Tool exchanges stay whole, in both directions (agent.py:41 repairs the one,
\* context.py:109 avoids the other).
ToolPairsAreKept == UsesAreAnswered /\ OrphansComeFromSummaries

\* A turn that is stopped or fails within the loop leaves a conversation that
\* ends with the user's message, so that retry sends this message again.
FailedTurnCanBeRetried ==
  [][turn' \in {"failing", "closing"}
       /\ turn \in {"counting", "compressing", "streaming", "tools"}
       => heap'[own'] # <<>> /\ heap'[own'][Len(heap'[own'])] = UserMessage]_historyVars
=============================================================================
