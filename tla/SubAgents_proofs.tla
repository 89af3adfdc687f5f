-------------------------- MODULE SubAgents_proofs --------------------------
(***************************************************************************)
(* What sub-agents promise, for any conversations, agent ids, number of    *)
(* calls and bounds.                                                       *)
(*                                                                         *)
(* The inductive invariant says, of every call in flight, what its stage   *)
(* has settled (CallsOK), that one dispatch at most works for an agent and *)
(* nobody else touches that agent until it has ended (DispatchOK), that    *)
(* the calls at the lock of an agent are in line, so that one of them is   *)
(* past it at most (LocksOK), and that this one has read every answer that *)
(* is to be kept (ListsOK).  The rows that are "running" are counted: each *)
(* step that opens, closes or abandons one is one more or one less on      *)
(* either side (RowsOK).                                                   *)
(***************************************************************************)
EXTENDS SubAgents, FiniteSetTheorems, TLAPS

InLine == {"lock", "insert", "loop", "record"}
PastLock == {"insert", "loop", "record"}

Running(c) == Live(c) /\ calls[c].row = "running"
Dispatches(c, a) == Live(c) /\ calls[c].op = "Agent" /\ calls[c].agent = a
Messages(c, a) == Live(c) /\ calls[c].op = "SendMessage" /\ calls[c].agent = a
Waits(c) == Live(c) /\ calls[c].op = "SendMessage" /\ calls[c].stage = "lock"
Reads(c, a) == Messages(c, a) /\ calls[c].stage \in PastLock

(* What the stage of a call has settled. *)
CallOK(k) ==
    /\ k.row # "none" => k.kind = "definition" /\ k.stage \in {"lookup", "loop", "record"}
    /\ k.stage = "record" => k.outcome # "none"
    /\ k.stage = "insert" => k.kind = "definition"
    /\ k.op = "Agent" => /\ k.stage \in {"resolve", "hook"} \cup PastLock
                         /\ k.stage = "resolve" <=> k.agent = NoAgent
    /\ k.op = "SendMessage" => k.agent \in Ids /\ k.stage \in {"wait", "resume"} \cup InLine
    /\ k.op = "run" => k.agent = NoAgent /\ k.stage \in {"lookup"} \cup PastLock
CallsOK == \A c \in Calls : Live(c) => CallOK(calls[c])

(* While a call dispatches an agent, the agent has no end and no answers,  *)
(* and nobody else dispatches it; a message waits until it has ended.      *)
DispatchOK ==
    /\ \A c \in Calls, a \in Ids : Dispatches(c, a) =>
         /\ Exists(a) /\ ~state[a].done /\ state[a].background = calls[c].background
         /\ \A p \in Prompts : <<a, p>> \notin answered
         /\ \A d \in Calls : Dispatches(d, a) => d = c
    /\ \A c \in Calls, a \in Ids : Messages(c, a) =>
         Exists(a) /\ (calls[c].stage # "wait" => state[a].done)

(* The calls at an agent's lock are one before the other, and those that   *)
(* have passed it have nobody before them.                                 *)
LocksOK ==
    \A c \in Calls :
      /\ Waits(c) \/ ahead[c] = {}
      /\ \A d \in Calls, a \in Ids : c # d /\ c \in Queued(a) /\ d \in Queued(a) => d \in ahead[c] \/ c \in ahead[d]
      /\ \A d \in ahead[c] : d # c /\ d \in Queued(calls[c].agent)

(* Who has passed the lock has read every answer that there is.            *)
ListsOK ==
    \A c \in Calls, a \in Ids : Reads(c, a) =>
      \A p \in Prompts : <<a, p>> \in answered => p \in calls[c].prior

AgentsOK ==
    /\ \A a \in Ids : Exists(a) => state[a].session <= session
    /\ \A e \in answered : Exists(e[1]) /\ e[2] \in state[e[1]].messages

RowsOK ==
    /\ RunsSettle
    /\ definition = "deleted" => \A c \in Calls : ~Running(c)

EndedOK ==
    \A a \in Ids : Exists(a) /\ (\A c \in Calls : ~Dispatches(c, a)) =>
      (state[a].done \/ a \in unhooked) /\ (Settled(a) \/ a \in cancelled)

IInv == TypeOK /\ CallsOK /\ DispatchOK /\ LocksOK /\ ListsOK /\ AgentsOK /\ RowsOK /\ EndedOK /\ BackgroundIsAnnounced

(* A step of a call that no agent notices. *)
Quiet == UNCHANGED <<state, active, ahead, session, answered, announced, cancelled, unhooked>>

(* What the rest of the invariant says of calls and agents. *)
CallsInv == CallsOK /\ DispatchOK /\ LocksOK /\ ListsOK /\ AgentsOK /\ EndedOK /\ BackgroundIsAnnounced

LEMMA IInvParts == IInv <=> TypeOK /\ RowsOK /\ CallsInv
  BY DEF IInv, CallsInv

(* The constants, and the fields of calls and agents. *)
LEMMA Given ==
    /\ MaxPrompts \in Nat /\ MaxEvents \in Nat /\ MaxSessions \in Nat /\ IsFiniteSet(Calls)
    /\ Nobody \notin Cids \cup Calls /\ Cids \cap Calls = {}
    /\ NoAgent \notin Ids /\ NoAgent \notin SubAgentState /\ Idle \notin Call
  BY ConstantsAssumption

LEMMA Typed ==
  ASSUME TypeOK
  PROVE  /\ \A c \in Calls : calls[c] \in Call \cup {Idle} /\ (Live(c) <=> calls[c] \in Call)
         /\ \A a \in Ids : state[a] \in SubAgentState \cup {NoAgent} /\ (Exists(a) <=> state[a] \in SubAgentState)
         /\ \A c \in Calls : ahead[c] \subseteq Calls
  BY Given DEF TypeOK, Live, Exists

----------------------------------------------------------------------------
(* Counting the rows that are running *)

LEMMA OpenType == \A C \in SUBSET Calls : Open(C) \in Nat
  <1> SUFFICES ASSUME NEW C \in SUBSET Calls PROVE Open(C) \in Nat
    OBVIOUS
  <1>1. IsFiniteSet({c \in C : Live(c) /\ calls[c].row = "running"})
    BY Given, FS_Subset
  <1> QED
    BY <1>1, FS_CardinalityType DEF Open

(* The calls of C close their rows or leave them. *)
LEMMA FewerOpen ==
  ASSUME NEW C \in SUBSET Calls, \A c \in Calls : (Running(c))' <=> Running(c) /\ c \notin C
  PROVE  (Open(Calls))' = Open(Calls) - Open(C) /\ (Open(Calls))' \in Nat
  <1> DEFINE S == {c \in Calls : Running(c)}
             T == {c \in C : Running(c)}
  <1>1. IsFiniteSet(S)
    BY Given, FS_Subset
  <1>2. {c \in Calls : (Running(c))'} = S \ T
    OBVIOUS
  <1>3. S \cap T = T
    OBVIOUS
  <1>4. IsFiniteSet(S \ T) /\ Cardinality(S \ T) = Cardinality(S) - Cardinality(S \cap T)
    BY <1>1, FS_Difference
  <1>5. Cardinality(S \ T) \in Nat
    BY <1>4, FS_CardinalityType
  <1>6. Open(Calls) = Cardinality(S) /\ Open(C) = Cardinality(T)
    BY DEF Open, Running
  <1>7. (Open(Calls))' = Cardinality(S \ T)
    BY <1>2 DEF Open, Running
  <1> QED
    BY <1>3, <1>4, <1>5, <1>6, <1>7

LEMMA SameOpen ==
  ASSUME \A c \in Calls : (Running(c))' <=> Running(c)
  PROVE  (Open(Calls))' = Open(Calls)
  <1>1. {c \in Calls : (Running(c))'} = {c \in Calls : Running(c)}
    OBVIOUS
  <1> QED
    BY <1>1 DEF Open, Running

LEMMA OneMoreOpen ==
  ASSUME NEW c \in Calls, ~Running(c), \A d \in Calls : (Running(d))' <=> Running(d) \/ d = c
  PROVE  (Open(Calls))' = Open(Calls) + 1
  <1> DEFINE S == {d \in Calls : Running(d)}
  <1>1. IsFiniteSet(S) /\ c \notin S
    BY Given, FS_Subset
  <1>2. {d \in Calls : (Running(d))'} = S \cup {c}
    OBVIOUS
  <1>3. Cardinality(S \cup {c}) = Cardinality(S) + 1
    BY <1>1, FS_AddElement
  <1> QED
    BY <1>2, <1>3 DEF Open, Running

LEMMA NoneOpen ==
  ASSUME \A c \in Calls : ~(Running(c))'
  PROVE  (Open(Calls))' = 0
  <1>1. {c \in Calls : (Running(c))'} = {}
    OBVIOUS
  <1> QED
    BY <1>1, FS_EmptySet DEF Open, Running

LEMMA OpenOne ==
  ASSUME NEW c \in Calls
  PROVE  ~Running(c) => Open({c}) = 0
  <1> SUFFICES ASSUME ~Running(c) PROVE Open({c}) = 0
    OBVIOUS
  <1>1. {d \in {c} : Live(d) /\ calls[d].row = "running"} = {}
    BY DEF Running
  <1> QED
    BY <1>1, FS_EmptySet DEF Open

----------------------------------------------------------------------------
(* One call changes, and what it works on does not *)

LEMMA NewStep ==
  ASSUME TypeOK, CallsInv, NEW c \in Calls, calls[c] = Idle, NEW new \in Call, CallOK(new),
         new.op = "Agent" => new.agent = NoAgent,
         new.op = "SendMessage" => /\ new.stage \in {"wait", "resume"} /\ Exists(new.agent)
                                   /\ new.stage = "resume" => state[new.agent].done,
         calls' = [calls EXCEPT ![c] = new], Quiet
  PROVE  CallsInv'
  <1>1. /\ calls'[c] = new /\ \A d \in Calls \ {c} : calls'[d] = calls[d]
        /\ new # Idle /\ UNCHANGED <<state, active, ahead, session, answered, announced, cancelled, unhooked>>
    BY Given DEF TypeOK, Quiet
  <1>2. CallsOK'
    BY <1>1 DEF CallsInv, CallsOK, Live, CallOK
  <1>3. \A d \in Calls, a \in Ids : (Dispatches(d, a))' <=> Dispatches(d, a)
    BY <1>1, Given DEF Dispatches, Live
  <1>4. \A d \in Calls, a \in Ids : (Messages(d, a))' <=> Messages(d, a) \/ (d = c /\ new.op = "SendMessage" /\ new.agent = a)
    BY <1>1 DEF Messages, Live
  <1>5. DispatchOK'
    BY <1>1, <1>3, <1>4, Given DEF CallsInv, DispatchOK, Exists, Dispatches, Messages, Live
  <1>6. /\ \A d \in Calls : \A a : (d \in Queued(a))' <=> d \in Queued(a)
        /\ \A d \in Calls : (Waits(d))' <=> Waits(d)
    BY <1>1, Given DEF Queued, Waits, Live
  <1>7. LocksOK'
    <2>1. ahead[c] = {} /\ \A d \in Calls : ahead[d] \subseteq Calls
      BY Typed DEF CallsInv, LocksOK, Waits, Live
    <2>2. ASSUME NEW d \in Calls PROVE /\ (Waits(d))' \/ ahead'[d] = {}
                                       /\ \A e \in ahead'[d] : e # d /\ (e \in Queued(calls[d].agent))'
      BY <1>1, <1>6, <2>1, <2>2 DEF CallsInv, LocksOK
    <2>3. \A d, e \in Calls, a \in Ids : d # e /\ (d \in Queued(a))' /\ (e \in Queued(a))' => e \in ahead'[d] \/ d \in ahead'[e]
      BY <1>1, <1>6 DEF CallsInv, LocksOK
    <2> QED
      BY <2>2, <2>3 DEF LocksOK
  <1>8. ListsOK'
    <2>1. ASSUME NEW d \in Calls, NEW a \in Ids, (Reads(d, a))' PROVE d # c /\ Reads(d, a)
      BY <1>1, <2>1 DEF Reads, Messages, PastLock, Live
    <2> QED
      BY <1>1, <2>1 DEF CallsInv, ListsOK
  <1>9. AgentsOK' /\ BackgroundIsAnnounced'
    BY <1>1 DEF CallsInv, AgentsOK, BackgroundIsAnnounced, Exists, Settled
  <1>10. EndedOK'
    BY <1>1, <1>3 DEF CallsInv, EndedOK, Exists, Settled
  <1> QED
    BY <1>2, <1>5, <1>7, <1>8, <1>9, <1>10 DEF CallsInv
LEMMA MoveStep ==
  ASSUME TypeOK, CallsInv, NEW c \in Calls, Live(c), NEW new \in Call, CallOK(new),
         new.op = calls[c].op, new.agent = calls[c].agent, new.background = calls[c].background,
         new.op = "SendMessage" =>
           /\ new.stage # "wait" => state[new.agent].done
           /\ new.stage \in InLine <=> calls[c].stage \in InLine
           /\ new.stage = "lock" \/ ahead[c] = {}
           /\ new.stage \in PastLock => \A p \in Prompts : <<new.agent, p>> \in answered => p \in new.prior,
         calls' = [calls EXCEPT ![c] = new], Quiet
  PROVE  CallsInv'
  <1>1. /\ calls'[c] = new /\ \A d \in Calls \ {c} : calls'[d] = calls[d]
        /\ new # Idle /\ UNCHANGED <<state, active, ahead, session, answered, announced, cancelled, unhooked>>
    BY Given DEF TypeOK, Quiet
  <1>2. CallsOK'
    BY <1>1 DEF CallsInv, CallsOK, Live, CallOK
  <1>3. \A d \in Calls, a \in Ids : (Dispatches(d, a))' <=> Dispatches(d, a)
    BY <1>1, Given DEF Dispatches, Live
  <1>4. \A d \in Calls, a \in Ids : (Messages(d, a))' <=> Messages(d, a)
    BY <1>1 DEF Messages, Live
  <1>5. DispatchOK'
    <2>1. ASSUME NEW d \in Calls, NEW a \in Ids, (Dispatches(d, a))'
          PROVE  /\ (Exists(a))' /\ ~state'[a].done /\ state'[a].background = calls'[d].background
                 /\ \A p \in Prompts : <<a, p>> \notin answered'
                 /\ \A e \in Calls : (Dispatches(e, a))' => e = d
      BY <1>1, <1>3, <2>1 DEF CallsInv, DispatchOK, Exists
    <2>2. ASSUME NEW d \in Calls, NEW a \in Ids, (Messages(d, a))'
          PROVE  (Exists(a))' /\ (calls'[d].stage # "wait" => state'[a].done)
      BY <1>1, <1>4, <2>2 DEF CallsInv, DispatchOK, Exists, Messages
    <2> QED
      BY <2>1, <2>2 DEF DispatchOK
  <1>6. /\ \A d \in Calls : \A a : (d \in Queued(a))' <=> d \in Queued(a)
        /\ \A d \in Calls \ {c} : (Waits(d))' <=> Waits(d)
        /\ (Waits(c))' \/ ahead[c] = {}
    BY <1>1, Given DEF CallsInv, LocksOK, Queued, Waits, Live, InLine
  <1>7. LocksOK'
    <2>1. \A d \in Calls : ahead[d] \subseteq Calls
      BY Typed
    <2>2. ASSUME NEW d \in Calls PROVE /\ (Waits(d))' \/ ahead'[d] = {}
                                       /\ \A e \in ahead'[d] : e # d /\ (e \in Queued(calls[d].agent))'
      BY <1>1, <1>6, <2>1, <2>2 DEF CallsInv, LocksOK
    <2>3. \A d, e \in Calls, a \in Ids : d # e /\ (d \in Queued(a))' /\ (e \in Queued(a))' => e \in ahead'[d] \/ d \in ahead'[e]
      BY <1>1, <1>6 DEF CallsInv, LocksOK
    <2> QED
      BY <2>2, <2>3 DEF LocksOK
  <1>8. ListsOK'
    <2>1. ASSUME NEW d \in Calls, NEW a \in Ids, (Reads(d, a))', NEW p \in Prompts, <<a, p>> \in answered
          PROVE  p \in calls'[d].prior
      <3>1. CASE d = c
        BY <1>1, <2>1, <3>1 DEF Reads, Messages
      <3>2. CASE d # c
        BY <1>1, <2>1, <3>2 DEF CallsInv, ListsOK, Reads, Messages, Live
      <3> QED
        BY <3>1, <3>2
    <2> QED
      BY <1>1, <2>1 DEF ListsOK
  <1>9. AgentsOK' /\ BackgroundIsAnnounced'
    BY <1>1 DEF CallsInv, AgentsOK, BackgroundIsAnnounced, Exists, Settled
  <1>10. EndedOK'
    BY <1>1, <1>3 DEF CallsInv, EndedOK, Exists, Settled
  <1> QED
    BY <1>2, <1>5, <1>7, <1>8, <1>9, <1>10 DEF CallsInv

(* A call that ends before it has touched an agent or its lock. *)
LEMMA QuitStep ==
  ASSUME TypeOK, CallsInv, NEW c \in Calls, Live(c), \A a \in Ids : ~Dispatches(c, a) /\ c \notin Queued(a),
         Ends(c), Quiet
  PROVE  CallsInv'
  <1>1. /\ calls'[c] = Idle /\ \A d \in Calls \ {c} : calls'[d] = calls[d]
        /\ UNCHANGED <<state, active, ahead, session, answered, announced, cancelled, unhooked>>
    BY DEF Ends, TypeOK, Quiet
  <1>2. CallsOK'
    BY <1>1 DEF CallsInv, CallsOK, Live
  <1>3. \A d \in Calls, a \in Ids : (Dispatches(d, a))' <=> Dispatches(d, a)
    BY <1>1 DEF Dispatches, Live
  <1>4. \A d \in Calls, a \in Ids : (Messages(d, a))' <=> Messages(d, a) /\ d # c
    BY <1>1 DEF Messages, Live
  <1>5. DispatchOK'
    <2>1. ASSUME NEW d \in Calls, NEW a \in Ids, (Dispatches(d, a))'
          PROVE  /\ (Exists(a))' /\ ~state'[a].done /\ state'[a].background = calls'[d].background
                 /\ \A p \in Prompts : <<a, p>> \notin answered'
                 /\ \A e \in Calls : (Dispatches(e, a))' => e = d
      BY <1>1, <1>3, <2>1 DEF CallsInv, DispatchOK, Exists
    <2>2. ASSUME NEW d \in Calls, NEW a \in Ids, (Messages(d, a))'
          PROVE  (Exists(a))' /\ (calls'[d].stage # "wait" => state'[a].done)
      BY <1>1, <1>4, <2>2 DEF CallsInv, DispatchOK, Exists
    <2> QED
      BY <2>1, <2>2 DEF DispatchOK
  <1>6. LocksOK'
    <2>1. ahead[c] = {}
      <3>1. Waits(c) => calls[c].agent \in Ids /\ c \in Queued(calls[c].agent)
        BY DEF CallsInv, CallsOK, CallOK, Waits, Queued
      <3> QED
        BY <3>1 DEF CallsInv, LocksOK
    <2>2. \A d \in Calls \ {c} : /\ \A a : (d \in Queued(a))' <=> d \in Queued(a)
                                 /\ (Waits(d))' <=> Waits(d)
      BY <1>1 DEF Queued, Waits, Live
    <2>3. ~(\E a : c \in Queued(a))'
      BY <1>1 DEF Queued, Live
    <2>4. ASSUME NEW d \in Calls PROVE (Waits(d))' \/ ahead'[d] = {}
      BY <1>1, <2>1, <2>2 DEF CallsInv, LocksOK
    <2>5. ASSUME NEW d \in Calls, NEW e \in ahead'[d] PROVE e # d /\ (e \in Queued(calls[d].agent))'
      <3>1. d # c /\ e \in ahead[d] /\ e \in Calls /\ e # d /\ e \in Queued(calls[d].agent) /\ Waits(d)
        BY <1>1, <2>1, <2>5, Typed DEF CallsInv, LocksOK
      <3>2. calls[d].agent \in Ids
        BY <3>1 DEF CallsInv, CallsOK, CallOK, Waits
      <3> QED
        BY <1>1, <2>2, <3>1, <3>2
    <2>6. \A d, e \in Calls, a \in Ids : d # e /\ (d \in Queued(a))' /\ (e \in Queued(a))' => e \in ahead'[d] \/ d \in ahead'[e]
      BY <1>1, <2>2, <2>3 DEF CallsInv, LocksOK
    <2> QED
      BY <2>4, <2>5, <2>6 DEF LocksOK
  <1>7. ListsOK'
    <2>1. ASSUME NEW d \in Calls, NEW a \in Ids, (Reads(d, a))' PROVE d # c /\ Reads(d, a)
      BY <1>1, <2>1 DEF Reads, Messages, Live
    <2> QED
      BY <1>1, <2>1 DEF CallsInv, ListsOK
  <1>8. AgentsOK' /\ BackgroundIsAnnounced'
    BY <1>1 DEF CallsInv, AgentsOK, BackgroundIsAnnounced, Exists, Settled
  <1>9. EndedOK'
    BY <1>1, <1>3 DEF CallsInv, EndedOK, Exists, Settled
  <1> QED
    BY <1>2, <1>5, <1>6, <1>7, <1>8, <1>9 DEF CallsInv
----------------------------------------------------------------------------
(* An agent is registered, and answers *)

LEMMA RegisterStep ==
  ASSUME TypeOK, CallsInv, NEW c \in Calls, NEW a \in Ids, NEW expired, RegisterAgent(c, a, expired)
  PROVE  CallsInv' /\ state' \in [Ids -> SubAgentState \cup {NoAgent}] /\ calls' \in [Calls -> Call \cup {Idle}] /\ (Exists(a))'
         /\ \A b \in Ids : Exists(b) => (Exists(b))'
  <1>1. PICK new : new = [calls[c] EXCEPT !.agent = a, !.stage = "hook"]
    OBVIOUS
  <1>2. PICK agent : agent = [kind |-> calls[c].kind, cid |-> calls[c].cid, session |-> session,
                              background |-> calls[c].background, status |-> "running",
                              done |-> FALSE, messages |-> {}]
    OBVIOUS
  <1>3. /\ Live(c) /\ calls[c].stage = "resolve" /\ ~Exists(a)
        /\ state' = [state EXCEPT ![a] = agent] /\ calls' = [calls EXCEPT ![c] = new]
        /\ UNCHANGED <<ahead, session, answered, announced, cancelled, unhooked>>
    BY <1>1, <1>2 DEF RegisterAgent, At, history
  <1>4. calls[c] \in Call /\ CallOK(calls[c])
    BY <1>3, Typed DEF CallsInv, CallsOK
  <1>5. calls[c].op = "Agent" /\ calls[c].agent = NoAgent
    BY <1>3, <1>4 DEF CallOK, Call, InLine, PastLock
  <1>6. /\ new \in Call /\ new.op = "Agent" /\ new.agent = a /\ new.stage = "hook"
        /\ new.background = calls[c].background /\ new.row = calls[c].row
    BY ZenonT(60), <1>1, <1>4, <1>5 DEF Call
  <1>7. CallOK(new)
    BY <1>3, <1>4, <1>5, <1>6, Given DEF CallOK
  <1>8. agent \in SubAgentState /\ agent.background = calls[c].background /\ agent.status = "running" /\ ~agent.done
        /\ agent.session = session /\ agent # NoAgent
    <2>1. calls[c].kind \in {"definition", "builtin"} /\ calls[c].cid \in Cids \cup {Nobody} /\ calls[c].background \in BOOLEAN
      BY <1>4 DEF Call
    <2>2. session \in 1..MaxSessions
      BY DEF TypeOK
    <2>3. agent \in SubAgentState
      BY <1>2, <2>1, <2>2 DEF SubAgentState, Statuses
    <2> QED
      BY <1>2, <2>3, Given
  <1>9. /\ calls'[c] = new /\ new # Idle /\ \A d \in Calls \ {c} : calls'[d] = calls[d]
        /\ state'[a] = agent /\ \A b \in Ids \ {a} : state'[b] = state[b]
        /\ state' \in [Ids -> SubAgentState \cup {NoAgent}] /\ calls' \in [Calls -> Call \cup {Idle}]
    BY <1>3, <1>6, <1>8, Given DEF TypeOK
  <1>10. CallsOK'
    BY <1>7, <1>9 DEF CallsInv, CallsOK, Live, CallOK
  <1>11. \A d \in Calls, b \in Ids : (Dispatches(d, b))' <=> Dispatches(d, b) \/ (d = c /\ b = a)
    BY <1>5, <1>6, <1>9, Given DEF Dispatches, Live
  <1>12. \A d \in Calls, b \in Ids : (Messages(d, b))' <=> Messages(d, b)
    BY <1>3, <1>5, <1>6, <1>9, Given DEF Messages, Live
  <1>13. (\A p \in Prompts : <<a, p>> \notin answered) /\ \A d \in Calls : ~Dispatches(d, a) /\ ~Messages(d, a)
    <2>1. \A d \in Calls : ~Dispatches(d, a) /\ ~Messages(d, a)
      BY <1>3 DEF CallsInv, DispatchOK
    <2>2. ASSUME NEW p \in Prompts PROVE <<a, p>> \notin answered
      <3>1. <<a, p>>[1] = a
        OBVIOUS
      <3> QED
        BY <1>3, <3>1 DEF CallsInv, AgentsOK
    <2> QED
      BY <2>1, <2>2
  <1>14. DispatchOK'
    <2>1. ASSUME NEW d \in Calls, NEW b \in Ids, (Dispatches(d, b))'
          PROVE  /\ (Exists(b))' /\ ~state'[b].done /\ state'[b].background = calls'[d].background
                 /\ \A p \in Prompts : <<b, p>> \notin answered'
                 /\ \A e \in Calls : (Dispatches(e, b))' => e = d
      <3>1. CASE b = a
        BY <1>3, <1>6, <1>8, <1>9, <1>11, <1>13, <2>1, <3>1 DEF Exists
      <3>2. CASE b # a
        <4>1. Dispatches(d, b) /\ d # c
          BY <1>5, <1>11, <2>1, <3>2, Given DEF Dispatches
        <4> QED
          BY <1>3, <1>9, <1>11, <3>2, <4>1 DEF CallsInv, DispatchOK, Exists
      <3> QED
        BY <3>1, <3>2
    <2>2. ASSUME NEW d \in Calls, NEW b \in Ids, (Messages(d, b))'
          PROVE  (Exists(b))' /\ (calls'[d].stage # "wait" => state'[b].done)
      <3>1. Messages(d, b) /\ b # a /\ d # c
        BY <1>5, <1>12, <1>13, <2>2 DEF Messages
      <3> QED
        BY <1>9, <3>1 DEF CallsInv, DispatchOK, Exists
    <2> QED
      BY <2>1, <2>2 DEF DispatchOK
  <1>15. LocksOK'
    <2>1. /\ \A d \in Calls : \A b : (d \in Queued(b))' <=> d \in Queued(b)
          /\ \A d \in Calls : (Waits(d))' <=> Waits(d)
      BY <1>3, <1>5, <1>6, <1>9 DEF Queued, Waits, Live
    <2>2. ahead[c] = {} /\ \A d \in Calls : ahead[d] \subseteq Calls
      BY <1>5, Typed DEF CallsInv, LocksOK, Waits
    <2>3. ASSUME NEW d \in Calls PROVE /\ (Waits(d))' \/ ahead'[d] = {}
                                       /\ \A e \in ahead'[d] : e # d /\ (e \in Queued(calls[d].agent))'
      BY <1>3, <1>9, <2>1, <2>2 DEF CallsInv, LocksOK
    <2>4. \A d, e \in Calls, b \in Ids : d # e /\ (d \in Queued(b))' /\ (e \in Queued(b))' => e \in ahead'[d] \/ d \in ahead'[e]
      BY <1>3, <2>1 DEF CallsInv, LocksOK
    <2> QED
      BY <2>3, <2>4 DEF LocksOK
  <1>16. ListsOK'
    <2>1. ASSUME NEW d \in Calls, NEW b \in Ids, (Reads(d, b))' PROVE d # c /\ Reads(d, b)
      BY <1>5, <1>6, <1>9, <2>1 DEF Reads, Messages, Live
    <2> QED
      BY <1>3, <1>9, <2>1 DEF CallsInv, ListsOK
  <1>17. AgentsOK'
    <2>1. \A b \in Ids : (Exists(b))' => state'[b].session <= session'
      <3>1. session \in Int
        BY DEF TypeOK
      <3> QED
        BY <1>3, <1>8, <1>9, <3>1 DEF CallsInv, AgentsOK, Exists
    <2>2. ASSUME NEW e \in answered' PROVE (Exists(e[1]))' /\ e[2] \in state'[e[1]].messages
      <3>1. e \in answered /\ e[1] \in Ids /\ Exists(e[1]) /\ e[2] \in state[e[1]].messages
        BY <1>3 DEF CallsInv, AgentsOK, TypeOK
      <3> QED
        BY <1>3, <1>9, <3>1 DEF Exists
    <2> QED
      BY <2>1, <2>2 DEF AgentsOK
  <1>18. BackgroundIsAnnounced'
    BY <1>3, <1>8, <1>9 DEF CallsInv, BackgroundIsAnnounced, Exists, Settled
  <1>19. EndedOK'
    <2>1. ASSUME NEW b \in Ids, (Exists(b))', \A d \in Calls : ~(Dispatches(d, b))'
          PROVE  (state'[b].done \/ b \in unhooked') /\ ((Settled(b))' \/ b \in cancelled')
      <3>1. b # a /\ Exists(b) /\ \A d \in Calls : ~Dispatches(d, b)
        BY <1>9, <1>11, <2>1 DEF Exists
      <3> QED
        BY <1>3, <1>9, <3>1 DEF CallsInv, EndedOK, Settled, Exists
    <2> QED
      BY <2>1 DEF EndedOK
  <1>20. (Exists(a))' /\ \A b \in Ids : Exists(b) => (Exists(b))'
    BY <1>8, <1>9 DEF Exists
  <1> QED
    BY <1>9, <1>10, <1>14, <1>15, <1>16, <1>17, <1>18, <1>19, <1>20 DEF CallsInv

LEMMA ResumeStep ==
  ASSUME TypeOK, CallsInv, NEW c \in Calls, Resume(c)
  PROVE  CallsInv' /\ calls' \in [Calls -> Call \cup {Idle}] /\ ahead' \in [Calls -> SUBSET Calls]
         /\ \A d \in Calls : (Running(d))' <=> Running(d)
  <1>1. PICK a : a = calls[c].agent
    OBVIOUS
  <1>2. PICK new : new = [calls[c] EXCEPT !.stage = "lock"]
    OBVIOUS
  <1>3. /\ Live(c) /\ calls[c].stage = "resume" /\ calls' = [calls EXCEPT ![c] = new]
        /\ ahead' = [ahead EXCEPT ![c] = Queued(a)]
        /\ UNCHANGED <<state, active, session, answered, announced, cancelled, unhooked>>
    BY <1>1, <1>2 DEF Resume, At, Goes, history
  <1>4. calls[c] \in Call /\ CallOK(calls[c])
    BY <1>3, Typed DEF CallsInv, CallsOK
  <1>5. calls[c].op = "SendMessage" /\ a \in Ids
    BY <1>1, <1>3, <1>4 DEF CallOK, Call, InLine, PastLock
  <1>6. /\ new \in Call /\ new.op = "SendMessage" /\ new.agent = a /\ new.stage = "lock" /\ new.row = calls[c].row
        /\ new.kind = calls[c].kind
    BY <1>1, <1>2, <1>4, <1>5 DEF Call
  <1>7. CallOK(new)
    BY <1>3, <1>4, <1>5, <1>6 DEF CallOK, InLine
  <1>8. /\ calls'[c] = new /\ new # Idle /\ \A d \in Calls \ {c} : calls'[d] = calls[d]
        /\ ahead'[c] = Queued(a) /\ \A d \in Calls \ {c} : ahead'[d] = ahead[d]
        /\ calls' \in [Calls -> Call \cup {Idle}]
        /\ Queued(a) \subseteq Calls /\ ahead' \in [Calls -> SUBSET Calls]
    BY <1>3, <1>6, Given DEF TypeOK, Queued
  <1>9. CallsOK'
    BY <1>7, <1>8 DEF CallsInv, CallsOK, Live, CallOK
  <1>10. \A d \in Calls, b \in Ids : (Dispatches(d, b))' <=> Dispatches(d, b)
    BY <1>3, <1>5, <1>6, <1>8, Given DEF Dispatches, Live
  <1>11. \A d \in Calls, b \in Ids : (Messages(d, b))' <=> Messages(d, b)
    BY <1>1, <1>3, <1>5, <1>6, <1>8 DEF Messages, Live
  <1>12. state[a].done
    BY <1>1, <1>3, <1>5 DEF CallsInv, DispatchOK, Messages
  <1>13. DispatchOK'
    <2>1. ASSUME NEW d \in Calls, NEW b \in Ids, (Dispatches(d, b))'
          PROVE  /\ (Exists(b))' /\ ~state'[b].done /\ state'[b].background = calls'[d].background
                 /\ \A p \in Prompts : <<b, p>> \notin answered'
                 /\ \A e \in Calls : (Dispatches(e, b))' => e = d
      <3>1. Dispatches(d, b) /\ d # c
        BY <1>5, <1>10, <2>1 DEF Dispatches
      <3> QED
        BY <1>3, <1>8, <1>10, <3>1 DEF CallsInv, DispatchOK, Exists
    <2>2. ASSUME NEW d \in Calls, NEW b \in Ids, (Messages(d, b))'
          PROVE  (Exists(b))' /\ (calls'[d].stage # "wait" => state'[b].done)
      <3>1. Messages(d, b) /\ (d = c => b = a)
        BY <1>1, <1>11, <2>2 DEF Messages
      <3> QED
        BY <1>3, <1>8, <1>12, <3>1 DEF CallsInv, DispatchOK, Exists
    <2> QED
      BY <2>1, <2>2 DEF DispatchOK
  <1>14. /\ \A d \in Calls : \A b : (d \in Queued(b))' <=> d \in Queued(b) \/ (d = c /\ b = a)
         /\ \A d \in Calls \ {c} : (Waits(d))' <=> Waits(d)
         /\ (Waits(c))' /\ \A b : c \notin Queued(b)
    BY <1>1, <1>3, <1>5, <1>6, <1>8 DEF Queued, Waits, Live
  <1>15. LocksOK'
    <2>1. ASSUME NEW d \in Calls PROVE (Waits(d))' \/ ahead'[d] = {}
      BY <1>8, <1>14 DEF CallsInv, LocksOK
    <2>2. ASSUME NEW d \in Calls, NEW e \in ahead'[d] PROVE e # d /\ (e \in Queued(calls[d].agent))'
      <3>1. CASE d = c
        BY <1>6, <1>8, <1>14, <2>2, <3>1
      <3>2. CASE d # c
        BY <1>8, <1>14, <2>2, <3>2, Typed DEF CallsInv, LocksOK
      <3> QED
        BY <3>1, <3>2
    <2>3. ASSUME NEW d \in Calls, NEW e \in Calls, NEW b \in Ids, d # e, (d \in Queued(b))', (e \in Queued(b))'
          PROVE  e \in ahead'[d] \/ d \in ahead'[e]
      <3>1. CASE d = c \/ e = c
        BY <1>8, <1>14, <2>3, <3>1
      <3>2. CASE d # c /\ e # c
        BY <1>8, <1>14, <2>3, <3>2 DEF CallsInv, LocksOK
      <3> QED
        BY <3>1, <3>2
    <2> QED
      BY <2>1, <2>2, <2>3 DEF LocksOK
  <1>16. ListsOK'
    <2>1. ASSUME NEW d \in Calls, NEW b \in Ids, (Reads(d, b))' PROVE d # c /\ Reads(d, b)
      BY <1>6, <1>8, <2>1 DEF Reads, Messages, Live, PastLock
    <2> QED
      BY <1>3, <1>8, <2>1 DEF CallsInv, ListsOK
  <1>17. AgentsOK' /\ BackgroundIsAnnounced'
    BY <1>3 DEF CallsInv, AgentsOK, BackgroundIsAnnounced, Exists, Settled
  <1>18. EndedOK'
    BY <1>3, <1>10 DEF CallsInv, EndedOK, Exists, Settled
  <1>19. \A d \in Calls : (Running(d))' <=> Running(d)
    BY <1>3, <1>6, <1>8 DEF Running, Live
  <1> QED
    BY <1>8, <1>9, <1>13, <1>15, <1>16, <1>17, <1>18, <1>19 DEF CallsInv
(* A dispatch that returns has ended its agent: nobody else works on it.   *)
LEMMA DispatchReturnStep ==
  ASSUME TypeOK, CallsInv, NEW c \in Calls, Live(c), calls[c].stage \in PastLock,
         NEW out \in {"completed", "failed", "raised"}, Returns(c, out), DispatchReturns(c, out)
  PROVE  CallsInv' /\ state' \in [Ids -> SubAgentState \cup {NoAgent}] /\ UNCHANGED ahead
         /\ answered' \subseteq Ids \X Prompts /\ announced' \subseteq Ids
         /\ \A b \in Ids : Exists(b) => (Exists(b))'
  <1>1. PICK a : a = calls[c].agent
    OBVIOUS
  <1>2. calls[c] \in Call /\ CallOK(calls[c]) /\ calls[c].op = "Agent"
    BY Typed DEF CallsInv, CallsOK, DispatchReturns
  <1>3. /\ a \in Ids /\ calls[c].prompt \in Prompts /\ calls[c].prior \subseteq Prompts
        /\ Dispatches(c, a) /\ Updated(c) \subseteq Prompts
    BY <1>1, <1>2, Given DEF CallOK, Call, PastLock, Dispatches, Updated
  <1>4. state[a] \in SubAgentState /\ ~state[a].done /\ state[a].background = calls[c].background
        /\ (\A p \in Prompts : <<a, p>> \notin answered) /\ (\A d \in Calls : Dispatches(d, a) => d = c)
    BY <1>3, Typed DEF CallsInv, DispatchOK
  <1>5. PICK status : status = IF out = "raised" THEN "failed" ELSE out
    OBVIOUS
  <1>6. PICK list : list = IF out = "raised" THEN state[a].messages ELSE Updated(c)
    OBVIOUS
  <1>7. PICK agent : agent = [state[a] EXCEPT !.done = TRUE, !.status = status, !.messages = list]
    OBVIOUS
  <1>8. /\ state' = [state EXCEPT ![a] = agent]
        /\ answered' = IF out = "raised" THEN answered ELSE answered \cup {<<a, calls[c].prompt>>}
        /\ announced' = IF calls[c].background /\ state[a].session = session THEN announced \cup {a} ELSE announced
        /\ UNCHANGED ahead
    BY <1>1, <1>4, <1>5, <1>6, <1>7 DEF DispatchReturns, TypeOK
  <1>9. /\ agent \in SubAgentState /\ agent.done /\ agent.status = status /\ agent.messages = list
        /\ status \in {"completed", "failed"} /\ agent.session = state[a].session
        /\ agent.background = state[a].background /\ agent # NoAgent
    <2>1. status \in {"completed", "failed"} /\ list \subseteq Prompts
      BY <1>3, <1>4, <1>5, <1>6 DEF SubAgentState
    <2> QED
      BY ZenonT(60), <1>4, <1>7, <2>1, Given DEF SubAgentState, Statuses
  <1>10. /\ state'[a] = agent /\ \A b \in Ids \ {a} : state'[b] = state[b]
         /\ calls'[c] = Idle /\ \A d \in Calls \ {c} : calls'[d] = calls[d]
         /\ state' \in [Ids -> SubAgentState \cup {NoAgent}]
         /\ UNCHANGED <<active, session, cancelled, unhooked>>
    BY <1>3, <1>8, <1>9 DEF Returns, Ends, TypeOK
  <1>11. /\ answered' \subseteq Ids \X Prompts /\ announced' \subseteq Ids /\ announced \subseteq announced'
         /\ answered \subseteq answered' /\ \A b \in Ids \ {a}, p \in Prompts : <<b, p>> \in answered' => <<b, p>> \in answered
    BY <1>3, <1>8 DEF TypeOK
  <1>12. CallsOK'
    BY <1>10 DEF CallsInv, CallsOK, Live, CallOK
  <1>13. \A d \in Calls, b \in Ids : (Dispatches(d, b))' => Dispatches(d, b) /\ d # c /\ b # a
    BY <1>4, <1>10 DEF Dispatches, Live
  <1>14. \A d \in Calls, b \in Ids : (Dispatches(d, b))' <=> Dispatches(d, b) /\ d # c
    BY <1>10 DEF Dispatches, Live
  <1>15. \A d \in Calls, b \in Ids : (Messages(d, b))' <=> Messages(d, b) /\ d # c
    BY <1>10 DEF Messages, Live
  <1>16. DispatchOK'
    <2>1. ASSUME NEW d \in Calls, NEW b \in Ids, (Dispatches(d, b))'
          PROVE  /\ (Exists(b))' /\ ~state'[b].done /\ state'[b].background = calls'[d].background
                 /\ \A p \in Prompts : <<b, p>> \notin answered'
                 /\ \A e \in Calls : (Dispatches(e, b))' => e = d
      <3>1. Dispatches(d, b) /\ d # c /\ b # a
        BY <1>13, <2>1
      <3> QED
        BY <1>10, <1>11, <1>14, <3>1 DEF CallsInv, DispatchOK, Exists
    <2>2. ASSUME NEW d \in Calls, NEW b \in Ids, (Messages(d, b))'
          PROVE  (Exists(b))' /\ (calls'[d].stage # "wait" => state'[b].done)
      <3>1. Messages(d, b) /\ d # c
        BY <1>15, <2>2
      <3>2. CASE b = a
        BY <1>9, <1>10, <3>2 DEF Exists
      <3>3. CASE b # a
        BY <1>10, <3>1, <3>3 DEF CallsInv, DispatchOK, Exists
      <3> QED
        BY <3>2, <3>3
    <2> QED
      BY <2>1, <2>2 DEF DispatchOK
  <1>17. LocksOK'
    <2>1. /\ \A d \in Calls : \A b : (d \in Queued(b))' <=> d \in Queued(b)
          /\ \A d \in Calls : (Waits(d))' <=> Waits(d)
      BY <1>2, <1>10 DEF Queued, Waits, Live
    <2>2. ahead[c] = {} /\ \A d \in Calls : ahead[d] \subseteq Calls
      BY <1>2, Typed DEF CallsInv, LocksOK, Waits
    <2>3. ASSUME NEW d \in Calls PROVE /\ (Waits(d))' \/ ahead'[d] = {}
                                       /\ \A e \in ahead'[d] : e # d /\ (e \in Queued(calls[d].agent))'
      BY <1>8, <1>10, <2>1, <2>2 DEF CallsInv, LocksOK
    <2>4. \A d, e \in Calls, b \in Ids : d # e /\ (d \in Queued(b))' /\ (e \in Queued(b))' => e \in ahead'[d] \/ d \in ahead'[e]
      BY <1>8, <2>1 DEF CallsInv, LocksOK
    <2> QED
      BY <2>3, <2>4 DEF LocksOK
  <1>18. ListsOK'
    <2>1. ASSUME NEW d \in Calls, NEW b \in Ids, (Reads(d, b))' PROVE d # c /\ b # a /\ Reads(d, b)
      <3>1. Reads(d, b) /\ d # c
        BY <1>10, <2>1 DEF Reads, Messages, Live
      <3>2. state[b].done
        BY <3>1 DEF CallsInv, DispatchOK, Reads, PastLock
      <3> QED
        BY <1>4, <3>1, <3>2
    <2> QED
      BY <1>10, <1>11, <2>1 DEF CallsInv, ListsOK
  <1>19. AgentsOK'
    <2>1. \A b \in Ids : (Exists(b))' => state'[b].session <= session'
      BY <1>4, <1>9, <1>10, Given DEF CallsInv, AgentsOK, Exists
    <2>2. ASSUME NEW e \in answered' PROVE (Exists(e[1]))' /\ e[2] \in state'[e[1]].messages
      <3>1. CASE e = <<a, calls[c].prompt>> /\ out # "raised"
        BY <1>3, <1>6, <1>9, <1>10, <3>1 DEF Exists, Updated
      <3>2. CASE e \in answered
        <4>1. e = <<e[1], e[2]>> /\ e[1] \in Ids /\ e[2] \in Prompts
          BY <3>2 DEF TypeOK
        <4>2. e[1] # a
          BY <1>4, <3>2, <4>1
        <4> QED
          BY <1>10, <3>2, <4>1, <4>2 DEF CallsInv, AgentsOK, Exists
      <3> QED
        BY <1>8, <2>2, <3>1, <3>2
    <2> QED
      BY <2>1, <2>2 DEF AgentsOK
  <1>20. BackgroundIsAnnounced'
    <2>1. ASSUME NEW b \in Ids, (Exists(b))', state'[b].background, (Settled(b))', state'[b].session = session'
          PROVE  b \in announced'
      <3>1. CASE b = a
        BY <1>4, <1>8, <1>9, <1>10, <2>1, <3>1
      <3>2. CASE b # a
        BY <1>10, <1>11, <2>1, <3>2 DEF CallsInv, BackgroundIsAnnounced, Exists, Settled
      <3> QED
        BY <3>1, <3>2
    <2> QED
      BY <2>1 DEF BackgroundIsAnnounced
  <1>21. EndedOK'
    <2>1. ASSUME NEW b \in Ids, (Exists(b))', \A d \in Calls : ~(Dispatches(d, b))'
          PROVE  (state'[b].done \/ b \in unhooked') /\ ((Settled(b))' \/ b \in cancelled')
      <3>1. CASE b = a
        BY <1>9, <1>10, <2>1, <3>1 DEF Settled
      <3>2. CASE b # a
        <4>1. Exists(b) /\ \A d \in Calls : ~Dispatches(d, b)
          BY <1>1, <1>10, <1>14, <2>1, <3>2 DEF Exists, Dispatches
        <4> QED
          BY <1>10, <3>2, <4>1 DEF CallsInv, EndedOK, Settled, Exists
      <3> QED
        BY <3>1, <3>2
    <2> QED
      BY <2>1 DEF EndedOK
  <1>22. \A b \in Ids : Exists(b) => (Exists(b))'
    BY <1>9, <1>10 DEF Exists
  <1> QED
    BY <1>8, <1>10, <1>11, <1>12, <1>16, <1>17, <1>18, <1>19, <1>20, <1>21, <1>22 DEF CallsInv

(* A message that returns held the lock: its list has all the answers.     *)
LEMMA SendReturnStep ==
  ASSUME TypeOK, CallsInv, NEW c \in Calls, Live(c), calls[c].stage \in PastLock,
         NEW out \in {"completed", "failed", "raised"}, Returns(c, out), SendReturns(c, out)
  PROVE  CallsInv' /\ state' \in [Ids -> SubAgentState \cup {NoAgent}] /\ ahead' \in [Calls -> SUBSET Calls]
         /\ answered' \subseteq Ids \X Prompts /\ UNCHANGED announced
         /\ \A b \in Ids : Exists(b) => (Exists(b))'
  <1>1. PICK a : a = calls[c].agent
    OBVIOUS
  <1>2. calls[c] \in Call /\ CallOK(calls[c]) /\ calls[c].op = "SendMessage"
    BY Typed DEF CallsInv, CallsOK, SendReturns
  <1>3. /\ a \in Ids /\ calls[c].prompt \in Prompts /\ calls[c].prior \subseteq Prompts
        /\ Messages(c, a) /\ Reads(c, a) /\ c \in Queued(a) /\ Updated(c) \subseteq Prompts
    BY <1>1, <1>2, Given DEF CallOK, Call, PastLock, Messages, Reads, Queued, Updated
  <1>4. state[a] \in SubAgentState /\ state[a].done /\ ahead[c] = {}
        /\ (\A p \in Prompts : <<a, p>> \in answered => p \in calls[c].prior)
        /\ (\A d \in Calls : ~Dispatches(d, a))
    BY <1>3, Typed DEF CallsInv, DispatchOK, ListsOK, LocksOK, PastLock, Waits
  <1>5. PICK list : list = IF out = "raised" THEN state[a].messages ELSE Updated(c)
    OBVIOUS
  <1>6. PICK agent : agent = [state[a] EXCEPT !.messages = list]
    OBVIOUS
  <1>7. state' = [state EXCEPT ![a] = agent]
    <2>1. CASE out = "raised"
      <3>1. agent = state[a]
        BY <1>4, <1>5, <1>6, <2>1 DEF SubAgentState
      <3> QED
        BY <1>1, <2>1, <3>1 DEF SendReturns, TypeOK
    <2>2. CASE out # "raised"
      BY <1>1, <1>5, <1>6, <2>2 DEF SendReturns, TypeOK
    <2> QED
      BY <2>1, <2>2
  <1>8. /\ answered' = IF out = "raised" THEN answered ELSE answered \cup {<<a, calls[c].prompt>>}
        /\ UNCHANGED announced /\ ahead' = [d \in Calls |-> ahead[d] \ {c}]
    BY <1>1 DEF SendReturns
  <1>9. /\ agent \in SubAgentState /\ agent.done /\ agent.status = state[a].status /\ agent.messages = list
        /\ agent.session = state[a].session /\ agent.background = state[a].background /\ agent # NoAgent
    <2>1. list \subseteq Prompts
      BY <1>3, <1>4, <1>5 DEF SubAgentState
    <2> QED
      BY <1>4, <1>6, <2>1, Given DEF SubAgentState
  <1>10. /\ state'[a] = agent /\ \A b \in Ids \ {a} : state'[b] = state[b]
         /\ calls'[c] = Idle /\ \A d \in Calls \ {c} : calls'[d] = calls[d]
         /\ state' \in [Ids -> SubAgentState \cup {NoAgent}] /\ ahead' \in [Calls -> SUBSET Calls]
         /\ UNCHANGED <<active, session, cancelled, unhooked>>
    BY <1>3, <1>7, <1>8, <1>9 DEF Returns, Ends, TypeOK
  <1>11. /\ answered' \subseteq Ids \X Prompts /\ answered \subseteq answered'
         /\ \A b \in Ids \ {a}, p \in Prompts : <<b, p>> \in answered' => <<b, p>> \in answered
    BY <1>3, <1>8 DEF TypeOK
  <1>12. CallsOK'
    BY <1>10 DEF CallsInv, CallsOK, Live, CallOK
  <1>13. \A d \in Calls, b \in Ids : (Dispatches(d, b))' <=> Dispatches(d, b)
    BY <1>2, <1>10 DEF Dispatches, Live
  <1>14. \A d \in Calls, b \in Ids : (Messages(d, b))' <=> Messages(d, b) /\ d # c
    BY <1>10 DEF Messages, Live
  <1>15. DispatchOK'
    <2>1. ASSUME NEW d \in Calls, NEW b \in Ids, (Dispatches(d, b))'
          PROVE  /\ (Exists(b))' /\ ~state'[b].done /\ state'[b].background = calls'[d].background
                 /\ \A p \in Prompts : <<b, p>> \notin answered'
                 /\ \A e \in Calls : (Dispatches(e, b))' => e = d
      <3>1. Dispatches(d, b) /\ d # c /\ b # a
        BY <1>2, <1>4, <1>13, <2>1 DEF Dispatches
      <3> QED
        BY <1>10, <1>11, <1>13, <3>1 DEF CallsInv, DispatchOK, Exists
    <2>2. ASSUME NEW d \in Calls, NEW b \in Ids, (Messages(d, b))'
          PROVE  (Exists(b))' /\ (calls'[d].stage # "wait" => state'[b].done)
      <3>1. Messages(d, b) /\ d # c
        BY <1>14, <2>2
      <3>2. CASE b = a
        BY <1>9, <1>10, <3>2 DEF Exists
      <3>3. CASE b # a
        BY <1>10, <3>1, <3>3 DEF CallsInv, DispatchOK, Exists
      <3> QED
        BY <3>2, <3>3
    <2> QED
      BY <2>1, <2>2 DEF DispatchOK
  <1>16. LocksOK'
    <2>1. \A d \in Calls \ {c} : /\ \A b : (d \in Queued(b))' <=> d \in Queued(b)
                                 /\ (Waits(d))' <=> Waits(d)
      BY <1>10 DEF Queued, Waits, Live
    <2>2. ~(\E b : c \in Queued(b))'
      BY <1>10 DEF Queued, Live
    <2>3. \A d \in Calls : ahead'[d] = ahead[d] \ {c} /\ ahead[d] \subseteq Calls
      BY <1>8, Typed
    <2>4. ASSUME NEW d \in Calls PROVE (Waits(d))' \/ ahead'[d] = {}
      BY <1>4, <2>1, <2>3 DEF CallsInv, LocksOK
    <2>5. ASSUME NEW d \in Calls, NEW e \in ahead'[d] PROVE e # d /\ (e \in Queued(calls[d].agent))'
      <3>1. d # c /\ e \in ahead[d] /\ e \in Calls \ {c} /\ e # d /\ e \in Queued(calls[d].agent)
        BY <1>4, <2>3, <2>5 DEF CallsInv, LocksOK
      <3> QED
        BY <1>10, <2>1, <3>1
    <2>6. \A d, e \in Calls, b \in Ids : d # e /\ (d \in Queued(b))' /\ (e \in Queued(b))' => e \in ahead'[d] \/ d \in ahead'[e]
      BY <2>1, <2>2, <2>3 DEF CallsInv, LocksOK
    <2> QED
      BY <2>4, <2>5, <2>6 DEF LocksOK
  <1>17. ListsOK'
    <2>1. ASSUME NEW d \in Calls, NEW b \in Ids, (Reads(d, b))' PROVE d # c /\ b # a /\ Reads(d, b)
      <3>1. Reads(d, b) /\ d # c
        BY <1>10, <2>1 DEF Reads, Messages, Live
      <3>2. ahead[d] = {} /\ d \in Queued(b)
        BY <3>1 DEF CallsInv, LocksOK, Waits, Reads, Messages, PastLock, Queued
      <3> QED
        BY <1>3, <1>4, <3>1, <3>2 DEF CallsInv, LocksOK
    <2> QED
      BY <1>10, <1>11, <2>1 DEF CallsInv, ListsOK
  <1>18. AgentsOK'
    <2>1. \A b \in Ids : (Exists(b))' => state'[b].session <= session'
      BY <1>4, <1>9, <1>10, Given DEF CallsInv, AgentsOK, Exists
    <2>2. ASSUME NEW e \in answered' PROVE (Exists(e[1]))' /\ e[2] \in state'[e[1]].messages
      <3>1. CASE e = <<a, calls[c].prompt>> /\ out # "raised"
        BY <1>3, <1>5, <1>9, <1>10, <3>1 DEF Exists, Updated
      <3>2. CASE e \in answered
        <4>1. e = <<e[1], e[2]>> /\ e[1] \in Ids /\ e[2] \in Prompts /\ Exists(e[1]) /\ e[2] \in state[e[1]].messages
          BY <3>2 DEF TypeOK, CallsInv, AgentsOK
        <4>2. CASE e[1] = a
          <5>1. e[2] \in calls[c].prior
            BY <1>4, <3>2, <4>1, <4>2
          <5> QED
            BY <1>5, <1>9, <1>10, <4>1, <4>2, <5>1 DEF Exists, Updated
        <4>3. CASE e[1] # a
          BY <1>10, <4>1, <4>3 DEF Exists
        <4> QED
          BY <4>2, <4>3
      <3> QED
        BY <1>8, <2>2, <3>1, <3>2
    <2> QED
      BY <2>1, <2>2 DEF AgentsOK
  <1>19. \A b \in Ids : /\ (Exists(b))' <=> Exists(b)
                        /\ Exists(b) => state'[b].background = state[b].background /\ state'[b].status = state[b].status
                                        /\ state'[b].session = state[b].session /\ state'[b].done = state[b].done
    BY <1>4, <1>9, <1>10, Given DEF Exists, SubAgentState
  <1>20. BackgroundIsAnnounced'
    BY <1>8, <1>10, <1>19 DEF CallsInv, BackgroundIsAnnounced, Settled
  <1>21. EndedOK'
    BY <1>10, <1>13, <1>19 DEF CallsInv, EndedOK, Settled
  <1> QED
    BY <1>8, <1>10, <1>11, <1>12, <1>15, <1>16, <1>17, <1>18, <1>19, <1>20, <1>21 DEF CallsInv
----------------------------------------------------------------------------
(* A turn is stopped, the process dies, the browser reconnects *)

LEMMA CancelStep ==
  ASSUME TypeOK, CallsInv, NEW x \in Cids, CancelTurn(x)
  PROVE  /\ CallsInv' /\ state' \in [Ids -> SubAgentState \cup {NoAgent}] /\ ahead' \in [Calls -> SUBSET Calls]
         /\ calls' \in [Calls -> Call \cup {Idle}] /\ cancelled' \subseteq Ids /\ unhooked' \subseteq cancelled'
         /\ (\A b \in Ids : Exists(b) => (Exists(b))')
         /\ \E hit \in SUBSET Calls : /\ excused' = excused + Open(hit)
                                      /\ \A c \in Calls : (Running(c))' <=> Running(c) /\ c \notin hit
  <1> DEFINE hit == {c \in Calls : Live(c) /\ calls[c].root = x}
             cut == {c \in hit : calls[c].op = "Agent" /\ calls[c].agent # NoAgent}
             hooked == {calls[c].agent : c \in {d \in cut : At(d, "hook")}}
             started == {calls[c].agent : c \in cut} \ hooked
  <1>1. /\ calls' = [c \in Calls |-> IF c \in hit THEN Idle ELSE calls[c]]
        /\ ahead' = [c \in Calls |-> IF c \in hit THEN {} ELSE ahead[c] \ hit]
        /\ state' = [a \in Ids |-> IF a \in started THEN [state[a] EXCEPT !.done = TRUE] ELSE state[a]]
        /\ cancelled' = cancelled \cup hooked \cup started /\ unhooked' = unhooked \cup hooked
        /\ excused' = excused + Open(hit)
        /\ UNCHANGED <<active, session, answered, announced>>
    BY DEF CancelTurn
  <1>2. /\ hit \subseteq Calls
        /\ \A a : a \in hooked \cup started => \E c \in hit : Dispatches(c, a) /\ calls[c].agent = a /\ c \in cut
        /\ \A c \in hit, a \in Ids : Dispatches(c, a) => a \in hooked \cup started
    BY Given DEF Dispatches, Live
  <1> HIDE DEF hit, cut
  <1>3. hooked \subseteq Ids /\ started \subseteq Ids
    <2>1. ASSUME NEW c \in cut PROVE calls[c].agent \in Ids
      BY Typed, <1>2 DEF cut, hit, Call
    <2> QED
      BY <2>1
  <1>4. \A a \in Ids : a \in started => Exists(a) /\ state[a] \in SubAgentState
    BY <1>2, Typed DEF CallsInv, DispatchOK
  <1> HIDE DEF hooked, started
  <1>5. \A a \in Ids : /\ (Exists(a))' <=> Exists(a)
                       /\ Exists(a) => /\ state'[a].background = state[a].background /\ state'[a].status = state[a].status
                                       /\ state'[a].session = state[a].session /\ state'[a].messages = state[a].messages
                                       /\ state'[a].done <=> state[a].done \/ a \in started
    <2> SUFFICES ASSUME NEW a \in Ids
                 PROVE  /\ (Exists(a))' <=> Exists(a)
                        /\ Exists(a) => /\ state'[a].background = state[a].background /\ state'[a].status = state[a].status
                                        /\ state'[a].session = state[a].session /\ state'[a].messages = state[a].messages
                                        /\ state'[a].done <=> state[a].done \/ a \in started
      OBVIOUS
    <2>1. CASE a \in started
      <3>1. state'[a] = [state[a] EXCEPT !.done = TRUE] /\ state[a] \in SubAgentState /\ Exists(a)
        BY <1>1, <1>4, <2>1
      <3>2. state'[a] \in SubAgentState
        BY <3>1 DEF SubAgentState
      <3> QED
        BY <2>1, <3>1, <3>2, Given DEF SubAgentState, Exists
    <2>2. CASE a \notin started
      BY <1>1, <2>2 DEF Exists
    <2> QED
      BY <2>1, <2>2
  <1>6. state' \in [Ids -> SubAgentState \cup {NoAgent}]
    <2>1. ASSUME NEW a \in Ids PROVE (IF a \in started THEN [state[a] EXCEPT !.done = TRUE] ELSE state[a]) \in SubAgentState \cup {NoAgent}
      BY <1>4, Typed DEF SubAgentState
    <2> QED
      BY <1>1, <2>1
  <1>7. ahead' \in [Calls -> SUBSET Calls] /\ calls' \in [Calls -> Call \cup {Idle}] /\ cancelled' \subseteq Ids /\ unhooked' \subseteq cancelled'
    BY <1>1, <1>3 DEF TypeOK
  <1>8. (\A c \in hit : calls'[c] = Idle /\ ahead'[c] = {}) /\ \A c \in Calls \ hit : calls'[c] = calls[c] /\ ahead'[c] = ahead[c] \ hit
    BY <1>1, <1>2
  <1>9. CallsOK'
    BY <1>8 DEF CallsInv, CallsOK, Live, CallOK
  <1>10. \A d \in Calls, b \in Ids : (Dispatches(d, b))' <=> Dispatches(d, b) /\ d \notin hit
    BY <1>8 DEF Dispatches, Live
  <1>11. \A d \in Calls, b \in Ids : (Messages(d, b))' <=> Messages(d, b) /\ d \notin hit
    BY <1>8 DEF Messages, Live
  <1>12. \A d \in Calls \ hit, b \in Ids : Dispatches(d, b) => b \notin started
    BY <1>2 DEF CallsInv, DispatchOK
  <1>13. DispatchOK'
    <2>1. ASSUME NEW d \in Calls, NEW b \in Ids, (Dispatches(d, b))'
          PROVE  /\ (Exists(b))' /\ ~state'[b].done /\ state'[b].background = calls'[d].background
                 /\ \A p \in Prompts : <<b, p>> \notin answered'
                 /\ \A e \in Calls : (Dispatches(e, b))' => e = d
      <3>1. Dispatches(d, b) /\ d \notin hit /\ b \notin started
        BY <1>10, <1>12, <2>1
      <3> QED
        BY <1>1, <1>5, <1>8, <1>10, <3>1 DEF CallsInv, DispatchOK
    <2>2. ASSUME NEW d \in Calls, NEW b \in Ids, (Messages(d, b))'
          PROVE  (Exists(b))' /\ (calls'[d].stage # "wait" => state'[b].done)
      BY <1>5, <1>8, <1>11, <2>2 DEF CallsInv, DispatchOK
    <2> QED
      BY <2>1, <2>2 DEF DispatchOK
  <1>14. LocksOK'
    <2>1. \A d \in Calls \ hit : /\ \A b : (d \in Queued(b))' <=> d \in Queued(b)
                                 /\ (Waits(d))' <=> Waits(d)
      BY <1>8 DEF Queued, Waits, Live
    <2>2. \A d \in hit : ~(\E b : d \in Queued(b))'
      BY <1>8 DEF Queued, Live
    <2>3. \A d \in Calls : ahead[d] \subseteq Calls
      BY Typed
    <2>4. ASSUME NEW d \in Calls PROVE (Waits(d))' \/ ahead'[d] = {}
      BY <1>8, <2>1 DEF CallsInv, LocksOK
    <2>5. ASSUME NEW d \in Calls, NEW e \in ahead'[d] PROVE e # d /\ (e \in Queued(calls[d].agent))'
      <3>1. d \notin hit /\ e \in ahead[d] /\ e \in Calls \ hit /\ e # d /\ e \in Queued(calls[d].agent)
        BY <1>8, <2>3, <2>5 DEF CallsInv, LocksOK
      <3> QED
        BY <1>8, <2>1, <3>1
    <2>6. \A d, e \in Calls, b \in Ids : d # e /\ (d \in Queued(b))' /\ (e \in Queued(b))' => e \in ahead'[d] \/ d \in ahead'[e]
      <3> SUFFICES ASSUME NEW d \in Calls, NEW e \in Calls, NEW b \in Ids, d # e, (d \in Queued(b))', (e \in Queued(b))'
                   PROVE  e \in ahead'[d] \/ d \in ahead'[e]
        OBVIOUS
      <3>1. d \notin hit /\ e \notin hit /\ d \in Queued(b) /\ e \in Queued(b)
        BY <2>1, <2>2
      <3>2. e \in ahead[d] \/ d \in ahead[e]
        BY <3>1 DEF CallsInv, LocksOK
      <3> QED
        BY <1>8, <3>1, <3>2
    <2> QED
      BY <2>4, <2>5, <2>6 DEF LocksOK
  <1>15. ListsOK'
    <2>1. ASSUME NEW d \in Calls, NEW b \in Ids, (Reads(d, b))' PROVE d \notin hit /\ Reads(d, b)
      BY <1>8, <2>1 DEF Reads, Messages, Live
    <2> QED
      BY <1>1, <1>8, <2>1 DEF CallsInv, ListsOK
  <1>16. AgentsOK'
    <2>1. \A b \in Ids : (Exists(b))' => state'[b].session <= session'
      BY <1>1, <1>5 DEF CallsInv, AgentsOK
    <2>2. ASSUME NEW e \in answered' PROVE (Exists(e[1]))' /\ e[2] \in state'[e[1]].messages
      <3>1. e \in answered /\ e[1] \in Ids /\ Exists(e[1]) /\ e[2] \in state[e[1]].messages
        BY <1>1 DEF CallsInv, AgentsOK, TypeOK
      <3> QED
        BY <1>5, <3>1
    <2> QED
      BY <2>1, <2>2 DEF AgentsOK
  <1>17. BackgroundIsAnnounced'
    BY <1>1, <1>5 DEF CallsInv, BackgroundIsAnnounced, Settled
  <1>18. EndedOK'
    <2>1. ASSUME NEW b \in Ids, (Exists(b))', \A d \in Calls : ~(Dispatches(d, b))'
          PROVE  (state'[b].done \/ b \in unhooked') /\ ((Settled(b))' \/ b \in cancelled')
      <3>1. CASE \A d \in Calls : ~Dispatches(d, b)
        BY <1>1, <1>5, <2>1, <3>1 DEF CallsInv, EndedOK, Settled
      <3>2. CASE \E d \in Calls : Dispatches(d, b)
        <4>1. b \in hooked \cup started
          BY <1>2, <1>10, <2>1, <3>2
        <4> QED
          BY <1>1, <1>5, <2>1, <4>1
      <3> QED
        BY <3>1, <3>2
    <2> QED
      BY <2>1 DEF EndedOK
  <1>19. \A c \in Calls : (Running(c))' <=> Running(c) /\ c \notin hit
    BY <1>2, <1>8 DEF Running, Live
  <1>20. hit \in SUBSET Calls /\ excused' = excused + Open(hit)
    BY <1>1, <1>2
  <1> QED
    BY <1>5, <1>6, <1>7, <1>9, <1>13, <1>14, <1>15, <1>16, <1>17, <1>18, <1>19, <1>20 DEF CallsInv

LEMMA CrashStep ==
  ASSUME TypeOK, Crash
  PROVE  /\ CallsInv' /\ state' \in [Ids -> SubAgentState \cup {NoAgent}] /\ ahead' \in [Calls -> SUBSET Calls]
         /\ calls' \in [Calls -> Call \cup {Idle}] /\ \A c \in Calls : ~(Running(c))'
  <1>1. /\ (\A c \in Calls : calls'[c] = Idle /\ ahead'[c] = {}) /\ (\A a \in Ids : state'[a] = NoAgent) /\ answered' = {}
        /\ state' \in [Ids -> SubAgentState \cup {NoAgent}] /\ ahead' \in [Calls -> SUBSET Calls]
        /\ calls' \in [Calls -> Call \cup {Idle}]
    BY DEF Crash
  <1>2. /\ \A c \in Calls, a \in Ids : ~(Dispatches(c, a))' /\ ~(Messages(c, a))' /\ ~(Reads(c, a))'
        /\ \A a \in Ids : ~(Exists(a))'
    BY <1>1 DEF Dispatches, Messages, Reads, Live, Exists
  <1>3. \A c \in Calls : ~(Live(c))' /\ ~(Running(c))' /\ \A b : ~(c \in Queued(b))'
    BY <1>1 DEF Live, Running, Queued
  <1>4. CallsOK' /\ DispatchOK' /\ ListsOK'
    BY <1>2, <1>3 DEF CallsOK, DispatchOK, ListsOK
  <1>5. LocksOK'
    BY <1>1, <1>3 DEF LocksOK
  <1>6. AgentsOK' /\ EndedOK' /\ BackgroundIsAnnounced'
    BY <1>1, <1>2 DEF AgentsOK, EndedOK, BackgroundIsAnnounced
  <1> QED
    BY <1>1, <1>3, <1>4, <1>5, <1>6 DEF CallsInv

(* The session goes on, or rows are deleted: no agent and no lock changes. *)
LEMMA AsideStep ==
  ASSUME TypeOK, CallsInv, session' \in 1..MaxSessions, session <= session',
         UNCHANGED <<state, active, ahead, answered, announced, cancelled, unhooked>>,
         \A c \in Calls : /\ (Live(c))' <=> Live(c)
                          /\ Live(c) => CallOK(calls'[c]) /\ \A f \in {"op", "agent", "background", "stage", "prior"} :
                                                                calls'[c][f] = calls[c][f]
  PROVE  CallsInv'
  <1>1. /\ \A c \in Calls : (Live(c))' <=> Live(c)
        /\ \A c \in Calls : Live(c) => /\ CallOK(calls'[c]) /\ calls'[c].op = calls[c].op /\ calls'[c].agent = calls[c].agent
                                       /\ calls'[c].background = calls[c].background /\ calls'[c].stage = calls[c].stage
                                       /\ calls'[c].prior = calls[c].prior
    OBVIOUS
  <1>2. CallsOK'
    BY <1>1 DEF CallsInv, CallsOK, CallOK
  <1>3. \A d \in Calls, b \in Ids : /\ (Dispatches(d, b))' <=> Dispatches(d, b)
                                    /\ (Messages(d, b))' <=> Messages(d, b)
                                    /\ (Reads(d, b))' <=> Reads(d, b)
    BY <1>1 DEF Dispatches, Messages, Reads
  <1>4. \A d \in Calls, b \in Ids : Dispatches(d, b) \/ Messages(d, b) => Live(d)
    BY DEF Dispatches, Messages
  <1>5. DispatchOK'
    BY <1>1, <1>3, <1>4 DEF CallsInv, DispatchOK, Exists
  <1>6. LocksOK'
    <2>1. /\ \A d \in Calls : \A b : (d \in Queued(b))' <=> d \in Queued(b)
          /\ \A d \in Calls : (Waits(d))' <=> Waits(d)
      BY <1>1 DEF Queued, Waits
    <2>2. ASSUME NEW d \in Calls PROVE (Waits(d))' \/ ahead'[d] = {}
      BY <2>1 DEF CallsInv, LocksOK
    <2>3. ASSUME NEW d \in Calls, NEW e \in ahead'[d] PROVE e # d /\ (e \in Queued(calls[d].agent))'
      <3>1. e \in ahead[d] /\ e \in Calls /\ e # d /\ e \in Queued(calls[d].agent) /\ Live(d)
        BY <2>3, Typed DEF CallsInv, LocksOK, Waits
      <3> QED
        BY <1>1, <2>1, <3>1
    <2>4. \A d, e \in Calls, b \in Ids : d # e /\ (d \in Queued(b))' /\ (e \in Queued(b))' => e \in ahead'[d] \/ d \in ahead'[e]
      BY <2>1 DEF CallsInv, LocksOK
    <2> QED
      BY <2>2, <2>3, <2>4 DEF LocksOK
  <1>7. ListsOK'
    BY <1>1, <1>3, <1>4 DEF CallsInv, ListsOK, Reads
  <1>8. \A b \in Ids : (Exists(b))' <=> Exists(b)
    BY DEF Exists
  <1>9. session \in Int /\ session' \in Int /\ \A b \in Ids : Exists(b) => state[b].session \in Int /\ state[b].session <= session
    BY Typed DEF TypeOK, SubAgentState, CallsInv, AgentsOK
  <1>10. AgentsOK'
    BY <1>8, <1>9 DEF CallsInv, AgentsOK, Exists
  <1>11. BackgroundIsAnnounced'
    BY <1>8, <1>9 DEF CallsInv, BackgroundIsAnnounced, Settled
  <1>12. EndedOK'
    BY <1>3, <1>8 DEF CallsInv, EndedOK, Settled
  <1> QED
    BY <1>2, <1>5, <1>6, <1>7, <1>10, <1>11, <1>12 DEF CallsInv
----------------------------------------------------------------------------
(* The actions, one by one *)

LEMMA NewCallType ==
  ASSUME TypeOK, NEW q \in Cids \cup Calls \cup {Nobody}, q = Nobody \/ MayCall(q), prompts < MaxPrompts,
         NEW op \in {"Agent", "SendMessage", "run"}, NEW k \in {"definition", "builtin"},
         NEW s \in {"resolve", "wait", "resume", "lookup", "insert"}
  PROVE  NewCall(op, q, k, s) \in Call
  <1>1. RootOf(q) \in Cids \cup {Nobody} /\ CidOf(q) \in Cids \cup {Nobody}
    <2>1. CASE q \in Cids \/ q = Nobody
      BY <2>1 DEF RootOf, CidOf
    <2>2. CASE q \notin Cids /\ q # Nobody
      <3>1. q \in Calls /\ calls[q] \in Call
        BY <2>2, Typed DEF MayCall, At
      <3> QED
        BY <2>2, <3>1 DEF RootOf, CidOf, Call
    <2> QED
      BY <2>1, <2>2
  <1>2. prompts + 1 \in Prompts
    BY Given DEF TypeOK, Prompts
  <1> QED
    BY <1>1, <1>2 DEF NewCall, Call

LEMMA RowsKept ==
  ASSUME TypeOK, RowsOK, UNCHANGED <<rows, excused>>, definition' = "deleted" => definition = "deleted",
         \A c \in Calls : (Running(c))' <=> Running(c)
  PROVE  RowsOK'
  <1>1. (Open(Calls))' = Open(Calls)
    BY SameOpen
  <1> QED
    BY <1>1 DEF RowsOK, RunsSettle

(* A new call of no row. *)
LEMMA StartStep ==
  ASSUME TypeOK, RowsOK, CallsInv, NEW c \in Calls, NEW new \in Call, Starts(c, new), CallOK(new),
         new.op = "Agent" => new.agent = NoAgent,
         new.op = "SendMessage" => /\ new.stage \in {"wait", "resume"} /\ Exists(new.agent)
                                   /\ new.stage = "resume" => state[new.agent].done,
         UNCHANGED <<subagents, definition, session, events, history>>,
         (new.row # "running" /\ UNCHANGED rows) \/ (new.row = "running" /\ rows' = rows + 1 /\ definition = "enabled")
  PROVE  IInv'
  <1>1. /\ calls[c] = Idle /\ calls' = [calls EXCEPT ![c] = new] /\ prompts' \in 0..MaxPrompts
        /\ calls' \in [Calls -> Call \cup {Idle}]
    BY Given DEF Starts, FreeSlot, TypeOK
  <1>2. Quiet /\ UNCHANGED <<definition, events, excused, subagents, session, history>>
    BY DEF Quiet, subagents, history
  <1>3. CallsInv'
    BY <1>1, <1>2, NewStep
  <1>4. /\ ~Running(c) /\ ((Running(c))' <=> new.row = "running")
        /\ \A d \in Calls \ {c} : (Running(d))' <=> Running(d)
    BY <1>1, Given DEF Running, Live, TypeOK
  <1>5. RowsOK' /\ rows' \in Nat
    <2>1. CASE new.row # "running" /\ UNCHANGED rows
      BY <1>2, <1>4, <2>1, RowsKept DEF TypeOK
    <2>2. CASE new.row = "running" /\ rows' = rows + 1 /\ definition = "enabled"
      <3>1. (Open(Calls))' = Open(Calls) + 1
        BY <1>4, <2>2, OneMoreOpen
      <3>2. Open(Calls) \in Nat /\ excused \in Nat /\ rows \in Nat
        BY OpenType DEF TypeOK
      <3> QED
        BY <1>2, <2>2, <3>1, <3>2 DEF RowsOK, RunsSettle
    <2> QED
      BY <2>1, <2>2
  <1>6. TypeOK'
    BY <1>1, <1>2, <1>5 DEF TypeOK, Exists, subagents, history
  <1> QED
    BY <1>3, <1>5, <1>6 DEF IInv, CallsInv

(* A call goes on by itself, its row as it was or inserted. *)
LEMMA GoStep ==
  ASSUME TypeOK, RowsOK, CallsInv, NEW c \in Calls, Live(c), NEW new \in Call, CallOK(new),
         new.op = calls[c].op, new.agent = calls[c].agent, new.background = calls[c].background,
         new.op = "SendMessage" =>
           /\ new.stage # "wait" => state[new.agent].done
           /\ new.stage \in InLine <=> calls[c].stage \in InLine
           /\ new.stage = "lock" \/ ahead[c] = {}
           /\ new.stage \in PastLock => \A p \in Prompts : <<new.agent, p>> \in answered => p \in new.prior,
         calls' = [calls EXCEPT ![c] = new],
         UNCHANGED <<subagents, definition, session, prompts, events, history>>,
         \/ new.row = calls[c].row /\ UNCHANGED rows
         \/ calls[c].row = "none" /\ new.row = "running" /\ rows' = rows + 1 /\ definition # "deleted"
  PROVE  IInv'
  <1>1. calls' \in [Calls -> Call \cup {Idle}]
    BY DEF TypeOK
  <1>2. Quiet /\ UNCHANGED <<definition, prompts, events, excused, subagents, session, history>>
    BY DEF Quiet, subagents, history
  <1>3. CallsInv'
    BY <1>2, MoveStep
  <1>4. /\ (Running(c) <=> calls[c].row = "running") /\ ((Running(c))' <=> new.row = "running")
        /\ \A d \in Calls \ {c} : (Running(d))' <=> Running(d)
    BY Given DEF Running, Live, TypeOK
  <1>5. RowsOK' /\ rows' \in Nat
    <2>1. CASE new.row = calls[c].row /\ UNCHANGED rows
      BY <1>2, <1>4, <2>1, RowsKept DEF TypeOK
    <2>2. CASE calls[c].row = "none" /\ new.row = "running" /\ rows' = rows + 1 /\ definition # "deleted"
      <3>1. (Open(Calls))' = Open(Calls) + 1
        BY <1>4, <2>2, OneMoreOpen
      <3>2. Open(Calls) \in Nat /\ excused \in Nat /\ rows \in Nat
        BY OpenType DEF TypeOK
      <3> QED
        BY <1>2, <2>2, <3>1, <3>2 DEF RowsOK, RunsSettle
    <2> QED
      BY <2>1, <2>2
  <1>6. TypeOK'
    BY <1>1, <1>2, <1>5 DEF TypeOK, Exists, subagents, history
  <1> QED
    BY <1>3, <1>5, <1>6 DEF IInv, CallsInv

LEMMA GiveUpStep ==
  ASSUME TypeOK, RowsOK, CallsInv, NEW c \in Calls, Live(c), calls[c].row # "running",
         \A a \in Ids : ~Dispatches(c, a) /\ c \notin Queued(a),
         Ends(c), UNCHANGED <<subagents, rows, definition, session, prompts, events, history>>
  PROVE  IInv'
  <1>1. calls' \in [Calls -> Call \cup {Idle}]
    BY DEF Ends, TypeOK
  <1>2. Quiet /\ UNCHANGED <<rows, definition, prompts, events, excused, subagents, session, history>>
    BY DEF Quiet, subagents, history
  <1>3. CallsInv'
    BY <1>2, QuitStep
  <1>4. \A d \in Calls : (Running(d))' <=> Running(d)
    BY DEF Running, Live, Ends, TypeOK
  <1>5. RowsOK'
    BY <1>2, <1>4, RowsKept
  <1>6. TypeOK'
    BY <1>1, <1>2 DEF TypeOK, Exists, subagents, history
  <1> QED
    BY <1>3, <1>5, <1>6 DEF IInv, CallsInv

(* A call returns: its row is closed, left to be excused, or was none.     *)
LEMMA ReturnStep ==
  ASSUME TypeOK, RowsOK, CallsInv, NEW c \in Calls, Live(c), calls[c].stage \in PastLock,
         NEW out \in {"completed", "failed", "raised"}, Returns(c, out),
         events' \in 0..MaxEvents,
         \/ rows' = rows - Open({c}) /\ UNCHANGED excused
         \/ UNCHANGED rows /\ excused' = excused + Open({c})
  PROVE  IInv'
  <1>1. /\ calls' = [calls EXCEPT ![c] = Idle] /\ calls' \in [Calls -> Call \cup {Idle}]
        /\ UNCHANGED <<active, definition, session, prompts, cancelled, unhooked>>
    BY DEF Returns, Ends, TypeOK
  <1>2. /\ CallsInv' /\ state' \in [Ids -> SubAgentState \cup {NoAgent}] /\ ahead' \in [Calls -> SUBSET Calls]
        /\ answered' \subseteq Ids \X Prompts /\ announced' \subseteq Ids /\ \A b \in Ids : Exists(b) => (Exists(b))'
    <2>1. CASE DispatchReturns(c, out)
      <3>1. UNCHANGED ahead
        BY <2>1 DEF DispatchReturns
      <3> QED
        BY <2>1, <3>1, DispatchReturnStep DEF TypeOK
    <2>2. CASE SendReturns(c, out)
      <3>1. UNCHANGED announced
        BY <2>2 DEF SendReturns
      <3> QED
        BY <2>2, <3>1, SendReturnStep DEF TypeOK
    <2>3. CASE RunReturns(c)
      <3>1. Quiet /\ Ends(c) /\ \A a \in Ids : ~Dispatches(c, a) /\ c \notin Queued(a)
        BY <1>1, <2>3 DEF Quiet, RunReturns, Dispatches, Queued, Returns
      <3>2. CallsInv'
        BY <3>1, QuitStep
      <3> QED
        BY <3>1, <3>2 DEF Quiet, TypeOK, Exists
    <2> QED
      BY <2>1, <2>2, <2>3 DEF Returns
  <1>3. \A d \in Calls : (Running(d))' <=> Running(d) /\ d \notin {c}
    BY <1>1 DEF Running, Live, TypeOK
  <1>4. /\ (Open(Calls))' = Open(Calls) - Open({c}) /\ (Open(Calls))' \in Nat
        /\ Open(Calls) \in Nat /\ Open({c}) \in Nat /\ rows \in Nat /\ excused \in Nat
    BY <1>3, FewerOpen, OpenType DEF TypeOK
  <1>5. RowsOK' /\ rows' \in Nat /\ excused' \in Nat
    BY <1>1, <1>3, <1>4 DEF RowsOK, RunsSettle
  <1>6. TypeOK'
    BY <1>1, <1>2, <1>5 DEF TypeOK, Exists
  <1> QED
    BY <1>2, <1>5, <1>6 DEF IInv, CallsInv
LEMMA ToolStep ==
  ASSUME TypeOK, RowsOK, CallsInv, NEW c \in Calls, NEW q \in Cids \cup Calls,
         \/ \E k \in {"definition", "builtin"}, bg \in BOOLEAN : handle_task(c, q, k, bg)
         \/ \E a \in Ids : handle_send_message(c, q, a)
  PROVE  IInv'
  <1>1. CASE \E k \in {"definition", "builtin"}, bg \in BOOLEAN : handle_task(c, q, k, bg)
    <2>1. PICK k \in {"definition", "builtin"}, bg \in BOOLEAN : handle_task(c, q, k, bg)
      BY <1>1
    <2>2. PICK call : call = NewCall("Agent", q, k, "resolve")
      OBVIOUS
    <2>3. PICK new : new = [call EXCEPT !.background = bg]
      OBVIOUS
    <2>4. MayCall(q) /\ Starts(c, new) /\ UNCHANGED <<subagents, rows, definition, session, events, history>>
      BY <2>1, <2>2, <2>3 DEF handle_task
    <2>5. call \in Call
      BY <2>2, <2>4, NewCallType DEF Starts
    <2>6. call.op = "Agent" /\ call.agent = NoAgent /\ call.row = "none" /\ call.stage = "resolve"
      BY <2>2 DEF NewCall
    <2>7. new \in Call /\ new.op = "Agent" /\ new.agent = NoAgent /\ new.row = "none" /\ new.stage = "resolve"
      BY <2>3, <2>5, <2>6 DEF Call
    <2>8. CallOK(new)
      BY <2>7 DEF CallOK
    <2> QED
      BY <2>4, <2>7, <2>8, StartStep
  <1>2. CASE \E a \in Ids : handle_send_message(c, q, a)
    <2>1. PICK a \in Ids : handle_send_message(c, q, a)
      BY <1>2
    <2>2. PICK s : s = IF state[a].done THEN "resume" ELSE "wait"
      OBVIOUS
    <2>3. PICK call : call = NewCall("SendMessage", q, state[a].kind, s)
      OBVIOUS
    <2>4. PICK new : new = [call EXCEPT !.agent = a]
      OBVIOUS
    <2>5. MayCall(q) /\ a \in active /\ Starts(c, new) /\ UNCHANGED <<subagents, rows, definition, session, events, history>>
      BY <2>1, <2>2, <2>3, <2>4 DEF handle_send_message
    <2>6. Exists(a) /\ state[a].kind \in {"definition", "builtin"} /\ s \in {"wait", "resume"}
          /\ (s = "resume" => state[a].done)
      BY <2>2, <2>5, Typed DEF TypeOK, SubAgentState
    <2>7. call \in Call
      BY <2>3, <2>5, <2>6, NewCallType DEF Starts
    <2>8. call.op = "SendMessage" /\ call.row = "none" /\ call.stage = s
      BY <2>3 DEF NewCall
    <2>9. new \in Call /\ new.op = "SendMessage" /\ new.agent = a /\ new.row = "none" /\ new.stage = s
      BY <2>4, <2>7, <2>8 DEF Call
    <2>10. CallOK(new)
      BY <2>6, <2>9 DEF CallOK
    <2> QED
      BY <2>5, <2>6, <2>9, <2>10, StartStep
  <1> QED
    BY <1>1, <1>2

LEMMA RunStep ==
  ASSUME TypeOK, RowsOK, CallsInv, NEW c \in Calls, TriggerRun(c) \/ SyncRun(c)
  PROVE  IInv'
  <1>1. CASE TriggerRun(c)
    <2>1. PICK call : call = NewCall("run", Nobody, "definition", "lookup")
      OBVIOUS
    <2>2. PICK new : new = [call EXCEPT !.row = "running"]
      OBVIOUS
    <2>3. /\ Starts(c, new) /\ rows' = rows + 1 /\ definition = "enabled"
          /\ UNCHANGED <<subagents, definition, session, events, history>>
      BY <1>1, <2>1, <2>2 DEF TriggerRun
    <2>4. call \in Call
      BY <2>1, <2>3, NewCallType DEF Starts
    <2>5. call.op = "run" /\ call.agent = NoAgent /\ call.kind = "definition" /\ call.stage = "lookup"
      BY <2>1 DEF NewCall
    <2>6. new \in Call /\ new.op = "run" /\ new.agent = NoAgent /\ new.row = "running" /\ new.kind = "definition"
          /\ new.stage = "lookup"
      BY <2>2, <2>4, <2>5 DEF Call
    <2>7. CallOK(new)
      BY <2>6 DEF CallOK
    <2> QED
      BY <2>3, <2>6, <2>7, StartStep
  <1>2. CASE SyncRun(c)
    <2>1. PICK new : new = NewCall("run", Nobody, "definition", "insert")
      OBVIOUS
    <2>2. Starts(c, new) /\ UNCHANGED <<subagents, rows, definition, session, events, history>>
      BY <1>2, <2>1 DEF SyncRun
    <2>3. new \in Call
      BY <2>1, <2>2, NewCallType DEF Starts
    <2>4. new.op = "run" /\ new.agent = NoAgent /\ new.row = "none" /\ new.stage = "insert" /\ new.kind = "definition"
      BY <2>1 DEF NewCall
    <2>5. CallOK(new)
      BY <2>4 DEF CallOK, PastLock
    <2> QED
      BY <2>2, <2>3, <2>4, <2>5, StartStep
  <1> QED
    BY <1>1, <1>2

(* A call ends before it has begun its work. *)
LEMMA EarlyEndStep ==
  ASSUME TypeOK, RowsOK, CallsInv, NEW c \in Calls,
         UnknownType(c) \/ WaitTimesOut(c) \/ CannotResume(c) \/ JobFindsNothing(c)
  PROVE  IInv'
  <1>1. /\ Live(c) /\ calls[c].stage \in {"resolve", "wait", "resume", "lookup"}
        /\ calls[c].stage = "lookup" => definition = "deleted"
        /\ Ends(c) /\ UNCHANGED <<subagents, rows, definition, session, prompts, events, history>>
    BY DEF UnknownType, WaitTimesOut, CannotResume, JobFindsNothing, At
  <1>2. calls[c] \in Call /\ CallOK(calls[c])
    BY <1>1, Typed DEF CallsInv, CallsOK
  <1>3. calls[c].row # "running"
    BY <1>1, <1>2 DEF CallOK, RowsOK, Running
  <1>4. \A a \in Ids : ~Dispatches(c, a) /\ c \notin Queued(a)
    BY <1>1, <1>2, Given DEF CallOK, PastLock, Dispatches, Queued
  <1> QED
    BY <1>1, <1>3, <1>4, GiveUpStep

(* A call goes on. *)
LEMMA OnwardStep ==
  ASSUME TypeOK, RowsOK, CallsInv, NEW c \in Calls,
         \/ HookReturns(c) \/ DispatchDone(c) \/ AcquireLock(c) \/ JobFindsAgent(c) \/ InsertRow(c)
         \/ \E out \in {"completed", "failed"} : LoopEnds(c, out)
  PROVE  IInv'
  <1>1. Live(c)
    BY DEF HookReturns, DispatchDone, AcquireLock, JobFindsAgent, InsertRow, LoopEnds, At
  <1>2. PICK k : k = calls[c]
    OBVIOUS
  <1>3. k \in Call /\ CallOK(k) /\ k.op \in {"Agent", "SendMessage", "run"}
    BY <1>1, <1>2, Typed DEF CallsInv, CallsOK, Call
  <1>4. k.op = "SendMessage" => /\ k.agent \in Ids
                                /\ k.stage # "wait" => state[k.agent].done
                                /\ k.stage # "lock" => ahead[c] = {}
                                /\ k.stage \in PastLock => \A p \in Prompts : <<k.agent, p>> \in answered => p \in k.prior
    BY <1>1, <1>2, <1>3 DEF CallOK, CallsInv, DispatchOK, LocksOK, ListsOK, Messages, Reads, Waits
  <1>5. CASE HookReturns(c)
    <2>1. PICK s : s = IF k.kind = "definition" THEN "insert" ELSE "loop"
      OBVIOUS
    <2>2. PICK f, r : f = (IF k.background THEN Nobody ELSE k.from) /\ r = IF k.background THEN Nobody ELSE k.root
      OBVIOUS
    <2>3. PICK new : new = [k EXCEPT !.stage = s, !.from = f, !.root = r]
      OBVIOUS
    <2>4. /\ calls' = [calls EXCEPT ![c] = new] /\ k.stage = "hook"
          /\ UNCHANGED <<subagents, rows, definition, session, prompts, events, history>>
      BY <1>2, <1>5, <2>1, <2>2, <2>3 DEF HookReturns, At
    <2>5. k.op = "Agent"
      BY <1>3, <2>4 DEF CallOK, InLine, PastLock
    <2>6. /\ new \in Call /\ new.op = k.op /\ new.agent = k.agent /\ new.background = k.background /\ new.row = k.row
          /\ new.kind = k.kind /\ new.stage = s /\ new.outcome = k.outcome
      <3>1. /\ k.from \in Cids \cup Calls \cup {Nobody} /\ k.root \in Cids \cup {Nobody}
            /\ k.kind \in {"definition", "builtin"}
        BY <1>3 DEF Call
      <3>2. f \in Cids \cup Calls \cup {Nobody} /\ r \in Cids \cup {Nobody} /\ s \in {"insert", "loop"}
        BY <2>1, <2>2, <3>1
      <3> QED
        BY ZenonT(60), <1>3, <2>3, <3>2 DEF Call
    <2>7. CallOK(new)
      BY <1>3, <2>1, <2>4, <2>5, <2>6 DEF CallOK, PastLock
    <2> QED
      BY <1>1, <1>2, <2>4, <2>5, <2>6, <2>7, GoStep
  <1>6. CASE DispatchDone(c)
    <2>1. PICK new : new = [k EXCEPT !.stage = "resume"]
      OBVIOUS
    <2>2. /\ calls' = [calls EXCEPT ![c] = new] /\ k.stage = "wait" /\ state[k.agent].done
          /\ UNCHANGED <<subagents, rows, definition, session, prompts, events, history>>
      BY <1>2, <1>6, <2>1 DEF DispatchDone, At, Goes
    <2>3. k.op = "SendMessage"
      BY <1>3, <2>2 DEF CallOK, InLine, PastLock
    <2>4. /\ new \in Call /\ new.op = k.op /\ new.agent = k.agent /\ new.background = k.background /\ new.row = k.row
          /\ new.kind = k.kind /\ new.stage = "resume"
      BY <1>3, <2>1 DEF Call
    <2>5. CallOK(new)
      BY <1>3, <2>2, <2>3, <2>4 DEF CallOK
    <2> QED
      BY <1>1, <1>2, <1>4, <2>2, <2>3, <2>4, <2>5, GoStep DEF InLine, PastLock
  <1>7. CASE AcquireLock(c)
    <2>1. PICK s : s = IF k.kind = "definition" THEN "insert" ELSE "loop"
      OBVIOUS
    <2>2. PICK list : list = state[k.agent].messages
      OBVIOUS
    <2>3. PICK new : new = [k EXCEPT !.prior = list, !.stage = s]
      OBVIOUS
    <2>4. /\ calls' = [calls EXCEPT ![c] = new] /\ k.stage = "lock" /\ ahead[c] = {}
          /\ UNCHANGED <<subagents, rows, definition, session, prompts, events, history>>
      BY <1>2, <1>7, <2>1, <2>2, <2>3 DEF AcquireLock, At
    <2>5. k.op = "SendMessage"
      BY <1>3, <2>4 DEF CallOK, PastLock
    <2>6. Exists(k.agent) /\ list \subseteq Prompts /\ \A p \in Prompts : <<k.agent, p>> \in answered => p \in list
      <3>1. Exists(k.agent) /\ list \subseteq Prompts
        BY <1>1, <1>2, <1>4, <2>2, <2>5, Typed DEF CallsInv, DispatchOK, Messages, SubAgentState
      <3>2. ASSUME NEW p \in Prompts, <<k.agent, p>> \in answered PROVE p \in list
        <4>1. PICK e \in answered : e = <<k.agent, p>>
          BY <3>2
        <4> QED
          BY <2>2, <4>1 DEF CallsInv, AgentsOK
      <3> QED
        BY <3>1, <3>2
    <2>7. /\ new \in Call /\ new.op = k.op /\ new.agent = k.agent /\ new.background = k.background /\ new.row = k.row
          /\ new.kind = k.kind /\ new.stage = s /\ new.prior = list
      BY ZenonT(60), <1>3, <2>1, <2>3, <2>6 DEF Call
    <2>8. CallOK(new)
      BY <1>3, <1>4, <2>1, <2>4, <2>5, <2>7 DEF CallOK, InLine
    <2> QED
      BY <1>1, <1>2, <1>4, <2>1, <2>4, <2>5, <2>6, <2>7, <2>8, GoStep DEF InLine, PastLock
  <1>8. CASE JobFindsAgent(c)
    <2>1. PICK new : new = [k EXCEPT !.stage = "loop"]
      OBVIOUS
    <2>2. /\ calls' = [calls EXCEPT ![c] = new] /\ k.stage = "lookup"
          /\ UNCHANGED <<subagents, rows, definition, session, prompts, events, history>>
      BY <1>2, <1>8, <2>1 DEF JobFindsAgent, At, Goes
    <2>3. k.op = "run"
      BY <1>3, <2>2 DEF CallOK, InLine, PastLock
    <2>4. /\ new \in Call /\ new.op = k.op /\ new.agent = k.agent /\ new.background = k.background /\ new.row = k.row
          /\ new.kind = k.kind /\ new.stage = "loop"
      BY <1>3, <2>1 DEF Call
    <2>5. CallOK(new)
      BY <1>3, <2>3, <2>4 DEF CallOK, PastLock
    <2> QED
      BY <1>1, <1>2, <2>2, <2>3, <2>4, <2>5, GoStep
  <1>9. CASE InsertRow(c)
    <2>1. PICK new : new = [k EXCEPT !.row = "running", !.stage = "loop"]
      OBVIOUS
    <2>2. /\ calls' = [calls EXCEPT ![c] = new] /\ k.stage = "insert" /\ definition # "deleted" /\ rows' = rows + 1
          /\ UNCHANGED <<subagents, definition, session, prompts, events, history>>
      BY <1>2, <1>9, <2>1 DEF InsertRow, At
    <2>3. k.row = "none"
      BY <1>3, <2>2 DEF CallOK
    <2>4. /\ new \in Call /\ new.op = k.op /\ new.agent = k.agent /\ new.background = k.background /\ new.row = "running"
          /\ new.kind = k.kind /\ new.stage = "loop" /\ new.prior = k.prior
      BY <1>3, <2>1 DEF Call
    <2>5. k.kind = "definition"
      BY <1>3, <2>2 DEF CallOK
    <2>6. CallOK(new)
      BY <1>3, <2>2, <2>4, <2>5 DEF CallOK, PastLock, InLine
    <2> QED
      BY <1>1, <1>2, <1>4, <2>2, <2>3, <2>4, <2>6, GoStep DEF InLine, PastLock
  <1>10. CASE \E out \in {"completed", "failed"} : LoopEnds(c, out)
    <2>1. PICK out \in {"completed", "failed"} : LoopEnds(c, out)
      BY <1>10
    <2>2. PICK new : new = [k EXCEPT !.outcome = out, !.stage = "record"]
      OBVIOUS
    <2>3. /\ calls' = [calls EXCEPT ![c] = new] /\ k.stage = "loop" /\ k.kind = "definition"
          /\ UNCHANGED <<subagents, rows, definition, session, prompts, events, history>>
      BY <1>2, <2>1, <2>2 DEF LoopEnds, At
    <2>4. /\ new \in Call /\ new.op = k.op /\ new.agent = k.agent /\ new.background = k.background /\ new.row = k.row
          /\ new.kind = k.kind /\ new.stage = "record" /\ new.outcome = out /\ new.prior = k.prior
      BY <1>3, <2>2 DEF Call
    <2>5. CallOK(new)
      BY <1>3, <2>3, <2>4 DEF CallOK, PastLock, InLine
    <2> QED
      BY <1>1, <1>2, <1>4, <2>3, <2>4, <2>5, GoStep DEF InLine, PastLock
  <1> QED
    BY <1>5, <1>6, <1>7, <1>8, <1>9, <1>10
LEMMA WorkStep ==
  ASSUME TypeOK, RowsOK, CallsInv, NEW c \in Calls,
         \/ InsertFails(c) \/ RecordRun(c) \/ RecordFails(c)
         \/ \E out \in {"completed", "failed", "raised"} : BuiltinEnds(c, out)
  PROVE  IInv'
  <1>1. Live(c) /\ calls[c].stage \in PastLock
    BY DEF InsertFails, RecordRun, RecordFails, BuiltinEnds, At, PastLock
  <1>2. calls[c] \in Call /\ CallOK(calls[c])
    BY <1>1, Typed DEF CallsInv, CallsOK
  <1>3. /\ calls[c].stage = "record" => calls[c].outcome \in {"completed", "failed", "raised"}
        /\ calls[c].stage = "insert" \/ calls[c].kind = "builtin" => ~Running(c) /\ Open({c}) = 0
    BY <1>1, <1>2, OpenOne DEF CallOK, Call, Running
  <1>4. rows \in Nat /\ excused \in Nat /\ Open({c}) \in Nat /\ events \in 0..MaxEvents
        /\ (Event => events' \in 0..MaxEvents)
    BY OpenType, Given DEF TypeOK, Event
  <1>5. CASE InsertFails(c)
    <2>1. Returns(c, "raised") /\ calls[c].stage = "insert" /\ UNCHANGED <<rows, excused>> /\ events' \in 0..MaxEvents
      BY <1>4, <1>5 DEF InsertFails, At
    <2>2. rows' = rows - Open({c})
      BY <1>3, <1>4, <2>1
    <2> QED
      BY <1>1, <2>1, <2>2, ReturnStep
  <1>6. CASE RecordRun(c)
    BY <1>1, <1>3, <1>4, <1>6, ReturnStep DEF RecordRun, At
  <1>7. CASE RecordFails(c)
    BY <1>1, <1>3, <1>4, <1>7, ReturnStep DEF RecordFails, At
  <1>8. CASE \E out \in {"completed", "failed", "raised"} : BuiltinEnds(c, out)
    <2>1. PICK out \in {"completed", "failed", "raised"} : BuiltinEnds(c, out)
      BY <1>8
    <2>2. Returns(c, out) /\ calls[c].kind = "builtin" /\ UNCHANGED <<rows, events, excused>>
      BY <2>1 DEF BuiltinEnds
    <2>3. rows' = rows - Open({c}) /\ events' \in 0..MaxEvents
      BY <1>3, <1>4, <2>2
    <2> QED
      BY <1>1, <2>2, <2>3, ReturnStep
  <1> QED
    BY <1>5, <1>6, <1>7, <1>8

LEMMA LockStep ==
  ASSUME TypeOK, RowsOK, CallsInv, NEW c \in Calls, Resume(c)
  PROVE  IInv'
  <1>1. /\ CallsInv' /\ calls' \in [Calls -> Call \cup {Idle}] /\ ahead' \in [Calls -> SUBSET Calls]
        /\ \A d \in Calls : (Running(d))' <=> Running(d)
    BY ResumeStep
  <1>2. UNCHANGED <<state, active, rows, definition, session, prompts, events, history>>
    BY DEF Resume
  <1>3. RowsOK'
    BY <1>1, <1>2, RowsKept DEF history
  <1>4. TypeOK'
    BY <1>1, <1>2 DEF TypeOK, Exists, history
  <1> QED
    BY <1>1, <1>3, <1>4 DEF IInv, CallsInv

LEMMA NewAgentStep ==
  ASSUME TypeOK, RowsOK, CallsInv, NEW c \in Calls, NEW a \in Ids, NEW expired, RegisterAgent(c, a, expired)
  PROVE  IInv'
  <1>1. /\ CallsInv' /\ state' \in [Ids -> SubAgentState \cup {NoAgent}] /\ calls' \in [Calls -> Call \cup {Idle}]
        /\ (Exists(a))' /\ \A b \in Ids : Exists(b) => (Exists(b))'
    BY RegisterStep
  <1>2. /\ active' = (active \ expired) \cup {a} /\ Live(c)
        /\ calls' = [calls EXCEPT ![c] = [calls[c] EXCEPT !.agent = a, !.stage = "hook"]]
        /\ UNCHANGED <<ahead, rows, definition, session, prompts, events, history>>
    BY DEF RegisterAgent, At
  <1>3. calls[c] \in Call
    BY <1>2, Typed
  <1>4. \A d \in Calls : (Running(d))' <=> Running(d)
    <2>1. PICK new : new = [calls[c] EXCEPT !.agent = a, !.stage = "hook"]
      OBVIOUS
    <2>2. new \in Call /\ new.row = calls[c].row
      BY <1>3, <2>1 DEF Call
    <2>3. calls' = [calls EXCEPT ![c] = new]
      BY <1>2, <2>1
    <2> QED
      BY <1>2, <2>2, <2>3, Given DEF Running, Live, TypeOK
  <1>5. RowsOK'
    BY <1>2, <1>4, RowsKept DEF history
  <1>6. TypeOK'
    BY <1>1, <1>2 DEF TypeOK, history
  <1> QED
    BY <1>1, <1>5, <1>6 DEF IInv, CallsInv

(* The definition, the connection, the turn and the process. *)
LEMMA AroundStep ==
  ASSUME TypeOK, RowsOK, CallsInv, set_enabled \/ delete_agent \/ Reconnect
  PROVE  IInv'
  <1>1. MaxEvents \in Nat /\ events \in 0..MaxEvents /\ session \in 1..MaxSessions /\ MaxSessions \in Nat
    BY Given DEF TypeOK
  <1>2. events' \in 0..MaxEvents
    BY <1>1 DEF set_enabled, delete_agent, Reconnect, Event
  <1>3. CASE set_enabled \/ Reconnect
    <2>1. /\ UNCHANGED <<subagents, calls, rows, prompts, history>>
          /\ definition' \in {"enabled", "disabled", "deleted"} /\ (definition' = "deleted" => definition = "deleted")
          /\ session' \in 1..MaxSessions /\ session <= session'
      BY <1>1, <1>3 DEF set_enabled, Reconnect, TypeOK
    <2>2. \A c \in Calls : ((Running(c))' <=> Running(c)) /\ ((Live(c))' <=> Live(c)) /\ calls'[c] = calls[c]
      BY <2>1 DEF Running, Live
    <2>3. \A c \in Calls : Live(c) => CallOK(calls'[c])
      BY <2>2 DEF CallsInv, CallsOK
    <2>4. CallsInv'
      BY <2>1, <2>2, <2>3, AsideStep DEF subagents, history
    <2>5. RowsOK'
      BY <2>1, <2>2, RowsKept DEF history
    <2>6. TypeOK'
      BY <1>2, <2>1 DEF TypeOK, Exists, subagents, history
    <2> QED
      BY <2>4, <2>5, <2>6 DEF IInv, CallsInv
  <1>4. CASE delete_agent
    <2>1. /\ definition' = "deleted" /\ rows' = 0 /\ excused' = 0
          /\ calls' = [c \in Calls |-> IF Live(c) /\ calls[c].row = "running"
                                       THEN [calls[c] EXCEPT !.row = "deleted"] ELSE calls[c]]
          /\ UNCHANGED <<state, active, ahead, session, prompts, answered, announced, cancelled, unhooked>>
      BY <1>4 DEF delete_agent, subagents
    <2>2. ASSUME NEW c \in Calls
          PROVE  /\ calls'[c] \in Call \cup {Idle} /\ ((Live(c))' <=> Live(c)) /\ ~(Running(c))'
                 /\ Live(c) => CallOK(calls'[c]) /\ \A f \in {"op", "agent", "background", "stage", "prior"} : calls'[c][f] = calls[c][f]
      <3>1. CASE Live(c) /\ calls[c].row = "running"
        <4>1. PICK k : k = calls[c]
          OBVIOUS
        <4>2. PICK new : new = [k EXCEPT !.row = "deleted"]
          OBVIOUS
        <4>3. k \in Call /\ CallOK(k) /\ k.row = "running" /\ calls'[c] = new
          BY <2>1, <3>1, <4>1, <4>2, Typed DEF CallsInv, CallsOK
        <4>4. /\ new \in Call /\ new.op = k.op /\ new.agent = k.agent /\ new.background = k.background /\ new.row = "deleted"
              /\ new.kind = k.kind /\ new.stage = k.stage /\ new.prior = k.prior /\ new.outcome = k.outcome
          BY <4>2, <4>3 DEF Call
        <4>5. CallOK(new)
          BY <4>3, <4>4 DEF CallOK
        <4> QED
          BY <3>1, <4>1, <4>3, <4>4, <4>5, Given DEF Live, Running
      <3>2. CASE ~(Live(c) /\ calls[c].row = "running")
        BY <2>1, <3>2, Typed DEF Live, Running, CallsInv, CallsOK
      <3> QED
        BY <3>1, <3>2
    <2>3. CallsInv'
      <3>1. /\ UNCHANGED <<state, active, ahead, answered, announced, cancelled, unhooked>>
            /\ session' \in 1..MaxSessions /\ session <= session'
        BY <1>1, <2>1
      <3>2. \A c \in Calls : /\ (Live(c))' <=> Live(c)
                             /\ Live(c) => CallOK(calls'[c]) /\ \A f \in {"op", "agent", "background", "stage", "prior"} :
                                                                   calls'[c][f] = calls[c][f]
        BY <2>2
      <3> QED
        BY <3>1, <3>2, AsideStep
    <2>4. (Open(Calls))' = 0
      BY <2>2, NoneOpen
    <2>5. RowsOK'
      <3>1. RunsSettle'
        BY <2>1, <2>4 DEF RunsSettle
      <3>2. \A c \in Calls : ~(Running(c))'
        BY <2>2
      <3> QED
        BY <3>1, <3>2 DEF RowsOK
    <2>6. TypeOK'
      BY <1>2, <2>1, <2>2 DEF TypeOK, Exists
    <2> QED
      BY <2>3, <2>5, <2>6 DEF IInv, CallsInv
  <1> QED
    BY <1>3, <1>4

LEMMA StopStep ==
  ASSUME TypeOK, RowsOK, CallsInv, Crash \/ \E x \in Cids : CancelTurn(x)
  PROVE  IInv'
  <1>1. events' \in 0..MaxEvents
    <2>1. Event
      BY DEF Crash, CancelTurn
    <2>2. MaxEvents \in Nat /\ events \in 0..MaxEvents
      BY Given DEF TypeOK
    <2> QED
      BY <2>1, <2>2 DEF Event
  <1>2. CASE Crash
    <2>1. /\ CallsInv' /\ state' \in [Ids -> SubAgentState \cup {NoAgent}] /\ ahead' \in [Calls -> SUBSET Calls]
          /\ calls' \in [Calls -> Call \cup {Idle}] /\ \A c \in Calls : ~(Running(c))'
      BY <1>2, CrashStep
    <2>2. /\ active' = {} /\ answered' = {} /\ announced' = {} /\ cancelled' = {} /\ unhooked' = {}
          /\ excused' = excused + Open(Calls) /\ UNCHANGED <<rows, definition, session, prompts>>
      BY <1>2 DEF Crash
    <2>3. (Open(Calls))' = 0 /\ Open(Calls) \in Nat
      BY <2>1, NoneOpen, OpenType
    <2>4. RowsOK' /\ excused' \in Nat
      BY <2>1, <2>2, <2>3 DEF RowsOK, RunsSettle, TypeOK
    <2>5. TypeOK'
      BY <1>1, <2>1, <2>2, <2>4 DEF TypeOK
    <2> QED
      BY <2>1, <2>4, <2>5 DEF IInv, CallsInv
  <1>3. CASE \E x \in Cids : CancelTurn(x)
    <2>1. PICK x \in Cids : CancelTurn(x)
      BY <1>3
    <2>2. /\ CallsInv' /\ state' \in [Ids -> SubAgentState \cup {NoAgent}] /\ ahead' \in [Calls -> SUBSET Calls]
          /\ calls' \in [Calls -> Call \cup {Idle}] /\ cancelled' \subseteq Ids /\ unhooked' \subseteq cancelled'
          /\ (\A b \in Ids : Exists(b) => (Exists(b))')
          /\ \E hit \in SUBSET Calls : /\ excused' = excused + Open(hit)
                                       /\ \A c \in Calls : (Running(c))' <=> Running(c) /\ c \notin hit
      BY <2>1, CancelStep
    <2>3. UNCHANGED <<active, rows, definition, session, prompts, answered, announced>>
      BY <2>1 DEF CancelTurn
    <2>4. PICK hit \in SUBSET Calls : /\ excused' = excused + Open(hit)
                                      /\ \A c \in Calls : (Running(c))' <=> Running(c) /\ c \notin hit
      BY <2>2
    <2>5. (Open(Calls))' = Open(Calls) - Open(hit) /\ Open(Calls) \in Nat /\ Open(hit) \in Nat
      BY <2>4, FewerOpen, OpenType
    <2>6. RowsOK' /\ excused' \in Nat
      BY <2>3, <2>4, <2>5 DEF RowsOK, RunsSettle, TypeOK
    <2>7. TypeOK'
      BY <1>1, <2>2, <2>3, <2>6 DEF TypeOK
    <2> QED
      BY <2>2, <2>6, <2>7 DEF IInv, CallsInv
  <1> QED
    BY <1>2, <1>3

----------------------------------------------------------------------------
(* The invariant *)

LEMMA InitInv == Init => IInv
  <1> SUFFICES ASSUME Init PROVE IInv
    OBVIOUS
  <1>1. /\ \A c \in Calls : calls[c] = Idle /\ ahead[c] = {}
        /\ \A a \in Ids : state[a] = NoAgent
        /\ answered = {} /\ rows = 0 /\ excused = 0 /\ definition = "enabled"
    BY DEF Init
  <1>2. /\ \A c \in Calls : ~Live(c) /\ ~Running(c) /\ ~Waits(c) /\ \A a : c \notin Queued(a)
        /\ \A c \in Calls, a \in Ids : ~Dispatches(c, a) /\ ~Messages(c, a) /\ ~Reads(c, a)
        /\ \A a \in Ids : ~Exists(a)
    BY <1>1 DEF Live, Running, Waits, Queued, Dispatches, Messages, Reads, Exists
  <1>3. TypeOK
    BY Given, ConstantsAssumption DEF Init, TypeOK
  <1>4. CallsOK /\ DispatchOK /\ ListsOK /\ AgentsOK /\ EndedOK /\ BackgroundIsAnnounced
    BY <1>1, <1>2 DEF CallsOK, DispatchOK, ListsOK, AgentsOK, EndedOK, BackgroundIsAnnounced
  <1>5. LocksOK
    BY <1>1, <1>2 DEF LocksOK
  <1>6. Open(Calls) = 0
    <2>1. {c \in Calls : Live(c) /\ calls[c].row = "running"} = {}
      BY <1>2
    <2> QED
      BY <2>1, FS_EmptySet DEF Open
  <1>7. RowsOK
    BY <1>1, <1>2, <1>6 DEF RowsOK, RunsSettle
  <1> QED
    BY <1>3, <1>4, <1>5, <1>7 DEF IInv

LEMMA NextInv == IInv /\ [Next]_vars => IInv'
  <1> SUFFICES ASSUME IInv, [Next]_vars PROVE IInv'
    OBVIOUS
  <1>1. TypeOK /\ RowsOK /\ CallsInv
    BY IInvParts
  <1>2. ASSUME NEW c \in Calls, Progress(c) PROVE IInv'
    <2>1. CASE UnknownType(c) \/ WaitTimesOut(c) \/ CannotResume(c) \/ JobFindsNothing(c)
      BY <1>1, <2>1, EarlyEndStep
    <2>2. CASE \E a \in Ids, expired \in SUBSET {b \in active : Settled(b)} : RegisterAgent(c, a, expired)
      BY <1>1, <2>2, NewAgentStep
    <2>3. CASE \/ HookReturns(c) \/ DispatchDone(c) \/ AcquireLock(c) \/ JobFindsAgent(c) \/ InsertRow(c)
               \/ \E out \in {"completed", "failed"} : LoopEnds(c, out)
      BY <1>1, <2>3, OnwardStep
    <2>4. CASE Resume(c)
      BY <1>1, <2>4, LockStep
    <2>5. CASE \/ InsertFails(c) \/ RecordRun(c) \/ RecordFails(c)
               \/ \E out \in {"completed", "failed", "raised"} : BuiltinEnds(c, out)
      BY <1>1, <2>5, WorkStep
    <2> QED
      BY <1>2, <2>1, <2>2, <2>3, <2>4, <2>5 DEF Progress
  <1>3. ASSUME NEW c \in Calls, NEW q \in Cids \cup Calls,
               \/ \E k \in {"definition", "builtin"}, bg \in BOOLEAN : handle_task(c, q, k, bg)
               \/ \E a \in Ids : handle_send_message(c, q, a)
        PROVE  IInv'
    BY <1>1, <1>3, ToolStep
  <1>4. ASSUME NEW c \in Calls, TriggerRun(c) \/ SyncRun(c) PROVE IInv'
    BY <1>1, <1>4, RunStep
  <1>5. CASE set_enabled \/ delete_agent \/ Reconnect
    BY <1>1, <1>5, AroundStep
  <1>6. CASE Crash \/ \E x \in Cids : CancelTurn(x)
    BY <1>1, <1>6, StopStep
  <1>7. CASE UNCHANGED vars
    <2>1. UNCHANGED <<state, active, ahead, calls, rows, definition, session, prompts, events, answered, announced, cancelled, unhooked, excused>>
      BY <1>7 DEF vars, subagents, history
    <2>2. \A c \in Calls : ((Running(c))' <=> Running(c)) /\ ((Live(c))' <=> Live(c)) /\ calls'[c] = calls[c]
      BY <2>1 DEF Running, Live
    <2>3. \A c \in Calls : Live(c) => CallOK(calls'[c])
      BY <1>1, <2>2 DEF CallsInv, CallsOK
    <2>4. session' \in 1..MaxSessions /\ session <= session'
      BY <1>1, <2>1 DEF TypeOK
    <2>5. CallsInv'
      BY <1>1, <2>1, <2>2, <2>3, <2>4, AsideStep
    <2>6. RowsOK'
      BY <1>1, <2>1, <2>2, RowsKept
    <2>7. TypeOK'
      BY <1>1, <2>1 DEF TypeOK, Exists
    <2> QED
      BY <2>5, <2>6, <2>7 DEF IInv, CallsInv
  <1> QED
    BY <1>2, <1>3, <1>4, <1>5, <1>6, <1>7 DEF Next

LEMMA Invariant == Spec => []IInv
  BY InitInv, NextInv, PTL DEF Spec

(* Agents, calls, locks, rows and histories have their types, for any      *)
(* conversations, ids and calls; above all no counter of rows falls below  *)
(* zero. (SubAgentState, AgentRun)                                         *)
THEOREM TypeCorrect == Spec => []TypeOK
  <1>1. IInv => TypeOK
    BY DEF IInv
  <1> QED
    BY <1>1, Invariant, PTL

(* No answer is lost from the conversation of a sub-agent: who goes on     *)
(* from it has read, under its lock, all that was answered before.         *)
(* (tools/subagent.py handle_send_message)                                 *)
THEOREM AnswersCorrect == Spec => []AnswersAreKept
  <1>1. IInv => AnswersAreKept
    BY DEF IInv, AgentsOK, AnswersAreKept
  <1> QED
    BY <1>1, Invariant, PTL

(* When nobody dispatches an agent any more it has ended and says how,     *)
(* except for what a stopped turn leaves, and the rows that are "running"  *)
(* are those of runs in flight or of runs that were cut off.               *)
(* (tools/subagent.py handle_task, core/agent_runner.py run_agent_once)    *)
THEOREM DispatchCorrect == Spec => []DispatchSettles
  <1>1. IInv => DispatchSettles
    <2> SUFFICES ASSUME IInv PROVE DispatchSettles
      OBVIOUS
    <2>1. RunsSettle
      BY DEF IInv, RowsOK
    <2>2. ASSUME NEW a \in Ids, Exists(a), \A c \in Calls : Live(c) /\ calls[c].op = "Agent" => calls[c].agent # a
          PROVE  (state[a].done \/ a \in unhooked) /\ (Settled(a) \/ a \in cancelled)
      <3>1. \A c \in Calls : ~Dispatches(c, a)
        BY <2>2 DEF Dispatches
      <3> QED
        BY <2>2, <3>1 DEF IInv, EndedOK
    <2> QED
      BY <2>1, <2>2 DEF DispatchSettles
  <1> QED
    BY <1>1, Invariant, PTL

(* The session that dispatched a background agent hears of its end, if it  *)
(* is still connected, whatever the end was.                               *)
(* (tools/subagent.py, the notification of _bg)                            *)
THEOREM AnnouncedCorrect == Spec => []BackgroundIsAnnounced
  <1>1. IInv => BackgroundIsAnnounced
    BY DEF IInv
  <1> QED
    BY <1>1, Invariant, PTL
=============================================================================
