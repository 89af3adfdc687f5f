---------------------------- MODULE MCSubAgents ----------------------------
(* Small instances of SubAgents. *)
EXTENDS SubAgents

CONSTANTS x
TwoIds == 1..2
OneCid == {x}
TwoCalls == 1..2

(* Of the prompts, only matters whether a list holds those that were       *)
(* answered; of an agent that was dropped and that no call refers to, that *)
(* the properties hold of it.                                              *)
Gone(a) == Exists(a) /\ a \notin active /\ \A c \in Calls : Live(c) => calls[c].agent # a
Answered(a) == {p \in Prompts : <<a, p>> \in answered}
AgentView(a) ==
    IF Gone(a) \/ ~Exists(a) THEN Exists(a)
    ELSE <<[state[a] EXCEPT !.messages = Answered(a) \subseteq @,
                           !.session = @ = session],
           a \in announced, a \in cancelled, a \in unhooked>>
CallView(c) ==
    IF Live(c) THEN [calls[c] EXCEPT !.prompt = Idle,
                      !.prior = IF calls[c].agent = NoAgent THEN Idle ELSE Answered(calls[c].agent) \subseteq @]
    ELSE Idle
View == <<[a \in Ids |-> AgentView(a)], active, ahead, [c \in Calls |-> CallView(c)],
          rows - excused, AnswersAreKept, DispatchSettles, BackgroundIsAnnounced,
          definition, session, prompts, events>>
=============================================================================
