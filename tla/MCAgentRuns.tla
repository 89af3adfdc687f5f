---------------------------- MODULE MCAgentRuns ----------------------------
(***************************************************************************)
(* Instances of AgentRuns for TLC: all sockets belong to one account, which *)
(* is the case the concurrency limit and the shared cid are about.         *)
(***************************************************************************)
EXTENDS AgentRuns, TLC

CONSTANTS u1

OneUser   == {u1}
SameOwner == [s \in Sockets |-> u1]
=============================================================================
