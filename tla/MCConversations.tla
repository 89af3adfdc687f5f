-------------------------- MODULE MCConversations --------------------------
(* Small instances of Conversations. *)
EXTENDS Conversations, TLC

CONSTANTS k1, k2
TwoObjects == 1..2
Symmetry == Permutations(Cids)
=============================================================================
