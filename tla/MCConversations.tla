--------------------------- MODULE MCConversations ---------------------------
(* TLC instances of Conversations. *)
EXTENDS Conversations, TLC

Symmetry == Permutations(Users) \cup Permutations(AskIds)
=============================================================================
