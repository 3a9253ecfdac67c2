----------------------- MODULE MCConversationRuntime -----------------------
(* Small instances of ConversationRuntime; conversations are alike. *)
EXTENDS ConversationRuntime, TLC

Symmetry == Permutations(Conversations)
=============================================================================
