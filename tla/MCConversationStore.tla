------------------------- MODULE MCConversationStore -------------------------
(* Model-checking instances of ConversationStore. *)
EXTENDS ConversationStore
=============================================================================
