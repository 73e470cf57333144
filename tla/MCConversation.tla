--------------------------- MODULE MCConversation ---------------------------
(* A small instance of Conversation for TLC. *)
EXTENDS Conversation

CONSTANTS t1, t2, a1
=============================================================================
