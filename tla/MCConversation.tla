-------------------------- MODULE MCConversation --------------------------
(* Three messages in two chats, room for one chat in the runtime tables.    *)
EXTENDS Conversation

CONSTANTS c1, c2, k1
=============================================================================
