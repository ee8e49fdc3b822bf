---------------------------- MODULE MCModeration ----------------------------
(* Two chats where the bot works, with a user each, and one where it lost    *)
(* its rights; the worker reads two rows at once.                            *)
EXTENDS Moderation

CONSTANTS u1, u2, u3, h1, h2
=============================================================================
