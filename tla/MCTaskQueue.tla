---------------------------- MODULE MCTaskQueue ----------------------------
(***************************************************************************)
(* Instances of TaskQueue for TLC.  a is a download of an engine, b one of *)
(* the bot's own downloaders', which may be forced later.                  *)
(***************************************************************************)
EXTENDS TaskQueue

CONSTANTS a, b

Limits(all, dl, up) == [all |-> all, dl |-> dl, up |-> up]

\* The owner switches between no limit, one common slot, and one slot of each
\* kind.
Switching == {Limits(0, 0, 0), Limits(1, 0, 0), Limits(0, 1, 1)}

=============================================================================
