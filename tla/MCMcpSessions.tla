---------------------------- MODULE MCMcpSessions ----------------------------
(* One caller and the prewarming goroutine contend for one plugin, with     *)
(* room for three of its server processes.                                  *)
EXTENDS McpSessions

CONSTANTS c1, p1, t1, t2, t3
=============================================================================
