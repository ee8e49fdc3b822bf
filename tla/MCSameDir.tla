----------------------------- MODULE MCSameDir -----------------------------
(* A command of three links and one of a single link.                       *)
EXTENDS SameDir, TLC

CONSTANTS a, b
Links == a :> 3 @@ b :> 1
=============================================================================
