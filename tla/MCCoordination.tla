---------------------------- MODULE MCCoordination -----------------------------
(***************************************************************************)
(* Instances of Coordination for TLC: three or four nodes.                  *)
(***************************************************************************)
EXTENDS Coordination

CONSTANTS a, b, c, d
===============================================================================
