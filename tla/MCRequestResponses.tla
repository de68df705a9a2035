-------------------------- MODULE MCRequestResponses --------------------------
(***************************************************************************)
(* Instances of RequestResponses for TLC.                                  *)
(***************************************************************************)
EXTENDS RequestResponses

CONSTANTS c1, c2, r1, r2
===============================================================================
