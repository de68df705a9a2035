------------------------------- MODULE MCWorker -------------------------------
(***************************************************************************)
(* Instances of Worker for TLC.  The passing run has two rooms, because    *)
(* the worker awaits the negotiation of one room while the sessions of the *)
(* other go on; one room is enough for the counterexamples.                *)
(***************************************************************************)
EXTENDS Worker

CONSTANTS roomA, roomB, r1, r2, r3

OneRoom == [r \in Requests |-> roomA]

TwoRooms == [r \in Requests |-> IF r = r3 THEN roomB ELSE roomA]
===============================================================================
