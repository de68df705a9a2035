------------------------------ MODULE MCSession -------------------------------
(***************************************************************************)
(* Instances of Session for TLC: two or three parties, one fault.          *)
(***************************************************************************)
EXTENDS Session

CONSTANTS p1, p2, p3
===============================================================================
