---------------------------- MODULE MCHandleMap ----------------------------
(***************************************************************************)
(* Generations of two bits, the zero value and two more slots, and so many *)
(* additions that a slot comes back to a generation it had before.         *)
(***************************************************************************)
EXTENDS HandleMap
=============================================================================
