----------------------------- MODULE MCHandles -----------------------------
(* Instance of Handles for TLC: no definition of its own, constants in the  *)
(* cfg files.                                                               *)
EXTENDS Handles
=============================================================================
