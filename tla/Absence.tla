------------------------------- MODULE Absence -------------------------------
(***************************************************************************)
(* The value of what is left out: undefined or null.                       *)
(***************************************************************************)
CONSTANT None
=============================================================================
