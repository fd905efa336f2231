------------------------------ MODULE MCQueue ------------------------------
(***************************************************************************)
(* Queue on two lists and five items.                                      *)
(***************************************************************************)
EXTENDS Queue
=============================================================================
