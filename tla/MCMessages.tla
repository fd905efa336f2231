----------------------------- MODULE MCMessages -----------------------------
(***************************************************************************)
(* Two senders, two mails of three bytes, an array of two bytes, messages  *)
(* from none to more bytes than a mail holds, and any part of the array,   *)
(* none included, to receive in.                                           *)
(***************************************************************************)
EXTENDS Messages, TLC

Symmetry == Permutations(Src)
=============================================================================
