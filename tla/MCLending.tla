----------------------------- MODULE MCLending -----------------------------
(***************************************************************************)
(* Instances of Lending for TLC.                                           *)
(***************************************************************************)
EXTENDS Lending

=============================================================================
