--------------------------- MODULE MCIdentityApi ---------------------------
(***************************************************************************)
(* Instances of IdentityApi for TLC.                                       *)
(***************************************************************************)
EXTENDS IdentityApi, TLC

\* neither slots nor moments differ
Symmetry == Permutations(Slots) \cup Permutations(Moments)

=============================================================================
