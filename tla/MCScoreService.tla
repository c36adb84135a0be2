--------------------------- MODULE MCScoreService ---------------------------
(***************************************************************************)
(* Instances of ScoreService for TLC.                                      *)
(***************************************************************************)
EXTENDS ScoreService, TLC

AddressSymmetry == Permutations(Addresses)

=============================================================================
