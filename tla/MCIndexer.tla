----------------------------- MODULE MCIndexer -----------------------------
(***************************************************************************)
(* Instances of Indexer for TLC.                                           *)
(***************************************************************************)
EXTENDS Indexer

IdentityOnly == <<"identity">>
ScoreOnly == <<"score">>
RegistryOnly == <<"registry">>
IdentityAndScore == <<"identity", "score">>
All == <<"identity", "score", "registry">>

=============================================================================
