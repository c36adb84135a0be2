------------------------------ MODULE MCPortal ------------------------------
(***************************************************************************)
(* Instances of Portal for TLC.                                            *)
(***************************************************************************)
EXTENDS Portal

\* The wallet of the navbar is used before the page finds one, or not at all.
WalletFirst ==
  \/ checking["page"] /\ acts = 0
  \/ \A i \in Buttons : checking[i] /\ address[i] = None /\ ~connecting[i]

\* The score page sends two calls for each of the user's acts; it gets one act
\* less than the others.
ShortScore == page = "score" => acts < MaxActs

Bounded == WalletFirst /\ ShortScore

=============================================================================
