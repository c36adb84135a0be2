----------------------------- MODULE MCGateway -----------------------------
(***************************************************************************)
(* Instances of Gateway for TLC.                                           *)
(***************************************************************************)
EXTENDS Gateway

SmallLimits == [api |-> 4, auth |-> 2, read |-> 6, lender |-> 3, attest |-> 1]

\* Either the limits, with every request and no challenge, or a login and the
\* use of its token, with three requests.
LimitsOrLogin ==
  \/ challenges = {}
  \/ sent <= 3 /\ \A c \in challenges : c.at <= 1 /\ c.alike \in {{}, {Server}, Keys}

=============================================================================
