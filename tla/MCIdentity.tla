----------------------------- MODULE MCIdentity -----------------------------
(***************************************************************************)
(* Instances of Identity for TLC.                                          *)
(***************************************************************************)
EXTENDS Identity, TLC

CONSTANTS o1, o2, i1, i2, t1, t2, r1, r2

\* every kind of registration: all types, one type, several, and deactivated
AllRegistrations ==
  {[types |-> {}, active |-> TRUE],
   [types |-> {t1}, active |-> TRUE],
   [types |-> {t1, t2}, active |-> TRUE],
   [types |-> {}, active |-> FALSE]}

\* one type or withdrawn
FewRegistrations ==
  {[types |-> {t1}, active |-> TRUE], [types |-> {t1}, active |-> FALSE]}

\* every type, or withdrawn
OpenRegistrations ==
  {[types |-> {}, active |-> TRUE], [types |-> {t1}, active |-> FALSE]}

HashSymmetry == Permutations(Hashes)

NoSchemas == schemas = [r \in Registries |-> [s \in SchemaIds |-> NoRecord]]

Credentials(o) == IF HasDID(o) THEN dids[o].credentials ELSE <<>>

\* Either one issuer, one credential and one ledger; or one registry without
\* schemas and one type, and a document and attestations that share the limit
\* of one of them.
Focused ==
  \/ /\ now = 0 /\ allowList[i2] = {}
     /\ \A r \in Registries : issuers[r][i2] = NoRecord
     /\ \A o \in Owners : attestations[o] = <<>> /\ Len(Credentials(o)) <= 1
  \/ /\ NoSchemas /\ registryContract # r2
     /\ issuers[r2] = [i \in Issuers |-> NoRecord]
     /\ \A i \in Issuers : t2 \notin allowList[i]
     /\ \A o \in Owners : \A k \in DOMAIN Credentials(o) :
          Credentials(o)[k].type = t1
     /\ \A o \in Owners :
          Len(Credentials(o)) + Len(attestations[o]) <= MaxCredentials

=============================================================================
