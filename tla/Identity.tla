------------------------------ MODULE Identity ------------------------------
(***************************************************************************)
(* The identity contract (src/contracts/identity): DID documents, the      *)
(* credentials on them, attestations, and the source of trust in issuers,  *)
(* which is the contract's own allow-list until a Registry contract is     *)
(* wired in and that registry from then on.                                *)
(*                                                                         *)
(* What a document never changes after its creation (did string, key) is   *)
(* left out, and so are the expiry dates, which the contract stores and    *)
(* never reads.                                                            *)
(***************************************************************************)
EXTENDS Registry, Sequences

CONSTANTS
  Owners,            \* accounts that may hold a DID
  Hashes,            \* credential hashes; a credential's hash is its id
  Claims,            \* attestation claims
  NoDID,             \* no document is stored for this owner
  Unset,             \* no Registry contract is configured
  MaxCredentials,    \* MAX_CREDENTIALS_PER_DID
  MaxAttestations    \* MAX_ATTESTATIONS_PER_SUBJECT

Times == 0..MaxTime

CredentialRef ==
  [id : Hashes, issuer : Issuers, type : Types, issued_at : Times]

DIDDocument ==
  [created_at : Times, updated_at : Times, credentials : Seq(CredentialRef)]

Attestation == [issuer : Issuers, claim : Claims, attested_at : Times]

ASSUME OwnersAssumption == Owners \subseteq Accounts
ASSUME NoDIDAssumption == NoDID \notin DIDDocument
ASSUME UnsetAssumption == Unset \notin Registries
ASSUME LimitsAssumption == MaxCredentials \in Nat /\ MaxAttestations \in Nat

VARIABLES
  dids,              \* DIDDoc(owner): a DIDDocument, or NoDID
  attestations,      \* Attestations(subject): oldest first
  allowList,         \* TrustedIssuer(issuer): the filters registered locally
  registryContract   \* RegistryContract: the wired registry, or Unset

identityVars == <<dids, attestations, allowList, registryContract>>
vars == <<now, signer, registryVars, identityVars>>

TypeOK ==
  /\ RegistryTypeOK
  /\ dids \in [Owners -> DIDDocument \cup {NoDID}]
  /\ attestations \in [Owners -> Seq(Attestation)]
  /\ allowList \in [Issuers -> SUBSET Scopes]
  /\ registryContract \in Registries \cup {Unset}

Init ==
  /\ RegistryInit
  /\ dids = [o \in Owners |-> NoDID]
  /\ attestations = [o \in Owners |-> <<>>]
  /\ allowList = [i \in Issuers |-> {}]
  /\ registryContract = Unset

-----------------------------------------------------------------------------
\* Definitions named X_Y are faulty variants of X, used to see that a property
\* notices the fault; nothing else refers to them.

(***************************************************************************)
(* Trust checks: the wired registry answers if there is one, the local     *)
(* allow-list otherwise.  A list that was never written is an empty set.   *)
(***************************************************************************)

IsTrustedIssuer_EitherSource(i, t) ==
  \/ registryContract # Unset /\ RegistryTrusts(registryContract, i, t)
  \/ {AnyType, t} \cap allowList[i] # {}

IsTrustedIssuer(i, t) ==
  IF registryContract # Unset
  THEN RegistryTrusts(registryContract, i, t)
  ELSE {AnyType, t} \cap allowList[i] # {}

IsTrustedIssuerAny(i) ==
  IF registryContract # Unset
  THEN RegistryTrustsAny(registryContract, i)
  ELSE allowList[i] # {}

HasDID(o) == dids[o] # NoDID

\* save_did: write the document back with a fresh updated_at
SaveDID_KeepsUpdatedAt(o, credentials) ==
  dids' = [dids EXCEPT ![o] = [@ EXCEPT !.credentials = credentials]]

SaveDID(o, credentials) ==
  dids' = [dids EXCEPT ![o] =
             [@ EXCEPT !.credentials = credentials, !.updated_at = now]]

-----------------------------------------------------------------------------
(***************************************************************************)
(* Invocations.                                                            *)
(***************************************************************************)

CreateDID(o) ==
  /\ ~HasDID(o)
  /\ dids' = [dids EXCEPT ![o] =
                [created_at |-> now, updated_at |-> now, credentials |-> <<>>]]
  /\ signer' = o
  /\ UNCHANGED <<now, registryVars, attestations, allowList, registryContract>>

AddCredential_UntypedTrust(o, t, i, hash) ==
  /\ IsTrustedIssuerAny(i)
  /\ HasDID(o)
  /\ Len(dids[o].credentials) < MaxCredentials
  /\ SaveDID(o, Append(dids[o].credentials,
                  [id |-> hash, issuer |-> i, type |-> t, issued_at |-> now]))
  /\ signer' = i
  /\ UNCHANGED <<now, registryVars, attestations, allowList, registryContract>>

AddCredential(o, t, i, hash) ==
  /\ IsTrustedIssuer(i, t)
  /\ HasDID(o)
  /\ Len(dids[o].credentials) < MaxCredentials
  /\ SaveDID(o, Append(dids[o].credentials,
                  [id |-> hash, issuer |-> i, type |-> t, issued_at |-> now]))
  /\ signer' = i
  /\ UNCHANGED <<now, registryVars, attestations, allowList, registryContract>>

\* The search stops at the first credential with the requested id, and that
\* credential alone decides whether the caller may revoke.
Revocable(i, o, id, k) ==
  LET creds == dids[o].credentials IN
  /\ HasDID(o)
  /\ k \in DOMAIN creds
  /\ creds[k].id = id
  /\ \A j \in 1..(k - 1) : creds[j].id # id
  /\ creds[k].issuer = i

Without(s, k) == SubSeq(s, 1, k - 1) \o SubSeq(s, k + 1, Len(s))

RevokeCredential(i, o, id) ==
  /\ HasDID(o)
  /\ \E k \in DOMAIN dids[o].credentials :
       /\ Revocable(i, o, id, k)
       /\ SaveDID(o, Without(dids[o].credentials, k))
  /\ signer' = i
  /\ UNCHANGED <<now, registryVars, attestations, allowList, registryContract>>

Attest_DropsOldest(i, o, claim) ==
  /\ IsTrustedIssuerAny(i)
  /\ HasDID(o)
  /\ LET new == [issuer |-> i, claim |-> claim, attested_at |-> now]
         kept == IF Len(attestations[o]) >= MaxAttestations
                 THEN Tail(attestations[o]) ELSE attestations[o]
     IN attestations' = [attestations EXCEPT ![o] = Append(kept, new)]
  /\ signer' = i
  /\ UNCHANGED <<now, registryVars, dids, allowList, registryContract>>

Attest(i, o, claim) ==
  /\ IsTrustedIssuerAny(i)
  /\ HasDID(o)
  /\ Len(attestations[o]) < MaxAttestations
  /\ attestations' = [attestations EXCEPT ![o] =
       Append(@, [issuer |-> i, claim |-> claim, attested_at |-> now])]
  /\ signer' = i
  /\ UNCHANGED <<now, registryVars, dids, allowList, registryContract>>

\* register_issuer: the filter is added to what the list already holds.
\* Any account that authorises the call is accepted as admin, here and in
\* init_registry, which may be called again.
AllowIssuer(admin, i, filter) ==
  /\ allowList' = [allowList EXCEPT ![i] = @ \cup {filter}]
  /\ signer' = admin
  /\ UNCHANGED <<now, registryVars, dids, attestations, registryContract>>

InitRegistry(admin, r) ==
  /\ registryContract' = r
  /\ signer' = admin
  /\ UNCHANGED <<now, registryVars, dids, attestations, allowList>>

-----------------------------------------------------------------------------

Next ==
  \/ Tick /\ UNCHANGED identityVars
  \/ RegistryNext /\ UNCHANGED identityVars
  \/ \E o \in Owners :
       \/ CreateDID(o)
       \/ \E i \in Issuers :
            \/ \E t \in Types, hash \in Hashes : AddCredential(o, t, i, hash)
            \/ \E id \in Hashes : RevokeCredential(i, o, id)
            \/ \E claim \in Claims : Attest(i, o, claim)
  \/ \E admin \in Accounts :
       \/ \E i \in Issuers, filter \in Scopes : AllowIssuer(admin, i, filter)
       \/ \E r \in Registries : InitRegistry(admin, r)

Spec == Init /\ [][Next]_vars

-----------------------------------------------------------------------------
(***************************************************************************)
(* Safety.                                                                 *)
(***************************************************************************)

\* A DID never carries more credentials, and a subject never more
\* attestations, than the contract's limits (the checks of add_credential
\* and attest are made on the list before it grows).
WithinLimits ==
  \A o \in Owners :
    /\ HasDID(o) => Len(dids[o].credentials) <= MaxCredentials
    /\ Len(attestations[o]) <= MaxAttestations

\* Every timestamp of a document agrees with the order of events: the
\* credentials are listed in the order they were issued, none before the
\* document was created and none after its updated_at, and a subject is
\* attested only after its DID was created, in the order of the list.
Chronology ==
  \A o \in Owners :
    /\ HasDID(o) =>
         LET doc == dids[o] IN
         /\ doc.created_at <= doc.updated_at /\ doc.updated_at <= now
         /\ \A k \in DOMAIN doc.credentials :
              /\ doc.created_at <= doc.credentials[k].issued_at
              /\ doc.credentials[k].issued_at <= doc.updated_at
              /\ \A j \in 1..k : doc.credentials[j].issued_at
                                   <= doc.credentials[k].issued_at
    /\ \A k \in DOMAIN attestations[o] :
         /\ HasDID(o)
         /\ dids[o].created_at <= attestations[o][k].attested_at
         /\ attestations[o][k].attested_at <= now
         /\ \A j \in 1..k : attestations[o][j].attested_at
                              <= attestations[o][k].attested_at

\* The check attest makes and the check add_credential makes never disagree
\* about an issuer, whichever source of trust is in force: an issuer is
\* trusted "for any type" exactly when some type exists it is trusted for.
AnyScopeAgrees ==
  \A i \in Issuers :
    IsTrustedIssuerAny(i) <=> \E t \in Types : IsTrustedIssuer(i, t)

-----------------------------------------------------------------------------
(***************************************************************************)
(* What a step may never do.                                               *)
(***************************************************************************)

\* Attestations are never altered or dropped, and a new one is made by the
\* account that authorised the call, at a moment it was trusted.
AttestationsAppendOnly ==
  [][\A o \in Owners : attestations'[o] # attestations[o] =>
       \E a \in {attestations'[o][Len(attestations'[o])]} :
         /\ attestations'[o] = Append(attestations[o], a)
         /\ a.issuer = signer'
         /\ IsTrustedIssuerAny(a.issuer)]_vars

\* Once a Registry contract is wired in, the local allow-list never decides
\* again: trust changes only when the registry changes or another registry
\* is wired.
RegistryDecides ==
  [][registryContract # Unset =>
       /\ registryContract' # Unset
       /\ registryContract' = registryContract
          /\ issuers'[registryContract] = issuers[registryContract] =>
            \A i \in Issuers :
              /\ IsTrustedIssuerAny(i)' = IsTrustedIssuerAny(i)
              /\ \A t \in Types : IsTrustedIssuer(i, t)' = IsTrustedIssuer(i, t)
    ]_vars

\* The contract keeps the promise of CredentialLedger: the trusted pairs are
\* those the trust check accepts, whatever source it consults.
EffectiveTrust == {p \in Accounts \X Types :
                     p[1] \in Issuers /\ IsTrustedIssuer(p[1], p[2])}

Ledger == INSTANCE CredentialLedger WITH
  Holders <- Owners,
  Capacity <- MaxCredentials,
  trusted <- EffectiveTrust,
  opened <- {o \in Owners : HasDID(o)},
  holdings <- [o \in Owners |-> IF HasDID(o) THEN dids[o].credentials ELSE <<>>],
  actor <- signer

ImplementsLedger == Ledger!Spec

-----------------------------------------------------------------------------
(***************************************************************************)
(* Claims of the documentation the code does not keep.                     *)
(***************************************************************************)

\* "Only the original issuer of the credential may revoke it"
\* (credentials.rs:80), read as a right of that issuer: a credential that is
\* on a DID can be revoked by the account that issued it.
OriginalIssuerCanRevoke ==
  \A o \in Owners : HasDID(o) =>
    \A c \in {dids[o].credentials[k] : k \in DOMAIN dids[o].credentials} :
      \E k \in DOMAIN dids[o].credentials : Revocable(c.issuer, o, c.id, k)

\* "Address of the account that registered this schema" (schemas.rs:44): the
\* author of a schema is the account that authorised its registration.
SchemaAuthorSigned ==
  [][\A r \in Registries, s \in SchemaIds :
       schemas'[r][s] # schemas[r][s] => schemas'[r][s].author = signer']_vars

=============================================================================
