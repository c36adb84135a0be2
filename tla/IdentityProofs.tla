--------------------------- MODULE IdentityProofs ---------------------------
(***************************************************************************)
(* Theorems about Identity, for every set of accounts, issuers, types,     *)
(* registries and hashes and for every limit.                              *)
(***************************************************************************)
EXTENDS Identity, SequenceTheorems, TLAPS

(***************************************************************************)
(* Removing one element of a sequence.                                     *)
(***************************************************************************)

\* What is left after one element of a sequence is removed is a sequence
\* over the same set, shorter by one, whose elements keep their order.
LEMMA WithoutProperties ==
  ASSUME NEW S, NEW s \in Seq(S), NEW k \in 1..Len(s)
  PROVE  /\ Without(s, k) \in Seq(S)
         /\ Len(Without(s, k)) = Len(s) - 1
         /\ \A j \in 1..(Len(s) - 1) :
              Without(s, k)[j] = IF j < k THEN s[j] ELSE s[j + 1]
<1> DEFINE front == SubSeq(s, 1, k - 1)
           back == SubSeq(s, k + 1, Len(s))
<1>1. /\ Len(s) \in Nat /\ k \in Int
      /\ \A i \in 1..Len(s) : s[i] \in S
  BY ElementOfSeq
<1>2. /\ front \in Seq(S)
      /\ Len(front) = k - 1
      /\ \A i \in 1..(k - 1) : front[i] = s[i]
  BY <1>1, SubSeqProperties
<1>3. /\ back \in Seq(S)
      /\ Len(back) = Len(s) - k
      /\ \A i \in 1..(Len(s) - k) : back[i] = s[k + i]
  <2>1. \A i \in (k + 1)..Len(s) : s[i] \in S
    BY <1>1
  <2>2. /\ back \in Seq(S)
        /\ Len(back) = IF k + 1 <= Len(s) THEN Len(s) - (k + 1) + 1 ELSE 0
        /\ \A i \in 1..(Len(s) - (k + 1) + 1) : back[i] = s[(k + 1) + i - 1]
    BY <1>1, <2>1, SubSeqProperties
  <2> QED
    BY <1>1, <2>2
<1>4. /\ front \o back \in Seq(S)
      /\ Len(front \o back) = Len(front) + Len(back)
      /\ \A i \in 1..(Len(front) + Len(back)) : (front \o back)[i] =
           IF i <= Len(front) THEN front[i] ELSE back[i - Len(front)]
  BY <1>2, <1>3, ConcatProperties
<1>5. Without(s, k) = front \o back
  BY DEF Without
<1> HIDE DEF front, back
<1>6. \A j \in 1..(Len(s) - 1) :
        (front \o back)[j] = IF j < k THEN s[j] ELSE s[j + 1]
  <2> SUFFICES ASSUME NEW j \in 1..(Len(s) - 1)
               PROVE  (front \o back)[j] = IF j < k THEN s[j] ELSE s[j + 1]
    OBVIOUS
  <2>1. CASE j < k
    BY <1>1, <1>2, <1>3, <1>4, <2>1
  <2>2. CASE j >= k
    <3>1. (front \o back)[j] = back[j - (k - 1)]
      BY <1>1, <1>2, <1>3, <1>4, <2>2
    <3>2. j - (k - 1) \in 1..(Len(s) - k)
      BY <1>1, <2>2
    <3>3. back[j - (k - 1)] = s[k + (j - (k - 1))]
      BY <1>3, <3>2
    <3> QED
      BY <1>1, <2>2, <3>1, <3>3
  <2>3. j < k \/ j >= k
    BY <1>1
  <2> QED
    BY <2>1, <2>2, <2>3, Zenon
<1>7. Len(front) + Len(back) = Len(s) - 1
  BY <1>1, <1>2, <1>3
<1> QED
  BY <1>4, <1>5, <1>6, <1>7, Zenon

(***************************************************************************)
(* Type correctness.                                                       *)
(***************************************************************************)

\* save_did keeps the documents well typed when the new list of credentials
\* is.
LEMMA SaveDIDType ==
  ASSUME TypeOK, NEW o \in Owners, HasDID(o),
         NEW creds \in Seq(CredentialRef), SaveDID(o, creds)
  PROVE  /\ dids' \in [Owners -> DIDDocument \cup {NoDID}]
         /\ HasDID(o)'
         /\ dids'[o] = [dids[o] EXCEPT !.credentials = creds, !.updated_at = now]
         /\ dids'[o].credentials = creds
         /\ dids'[o].updated_at = now
         /\ dids'[o].created_at = dids[o].created_at
         /\ \A p \in Owners \ {o} : dids'[p] = dids[p]
<1>1. dids[o] \in DIDDocument /\ now \in Times
  BY DEF TypeOK, RegistryTypeOK, HasDID, Times
<1>2. [dids[o] EXCEPT !.credentials = creds, !.updated_at = now] \in DIDDocument
  BY <1>1 DEF DIDDocument
<1>3. dids' = [dids EXCEPT ![o] =
                 [dids[o] EXCEPT !.credentials = creds, !.updated_at = now]]
  BY DEF SaveDID
<1>4. /\ dids'[o] = [dids[o] EXCEPT !.credentials = creds, !.updated_at = now]
      /\ \A p \in Owners \ {o} : dids'[p] = dids[p]
      /\ dids' \in [Owners -> DIDDocument \cup {NoDID}]
  BY <1>2, <1>3 DEF TypeOK
<1>5. /\ dids'[o].credentials = creds
      /\ dids'[o].updated_at = now
      /\ dids'[o].created_at = dids[o].created_at
  BY <1>1, <1>4 DEF DIDDocument
<1>6. HasDID(o)'
  BY <1>2, <1>4, NoDIDAssumption DEF HasDID
<1> QED
  BY <1>4, <1>5, <1>6

\* The credentials of a document after add_credential and revoke_credential.
LEMMA AddedCredentials ==
  ASSUME TypeOK, NEW o \in Owners, NEW t \in Types, NEW i \in Issuers,
         NEW hash \in Hashes, AddCredential(o, t, i, hash)
  PROVE  LET c == [id |-> hash, issuer |-> i, type |-> t, issued_at |-> now]
         IN /\ c \in CredentialRef
            /\ dids[o].credentials \in Seq(CredentialRef)
            /\ Append(dids[o].credentials, c) \in Seq(CredentialRef)
            /\ SaveDID(o, Append(dids[o].credentials, c))
<1> DEFINE c == [id |-> hash, issuer |-> i, type |-> t, issued_at |-> now]
<1>1. c \in CredentialRef
  BY DEF TypeOK, RegistryTypeOK, CredentialRef, Times
<1>2. dids[o].credentials \in Seq(CredentialRef)
  BY DEF TypeOK, AddCredential, HasDID, DIDDocument
<1>3. Append(dids[o].credentials, c) \in Seq(CredentialRef)
  BY <1>1, <1>2, AppendProperties
<1>4. SaveDID(o, Append(dids[o].credentials, c))
  BY DEF AddCredential
<1> QED
  BY <1>1, <1>2, <1>3, <1>4

LEMMA RevokedCredentials ==
  ASSUME TypeOK, NEW o \in Owners, NEW i \in Issuers, NEW id \in Hashes,
         RevokeCredential(i, o, id)
  PROVE  /\ HasDID(o)
         /\ dids[o].credentials \in Seq(CredentialRef)
         /\ \E k \in 1..Len(dids[o].credentials) :
              /\ dids[o].credentials[k].issuer = i
              /\ Without(dids[o].credentials, k) \in Seq(CredentialRef)
              /\ SaveDID(o, Without(dids[o].credentials, k))
<1>1. HasDID(o) /\ dids[o].credentials \in Seq(CredentialRef)
  BY DEF TypeOK, RevokeCredential, HasDID, DIDDocument
<1>2. PICK k \in DOMAIN dids[o].credentials :
        /\ Revocable(i, o, id, k)
        /\ SaveDID(o, Without(dids[o].credentials, k))
  BY DEF RevokeCredential
<1>3. k \in 1..Len(dids[o].credentials)
  BY <1>1, <1>2, LenProperties
<1>4. Without(dids[o].credentials, k) \in Seq(CredentialRef)
  BY <1>1, <1>3, WithoutProperties
<1>5. dids[o].credentials[k].issuer = i
  BY <1>2 DEF Revocable
<1> QED
  BY <1>1, <1>2, <1>3, <1>4, <1>5

\* Init establishes the types.
LEMMA InitTypeOK == Init => TypeOK
<1> SUFFICES ASSUME Init PROVE TypeOK
  OBVIOUS
<1>1. RegistryTypeOK
  BY MaxTimeAssumption DEF Init, RegistryInit, RegistryTypeOK
<1>2. \A S : <<>> \in Seq(S)
  BY EmptySeq
<1> QED
  BY <1>1, <1>2 DEF Init, TypeOK

\* The steps of Next, by the variables they may change.  Every other action
\* of the contract leaves the registries alone, and so on: the case split is
\* made once here.
LEMMA NextCases ==
  ASSUME Next
  PROVE  \/ Tick /\ UNCHANGED identityVars
         \/ RegistryNext /\ UNCHANGED identityVars
         \/ \E o \in Owners : CreateDID(o)
         \/ \E o \in Owners, i \in Issuers, t \in Types, hash \in Hashes :
              AddCredential(o, t, i, hash)
         \/ \E o \in Owners, i \in Issuers, id \in Hashes :
              RevokeCredential(i, o, id)
         \/ \E o \in Owners, i \in Issuers, claim \in Claims :
              Attest(i, o, claim)
         \/ \E admin \in Accounts, i \in Issuers, filter \in Scopes :
              AllowIssuer(admin, i, filter)
         \/ \E admin \in Accounts, r \in Registries : InitRegistry(admin, r)
BY DEF Next

\* A registration or a schema keeps the registries well typed.
LEMMA RegistryNextType ==
  ASSUME RegistryTypeOK, RegistryNext
  PROVE  RegistryTypeOK'
<1>1. PICK r \in Registries, a \in Accounts :
        \/ \E i \in Issuers, reg \in Registrations : RegisterIssuer(a, r, i, reg)
        \/ \E s \in SchemaIds, named \in Accounts : RegisterSchema(a, r, s, named)
  BY DEF RegistryNext
<1>2. CASE \E i \in Issuers, reg \in Registrations : RegisterIssuer(a, r, i, reg)
  <2>1. PICK i \in Issuers, reg \in Registrations : RegisterIssuer(a, r, i, reg)
    BY <1>2
  <2>2. [active |-> reg.active, scopes |-> ScopesOf(reg.types)] \in IssuerRecord
    BY RegistrationsAssumption DEF IssuerRecord, ScopesOf, Scopes
  <2> QED
    BY <2>1, <2>2 DEF RegisterIssuer, RegistryTypeOK
<1>3. CASE \E s \in SchemaIds, named \in Accounts : RegisterSchema(a, r, s, named)
  <2>1. PICK s \in SchemaIds, named \in Accounts : RegisterSchema(a, r, s, named)
    BY <1>3
  <2>2. [author |-> named, registered_at |-> now] \in CredentialSchema
    BY DEF CredentialSchema, RegistryTypeOK
  <2> QED
    BY <2>1, <2>2 DEF RegisterSchema, RegistryTypeOK
<1> QED
  BY <1>1, <1>2, <1>3

\* Every step preserves the types.
LEMMA NextTypeOK == TypeOK /\ [Next]_vars => TypeOK'
<1> SUFFICES ASSUME TypeOK, [Next]_vars PROVE TypeOK'
  OBVIOUS
<1>1. CASE UNCHANGED vars
  BY <1>1 DEF vars, registryVars, identityVars, TypeOK, RegistryTypeOK
<1>2. CASE Tick /\ UNCHANGED identityVars
  BY <1>2, MaxTimeAssumption
  DEF Tick, registryVars, identityVars, TypeOK, RegistryTypeOK
<1>3. CASE RegistryNext /\ UNCHANGED identityVars
  BY <1>3, RegistryNextType DEF TypeOK, identityVars
<1>4. ASSUME NEW o \in Owners, CreateDID(o)
      PROVE  TypeOK'
  <2>1. <<>> \in Seq(CredentialRef)
    BY EmptySeq
  <2>2. [created_at |-> now, updated_at |-> now, credentials |-> <<>>]
          \in DIDDocument
    BY <2>1 DEF TypeOK, RegistryTypeOK, DIDDocument, Times
  <2> QED
    BY <1>4, <2>2, OwnersAssumption
    DEF CreateDID, registryVars, TypeOK, RegistryTypeOK
<1>5. ASSUME NEW o \in Owners, NEW i \in Issuers, NEW t \in Types,
             NEW hash \in Hashes, AddCredential(o, t, i, hash)
      PROVE  TypeOK'
  <2>1. dids' \in [Owners -> DIDDocument \cup {NoDID}]
    BY <1>5, AddedCredentials, SaveDIDType DEF AddCredential
  <2> QED
    BY <1>5, <2>1, AccountsAssumption
    DEF AddCredential, registryVars, TypeOK, RegistryTypeOK
<1>6. ASSUME NEW o \in Owners, NEW i \in Issuers, NEW id \in Hashes,
             RevokeCredential(i, o, id)
      PROVE  TypeOK'
  <2>1. dids' \in [Owners -> DIDDocument \cup {NoDID}]
    BY <1>6, RevokedCredentials, SaveDIDType
  <2> QED
    BY <1>6, <2>1, AccountsAssumption
    DEF RevokeCredential, registryVars, TypeOK, RegistryTypeOK
<1>7. ASSUME NEW o \in Owners, NEW i \in Issuers, NEW claim \in Claims,
             Attest(i, o, claim)
      PROVE  TypeOK'
  <2> DEFINE a == [issuer |-> i, claim |-> claim, attested_at |-> now]
  <2>1. a \in Attestation
    BY DEF TypeOK, RegistryTypeOK, Attestation, Times
  <2>2. Append(attestations[o], a) \in Seq(Attestation)
    BY <2>1, AppendProperties DEF TypeOK
  <2>3. attestations' \in [Owners -> Seq(Attestation)]
    BY <1>7, <2>2 DEF Attest, TypeOK
  <2> QED
    BY <1>7, <2>3, AccountsAssumption
    DEF Attest, registryVars, TypeOK, RegistryTypeOK
<1>8. ASSUME NEW admin \in Accounts, NEW i \in Issuers, NEW filter \in Scopes,
             AllowIssuer(admin, i, filter)
      PROVE  TypeOK'
  BY <1>8 DEF AllowIssuer, registryVars, TypeOK, RegistryTypeOK
<1>9. ASSUME NEW admin \in Accounts, NEW r \in Registries,
             InitRegistry(admin, r)
      PROVE  TypeOK'
  BY <1>9 DEF InitRegistry, registryVars, TypeOK, RegistryTypeOK
<1> QED
  BY <1>1, <1>2, <1>3, <1>4, <1>5, <1>6, <1>7, <1>8, <1>9, NextCases

\* TypeOK holds in every reachable state of the identity contract and of the
\* registries it may consult: every timestamp is one the ledger has shown,
\* and every stored key holds a value of its type or none.
THEOREM TypeCorrect == Spec => []TypeOK
BY InitTypeOK, NextTypeOK, PTL DEF Spec

(***************************************************************************)
(* The limits.                                                             *)
(***************************************************************************)

\* No DID ever carries more than MaxCredentials credentials and no subject
\* more than MaxAttestations attestations, whatever the order of additions
\* and revocations.
THEOREM LimitsHold == Spec => []WithinLimits
<1>1. Init => WithinLimits
  BY LimitsAssumption DEF Init, WithinLimits, HasDID
<1>2. TypeOK /\ WithinLimits /\ [Next]_vars => WithinLimits'
  <2> SUFFICES ASSUME TypeOK, WithinLimits, [Next]_vars
               PROVE  WithinLimits'
    OBVIOUS
  <2> USE DEF WithinLimits, HasDID
  <2>1. CASE UNCHANGED vars
    BY <2>1 DEF vars, identityVars
  <2>2. CASE Tick /\ UNCHANGED identityVars
    BY <2>2 DEF identityVars
  <2>3. CASE RegistryNext /\ UNCHANGED identityVars
    BY <2>3 DEF identityVars
  <2>4. ASSUME NEW o \in Owners, CreateDID(o)
        PROVE  WithinLimits'
    BY <2>4, LimitsAssumption DEF CreateDID, TypeOK
  <2>5. ASSUME NEW o \in Owners, NEW i \in Issuers, NEW t \in Types,
               NEW hash \in Hashes, AddCredential(o, t, i, hash)
        PROVE  WithinLimits'
    <3> DEFINE c == [id |-> hash, issuer |-> i, type |-> t, issued_at |-> now]
               old == dids[o].credentials
    <3>1. c \in CredentialRef /\ old \in Seq(CredentialRef) /\ HasDID(o)
      BY <2>5, AddedCredentials DEF AddCredential
    <3>2. /\ dids'[o].credentials = Append(old, c)
          /\ \A p \in Owners \ {o} : dids'[p] = dids[p]
      BY <2>5, <3>1, AddedCredentials, SaveDIDType
    <3>3. Len(Append(old, c)) = Len(old) + 1
      BY <3>1, AppendProperties
    <3>4. Len(old) < MaxCredentials /\ Len(old) \in Nat
      BY <2>5, <3>1, LenProperties DEF AddCredential
    <3>5. Len(dids'[o].credentials) <= MaxCredentials
      BY <3>2, <3>3, <3>4, LimitsAssumption
    <3> QED
      BY <2>5, <3>2, <3>5 DEF AddCredential
  <2>6. ASSUME NEW o \in Owners, NEW i \in Issuers, NEW id \in Hashes,
               RevokeCredential(i, o, id)
        PROVE  WithinLimits'
    <3> DEFINE old == dids[o].credentials
    <3>1. HasDID(o) /\ old \in Seq(CredentialRef)
      BY <2>6, RevokedCredentials
    <3>2. PICK k \in 1..Len(old) :
            /\ Without(old, k) \in Seq(CredentialRef)
            /\ SaveDID(o, Without(old, k))
      BY <2>6, RevokedCredentials
    <3>3. /\ dids'[o].credentials = Without(old, k)
          /\ \A p \in Owners \ {o} : dids'[p] = dids[p]
      BY <3>1, <3>2, SaveDIDType
    <3>4. Len(Without(old, k)) = Len(old) - 1 /\ Len(old) \in Nat
      BY <3>1, WithoutProperties, LenProperties
    <3>5. Len(old) <= MaxCredentials
      BY <3>1
    <3>6. Len(dids'[o].credentials) <= MaxCredentials
      BY <3>3, <3>4, <3>5, LimitsAssumption
    <3> QED
      BY <2>6, <3>3, <3>6 DEF RevokeCredential
  <2>7. ASSUME NEW o \in Owners, NEW i \in Issuers, NEW claim \in Claims,
               Attest(i, o, claim)
        PROVE  WithinLimits'
    <3> DEFINE a == [issuer |-> i, claim |-> claim, attested_at |-> now]
    <3>1. a \in Attestation /\ attestations[o] \in Seq(Attestation)
      BY DEF TypeOK, RegistryTypeOK, Attestation, Times
    <3>2. Len(Append(attestations[o], a)) = Len(attestations[o]) + 1
      BY <3>1, AppendProperties
    <3>3. Len(attestations[o]) < MaxAttestations /\ Len(attestations[o]) \in Nat
      BY <2>7, <3>1, LenProperties DEF Attest
    <3>4. /\ attestations'[o] = Append(attestations[o], a)
          /\ \A p \in Owners \ {o} : attestations'[p] = attestations[p]
      BY <2>7 DEF Attest, TypeOK
    <3>5. Len(attestations'[o]) <= MaxAttestations
      BY <3>2, <3>3, <3>4, LimitsAssumption
    <3> QED
      BY <2>7, <3>4, <3>5 DEF Attest
  <2>8. ASSUME NEW admin \in Accounts, NEW i \in Issuers,
               NEW filter \in Scopes, AllowIssuer(admin, i, filter)
        PROVE  WithinLimits'
    BY <2>8 DEF AllowIssuer
  <2>9. ASSUME NEW admin \in Accounts, NEW r \in Registries,
               InitRegistry(admin, r)
        PROVE  WithinLimits'
    BY <2>9 DEF InitRegistry
  <2> QED
    BY <2>1, <2>2, <2>3, <2>4, <2>5, <2>6, <2>7, <2>8, <2>9, NextCases
<1> QED
  BY <1>1, <1>2, TypeCorrect, PTL DEF Spec

(***************************************************************************)
(* Agreement of the two trust checks.                                      *)
(***************************************************************************)

\* A registration never leaves an issuer without a scope: this is what makes
\* the untyped check agree with the typed one.
ScopesNonEmpty ==
  \A r \in Registries, i \in Issuers :
    issuers[r][i] # NoRecord => issuers[r][i].scopes # {}

LEMMA ScopesNonEmptyInductive ==
  ASSUME TypeOK, ScopesNonEmpty, [Next]_vars
  PROVE  ScopesNonEmpty'
<1> USE DEF ScopesNonEmpty
<1>1. CASE UNCHANGED issuers
  BY <1>1
<1>2. CASE RegistryNext
  <2>1. PICK r \in Registries, a \in Accounts :
          \/ \E i \in Issuers, reg \in Registrations : RegisterIssuer(a, r, i, reg)
          \/ \E s \in SchemaIds, named \in Accounts : RegisterSchema(a, r, s, named)
    BY <1>2 DEF RegistryNext
  <2>2. CASE \E i \in Issuers, reg \in Registrations : RegisterIssuer(a, r, i, reg)
    <3>1. PICK i \in Issuers, reg \in Registrations : RegisterIssuer(a, r, i, reg)
      BY <2>2
    <3>2. ScopesOf(reg.types) # {}
      BY DEF ScopesOf
    <3> QED
      BY <3>1, <3>2 DEF RegisterIssuer, TypeOK, RegistryTypeOK
  <2>3. CASE \E s \in SchemaIds, named \in Accounts : RegisterSchema(a, r, s, named)
    BY <2>3 DEF RegisterSchema
  <2> QED
    BY <2>1, <2>2, <2>3
<1>3. UNCHANGED issuers \/ RegistryNext
  BY NextCases DEF vars, registryVars, identityVars, Tick, CreateDID,
     AddCredential, RevokeCredential, Attest, AllowIssuer, InitRegistry
<1> QED
  BY <1>1, <1>2, <1>3

\* An issuer attest accepts is one add_credential accepts for some type, and
\* conversely, whichever source of trust is in force.
THEOREM ScopesAgree == Spec => []AnyScopeAgrees
<1>1. Init => ScopesNonEmpty
  BY DEF Init, RegistryInit, ScopesNonEmpty
<1>2. TypeOK /\ ScopesNonEmpty /\ [Next]_vars => ScopesNonEmpty'
  BY ScopesNonEmptyInductive
<1>3. TypeOK /\ ScopesNonEmpty => AnyScopeAgrees
  <2> SUFFICES ASSUME TypeOK, ScopesNonEmpty, NEW i \in Issuers
               PROVE  IsTrustedIssuerAny(i) <=>
                        \E t \in Types : IsTrustedIssuer(i, t)
    BY DEF AnyScopeAgrees
  <2>1. ASSUME NEW S \in SUBSET Scopes
        PROVE  S # {} <=> \E t \in Types : {AnyType, t} \cap S # {}
    BY <2>1, ScopesAssumption DEF Scopes
  <2>2. CASE registryContract = Unset
    <3>1. allowList[i] \in SUBSET Scopes
      BY DEF TypeOK
    <3> QED
      BY <2>1, <2>2, <3>1 DEF IsTrustedIssuer, IsTrustedIssuerAny
  <2>3. CASE registryContract # Unset
    <3> DEFINE rec == issuers[registryContract][i]
    <3>1. rec \in IssuerRecord \cup {NoRecord} /\ registryContract \in Registries
      BY <2>3 DEF TypeOK, RegistryTypeOK
    <3>2. CASE rec = NoRecord
      BY <2>3, <3>2, ScopesAssumption
      DEF IsTrustedIssuer, IsTrustedIssuerAny, RegistryTrusts, RegistryTrustsAny
    <3>3. CASE rec # NoRecord
      <4>1. rec.scopes \in SUBSET Scopes /\ rec.scopes # {}
        BY <3>1, <3>3 DEF IssuerRecord, ScopesNonEmpty
      <4>2. \E t \in Types : {AnyType, t} \cap rec.scopes # {}
        BY <2>1, <4>1
      <4> QED
        BY <2>3, <3>3, <4>2
        DEF IsTrustedIssuer, IsTrustedIssuerAny, RegistryTrusts, RegistryTrustsAny
    <3> QED
      BY <3>2, <3>3
  <2> QED
    BY <2>2, <2>3
<1> QED
  BY <1>1, <1>2, <1>3, TypeCorrect, PTL DEF Spec

(***************************************************************************)
(* Implementation of CredentialLedger.                                     *)
(***************************************************************************)

\* A step that leaves the documents alone is a step of the ledger in which at
\* most trust and the acting account change.
LEMMA GovernStep ==
  ASSUME TypeOK', UNCHANGED dids
  PROVE  Ledger!Next
<1>1. EffectiveTrust' \in SUBSET (Accounts \X Types)
  BY DEF EffectiveTrust
<1>2. signer' \in Accounts
  BY DEF TypeOK, RegistryTypeOK
<1>3. Ledger!Govern
  BY <1>1, <1>2 DEF Ledger!Govern, HasDID
<1> QED
  BY <1>3 DEF Ledger!Next

\* add_credential, revoke_credential and create_did leave trust as it was.
LEMMA TrustUnchanged ==
  ASSUME UNCHANGED <<issuers, allowList, registryContract>>
  PROVE  EffectiveTrust' = EffectiveTrust
BY DEF EffectiveTrust, IsTrustedIssuer, RegistryTrusts

\* The identity contract implements CredentialLedger: whatever source of
\* trust is in force and however it changes, a credential is added only by an
\* account trusted for its type at that moment, is taken away only by the
\* account that issued it, one at a time, and no other list changes.
THEOREM ImplementsCredentialLedger == Spec => ImplementsLedger
<1>1. Init => Ledger!Init
  <2> SUFFICES ASSUME Init PROVE Ledger!Init
    OBVIOUS
  <2>1. \A o \in Owners : ~HasDID(o)
    BY DEF Init, HasDID
  <2>2. signer \in Accounts
    BY DEF Init, RegistryInit
  <2> QED
    BY <2>1, <2>2 DEF Ledger!Init, EffectiveTrust
<1>2. TypeOK /\ TypeOK' /\ [Next]_vars => [Ledger!Next]_(Ledger!ledgerVars)
  <2> SUFFICES ASSUME TypeOK, TypeOK', [Next]_vars
               PROVE  [Ledger!Next]_(Ledger!ledgerVars)
    OBVIOUS
  <2>1. CASE UNCHANGED vars
    <3>1. UNCHANGED dids
      BY <2>1 DEF vars, identityVars
    <3> QED
      BY <3>1, GovernStep
  <2>2. CASE Tick /\ UNCHANGED identityVars
    BY <2>2, GovernStep DEF identityVars
  <2>3. CASE RegistryNext /\ UNCHANGED identityVars
    BY <2>3, GovernStep DEF identityVars
  <2>4. ASSUME NEW o \in Owners, CreateDID(o)
        PROVE  Ledger!Next
    <3> DEFINE new == [created_at |-> now, updated_at |-> now,
                       credentials |-> <<>>]
    <3>1. EffectiveTrust' = EffectiveTrust
      BY <2>4, TrustUnchanged DEF CreateDID, registryVars
    <3>2. /\ ~HasDID(o)
          /\ dids'[o] = new
          /\ \A p \in Owners \ {o} : dids'[p] = dids[p]
      BY <2>4 DEF CreateDID, TypeOK
    <3>3. new \in DIDDocument
      <4>1. <<>> \in Seq(CredentialRef)
        BY EmptySeq
      <4> QED
        BY <4>1 DEF TypeOK, RegistryTypeOK, DIDDocument, Times
    <3>4. HasDID(o)' /\ dids'[o].credentials = <<>>
      BY <3>2, <3>3, NoDIDAssumption DEF HasDID
    <3>5. \A p \in Owners \ {o} : HasDID(p)' <=> HasDID(p)
      BY <3>2 DEF HasDID
    <3>6. {p \in Owners : HasDID(p)}' = {p \in Owners : HasDID(p)} \cup {o}
      BY <3>4, <3>5
    <3>7. [p \in Owners |-> IF HasDID(p) THEN dids[p].credentials ELSE <<>>]'
            = [p \in Owners |-> IF HasDID(p) THEN dids[p].credentials ELSE <<>>]
      BY <3>2, <3>4, <3>5
    <3>8. Ledger!Open(o)
      BY <2>4, <3>1, <3>2, <3>6, <3>7 DEF Ledger!Open, CreateDID
    <3> QED
      BY <3>8 DEF Ledger!Next
  <2>5. ASSUME NEW o \in Owners, NEW i \in Issuers, NEW t \in Types,
               NEW hash \in Hashes, AddCredential(o, t, i, hash)
        PROVE  Ledger!Next
    <3> DEFINE c == [id |-> hash, issuer |-> i, type |-> t, issued_at |-> now]
               new == Append(dids[o].credentials, c)
    <3>1. EffectiveTrust' = EffectiveTrust
      BY <2>5, TrustUnchanged DEF AddCredential, registryVars
    <3>2. /\ HasDID(o)
          /\ c \in CredentialRef
          /\ new \in Seq(CredentialRef)
          /\ SaveDID(o, new)
      BY <2>5, AddedCredentials DEF AddCredential
    <3>3. /\ HasDID(o)'
          /\ dids'[o].credentials = new
          /\ \A p \in Owners \ {o} : dids'[p] = dids[p]
      BY <3>2, SaveDIDType
    <3>4. \A p \in Owners : HasDID(p)' <=> HasDID(p)
      BY <3>2, <3>3 DEF HasDID
    <3>5. c \in Ledger!Entry
      BY <3>2, AccountsAssumption DEF CredentialRef, Ledger!Entry
    <3>6. <<i, t>> \in EffectiveTrust
      BY <2>5, AccountsAssumption DEF AddCredential, EffectiveTrust
    <3>7. PICK e \in Ledger!Entry : e = c
      BY <3>5
    <3>8. Ledger!Issue(o, e)
      BY <2>5, <3>1, <3>2, <3>3, <3>4, <3>6, <3>7
      DEF Ledger!Issue, AddCredential
    <3> QED
      BY <3>8 DEF Ledger!Next
  <2>6. ASSUME NEW o \in Owners, NEW i \in Issuers, NEW id \in Hashes,
               RevokeCredential(i, o, id)
        PROVE  Ledger!Next
    <3> DEFINE old == dids[o].credentials
               held == [p \in Owners |->
                          IF HasDID(p) THEN dids[p].credentials ELSE <<>>]
    <3>1. EffectiveTrust' = EffectiveTrust
      BY <2>6, TrustUnchanged DEF RevokeCredential, registryVars
    <3>2. HasDID(o) /\ old \in Seq(CredentialRef)
      BY <2>6, RevokedCredentials
    <3>3. PICK k \in 1..Len(old) :
            /\ old[k].issuer = i
            /\ Without(old, k) \in Seq(CredentialRef)
            /\ SaveDID(o, Without(old, k))
      BY <2>6, RevokedCredentials
    <3>4. /\ HasDID(o)'
          /\ dids'[o].credentials = Without(old, k)
          /\ \A p \in Owners \ {o} : dids'[p] = dids[p]
      BY <3>2, <3>3, SaveDIDType
    <3>5. \A p \in Owners : HasDID(p)' <=> HasDID(p)
      BY <3>2, <3>4 DEF HasDID
    <3>6. held[o] = old
      BY <3>2
    <3>7. k \in DOMAIN held[o]
      BY <3>2, <3>3, <3>6, LenProperties
    <3>8. held' = [held EXCEPT ![o] =
                     SubSeq(held[o], 1, k - 1) \o SubSeq(held[o], k + 1, Len(held[o]))]
      BY <3>2, <3>4, <3>5 DEF Without
    <3>9. Ledger!Withdraw(o, k)
      BY <2>6, <3>1, <3>3, <3>5, <3>6, <3>8
      DEF Ledger!Withdraw, RevokeCredential
    <3> QED
      BY <3>7, <3>9 DEF Ledger!Next
  <2>7. ASSUME NEW o \in Owners, NEW i \in Issuers, NEW claim \in Claims,
               Attest(i, o, claim)
        PROVE  Ledger!Next
    BY <2>7, GovernStep DEF Attest
  <2>8. ASSUME NEW admin \in Accounts, NEW i \in Issuers,
               NEW filter \in Scopes, AllowIssuer(admin, i, filter)
        PROVE  Ledger!Next
    BY <2>8, GovernStep DEF AllowIssuer
  <2>9. ASSUME NEW admin \in Accounts, NEW r \in Registries,
               InitRegistry(admin, r)
        PROVE  Ledger!Next
    BY <2>9, GovernStep DEF InitRegistry
  <2> QED
    BY <2>1, <2>2, <2>3, <2>4, <2>5, <2>6, <2>7, <2>8, <2>9, NextCases
<1> QED
  BY <1>1, <1>2, TypeCorrect, PTL DEF Spec, ImplementsLedger, Ledger!Spec

(***************************************************************************)
(* The timestamps.                                                         *)
(***************************************************************************)

\* issued between two moments, in the order of the list
Dated(creds, from, to) ==
  \A k \in 1..Len(creds) :
    /\ from <= creds[k].issued_at
    /\ creds[k].issued_at <= to
    /\ \A j \in 1..k : creds[j].issued_at <= creds[k].issued_at

DatedDocument(o) ==
  HasDID(o) =>
    /\ dids[o].created_at <= dids[o].updated_at
    /\ dids[o].updated_at <= now
    /\ Dated(dids[o].credentials, dids[o].created_at, dids[o].updated_at)

DatedAttestations(o) ==
  \A k \in 1..Len(attestations[o]) :
    /\ HasDID(o)
    /\ dids[o].created_at <= attestations[o][k].attested_at
    /\ attestations[o][k].attested_at <= now
    /\ \A j \in 1..k : attestations[o][j].attested_at
                         <= attestations[o][k].attested_at

LEMMA ChronologyInParts ==
  ASSUME TypeOK
  PROVE  Chronology <=>
           \A o \in Owners : DatedDocument(o) /\ DatedAttestations(o)
<1>1. \A o \in Owners :
        /\ HasDID(o) => DOMAIN dids[o].credentials = 1..Len(dids[o].credentials)
        /\ DOMAIN attestations[o] = 1..Len(attestations[o])
  BY LenProperties DEF TypeOK, HasDID, DIDDocument
<1> QED
  BY <1>1 DEF Chronology, DatedDocument, DatedAttestations, Dated

LEMMA DocumentTimes ==
  ASSUME TypeOK, NEW o \in Owners, HasDID(o)
  PROVE  /\ dids[o].created_at \in Nat /\ dids[o].updated_at \in Nat
         /\ now \in Nat
         /\ dids[o].credentials \in Seq(CredentialRef)
         /\ Len(dids[o].credentials) \in Nat
         /\ \A k \in 1..Len(dids[o].credentials) :
              dids[o].credentials[k].issued_at \in Nat
<1>1. dids[o] \in DIDDocument /\ now \in Nat
  BY MaxTimeAssumption DEF TypeOK, RegistryTypeOK, HasDID
<1>2. dids[o].credentials \in Seq(CredentialRef)
  BY <1>1 DEF DIDDocument
<1>3. \A k \in 1..Len(dids[o].credentials) :
        dids[o].credentials[k] \in CredentialRef
  BY <1>2, ElementOfSeq
<1> QED
  BY <1>1, <1>2, <1>3, MaxTimeAssumption, LenProperties
  DEF DIDDocument, CredentialRef, Times

\* A document that stays as it is stays dated while time passes.
LEMMA DocumentFrame ==
  ASSUME TypeOK, NEW o \in Owners, DatedDocument(o), dids'[o] = dids[o],
         now' \in Nat, now <= now'
  PROVE  DatedDocument(o)'
<1>1. HasDID(o)' <=> HasDID(o)
  BY DEF HasDID
<1>2. HasDID(o) => dids[o].updated_at \in Nat /\ now \in Nat
  BY DocumentTimes
<1> QED
  BY <1>1, <1>2 DEF DatedDocument

LEMMA AttestationsFrame ==
  ASSUME TypeOK, NEW o \in Owners, DatedAttestations(o),
         attestations'[o] = attestations[o],
         HasDID(o) => HasDID(o)' /\ dids'[o].created_at = dids[o].created_at,
         now' \in Nat, now <= now'
  PROVE  DatedAttestations(o)'
<1>1. now \in Nat
  BY MaxTimeAssumption DEF TypeOK, RegistryTypeOK
<1>2. \A k \in 1..Len(attestations[o]) :
        attestations[o][k].attested_at \in Nat
  <2>1. \A k \in 1..Len(attestations[o]) : attestations[o][k] \in Attestation
    BY ElementOfSeq DEF TypeOK
  <2> QED
    BY <2>1, MaxTimeAssumption DEF Attestation, Times
<1> QED
  BY <1>1, <1>2 DEF DatedAttestations

\* save_did dates a document if the list it saves is dated up to now.
LEMMA SavedDocument ==
  ASSUME TypeOK, NEW o \in Owners, HasDID(o), DatedDocument(o),
         NEW creds \in Seq(CredentialRef), SaveDID(o, creds), now' = now,
         Dated(creds, dids[o].created_at, now)
  PROVE  DatedDocument(o)'
<1>1. /\ dids'[o].credentials = creds
      /\ dids'[o].updated_at = now
      /\ dids'[o].created_at = dids[o].created_at
  BY SaveDIDType
<1>2. dids[o].created_at <= now /\ now <= now
  BY DocumentTimes DEF DatedDocument
<1> QED
  BY <1>1, <1>2 DEF DatedDocument

LEMMA AddedDocument ==
  ASSUME TypeOK, NEW o \in Owners, NEW i \in Issuers, NEW t \in Types,
         NEW hash \in Hashes, AddCredential(o, t, i, hash), DatedDocument(o)
  PROVE  DatedDocument(o)'
<1> DEFINE c == [id |-> hash, issuer |-> i, type |-> t, issued_at |-> now]
           old == dids[o].credentials
           new == Append(old, c)
<1>1. HasDID(o) /\ now' = now
  BY DEF AddCredential
<1>2. /\ c \in CredentialRef /\ old \in Seq(CredentialRef)
      /\ new \in Seq(CredentialRef) /\ SaveDID(o, new)
  BY AddedCredentials
<1>3. /\ Len(new) = Len(old) + 1 /\ Len(old) \in Nat
      /\ new[Len(old) + 1] = c
      /\ \A k \in 1..Len(old) : new[k] = old[k]
  BY <1>2, AppendProperties, LenProperties
<1>4. c.issued_at = now
  OBVIOUS
<1>5. /\ dids[o].created_at \in Nat /\ dids[o].updated_at \in Nat
      /\ now \in Nat
      /\ \A k \in 1..Len(old) : old[k].issued_at \in Nat
  BY <1>1, DocumentTimes
<1>6. /\ dids[o].created_at <= now
      /\ \A k \in 1..Len(old) :
           /\ dids[o].created_at <= old[k].issued_at
           /\ old[k].issued_at <= now
           /\ \A j \in 1..k : old[j].issued_at <= old[k].issued_at
  BY <1>1, <1>5 DEF DatedDocument, Dated
<1> HIDE DEF c, old, new
<1>7. Dated(new, dids[o].created_at, now)
  <2> SUFFICES ASSUME NEW k \in 1..Len(new)
               PROVE  /\ dids[o].created_at <= new[k].issued_at
                      /\ new[k].issued_at <= now
                      /\ \A j \in 1..k : new[j].issued_at <= new[k].issued_at
    BY DEF Dated
  <2>1. CASE k \in 1..Len(old)
    <3>1. \A j \in 1..k : j \in 1..Len(old) /\ new[j] = old[j]
      BY <1>3, <2>1
    <3> QED
      BY <1>3, <1>6, <2>1, <3>1
  <2>2. CASE k = Len(old) + 1
    <3>1. new[k].issued_at = now
      BY <1>3, <1>4, <2>2
    <3>2. \A j \in 1..k : new[j].issued_at <= now
      <4> TAKE j \in 1..k
      <4>1. CASE j \in 1..Len(old)
        BY <1>3, <1>6, <4>1
      <4>2. CASE j = k
        BY <1>5, <3>1, <4>2
      <4> QED
        BY <1>3, <2>2, <4>1, <4>2
    <3> QED
      BY <1>5, <1>6, <3>1, <3>2
  <2> QED
    BY <1>3, <2>1, <2>2
<1> QED
  BY <1>1, <1>2, <1>7, SavedDocument

LEMMA RevokedDocument ==
  ASSUME TypeOK, NEW o \in Owners, NEW i \in Issuers, NEW id \in Hashes,
         RevokeCredential(i, o, id), DatedDocument(o)
  PROVE  DatedDocument(o)'
<1> DEFINE old == dids[o].credentials
<1>1. HasDID(o) /\ now' = now
  BY DEF RevokeCredential
<1>2. old \in Seq(CredentialRef)
  BY RevokedCredentials
<1>3. PICK k \in 1..Len(old) :
        Without(old, k) \in Seq(CredentialRef) /\ SaveDID(o, Without(old, k))
  BY RevokedCredentials
<1> DEFINE new == Without(old, k)
<1>4. /\ Len(new) = Len(old) - 1 /\ Len(old) \in Nat
      /\ \A j \in 1..(Len(old) - 1) : new[j] = IF j < k THEN old[j] ELSE old[j + 1]
  BY <1>2, <1>3, WithoutProperties, LenProperties
<1>5. /\ dids[o].updated_at \in Nat /\ now \in Nat
      /\ \A m \in 1..Len(old) : old[m].issued_at \in Nat
  BY <1>1, DocumentTimes
<1>6. /\ \A m \in 1..Len(old) :
           /\ dids[o].created_at <= old[m].issued_at
           /\ old[m].issued_at <= now
           /\ \A j \in 1..m : old[j].issued_at <= old[m].issued_at
  BY <1>1, <1>5 DEF DatedDocument, Dated
<1> HIDE DEF old, new
<1> DEFINE at(j) == IF j < k THEN j ELSE j + 1
<1>7. \A j \in 1..Len(new) : at(j) \in 1..Len(old) /\ new[j] = old[at(j)]
  BY <1>4
<1>8. \A m \in 1..Len(new) : \A j \in 1..m :
        j \in 1..Len(new) /\ at(j) \in 1..at(m)
  BY <1>4
<1> HIDE DEF at
<1>9. Dated(new, dids[o].created_at, now)
  <2> SUFFICES ASSUME NEW m \in 1..Len(new)
               PROVE  /\ dids[o].created_at <= new[m].issued_at
                      /\ new[m].issued_at <= now
                      /\ \A j \in 1..m : new[j].issued_at <= new[m].issued_at
    BY DEF Dated
  <2>1. at(m) \in 1..Len(old) /\ new[m] = old[at(m)]
    BY <1>7
  <2>2. ASSUME NEW j \in 1..m
        PROVE  new[j].issued_at <= new[m].issued_at
    <3>1. at(j) \in 1..at(m) /\ new[j] = old[at(j)]
      BY <1>7, <1>8
    <3> QED
      BY <1>6, <2>1, <3>1
  <2> QED
    BY <1>6, <2>1, <2>2
<1> QED
  BY <1>1, <1>3, <1>9, SavedDocument DEF new

LEMMA AttestedAttestations ==
  ASSUME TypeOK, NEW o \in Owners, NEW i \in Issuers, NEW claim \in Claims,
         Attest(i, o, claim), DatedDocument(o), DatedAttestations(o)
  PROVE  DatedAttestations(o)'
<1> DEFINE a == [issuer |-> i, claim |-> claim, attested_at |-> now]
           old == attestations[o]
           new == Append(old, a)
<1>1. HasDID(o) /\ now' = now /\ dids' = dids
  BY DEF Attest
<1>2. attestations'[o] = new
  BY DEF Attest, TypeOK
<1>3. a \in Attestation /\ old \in Seq(Attestation)
  BY DEF TypeOK, RegistryTypeOK, Attestation, Times
<1>4. /\ Len(new) = Len(old) + 1 /\ Len(old) \in Nat
      /\ new[Len(old) + 1] = a
      /\ \A k \in 1..Len(old) : new[k] = old[k]
  BY <1>3, AppendProperties, LenProperties
<1>5. a.attested_at = now
  OBVIOUS
<1>6. /\ dids[o].created_at \in Nat /\ now \in Nat
      /\ dids[o].created_at <= now
  BY <1>1, DocumentTimes DEF DatedDocument
<1>7. \A k \in 1..Len(old) :
        /\ dids[o].created_at <= old[k].attested_at
        /\ old[k].attested_at <= now
        /\ \A j \in 1..k : old[j].attested_at <= old[k].attested_at
  BY DEF DatedAttestations
<1> HIDE DEF a, old, new
<1>8. \A k \in 1..Len(new) : new[k].attested_at <= now
  BY <1>4, <1>5, <1>6, <1>7
<1>9. ASSUME NEW k \in 1..Len(new)
      PROVE  /\ dids[o].created_at <= new[k].attested_at
             /\ \A j \in 1..k : new[j].attested_at <= new[k].attested_at
  <2>1. CASE k \in 1..Len(old)
    <3>1. \A j \in 1..k : j \in 1..Len(old) /\ new[j] = old[j]
      BY <1>4, <2>1
    <3> QED
      BY <1>4, <1>7, <2>1, <3>1
  <2>2. CASE k = Len(old) + 1
    <3>1. new[k].attested_at = now
      BY <1>4, <1>5, <2>2
    <3>2. \A j \in 1..k : j \in 1..Len(new)
      BY <1>4, <2>2
    <3> QED
      BY <1>6, <1>8, <3>1, <3>2
  <2> QED
    BY <1>4, <2>1, <2>2
<1>10. HasDID(o)'
  BY <1>1 DEF HasDID
<1> QED
  BY <1>1, <1>2, <1>8, <1>9, <1>10 DEF DatedAttestations

LEMMA NextChronology ==
  ASSUME TypeOK, TypeOK', Chronology, [Next]_vars
  PROVE  Chronology'
<1>1. \A o \in Owners : DatedDocument(o) /\ DatedAttestations(o)
  BY ChronologyInParts
<1>2. (Chronology <=>
         \A o \in Owners : DatedDocument(o) /\ DatedAttestations(o))'
  BY ChronologyInParts, PTL
<1> SUFFICES ASSUME NEW p \in Owners
             PROVE  DatedDocument(p)' /\ DatedAttestations(p)'
  BY <1>2
<1>3. now \in Nat /\ now' \in Nat
  BY MaxTimeAssumption DEF TypeOK, RegistryTypeOK
<1>4. ASSUME dids'[p] = dids[p], attestations'[p] = attestations[p],
             now <= now'
      PROVE  DatedDocument(p)' /\ DatedAttestations(p)'
  <2>1. HasDID(p)' <=> HasDID(p)
    BY <1>4 DEF HasDID
  <2> QED
    BY <1>1, <1>3, <1>4, <2>1, DocumentFrame, AttestationsFrame
<1>5. CASE UNCHANGED vars
  BY <1>3, <1>4, <1>5 DEF vars, identityVars
<1>6. CASE Tick /\ UNCHANGED identityVars
  BY <1>3, <1>4, <1>6 DEF Tick, identityVars
<1>7. CASE RegistryNext /\ UNCHANGED identityVars
  <2>1. now' = now
    BY <1>7 DEF RegistryNext, RegisterIssuer, RegisterSchema
  <2> QED
    BY <1>3, <1>4, <1>7, <2>1 DEF identityVars
<1>8. ASSUME NEW o \in Owners, CreateDID(o)
      PROVE  DatedDocument(p)' /\ DatedAttestations(p)'
  <2>1. now' = now /\ attestations' = attestations /\ ~HasDID(o)
    BY <1>8 DEF CreateDID
  <2>2. CASE p # o
    BY <1>3, <1>4, <1>8, <2>1, <2>2 DEF CreateDID, TypeOK
  <2>3. CASE p = o
    <3>1. dids'[p] = [created_at |-> now, updated_at |-> now,
                      credentials |-> <<>>]
      BY <1>8, <2>3 DEF CreateDID, TypeOK
    <3>2. DatedDocument(p)'
      BY <1>3, <2>1, <3>1, EmptySeq DEF DatedDocument, Dated
    <3>3. DatedAttestations(p)'
      BY <1>1, <1>3, <2>1, <2>3, AttestationsFrame
    <3> QED
      BY <3>2, <3>3
  <2> QED
    BY <2>2, <2>3
<1>9. ASSUME NEW o \in Owners, HasDID(o), NEW creds \in Seq(CredentialRef),
             SaveDID(o, creds), now' = now, attestations' = attestations,
             DatedDocument(o)'
      PROVE  DatedDocument(p)' /\ DatedAttestations(p)'
  <2>1. /\ HasDID(o)'
        /\ dids'[o].created_at = dids[o].created_at
        /\ \A x \in Owners \ {o} : dids'[x] = dids[x]
    BY <1>9, SaveDIDType
  <2>2. CASE p = o
    BY <1>1, <1>3, <1>9, <2>1, <2>2, AttestationsFrame
  <2>3. CASE p # o
    BY <1>3, <1>4, <1>9, <2>1, <2>3
  <2> QED
    BY <2>2, <2>3
<1>10. ASSUME NEW o \in Owners, NEW i \in Issuers, NEW t \in Types,
              NEW hash \in Hashes, AddCredential(o, t, i, hash)
       PROVE  DatedDocument(p)' /\ DatedAttestations(p)'
  <2>1. DatedDocument(o)'
    BY <1>1, <1>10, AddedDocument
  <2>2. HasDID(o) /\ now' = now /\ attestations' = attestations
    BY <1>10 DEF AddCredential
  <2>3. PICK creds \in Seq(CredentialRef) : SaveDID(o, creds)
    BY <1>10, AddedCredentials
  <2> QED
    BY <1>9, <2>1, <2>2, <2>3
<1>11. ASSUME NEW o \in Owners, NEW i \in Issuers, NEW id \in Hashes,
              RevokeCredential(i, o, id)
       PROVE  DatedDocument(p)' /\ DatedAttestations(p)'
  <2>1. DatedDocument(o)'
    BY <1>1, <1>11, RevokedDocument
  <2>2. HasDID(o) /\ now' = now /\ attestations' = attestations
    BY <1>11 DEF RevokeCredential
  <2>3. PICK creds \in Seq(CredentialRef) : SaveDID(o, creds)
    BY <1>11, RevokedCredentials
  <2> QED
    BY <1>9, <2>1, <2>2, <2>3
<1>12. ASSUME NEW o \in Owners, NEW i \in Issuers, NEW claim \in Claims,
              Attest(i, o, claim)
       PROVE  DatedDocument(p)' /\ DatedAttestations(p)'
  <2>1. now' = now /\ dids' = dids
    BY <1>12 DEF Attest
  <2>2. CASE p = o
    <3>1. DatedAttestations(p)'
      BY <1>1, <1>12, <2>2, AttestedAttestations
    <3>2. DatedDocument(p)'
      BY <1>1, <1>3, <2>1, DocumentFrame
    <3> QED
      BY <3>1, <3>2
  <2>3. CASE p # o
    BY <1>3, <1>4, <1>12, <2>1, <2>3 DEF Attest, TypeOK
  <2> QED
    BY <2>2, <2>3
<1>13. ASSUME NEW admin \in Accounts, NEW i \in Issuers,
              NEW filter \in Scopes, AllowIssuer(admin, i, filter)
       PROVE  DatedDocument(p)' /\ DatedAttestations(p)'
  BY <1>3, <1>4, <1>13 DEF AllowIssuer
<1>14. ASSUME NEW admin \in Accounts, NEW r \in Registries,
              InitRegistry(admin, r)
       PROVE  DatedDocument(p)' /\ DatedAttestations(p)'
  BY <1>3, <1>4, <1>14 DEF InitRegistry
<1> QED
  BY <1>5, <1>6, <1>7, <1>8, <1>10, <1>11, <1>12, <1>13, <1>14, NextCases

\* The timestamps of documents, credentials and attestations agree with the
\* order of the calls, after any number of additions and removals.
THEOREM ChronologyKept == Spec => []Chronology
<1>1. Init => Chronology
  BY EmptySeq DEF Init, Chronology, HasDID
<1>2. TypeOK /\ TypeOK' /\ Chronology /\ [Next]_vars => Chronology'
  BY NextChronology
<1> QED
  BY <1>1, <1>2, TypeCorrect, PTL DEF Spec

(***************************************************************************)
(* What a step may never do.                                               *)
(***************************************************************************)

LEMMA AppendStep ==
  ASSUME TypeOK, [Next]_vars, NEW o \in Owners,
         attestations'[o] # attestations[o]
  PROVE  \E a \in {attestations'[o][Len(attestations'[o])]} :
           /\ attestations'[o] = Append(attestations[o], a)
           /\ a.issuer = signer'
           /\ IsTrustedIssuerAny(a.issuer)
<1>1. \E p \in Owners, i \in Issuers, claim \in Claims : Attest(i, p, claim)
  BY NextCases DEF vars, identityVars, CreateDID, AddCredential,
     RevokeCredential, AllowIssuer, InitRegistry
<1>2. PICK p \in Owners, i \in Issuers, claim \in Claims : Attest(i, p, claim)
  BY <1>1
<1> DEFINE a == [issuer |-> i, claim |-> claim, attested_at |-> now]
<1>3. p = o
  BY <1>2 DEF Attest, TypeOK
<1>4. attestations'[o] = Append(attestations[o], a)
  BY <1>2, <1>3 DEF Attest, TypeOK
<1>5. a \in Attestation /\ attestations[o] \in Seq(Attestation)
  BY DEF TypeOK, RegistryTypeOK, Attestation, Times
<1>6. attestations'[o][Len(attestations'[o])] = a
  BY <1>4, <1>5, AppendProperties
<1>7. a.issuer = i /\ i = signer' /\ IsTrustedIssuerAny(i)
  BY <1>2 DEF Attest
<1> QED
  BY <1>4, <1>6, <1>7

\* Attestations are only ever added, by an account trusted at that moment.
THEOREM AttestationsKept == Spec => AttestationsAppendOnly
<1>1. TypeOK /\ [Next]_vars =>
        [\A o \in Owners : attestations'[o] # attestations[o] =>
           \E a \in {attestations'[o][Len(attestations'[o])]} :
             /\ attestations'[o] = Append(attestations[o], a)
             /\ a.issuer = signer'
             /\ IsTrustedIssuerAny(a.issuer)]_vars
  BY AppendStep
<1> QED
  BY <1>1, TypeCorrect, PTL DEF Spec, AttestationsAppendOnly

LEMMA DecidedStep ==
  ASSUME [Next]_vars, registryContract # Unset
  PROVE  /\ registryContract' # Unset
         /\ registryContract' = registryContract
            /\ issuers'[registryContract] = issuers[registryContract] =>
              \A i \in Issuers :
                /\ IsTrustedIssuerAny(i)' = IsTrustedIssuerAny(i)
                /\ \A t \in Types :
                     IsTrustedIssuer(i, t)' = IsTrustedIssuer(i, t)
<1>1. registryContract' = registryContract \/ registryContract' \in Registries
  BY NextCases DEF vars, identityVars, CreateDID, AddCredential,
     RevokeCredential, Attest, AllowIssuer, InitRegistry
<1>2. registryContract' # Unset
  BY <1>1, UnsetAssumption
<1>3. ASSUME registryContract' = registryContract,
             issuers'[registryContract] = issuers[registryContract],
             NEW i \in Issuers
      PROVE  /\ IsTrustedIssuerAny(i)' = IsTrustedIssuerAny(i)
             /\ \A t \in Types :
                  IsTrustedIssuer(i, t)' = IsTrustedIssuer(i, t)
  BY <1>3 DEF IsTrustedIssuer, IsTrustedIssuerAny, RegistryTrusts,
     RegistryTrustsAny
<1> QED
  BY <1>2, <1>3

\* Once a registry is wired, trust is that of a registry for ever.
THEOREM RegistryDecidesAlways == Spec => RegistryDecides
<1>1. [Next]_vars =>
        [registryContract # Unset =>
           /\ registryContract' # Unset
           /\ registryContract' = registryContract
              /\ issuers'[registryContract] = issuers[registryContract] =>
                \A i \in Issuers :
                  /\ IsTrustedIssuerAny(i)' = IsTrustedIssuerAny(i)
                  /\ \A t \in Types :
                       IsTrustedIssuer(i, t)' = IsTrustedIssuer(i, t)]_vars
  BY DecidedStep
<1> QED
  BY <1>1, PTL DEF Spec, RegistryDecides

=============================================================================
