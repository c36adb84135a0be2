------------------------------ MODULE Registry ------------------------------
(***************************************************************************)
(* The Registry contracts (src/contracts/registry): which accounts may     *)
(* issue which types of credential, and the published credential schemas.  *)
(*                                                                         *)
(* Several Registry contracts may be deployed on one ledger; each has its  *)
(* own storage, indexed here by the contract's address.  The two variables *)
(* of the ledger every invocation reads, the timestamp of the current      *)
(* ledger and the account that authorised the invocation, are declared     *)
(* here and shared with the modules that extend this one.                  *)
(*                                                                         *)
(* A contract invocation is one atomic step.  One that returns an error or *)
(* panics is rolled back by the host and leaves the ledger as it was: its  *)
(* conditions are guards, and its failure is a stuttering step.            *)
(***************************************************************************)
EXTENDS Naturals

CONSTANTS
  Accounts,          \* Stellar accounts: every account that can authorise a call
  Issuers,           \* the accounts that occur as issuers
  Types,             \* credential types (CredentialType)
  AnyType,           \* the scope that stands for every credential type
  Registries,        \* addresses of the deployed Registry contracts
  Registrations,     \* inputs of register_issuer: records [types, active]
  SchemaIds,         \* identifiers of credential schemas
  NoRecord,          \* "no value is stored under this key"
  MaxTime            \* bound: the last ledger timestamp that is explored

Scopes == Types \cup {AnyType}

\* The list of scopes of a record is only ever searched, so a set will do;
\* the issuer's name, url and registered_at are never read.
IssuerRecord == [active : BOOLEAN, scopes : SUBSET Scopes]

CredentialSchema == [author : Accounts, registered_at : Nat]

ASSUME AccountsAssumption == Issuers \subseteq Accounts
ASSUME ScopesAssumption == Types # {} /\ AnyType \notin Types
ASSUME RegistrationsAssumption ==
  Registrations \subseteq [types : SUBSET Types, active : BOOLEAN]
ASSUME NoRecordAssumption ==
  NoRecord \notin IssuerRecord /\ NoRecord \notin CredentialSchema
ASSUME MaxTimeAssumption == MaxTime \in Nat

VARIABLES
  now,       \* env.ledger().timestamp()
  signer,    \* the account that authorised the last successful invocation
  issuers,   \* per registry and issuer: an IssuerRecord, or NoRecord
  schemas    \* per registry and schema id: a CredentialSchema, or NoRecord

registryVars == <<issuers, schemas>>

RegistryTypeOK ==
  /\ now \in 0..MaxTime
  /\ signer \in Accounts
  /\ issuers \in [Registries -> [Issuers -> IssuerRecord \cup {NoRecord}]]
  /\ schemas \in [Registries -> [SchemaIds -> CredentialSchema \cup {NoRecord}]]

RegistryInit ==
  /\ now = 0
  /\ signer \in Accounts
  /\ issuers = [r \in Registries |-> [i \in Issuers |-> NoRecord]]
  /\ schemas = [r \in Registries |-> [s \in SchemaIds |-> NoRecord]]

-----------------------------------------------------------------------------
(***************************************************************************)
(* Queries.                                                                *)
(***************************************************************************)

\* Definitions named X_Y are faulty variants of X, used to see that a property
\* notices the fault; nothing else refers to them.

\* scopes of a registration: an empty list of types means every type
ScopesOf_KeepsEmpty(types) == types

ScopesOf(types) == IF types = {} THEN {AnyType} ELSE types

RegistryTrusts(r, i, t) ==
  /\ issuers[r][i] # NoRecord
  /\ issuers[r][i].active
  /\ {AnyType, t} \cap issuers[r][i].scopes # {}

RegistryTrustsAny(r, i) ==
  issuers[r][i] # NoRecord /\ issuers[r][i].active

-----------------------------------------------------------------------------
(***************************************************************************)
(* Invocations.  register_issuer and register_schema accept any account    *)
(* that authorises them (require_auth of their own argument).              *)
(***************************************************************************)

\* Registering an issuer again replaces the record that was there.
RegisterIssuer(admin, r, i, reg) ==
  /\ issuers' = [issuers EXCEPT ![r][i] =
                   [active |-> reg.active, scopes |-> ScopesOf(reg.types)]]
  /\ signer' = admin
  /\ UNCHANGED <<now, schemas>>

\* The author named in the schema is stored as given.
RegisterSchema(author, r, s, named) ==
  /\ schemas' = [schemas EXCEPT ![r][s] =
                   [author |-> named, registered_at |-> now]]
  /\ signer' = author
  /\ UNCHANGED <<now, issuers>>

\* A later ledger closes.  Invocations in one ledger share its timestamp.
Tick ==
  /\ now < MaxTime
  /\ now' = now + 1
  /\ UNCHANGED <<signer, registryVars>>

RegistryNext ==
  \E r \in Registries, a \in Accounts :
    \/ \E i \in Issuers, reg \in Registrations : RegisterIssuer(a, r, i, reg)
    \/ \E s \in SchemaIds, named \in Accounts : RegisterSchema(a, r, s, named)

=============================================================================
