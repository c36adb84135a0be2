---------------------------- MODULE IdentityApi ----------------------------
(***************************************************************************)
(* The HTTP API of identities (src/backend/src/api/identity.ts), with the  *)
(* resolver of DIDs (services/did-resolver.ts) and the attestation route   *)
(* (api/credentials.ts, services/attestation.ts).                          *)
(*                                                                         *)
(* Each of the Slots serves one request after another, and each await of a *)
(* route is a step: requests interleave on the rows they share.  Postgres  *)
(* is external and keeps its unique and foreign keys.  The event indexer,  *)
(* which mirrors the chain into the same rows, is part of the environment  *)
(* here (Indexer has its own steps).  A request has passed the checks that *)
(* are answered 400 before anything is awaited: the schema of its route    *)
(* and, except for an attestation, its addresses.                          *)
(***************************************************************************)
EXTENDS Integers, FiniteSets

CONSTANTS
  Owners, Issuers,
  Others,        \* accounts that are neither
  Types,         \* credential types
  Nobody,        \* the account of a request without a token
  Slots,         \* requests served at the same time
  Faulty,        \* the services that may fail
  Moments,       \* the milliseconds in which a credential id may be made
  ByContract     \* in place of a moment: the id is the contract's

Accounts == Owners \cup Issuers \cup Others

ASSUME NobodyAssumption == Nobody \notin Accounts
ASSUME ByContractAssumption == ByContract \notin Moments

Services == {"postgres", "rpc"}

ASSUME ServiceAssumption == Faulty \subseteq Services

Stamps == Moments \cup {ByContract}

\* The API derives an id from owner, issuer, type and the current millisecond;
\* the contract's ids are other ones, which reach the rows by the indexer.
CredentialIds == [owner : Owners, issuer : Issuers, type : Types, at : Stamps]

\* A flawed request is one that the schema of its route lets pass and that is
\* refused later: an attestation of an invalid address or with a blank key or
\* value, a time beyond what a Date holds, a text that Postgres does not store.
\* A flawed credential id is that of no row.
Requests ==
  [op : {"resolve"}, owner : Owners, flawed : {FALSE}]
    \cup [op : {"create"}, owner : Owners, flawed : {FALSE}]
    \cup [op : {"add"}, owner : Owners, issuer : Issuers, type : Types,
          flawed : BOOLEAN]
    \cup [op : {"revoke"}, credential : CredentialIds, flawed : {FALSE}]
    \cup [op : {"revoke"}, flawed : {TRUE}]
    \cup [op : {"attest"}, flawed : BOOLEAN]

\* No request, and what is left of one that has failed for its flaw.
NoRequest == [op |-> "none", flawed |-> FALSE]
Flawed == [op |-> "none", flawed |-> TRUE]

Points == {"idle", "check", "insert", "resolve", "fallback", "issuer", "upsert",
           "store", "find", "update", "trust", "attest", "unanswered"}

\* HTTP status codes; 0 while there is no answer.
Answers == {0, 200, 201, 401, 403, 404, 409, 500}

VARIABLES
  identities,  \* addresses that have an Identity row
  credentials, \* the Credential rows
  issuers,     \* the Issuer rows
  chain,       \* addresses with a DID document in the identity contract
  up,          \* the services that answer
  req,         \* per slot: its request
  account,     \* per slot: the account of its token, until it is of no use
  pc,          \* per slot: the await it stands before
  answer,      \* per slot: the answer to its request
  minted,      \* per slot: the moment its credential id is made of, if any
  created,     \* ghost: per address, how many requests to create it got 201
  disturbed    \* ghost: whether a service or another actor got in the way

rows == <<identities, credentials, issuers>>
world == <<chain, up>>
slots == <<req, account, pc, answer, minted, disturbed>>
vars == <<rows, world, slots, created>>

TypeOK ==
  /\ identities \subseteq Owners
  /\ credentials \in [CredentialIds -> {"absent", "valid", "revoked"}]
  /\ issuers \in [Issuers -> {"absent", "active", "inactive"}]
  /\ chain \subseteq Owners
  /\ up \subseteq Services
  /\ req \in [Slots -> Requests \cup {NoRequest, Flawed}]
  /\ account \in [Slots -> Accounts \cup {Nobody}]
  /\ pc \in [Slots -> Points]
  /\ answer \in [Slots -> Answers]
  /\ minted \in [Slots -> Stamps]
  /\ created \in [Owners -> 0..2]
  /\ disturbed \in [Slots -> BOOLEAN]
  /\ \A s \in Slots : answer[s] # 0 => pc[s] = "idle"

Init ==
  /\ identities = {}
  /\ credentials = [c \in CredentialIds |-> "absent"]
  /\ issuers = [i \in Issuers |-> "absent"]
  /\ chain = {}
  /\ up = Services
  /\ req = [s \in Slots |-> NoRequest]
  /\ account = [s \in Slots |-> Nobody]
  /\ pc = [s \in Slots |-> "idle"]
  /\ answer = [s \in Slots |-> 0]
  /\ minted = [s \in Slots |-> ByContract]
  /\ created = [o \in Owners |-> 0]
  /\ disturbed = [s \in Slots |-> FALSE]

-----------------------------------------------------------------------------
\* Definitions named X_Y are faulty variants of X, used to see that a property
\* notices the fault; nothing else refers to them.

(***************************************************************************)
(* What may come between two awaits of a request.                          *)
(***************************************************************************)

Active(s) == pc[s] \notin {"idle", "unanswered"}

Disturbs(S) ==
  disturbed' = [s \in Slots |-> disturbed[s] \/ (s \in S /\ Active(s))]

\* An actor other than the requests gets in the way of those of S.
Disturb(S) == Disturbs(S) /\ UNCHANGED <<req, account, pc, answer, minted>>

\* The requests that count on the address having no row yet.
Creating(o) == {s \in Slots : req[s].op = "create" /\ req[s].owner = o}

\* Adds the address's row, unless it is there, which only concerns others.
PutIdentity(s, o) ==
  /\ identities' = identities \cup {o}
  /\ Disturbs(IF o \in identities THEN {} ELSE Creating(o) \ {s})

\* The id that a slot has made for its credential.
IdOf(s) ==
  [owner |-> req[s].owner, issuer |-> req[s].issuer, type |-> req[s].type,
   at |-> minted[s]]

Fail(x) ==
  /\ x \in up
  /\ up' = up \ {x}
  /\ Disturb(IF x = "postgres" THEN Slots ELSE {})
  /\ UNCHANGED <<rows, chain, created>>

Recover(x) ==
  /\ x \notin up
  /\ up' = up \cup {x}
  /\ UNCHANGED <<rows, chain, slots, created>>

\* A DID document is created on chain, which the API never does itself.
CreateOnChain(o) ==
  /\ o \notin chain
  /\ chain' = chain \cup {o}
  /\ UNCHANGED <<rows, up, slots, created>>

\* The indexer puts the address's row, for the DID or for a credential of it.
MirrorDID(o) ==
  /\ o \in chain \ identities
  /\ "postgres" \in up
  /\ identities' = identities \cup {o}
  /\ Disturb(Creating(o))
  /\ UNCHANGED <<credentials, issuers, world, created>>

MirrorCredential(c) ==
  /\ c.at = ByContract /\ c.owner \in chain \cap identities
  /\ "postgres" \in up
  /\ credentials[c] = "absent"
  /\ credentials' = [credentials EXCEPT ![c] = "valid"]
  /\ UNCHANGED <<identities, issuers, world, slots, created>>

MirrorRevocation(c) ==
  /\ c.at = ByContract
  /\ "postgres" \in up
  /\ credentials[c] = "valid"
  /\ credentials' = [credentials EXCEPT ![c] = "revoked"]
  /\ UNCHANGED <<identities, issuers, world, slots, created>>

\* The first event of an issuer makes it active.
MirrorIssuer(i, status) ==
  /\ "postgres" \in up
  /\ status # issuers[i]
  /\ issuers[i] = "absent" => status = "active"
  /\ issuers' = [issuers EXCEPT ![i] = status]
  /\ Disturb({s \in Slots : req[s].op = "attest" /\ account[s] = i})
  /\ UNCHANGED <<identities, credentials, world, created>>

-----------------------------------------------------------------------------
(***************************************************************************)
(* Requests.                                                               *)
(***************************************************************************)

GoTo(s, point) ==
  /\ pc' = [pc EXCEPT ![s] = point]
  /\ UNCHANGED <<req, account, answer, minted, disturbed>>

\* Of an answered request only what was promised is kept, and of one that has
\* failed without a disturbance what may tell why.
Remains(s, status) ==
  CASE status = 500 /\ ~disturbed[s] /\ req[s].flawed -> Flawed
    [] status = 500 /\ ~disturbed[s] /\ ~req[s].flawed -> req[s]
    [] req[s].op \in {"create", "add", "revoke"} /\ status \in {200, 201, 409}
         -> req[s]
    [] OTHER -> NoRequest

Reply(s, status) ==
  /\ pc' = [pc EXCEPT ![s] = "idle"]
  /\ req' = [req EXCEPT ![s] = Remains(s, status)]
  /\ answer' = [answer EXCEPT ![s] = status]
  /\ account' = [account EXCEPT ![s] = Nobody]
  /\ disturbed' = [disturbed EXCEPT ![s] = @ /\ status = 500]
  /\ UNCHANGED minted

Answering == UNCHANGED <<rows, world, created>>

\* A new request of an account stands before its first await.
Begin(s, r, a, point) ==
  /\ req' = [req EXCEPT ![s] = r]
  /\ account' = [account EXCEPT ![s] = a]
  /\ pc' = [pc EXCEPT ![s] = point]
  /\ answer' = [answer EXCEPT ![s] = 0]
  /\ minted' = [minted EXCEPT ![s] = ByContract]
  /\ disturbed' = [disturbed EXCEPT ![s] = "postgres" \notin up]

\* A request refused for its account leaves nothing behind.
Refuse(s, status) ==
  /\ req' = [req EXCEPT ![s] = NoRequest]
  /\ answer' = [answer EXCEPT ![s] = status]
  /\ minted' = [minted EXCEPT ![s] = ByContract]
  /\ disturbed' = [disturbed EXCEPT ![s] = FALSE]
  /\ UNCHANGED <<account, pc>>

\* The route looks at no token.
RequestResolve(s, r, a) ==
  r.op = "resolve" /\ a = Nobody /\ Begin(s, r, a, "resolve")

\* A token, where there is one, must be the owner's.
RequestCreate(s, r, a) ==
  /\ r.op = "create"
  /\ IF a \in {Nobody, r.owner} THEN Begin(s, r, Nobody, "check")
     ELSE Refuse(s, 403)

RequestAdd(s, r, a) ==
  /\ r.op = "add"
  /\ Begin(s, r, a, IF a = Nobody THEN "upsert" ELSE "issuer")

\* The other routes require a token.
RequestGuarded(s, r, a) ==
  /\ r.op \in {"revoke", "attest"}
  /\ IF a = Nobody THEN Refuse(s, 401)
     ELSE Begin(s, r, a, IF r.op = "revoke" THEN "find" ELSE "trust")

Request(s, r, a) ==
  /\ pc[s] = "idle"
  /\ \/ RequestResolve(s, r, a)
     \/ RequestCreate(s, r, a)
     \/ RequestAdd(s, r, a)
     \/ RequestGuarded(s, r, a)
  /\ Answering

-----------------------------------------------------------------------------
(***************************************************************************)
(* resolve: the contract first, then the rows; also the end of a create.   *)
(***************************************************************************)

Resolved(s) ==
  IF req[s].op = "resolve" THEN Reply(s, 200) /\ UNCHANGED created
  ELSE /\ Reply(s, 201)
       /\ created' = [created EXCEPT ![req[s].owner] = IF @ < 2 THEN @ + 1
                                                       ELSE @]

ResolveOnChain_NoFallback(s) ==
  /\ pc[s] = "resolve"
  /\ IF "rpc" \in up /\ req[s].owner \in chain THEN Resolved(s)
     ELSE /\ Reply(s, IF req[s].op = "resolve" THEN 404 ELSE 500)
          /\ UNCHANGED created
  /\ UNCHANGED <<rows, world>>

\* Any error of the contract's call leads to the rows, a missing DID too.
ResolveOnChain(s) ==
  /\ pc[s] = "resolve"
  /\ IF "rpc" \in up /\ req[s].owner \in chain THEN Resolved(s)
     ELSE GoTo(s, "fallback") /\ UNCHANGED created
  /\ UNCHANGED <<rows, world>>

ResolveFromDB(s) ==
  /\ pc[s] = "fallback"
  /\ CASE "postgres" \notin up -> Reply(s, 500) /\ UNCHANGED created
       [] "postgres" \in up /\ req[s].owner \in identities -> Resolved(s)
       [] OTHER -> /\ Reply(s, IF req[s].op = "resolve" THEN 404 ELSE 500)
                   /\ UNCHANGED created
  /\ UNCHANGED <<rows, world>>

-----------------------------------------------------------------------------
(***************************************************************************)
(* POST /create                                                            *)
(***************************************************************************)

FindIdentity_TrustsInsert(s) ==
  /\ pc[s] = "check"
  /\ IF "postgres" \notin up THEN Reply(s, 500) ELSE GoTo(s, "insert")
  /\ Answering

FindIdentity(s) ==
  /\ pc[s] = "check"
  /\ CASE "postgres" \notin up -> Reply(s, 500)
       [] "postgres" \in up /\ req[s].owner \in identities -> Reply(s, 409)
       [] OTHER -> GoTo(s, "insert")
  /\ Answering

CreateIdentity_Upserts(s) ==
  /\ pc[s] = "insert"
  /\ IF "postgres" \in up
     THEN /\ PutIdentity(s, req[s].owner)
          /\ pc' = [pc EXCEPT ![s] = "resolve"]
          /\ UNCHANGED <<req, account, answer, minted>>
     ELSE UNCHANGED identities /\ Reply(s, 500)
  /\ UNCHANGED <<credentials, issuers, world, created>>

\* The address is a unique key: an insert of it fails if there is a row.
CreateIdentity(s) ==
  /\ pc[s] = "insert"
  /\ IF "postgres" \in up /\ req[s].owner \notin identities
     THEN /\ PutIdentity(s, req[s].owner)
          /\ pc' = [pc EXCEPT ![s] = "resolve"]
          /\ UNCHANGED <<req, account, answer, minted>>
     ELSE UNCHANGED identities /\ Reply(s, 500)
  /\ UNCHANGED <<credentials, issuers, world, created>>

-----------------------------------------------------------------------------
(***************************************************************************)
(* POST /credential                                                        *)
(***************************************************************************)

\* The account has been seen to be entitled, and is not looked at again.
Permitted(s, point) ==
  /\ pc' = [pc EXCEPT ![s] = point]
  /\ account' = [account EXCEPT ![s] = Nobody]
  /\ UNCHANGED <<req, answer, minted, disturbed>>

\* A request that nobody will ever answer.
Abandon(s) ==
  /\ pc' = [pc EXCEPT ![s] = "unanswered"]
  /\ req' = [req EXCEPT ![s] = NoRequest]
  /\ account' = [account EXCEPT ![s] = Nobody]
  /\ disturbed' = [disturbed EXCEPT ![s] = FALSE]
  /\ UNCHANGED <<answer, minted>>

\* The lookup stands outside of the route's try: an error of Postgres rejects
\* the handler's promise, which Express 4 ignores and the process only logs.
FindIssuer(s) ==
  /\ pc[s] = "issuer"
  /\ CASE "postgres" \notin up -> Abandon(s)
       [] /\ "postgres" \in up
          /\ \/ account[s] = req[s].owner
             \/ account[s] \in Issuers /\ issuers[account[s]] # "absent"
            -> Permitted(s, "upsert")
       [] OTHER -> Reply(s, 403)
  /\ Answering

\* The id is made when the owner's row is known to be there, in a moment that
\* may be that of another id.
UpsertOwner(s) ==
  /\ pc[s] = "upsert"
  /\ IF "postgres" \in up
     THEN /\ PutIdentity(s, req[s].owner)
          /\ pc' = [pc EXCEPT ![s] = "store"]
          /\ \E now \in Moments : minted' = [minted EXCEPT ![s] = now]
          /\ UNCHANGED <<req, account, answer>>
     ELSE UNCHANGED identities /\ Reply(s, 500)
  /\ UNCHANGED <<credentials, issuers, world, created>>

StoreCredential_AnswersFirst(s) ==
  /\ pc[s] = "store"
  /\ credentials' = [credentials EXCEPT ![IdOf(s)] =
                       IF "postgres" \in up /\ @ = "absent" THEN "valid" ELSE @]
  /\ Reply(s, 201)
  /\ UNCHANGED <<identities, issuers, world, created>>

\* The id is a unique key, and the owner a foreign one.  A value that is not
\* taken is refused only here, with the owner's row already there.
StoreCredential(s) ==
  /\ pc[s] = "store"
  /\ IF /\ "postgres" \in up /\ ~req[s].flawed
        /\ credentials[IdOf(s)] = "absent" /\ req[s].owner \in identities
     THEN /\ credentials' = [credentials EXCEPT ![IdOf(s)] = "valid"]
          /\ Reply(s, 201)
     ELSE UNCHANGED credentials /\ Reply(s, 500)
  /\ UNCHANGED <<identities, issuers, world, created>>

-----------------------------------------------------------------------------
(***************************************************************************)
(* DELETE /credential/:id                                                  *)
(***************************************************************************)

FindCredential(s) ==
  LET c == req[s].credential
      found == "postgres" \in up /\ ~req[s].flawed
  IN
  /\ pc[s] = "find"
  /\ CASE ~found -> Reply(s, 500)
       [] found /\ credentials[c] = "absent" -> Reply(s, 404)
       [] found /\ credentials[c] # "absent"
            /\ account[s] \notin {c.owner, c.issuer} -> Reply(s, 403)
       [] found /\ credentials[c] = "revoked"
            /\ account[s] \in {c.owner, c.issuer} -> Reply(s, 409)
       [] OTHER -> Permitted(s, "update")
  /\ Answering

RevokeCredential(s) ==
  /\ pc[s] = "update"
  /\ IF "postgres" \in up
     THEN /\ credentials' = [credentials EXCEPT ![req[s].credential] = "revoked"]
          /\ Reply(s, 200)
     ELSE UNCHANGED credentials /\ Reply(s, 500)
  /\ UNCHANGED <<identities, issuers, world, created>>

-----------------------------------------------------------------------------
(***************************************************************************)
(* POST /attest                                                            *)
(***************************************************************************)

FindTrusted_AnyRow(s) ==
  LET i == account[s] IN
  /\ pc[s] = "trust"
  /\ \/ req[s].flawed /\ Reply(s, 500)
     \/ CASE "postgres" \notin up -> Reply(s, 500)
          [] "postgres" \in up /\ i \in Issuers /\ issuers[i] # "absent"
               -> GoTo(s, "attest")
          [] OTHER -> Reply(s, 403)
  /\ Answering

\* attest looks at its input before it asks for the issuer, and sees some of the
\* flaws; the route answers 500 for every error but that of the issuer.
FindTrusted(s) ==
  LET i == account[s] IN
  /\ pc[s] = "trust"
  /\ \/ req[s].flawed /\ Reply(s, 500)
     \/ CASE "postgres" \notin up -> Reply(s, 500)
          [] "postgres" \in up /\ i \in Issuers /\ issuers[i] = "active"
               -> GoTo(s, "attest")
          [] OTHER -> Reply(s, 403)
  /\ Answering

\* The AttestationRecord row that is inserted is read by no route, and is not
\* kept here.
StoreAttestation(s) ==
  /\ pc[s] = "attest"
  /\ Reply(s, IF "postgres" \in up /\ ~req[s].flawed THEN 201 ELSE 500)
  /\ Answering

-----------------------------------------------------------------------------

Step(s) ==
  \/ ResolveOnChain(s) \/ ResolveFromDB(s)
  \/ FindIdentity(s) \/ CreateIdentity(s)
  \/ FindIssuer(s) \/ UpsertOwner(s) \/ StoreCredential(s)
  \/ FindCredential(s) \/ RevokeCredential(s)
  \/ FindTrusted(s) \/ StoreAttestation(s)

Next ==
  \/ \E x \in Faulty : Fail(x) \/ Recover(x)
  \/ \E o \in Owners : CreateOnChain(o) \/ MirrorDID(o)
  \/ \E c \in CredentialIds : MirrorCredential(c) \/ MirrorRevocation(c)
  \/ \E i \in Issuers : \E status \in {"active", "inactive"} :
       MirrorIssuer(i, status)
  \/ \E s \in Slots, r \in Requests, a \in Accounts \cup {Nobody} :
       Request(s, r, a)
  \/ \E s \in Slots : Step(s)

\* Every await of a request comes to an end.
Fairness == \A s \in Slots : WF_vars(Step(s))

Spec == Init /\ [][Next]_vars
FairSpec == Spec /\ Fairness

-----------------------------------------------------------------------------
(***************************************************************************)
(* Safety.                                                                 *)
(***************************************************************************)

\* What a client was told stays true, whatever other requests, the indexer and
\* failing services do after the answer: a created or refused identity has its
\* row, an added credential has its own, and a credential whose revocation was
\* answered 200 or 409 is revoked.
AnswersHold ==
  \A s \in Slots :
    /\ req[s].op = "create" /\ answer[s] \in {201, 409}
         => req[s].owner \in identities
    /\ req[s].op = "add" /\ answer[s] = 201
         => credentials[IdOf(s)] # "absent" /\ req[s].owner \in identities
    /\ req[s].op = "revoke" /\ answer[s] \in {200, 409}
         => credentials[req[s].credential] = "revoked"

\* Requests to create one address may pass the check together, but only one of
\* them is told that it created it.
CreatedOnce == \A o \in Owners : created[o] <= 1

\* A credential of the same owner and issuer was given the same millisecond.
SameId(s) ==
  req[s].op = "add" /\ minted[s] # ByContract /\ credentials[IdOf(s)] # "absent"

\* A request fails with 500 only because Postgres failed under it, because
\* another actor wrote the row of its address between its check and its insert,
\* because two credentials of one type were made in one millisecond, or for a
\* flaw of its own that its schema lets pass; never because of the requests
\* that came before it.
ServerErrorsExplained ==
  \A s \in Slots :
    answer[s] = 500 => disturbed[s] \/ SameId(s) \/ req[s].flawed

Told(s, op, status) ==
  /\ pc[s] # "idle" /\ req[s].op = op
  /\ pc'[s] = "idle" /\ answer'[s] = status

\* A DID is "not found" only while it has no row: neither an unreachable chain
\* nor a create that goes on meanwhile hides a row that is there.
NotFoundIsTrue ==
  [][\A s \in Slots :
       Told(s, "resolve", 404) => req[s].owner \notin identities]_vars

\* An attestation is recorded for an issuer that is active, or that was when
\* the request looked it up.
AttestedByTrusted ==
  [][\A s \in Slots :
       Told(s, "attest", 201) =>
         issuers[account[s]] = "active" \/ disturbed[s]]_vars

-----------------------------------------------------------------------------
(***************************************************************************)
(* Claims of the documentation the code does not keep.                     *)
(***************************************************************************)

\* "Duplicate creation returns HTTP 409" (did-spec.md:107): with Postgres up, a
\* request to create is answered 201, 403 or 409.
DuplicatesConflict == [][\A s \in Slots : ~Told(s, "create", 500)]_vars

\* "409 Conflict: Credential already revoked" (api-reference.md:192): a
\* credential that is revoked is not revoked again with success.
RevokedOnce ==
  [][\A s \in Slots :
       Told(s, "revoke", 200) => credentials[req[s].credential] = "valid"]_vars

\* "400 Bad Request: Invalid input (validation failure)" (api-reference.md:408):
\* a request that is refused for its input is not answered 500.
InvalidInputIs400 ==
  \A s \in Slots : req[s].flawed => answer[s] # 500

\* "500 Internal Server Error: Unexpected server error" (api-reference.md): a
\* request that meets an error is answered all the same.
EveryRequestAnswered ==
  \A s \in Slots : Active(s) ~> (pc[s] = "idle")

=============================================================================
