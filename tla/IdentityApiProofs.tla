-------------------------- MODULE IdentityApiProofs --------------------------
(***************************************************************************)
(* Theorems about IdentityApi, for any number of requests at a time and    *)
(* any accounts.                                                           *)
(***************************************************************************)
EXTENDS IdentityApi, TLAPS

-----------------------------------------------------------------------------
(***************************************************************************)
(* Type correctness.  That a request stands at a point of its own route is *)
(* part of the induction: it is what makes its fields exist.               *)
(***************************************************************************)

RouteOf(point) ==
  CASE point \in {"check", "insert"} -> {"create"}
    [] point \in {"resolve", "fallback"} -> {"resolve", "create"}
    [] point \in {"issuer", "upsert", "store"} -> {"add"}
    [] point \in {"find", "update"} -> {"revoke"}
    [] point \in {"trust", "attest"} -> {"attest"}
    [] OTHER -> {"none", "resolve", "create", "add", "revoke", "attest"}

FlawedRevoke(s) == req[s].op = "revoke" /\ req[s].flawed

OnRoute ==
  \A s \in Slots :
    /\ req[s].op \in RouteOf(pc[s])
    /\ pc[s] = "attest" => account[s] \in Issuers
    /\ FlawedRevoke(s) => pc[s] = "find"

Typed == TypeOK /\ OnRoute

\* The fields of a request follow from its route.
LEMMA Fields ==
  ASSUME NEW r \in Requests \cup {NoRequest, Flawed}
  PROVE  /\ r.op \in {"none", "resolve", "create", "add", "revoke", "attest"}
         /\ r.op \in {"resolve", "create", "add"} => r.owner \in Owners
         /\ r.op = "add" => r.issuer \in Issuers /\ r.type \in Types
         /\ r.op = "revoke" /\ ~r.flawed => r.credential \in CredentialIds
         /\ r.flawed \in BOOLEAN
<1>1. CASE r \in {NoRequest, Flawed}
  <2>1. r.op = "none" /\ r.flawed \in BOOLEAN
    <3>1. CASE r = NoRequest
      BY <3>1 DEF NoRequest
    <3>2. CASE r = Flawed
      BY <3>2 DEF Flawed
    <3> QED
      BY <1>1, <3>1, <3>2
  <2> QED
    BY <2>1
<1>2. CASE \/ r \in [op : {"resolve"}, owner : Owners, flawed : {FALSE}]
           \/ r \in [op : {"create"}, owner : Owners, flawed : {FALSE}]
  BY <1>2
<1>3. CASE r \in [op : {"add"}, owner : Owners, issuer : Issuers, type : Types,
                 flawed : BOOLEAN]
  BY <1>3
<1>4. CASE r \in [op : {"revoke"}, credential : CredentialIds, flawed : {FALSE}]
  BY <1>4
<1>5. CASE \/ r \in [op : {"revoke"}, flawed : {TRUE}]
           \/ r \in [op : {"attest"}, flawed : BOOLEAN]
  BY <1>5
<1> QED
  BY <1>1, <1>2, <1>3, <1>4, <1>5 DEF Requests

\* The id of a credential that is added is one of those there are.
LEMMA IdType ==
  ASSUME TypeOK, NEW s \in Slots, req[s].op = "add"
  PROVE  IdOf(s) \in CredentialIds
BY Fields DEF TypeOK, IdOf, CredentialIds

\* The part of TypeOK that is about rows and services, and the one about slots.
StoreTyped ==
  /\ identities \subseteq Owners
  /\ credentials \in [CredentialIds -> {"absent", "valid", "revoked"}]
  /\ issuers \in [Issuers -> {"absent", "active", "inactive"}]
  /\ chain \subseteq Owners
  /\ up \subseteq Services
  /\ created \in [Owners -> 0..2]

SlotTyped ==
  /\ req \in [Slots -> Requests \cup {NoRequest, Flawed}]
  /\ account \in [Slots -> Accounts \cup {Nobody}]
  /\ pc \in [Slots -> Points]
  /\ answer \in [Slots -> Answers]
  /\ minted \in [Slots -> Stamps]
  /\ disturbed \in [Slots -> BOOLEAN]
  /\ \A s \in Slots : answer[s] # 0 => pc[s] = "idle"
  /\ OnRoute

\* Well typed is well typed in its two parts.
LEMMA TypedParts == Typed <=> StoreTyped /\ SlotTyped
BY DEF Typed, TypeOK, StoreTyped, SlotTyped

\* A request may be answered anywhere.
LEMMA ReplyTyped ==
  ASSUME SlotTyped, NEW s \in Slots, NEW status \in Answers, Reply(s, status),
         FlawedRevoke(s) => status \notin {200, 201, 409}
  PROVE  SlotTyped'
<1>1. req[s] \in Requests \cup {NoRequest, Flawed}
  BY DEF SlotTyped
<1>2. req'[s] = Remains(s, status)
  BY DEF Reply, SlotTyped
<1>3. /\ req'[s] \in Requests \cup {NoRequest, Flawed}
      /\ ~FlawedRevoke(s)'
  BY <1>1, <1>2, Fields DEF Remains, FlawedRevoke, NoRequest, Flawed
<1>4. req'[s].op \in RouteOf("idle")
  BY <1>3, Fields DEF RouteOf
<1>5. req' \in [Slots -> Requests \cup {NoRequest, Flawed}]
  BY <1>2, <1>3 DEF Reply, SlotTyped
<1> QED
  BY <1>3, <1>4, <1>5 DEF Reply, SlotTyped, OnRoute, FlawedRevoke, RouteOf, Points

\* A request may go on to a point of its route.
LEMMA GoToTyped ==
  ASSUME SlotTyped, NEW s \in Slots, NEW point \in Points, GoTo(s, point),
         answer[s] = 0, req[s].op \in RouteOf(point), ~FlawedRevoke(s),
         point = "attest" => account[s] \in Issuers
  PROVE  SlotTyped'
BY DEF GoTo, SlotTyped, OnRoute, FlawedRevoke

\* So may one whose account has been seen to be entitled.
LEMMA PermittedTyped ==
  ASSUME SlotTyped, NEW s \in Slots, NEW point \in Points \ {"attest"},
         Permitted(s, point), answer[s] = 0, req[s].op \in RouteOf(point),
         ~FlawedRevoke(s)
  PROVE  SlotTyped'
BY DEF Permitted, SlotTyped, OnRoute, FlawedRevoke

\* Nor does a request that is abandoned spoil anything.
LEMMA AbandonTyped ==
  ASSUME SlotTyped, NEW s \in Slots, Abandon(s), answer[s] = 0
  PROVE  SlotTyped'
<1>1. NoRequest.op \in RouteOf("unanswered") /\ ~NoRequest.flawed
  BY DEF NoRequest, RouteOf
<1> QED
  BY <1>1 DEF Abandon, SlotTyped, OnRoute, FlawedRevoke, Points

\* The start is well typed.
LEMMA TypedInit == Init => Typed
BY DEF Init, Typed, TypeOK, OnRoute, FlawedRevoke, RouteOf, NoRequest, Stamps, Services, Answers, Points

\* No step spoils it.
LEMMA TypedStep == Typed /\ [Next]_vars => Typed'
<1> SUFFICES ASSUME Typed, [Next]_vars PROVE Typed'
  OBVIOUS
<1> USE DEF Typed
<1>1. ASSUME NEW x \in Faulty, Fail(x) \/ Recover(x) PROVE Typed'
  <2>1. CASE Fail(x)
    BY <2>1 DEF Fail, Disturb, Disturbs, TypeOK, OnRoute, FlawedRevoke, rows
  <2>2. CASE Recover(x)
    <3>1. up' \subseteq Services
      BY <2>2, ServiceAssumption DEF Recover, TypeOK
    <3> QED
      BY <3>1, <2>2 DEF Recover, TypeOK, OnRoute, FlawedRevoke, rows, slots
  <2> QED
    BY <1>1, <2>1, <2>2
<1>2. ASSUME NEW o \in Owners, CreateOnChain(o) \/ MirrorDID(o) PROVE Typed'
  BY <1>2 DEF CreateOnChain, MirrorDID, Disturb, Disturbs, TypeOK, OnRoute, FlawedRevoke, rows, slots, world
<1>3. ASSUME NEW c \in CredentialIds, MirrorCredential(c) \/ MirrorRevocation(c)
      PROVE  Typed'
  BY <1>3 DEF MirrorCredential, MirrorRevocation, TypeOK, OnRoute, FlawedRevoke, slots, world
<1>4. ASSUME NEW i \in Issuers, NEW status \in {"active", "inactive"},
             MirrorIssuer(i, status)
      PROVE  Typed'
  BY <1>4 DEF MirrorIssuer, Disturb, Disturbs, TypeOK, OnRoute, FlawedRevoke, world
<1>5. ASSUME NEW s \in Slots, NEW r \in Requests,
             NEW a \in Accounts \cup {Nobody}, Request(s, r, a)
      PROVE  Typed'
  <2> DEFINE Begun(account_, point) ==
        /\ Begin(s, r, account_, point)
        /\ account_ \in Accounts \cup {Nobody}
        /\ point \in Points \ {"attest", "idle"}
        /\ r.op \in RouteOf(point)
        /\ r.op = "revoke" => point = "find"
  <2>1. (\E account_, point : Begun(account_, point))
        \/ Refuse(s, 401) \/ Refuse(s, 403)
    BY <1>5 DEF Request, RequestResolve, RequestCreate, RequestAdd, RequestGuarded, RouteOf, Points
  <2>2. ASSUME NEW account_, NEW point, Begun(account_, point) PROVE Typed'
    BY <1>5, <2>2 DEF Request, Begin, Answering, TypeOK, OnRoute, FlawedRevoke, Answers, Points, Stamps, rows, world
  <2>3. ASSUME NEW status \in {401, 403}, Refuse(s, status) PROVE Typed'
    <3>1. NoRequest.op \in RouteOf("idle") /\ ~NoRequest.flawed
      BY DEF NoRequest, RouteOf
    <3>2. SlotTyped'
      BY <1>5, <2>3, <3>1, TypedParts DEF Request, Refuse, SlotTyped, OnRoute, FlawedRevoke, Answers, Stamps
    <3>3. StoreTyped'
      BY <1>5, TypedParts DEF Request, Answering, StoreTyped, rows, world
    <3> QED
      BY <3>2, <3>3 DEF Typed, TypeOK, StoreTyped, SlotTyped
  <2> QED
    BY <2>1, <2>2, <2>3
<1>6. ASSUME NEW s \in Slots, Step(s) PROVE Typed'
  <2> SUFFICES ASSUME StoreTyped, SlotTyped PROVE StoreTyped' /\ SlotTyped'
    BY TypedParts DEF Typed, TypeOK, StoreTyped, SlotTyped
  <2>1. /\ pc[s] # "idle" => answer[s] = 0 /\ req[s].op \in RouteOf(pc[s])
        /\ pc[s] # "find" => ~FlawedRevoke(s)
    BY DEF SlotTyped, OnRoute
  <2>2. CASE ResolveOnChain(s) \/ ResolveFromDB(s)
    <3>1. StoreTyped'
      BY <2>2, Fields DEF ResolveOnChain, ResolveFromDB, Resolved, Reply, GoTo, StoreTyped, SlotTyped, OnRoute, RouteOf, rows, world
    <3>2. \/ \E status \in {200, 201, 404, 500} : Reply(s, status)
          \/ pc[s] = "resolve" /\ GoTo(s, "fallback")
      BY <2>2 DEF ResolveOnChain, ResolveFromDB, Resolved
    <3>3. CASE \E status \in {200, 201, 404, 500} : Reply(s, status)
      BY <2>1, <2>2, <3>1, <3>3, ReplyTyped DEF ResolveOnChain, ResolveFromDB, Answers
    <3>4. CASE pc[s] = "resolve" /\ GoTo(s, "fallback")
      BY <2>1, <3>1, <3>4, GoToTyped DEF RouteOf, Points
    <3> QED
      BY <3>2, <3>3, <3>4
  <2>3. CASE FindIdentity(s)
    <3>1. pc[s] = "check" /\ StoreTyped'
      BY <2>3 DEF FindIdentity, Answering, StoreTyped, rows, world
    <3>2. GoTo(s, "insert") \/ \E status \in {409, 500} : Reply(s, status)
      BY <2>3 DEF FindIdentity
    <3> QED
      BY <2>1, <3>1, <3>2, GoToTyped, ReplyTyped DEF RouteOf, Points, Answers
  <2>4. CASE CreateIdentity(s)
    <3>1. req[s].owner \in Owners
      BY <2>1, <2>4, Fields DEF CreateIdentity, RouteOf, SlotTyped
    <3>2. StoreTyped'
      BY <2>4, <3>1 DEF CreateIdentity, PutIdentity, StoreTyped, world
    <3>3. CASE Reply(s, 500)
      BY <3>2, <3>3, ReplyTyped DEF Answers
    <3>4. CASE ~Reply(s, 500)
      <4>1. RouteOf(pc[s]) \subseteq RouteOf("resolve") /\ ~FlawedRevoke(s)
        BY <2>1, <2>4 DEF CreateIdentity, RouteOf
      <4> QED
        BY <2>1, <2>4, <3>2, <3>4, <4>1 DEF CreateIdentity, PutIdentity, Disturbs, SlotTyped, OnRoute, FlawedRevoke, Points
    <3> QED
      BY <3>3, <3>4
  <2>5. CASE FindIssuer(s)
    <3>1. pc[s] = "issuer" /\ StoreTyped'
      BY <2>5 DEF FindIssuer, Answering, StoreTyped, rows, world
    <3>2. Abandon(s) \/ Permitted(s, "upsert") \/ Reply(s, 403)
      BY <2>5 DEF FindIssuer
    <3>3. RouteOf("issuer") = RouteOf("upsert")
      BY DEF RouteOf
    <3> QED
      BY <2>1, <3>1, <3>2, <3>3, AbandonTyped, PermittedTyped, ReplyTyped DEF Points, Answers
  <2>6. CASE UpsertOwner(s)
    <3>1. req[s].owner \in Owners
      BY <2>1, <2>6, Fields DEF UpsertOwner, RouteOf, SlotTyped
    <3>2. StoreTyped'
      BY <2>6, <3>1 DEF UpsertOwner, PutIdentity, StoreTyped, world
    <3>3. CASE Reply(s, 500)
      BY <3>2, <3>3, ReplyTyped DEF Answers
    <3>4. CASE ~Reply(s, 500)
      <4>1. RouteOf(pc[s]) \subseteq RouteOf("store") /\ ~FlawedRevoke(s)
        BY <2>1, <2>6 DEF UpsertOwner, RouteOf
      <4> QED
        BY <2>1, <2>6, <3>2, <3>4, <4>1 DEF UpsertOwner, PutIdentity, Disturbs, SlotTyped, OnRoute, FlawedRevoke, Points, Stamps
    <3> QED
      BY <3>3, <3>4
  <2>7. CASE StoreCredential(s)
    <3>1. StoreTyped'
      BY <2>7 DEF StoreCredential, StoreTyped, world
    <3> QED
      BY <2>1, <2>7, <3>1, ReplyTyped DEF StoreCredential, Answers
  <2>8. CASE FindCredential(s)
    <3>1. pc[s] = "find" /\ StoreTyped'
      BY <2>8 DEF FindCredential, Answering, StoreTyped, rows, world
    <3>2. \/ Permitted(s, "update") /\ ~req[s].flawed
          \/ Reply(s, 409) /\ ~req[s].flawed
          \/ \E status \in {403, 404, 500} : Reply(s, status)
      BY <2>8 DEF FindCredential
    <3>3. RouteOf("find") = RouteOf("update")
      BY DEF RouteOf
    <3> QED
      BY <2>1, <3>1, <3>2, <3>3, PermittedTyped, ReplyTyped DEF FlawedRevoke, Points, Answers
  <2>9. CASE RevokeCredential(s)
    <3>1. StoreTyped'
      BY <2>9 DEF RevokeCredential, StoreTyped, world
    <3> QED
      BY <2>1, <2>9, <3>1, ReplyTyped DEF RevokeCredential, Answers
  <2>10. CASE FindTrusted(s)
    <3>1. pc[s] = "trust" /\ StoreTyped'
      BY <2>10 DEF FindTrusted, Answering, StoreTyped, rows, world
    <3>2. \/ account[s] \in Issuers /\ GoTo(s, "attest")
          \/ \E status \in {403, 500} : Reply(s, status)
      BY <2>10 DEF FindTrusted
    <3>3. RouteOf("trust") = RouteOf("attest")
      BY DEF RouteOf
    <3> QED
      BY <2>1, <3>1, <3>2, <3>3, GoToTyped, ReplyTyped DEF Points, Answers
  <2>11. CASE StoreAttestation(s)
    <3>1. StoreTyped'
      BY <2>11 DEF StoreAttestation, Answering, StoreTyped, rows, world
    <3> QED
      BY <2>1, <2>11, <3>1, ReplyTyped DEF StoreAttestation, Answers
  <2> QED
    BY <1>6, <2>2, <2>3, <2>4, <2>5, <2>6, <2>7, <2>8, <2>9, <2>10, <2>11 DEF Step
<1>7. CASE UNCHANGED vars
  BY <1>7 DEF vars, rows, world, slots, TypeOK, OnRoute, FlawedRevoke
<1> QED
  BY <1>1, <1>2, <1>3, <1>4, <1>5, <1>6, <1>7 DEF Next

\* Every reachable state is well typed, and every request stands at a point of
\* its own route; an answered request is over.
THEOREM TypeCorrect == Spec => []TypeOK
<1>1. Typed => TypeOK
  BY DEF Typed
<1> QED
  BY TypedInit, TypedStep, <1>1, PTL DEF Spec

\* With it, every request has the fields its step reads.
THEOREM AlwaysTyped == Spec => []Typed
BY TypedInit, TypedStep, PTL DEF Spec

-----------------------------------------------------------------------------
(***************************************************************************)
(* What clients were told, and why a request fails.  Rows never go away,   *)
(* so that an answer stays true once its row is there; a request about to  *)
(* write must know that its row is not there, or have been disturbed.      *)
(***************************************************************************)

\* Rows are only added, and a revocation is final.
Grows ==
  /\ identities \subseteq identities'
  /\ \A c \in CredentialIds :
       /\ credentials[c] # "absent" => credentials'[c] # "absent"
       /\ credentials[c] = "revoked" => credentials'[c] = "revoked"

\* Failures and rows written by others do not go unnoticed.
Noticed(s) ==
  /\ Active(s) /\ "postgres" \notin up => disturbed[s]
  /\ pc[s] = "insert" /\ req[s].owner \in identities => disturbed[s]

\* What a request has already done.
Prepared(s) ==
  /\ pc[s] = "store" => minted[s] \in Moments /\ req[s].owner \in identities
  /\ pc[s] \in {"resolve", "fallback"} /\ req[s].op = "create"
       => req[s].owner \in identities

AnswerHolds(s) ==
  /\ req[s].op = "create" /\ answer[s] \in {201, 409}
       => req[s].owner \in identities
  /\ req[s].op = "add" /\ answer[s] = 201
       => credentials[IdOf(s)] # "absent" /\ req[s].owner \in identities
  /\ req[s].op = "revoke" /\ answer[s] \in {200, 409}
       => credentials[req[s].credential] = "revoked"

ErrorExplained(s) ==
  answer[s] = 500 => disturbed[s] \/ SameId(s) \/ req[s].flawed

Sound(s) ==
  Noticed(s) /\ Prepared(s) /\ AnswerHolds(s) /\ ErrorExplained(s)

AllSound == \A s \in Slots : Sound(s)

\* No step takes a row away or undoes a revocation.
LEMMA RowsGrow == Typed /\ [Next]_vars => Grows
<1> SUFFICES ASSUME Typed, [Next]_vars PROVE Grows
  OBVIOUS
<1> USE DEF Typed, TypeOK, Grows
<1>1. ASSUME NEW x \in Faulty, Fail(x) \/ Recover(x) PROVE Grows
  BY <1>1 DEF Fail, Recover, rows
<1>2. ASSUME NEW o \in Owners, CreateOnChain(o) \/ MirrorDID(o) PROVE Grows
  BY <1>2 DEF CreateOnChain, MirrorDID, rows
<1>3. ASSUME NEW c \in CredentialIds, MirrorCredential(c) \/ MirrorRevocation(c)
      PROVE  Grows
  BY <1>3 DEF MirrorCredential, MirrorRevocation
<1>4. ASSUME NEW i \in Issuers, NEW status \in {"active", "inactive"},
             MirrorIssuer(i, status)
      PROVE  Grows
  BY <1>4 DEF MirrorIssuer
<1>5. ASSUME NEW s \in Slots, NEW r \in Requests,
             NEW a \in Accounts \cup {Nobody}, Request(s, r, a)
      PROVE  Grows
  BY <1>5 DEF Request, Answering, rows
<1>6. ASSUME NEW s \in Slots, Step(s) PROVE Grows
  <2>1. CASE UNCHANGED <<identities, credentials>>
    BY <2>1
  <2>2. CASE CreateIdentity(s) \/ UpsertOwner(s)
    BY <2>2 DEF CreateIdentity, UpsertOwner, PutIdentity
  <2>3. CASE StoreCredential(s) \/ RevokeCredential(s)
    BY <2>3 DEF StoreCredential, RevokeCredential
  <2> QED
    BY <1>6, <2>1, <2>2, <2>3 DEF Step, ResolveOnChain, ResolveFromDB, FindIdentity, FindIssuer, FindCredential, FindTrusted, StoreAttestation, Answering, rows
<1>7. CASE UNCHANGED vars
  BY <1>7 DEF vars, rows
<1> QED
  BY <1>1, <1>2, <1>3, <1>4, <1>5, <1>6, <1>7 DEF Next

\* A request that does not move.
Rests(s) ==
  /\ req'[s] = req[s] /\ pc'[s] = pc[s] /\ answer'[s] = answer[s]
  /\ minted'[s] = minted[s]
  /\ disturbed[s] => disturbed'[s]

\* A request that does not move stays sound, whatever moves around it.
LEMMA RestingSound ==
  ASSUME Typed, Grows, NEW s \in Slots, Sound(s), Rests(s), Noticed(s)'
  PROVE  Sound(s)'
<1>1. Prepared(s)'
  BY DEF Sound, Prepared, Rests, Grows
<1>2. req[s].op = "add" => IdOf(s) \in CredentialIds /\ IdOf(s)' = IdOf(s)
  BY IdType DEF Rests, IdOf, Typed
<1>3. req[s].op = "revoke" /\ answer[s] # 0 => req[s].credential \in CredentialIds
  BY Fields DEF Typed, TypeOK, OnRoute, FlawedRevoke
<1>4. AnswerHolds(s)'
  BY <1>2, <1>3 DEF Sound, AnswerHolds, Rests, Grows
<1>5. ErrorExplained(s)'
  BY <1>2 DEF Sound, ErrorExplained, SameId, Rests, Grows
<1> QED
  BY <1>1, <1>4, <1>5 DEF Sound

\* A request's step leaves the other requests where they are, and they notice
\* the row it adds.
LEMMA OthersNotice ==
  ASSUME Typed, AllSound, NEW s \in Slots, NEW t \in Slots \ {s},
         Step(s) \/ \E r \in Requests, a \in Accounts \cup {Nobody} :
                       Request(s, r, a)
  PROVE  Rests(t) /\ Noticed(t)'
<1> USE DEF Typed, TypeOK
<1>1. pc[t] = "insert" => req[t].op = "create" /\ Active(t)
  BY DEF OnRoute, RouteOf, Active
<1>2. CASE UNCHANGED <<identities, up>> /\ Rests(t)
  BY <1>2 DEF AllSound, Sound, Noticed, Rests, Active
<1>3. CASE /\ PutIdentity(s, req[s].owner) /\ UNCHANGED <<up, req>>
           /\ pc'[t] = pc[t] /\ answer'[t] = answer[t] /\ minted'[t] = minted[t]
  <2>1. Rests(t)
    BY <1>3 DEF PutIdentity, Disturbs, Rests
  <2>2. CASE pc[t] = "insert" /\ req[t].owner \in identities' \ identities
    <3>1. req[t].owner = req[s].owner /\ req[s].owner \notin identities
      BY <1>3, <2>2 DEF PutIdentity
    <3>2. t \in Creating(req[s].owner) \ {s} /\ Active(t)
      BY <1>1, <2>2, <3>1 DEF Creating
    <3>3. disturbed'[t]
      BY <1>3, <3>1, <3>2 DEF PutIdentity, Disturbs
    <3> QED
      BY <2>1, <3>3 DEF Noticed
  <2>3. CASE ~(pc[t] = "insert" /\ req[t].owner \in identities' \ identities)
    BY <1>3, <2>1, <2>3 DEF AllSound, Sound, Noticed, Rests, Active
  <2> QED
    BY <2>1, <2>2, <2>3
<1>4. ASSUME NEW r, NEW a, Request(s, r, a)
      PROVE  UNCHANGED <<identities, up>> /\ Rests(t)
  BY <1>4 DEF Request, RequestResolve, RequestCreate, RequestAdd, RequestGuarded, Begin, Refuse, Answering, rows, world, Rests
<1>5. ASSUME NEW status, Reply(s, status) PROVE Rests(t)
  BY <1>5 DEF Reply, Rests
<1>6. ASSUME NEW point, GoTo(s, point) \/ Permitted(s, point) \/ Abandon(s)
      PROVE  Rests(t)
  BY <1>6 DEF GoTo, Permitted, Abandon, Rests
<1>7. CASE CreateIdentity(s) \/ UpsertOwner(s)
  <2>1. UNCHANGED up
    BY <1>7 DEF CreateIdentity, UpsertOwner, world
  <2>2. CASE UNCHANGED identities /\ Reply(s, 500)
    BY <1>2, <1>5, <2>1, <2>2
  <2>3. CASE ~(UNCHANGED identities /\ Reply(s, 500))
    BY <1>3, <1>7, <2>1, <2>3 DEF CreateIdentity, UpsertOwner
  <2> QED
    BY <2>2, <2>3
<1>8. ASSUME Step(s), ~CreateIdentity(s), ~UpsertOwner(s)
      PROVE  /\ UNCHANGED <<identities, up>>
             /\ \/ \E status : Reply(s, status)
                \/ \E point : GoTo(s, point) \/ Permitted(s, point)
                \/ Abandon(s)
  <2>1. UNCHANGED <<identities, up>>
    BY <1>8 DEF Step, ResolveOnChain, ResolveFromDB, FindIdentity, FindIssuer, StoreCredential, FindCredential, RevokeCredential, FindTrusted, StoreAttestation, Answering, rows, world
  <2>2. CASE ResolveOnChain(s) \/ ResolveFromDB(s)
    BY <2>1, <2>2 DEF ResolveOnChain, ResolveFromDB, Resolved
  <2>3. CASE FindIdentity(s) \/ FindIssuer(s)
    BY <2>1, <2>3 DEF FindIdentity, FindIssuer
  <2>4. CASE FindCredential(s) \/ FindTrusted(s)
    BY <2>1, <2>4 DEF FindCredential, FindTrusted
  <2>5. CASE StoreCredential(s) \/ RevokeCredential(s) \/ StoreAttestation(s)
    BY <2>1, <2>5 DEF StoreCredential, RevokeCredential, StoreAttestation
  <2> QED
    BY <1>8, <2>2, <2>3, <2>4, <2>5 DEF Step
<1> QED
  BY <1>2, <1>4, <1>5, <1>6, <1>7, <1>8

\* An answer that is true is a sound one.
LEMMA ReplySound ==
  ASSUME Typed, NEW s \in Slots, NEW status \in Answers, Reply(s, status),
         req[s].op = "create" /\ status \in {201, 409}
           => req[s].owner \in identities',
         req[s].op = "add" /\ status = 201
           => credentials'[IdOf(s)] # "absent" /\ req[s].owner \in identities',
         req[s].op = "revoke" /\ status \in {200, 409}
           => credentials'[req[s].credential] = "revoked",
         status = 500 =>
           \/ disturbed[s] \/ req[s].flawed
           \/ /\ req[s].op = "add" /\ minted[s] # ByContract
              /\ credentials'[IdOf(s)] # "absent"
  PROVE  Sound(s)'
<1> USE DEF Typed, TypeOK
<1>1. /\ pc'[s] = "idle" /\ answer'[s] = status /\ minted'[s] = minted[s]
      /\ req'[s] = Remains(s, status)
      /\ disturbed'[s] = (disturbed[s] /\ status = 500)
  BY DEF Reply
<1>2. Noticed(s)' /\ Prepared(s)'
  BY <1>1 DEF Noticed, Prepared, Active
<1>3. req'[s] = req[s] => IdOf(s)' = IdOf(s)
  BY <1>1 DEF IdOf
<1>4. req'[s] \in {req[s], NoRequest, Flawed}
  BY <1>1 DEF Remains
<1>5. AnswerHolds(s)'
  BY <1>1, <1>3, <1>4 DEF AnswerHolds, NoRequest, Flawed
<1>6. ErrorExplained(s)'
  <2>1. CASE status = 500 /\ ~disturbed[s] /\ req[s].flawed
    <3>1. req'[s].flawed
      BY <1>1, <2>1 DEF Remains, Flawed
    <3> QED
      BY <3>1 DEF ErrorExplained
  <2>2. CASE status = 500 /\ ~disturbed[s] /\ ~req[s].flawed
    <3>1. req'[s] = req[s]
      BY <1>1, <2>2 DEF Remains
    <3> QED
      BY <1>1, <1>3, <2>2, <3>1 DEF ErrorExplained, SameId
  <2>3. CASE ~(status = 500 /\ ~disturbed[s])
    BY <1>1, <2>3 DEF ErrorExplained
  <2> QED
    BY <2>1, <2>2, <2>3
<1> QED
  BY <1>2, <1>5, <1>6 DEF Sound

\* A request's own step keeps it sound: of an error it knows the reason.
LEMMA StepSound ==
  ASSUME Typed, NEW s \in Slots, Sound(s), Step(s)
  PROVE  Sound(s)'
<1> USE DEF Typed, TypeOK
<1>1. pc[s] \notin {"idle", "unanswered"} =>
        /\ req[s].op \in RouteOf(pc[s]) /\ answer[s] = 0
        /\ "postgres" \notin up => disturbed[s]
  BY DEF OnRoute, Sound, Noticed, Active
<1>2. ASSUME NEW point \in Points, GoTo(s, point) \/ Permitted(s, point),
             UNCHANGED <<identities, up>>,
             Active(s), point \notin {"insert", "store", "resolve"},
             point = "fallback" => pc[s] = "resolve"
      PROVE  Sound(s)'
  <2>1. /\ pc'[s] = point /\ req'[s] = req[s] /\ answer'[s] = answer[s]
        /\ disturbed'[s] = disturbed[s]
    BY <1>2 DEF GoTo, Permitted
  <2> QED
    BY <1>1, <1>2, <2>1 DEF Sound, Noticed, Prepared, AnswerHolds, ErrorExplained, Active
<1>3. CASE ResolveOnChain(s) \/ ResolveFromDB(s)
  <2>1. /\ req[s].op \in {"resolve", "create"} /\ UNCHANGED <<rows, world>>
        /\ req[s].op = "create" => req[s].owner \in identities
    BY <1>1, <1>3 DEF ResolveOnChain, ResolveFromDB, RouteOf, Sound, Prepared
  <2>2. \/ Reply(s, 200) /\ req[s].op = "resolve"
        \/ Reply(s, 201) \/ Reply(s, 404)
        \/ Reply(s, 500) /\ "postgres" \notin up
        \/ pc[s] = "resolve" /\ GoTo(s, "fallback")
    BY <1>3, <2>1 DEF ResolveOnChain, ResolveFromDB, Resolved
  <2>3. CASE pc[s] = "resolve" /\ GoTo(s, "fallback")
    BY <1>2, <2>1, <2>3 DEF Points, Active, rows, world
  <2>4. ASSUME NEW status \in {200, 201, 404}, Reply(s, status) PROVE Sound(s)'
    BY <2>1, <2>4, ReplySound DEF Answers, rows
  <2>5. CASE Reply(s, 500) /\ "postgres" \notin up
    BY <1>1, <1>3, <2>1, <2>5, ReplySound DEF ResolveOnChain, ResolveFromDB, Answers
  <2> QED
    BY <2>2, <2>3, <2>4, <2>5
<1>4. CASE FindIdentity(s)
  <2>1. req[s].op = "create" /\ UNCHANGED <<rows, world>>
    BY <1>1, <1>4 DEF FindIdentity, Answering, RouteOf
  <2>2. CASE "postgres" \notin up
    BY <1>1, <1>4, <2>1, <2>2, ReplySound DEF FindIdentity, Answers
  <2>3. CASE "postgres" \in up /\ req[s].owner \in identities
    BY <1>4, <2>1, <2>3, ReplySound DEF FindIdentity, Answers, rows
  <2>4. CASE "postgres" \in up /\ req[s].owner \notin identities
    <3>1. GoTo(s, "insert")
      BY <1>4, <2>4 DEF FindIdentity
    <3>2. pc'[s] = "insert" /\ req'[s] = req[s] /\ answer'[s] = answer[s]
      BY <3>1 DEF GoTo
    <3> QED
      BY <1>1, <1>4, <2>1, <2>4, <3>2 DEF FindIdentity, Sound, Noticed, Prepared, AnswerHolds, ErrorExplained, Active, rows, world
  <2> QED
    BY <2>2, <2>3, <2>4
<1>5. CASE CreateIdentity(s)
  <2>1. req[s].op = "create" /\ UNCHANGED world
    BY <1>1, <1>5 DEF CreateIdentity, RouteOf
  <2>2. CASE "postgres" \in up /\ req[s].owner \notin identities
    <3>1. /\ pc'[s] = "resolve" /\ req'[s] = req[s] /\ answer'[s] = answer[s]
          /\ req[s].owner \in identities'
      BY <1>5, <2>2 DEF CreateIdentity, PutIdentity
    <3> QED
      BY <1>1, <1>5, <2>1, <2>2, <3>1 DEF CreateIdentity, Sound, Noticed, Prepared, AnswerHolds, ErrorExplained, Active, world
  <2>3. CASE ~("postgres" \in up /\ req[s].owner \notin identities)
    <3>1. disturbed[s] /\ Reply(s, 500)
      BY <1>1, <1>5, <2>3 DEF CreateIdentity, Sound, Noticed
    <3> QED
      BY <2>1, <3>1, ReplySound DEF Answers
  <2> QED
    BY <2>2, <2>3
<1>6. CASE FindIssuer(s)
  <2>1. req[s].op = "add" /\ pc[s] = "issuer" /\ UNCHANGED <<rows, world>>
    BY <1>1, <1>6 DEF FindIssuer, Answering, RouteOf
  <2>2. Abandon(s) \/ Permitted(s, "upsert") \/ Reply(s, 403)
    BY <1>6 DEF FindIssuer
  <2>3. CASE Permitted(s, "upsert")
    BY <1>2, <2>1, <2>3 DEF Points, Active, rows, world
  <2>5. CASE Abandon(s)
    <3>1. pc'[s] = "unanswered" /\ answer'[s] = 0
      BY <1>1, <2>1, <2>5 DEF Abandon
    <3> QED
      BY <3>1 DEF Sound, Noticed, Prepared, AnswerHolds, ErrorExplained, Active
  <2>4. CASE Reply(s, 403)
    BY <2>1, <2>4, ReplySound DEF Answers
  <2> QED
    BY <2>2, <2>3, <2>4, <2>5
<1>7. CASE UpsertOwner(s)
  <2>1. req[s].op = "add" /\ UNCHANGED world
    BY <1>1, <1>7 DEF UpsertOwner, RouteOf
  <2>2. CASE "postgres" \in up
    <3>1. /\ pc'[s] = "store" /\ req'[s] = req[s] /\ answer'[s] = answer[s]
          /\ req[s].owner \in identities' /\ minted'[s] \in Moments
      BY <1>7, <2>2 DEF UpsertOwner, PutIdentity
    <3> QED
      BY <1>1, <1>7, <2>1, <2>2, <3>1 DEF UpsertOwner, Sound, Noticed, Prepared, AnswerHolds, ErrorExplained, Active, world
  <2>3. CASE "postgres" \notin up
    BY <1>1, <1>7, <2>1, <2>3, ReplySound DEF UpsertOwner, Answers
  <2> QED
    BY <2>2, <2>3
<1>8. CASE StoreCredential(s)
  <2>1. /\ req[s].op = "add" /\ minted[s] \in Moments
        /\ req[s].owner \in identities /\ UNCHANGED identities
    BY <1>1, <1>8 DEF StoreCredential, RouteOf, Sound, Prepared
  <2>2. IdOf(s) \in CredentialIds
    BY <2>1, IdType
  <2>3. CASE "postgres" \in up /\ ~req[s].flawed /\ credentials[IdOf(s)] = "absent"
    <3>1. Reply(s, 201) /\ credentials'[IdOf(s)] = "valid"
      BY <1>8, <2>1, <2>2, <2>3 DEF StoreCredential
    <3> QED
      BY <2>1, <3>1, ReplySound DEF Answers
  <2>4. CASE ~("postgres" \in up /\ ~req[s].flawed /\ credentials[IdOf(s)] = "absent")
    <3>1. Reply(s, 500) /\ UNCHANGED credentials
      BY <1>8, <2>4 DEF StoreCredential
    <3>2. disturbed[s] \/ req[s].flawed \/ credentials'[IdOf(s)] # "absent"
      BY <1>1, <1>8, <2>4, <3>1 DEF StoreCredential
    <3> QED
      BY <2>1, <3>1, <3>2, ByContractAssumption, ReplySound DEF Answers
  <2> QED
    BY <2>3, <2>4
<1>9. CASE FindCredential(s)
  <2>1. req[s].op = "revoke" /\ pc[s] = "find" /\ UNCHANGED <<rows, world>>
    BY <1>1, <1>9 DEF FindCredential, Answering, RouteOf
  <2>2. \/ Permitted(s, "update") \/ Reply(s, 403) \/ Reply(s, 404)
        \/ Reply(s, 409) /\ credentials[req[s].credential] = "revoked"
        \/ Reply(s, 500) /\ ("postgres" \notin up \/ req[s].flawed)
    BY <1>9 DEF FindCredential
  <2>3. CASE Permitted(s, "update")
    BY <1>2, <2>1, <2>3 DEF Points, Active, rows, world
  <2>4. CASE Reply(s, 403) \/ Reply(s, 404)
    BY <2>1, <2>4, ReplySound DEF Answers
  <2>5. CASE Reply(s, 409) /\ credentials[req[s].credential] = "revoked"
    BY <2>1, <2>5, ReplySound DEF Answers, rows
  <2>6. CASE Reply(s, 500) /\ ("postgres" \notin up \/ req[s].flawed)
    BY <1>1, <2>1, <2>6, ReplySound DEF Answers
  <2> QED
    BY <2>2, <2>3, <2>4, <2>5, <2>6
<1>10. CASE RevokeCredential(s)
  <2>1. req[s].op = "revoke" /\ req[s].credential \in CredentialIds
    BY <1>1, <1>10, Fields DEF RevokeCredential, RouteOf, OnRoute, FlawedRevoke
  <2>2. CASE "postgres" \in up
    <3>1. Reply(s, 200) /\ credentials'[req[s].credential] = "revoked"
      BY <1>10, <2>1, <2>2 DEF RevokeCredential
    <3> QED
      BY <2>1, <3>1, ReplySound DEF Answers
  <2>3. CASE "postgres" \notin up
    BY <1>1, <1>10, <2>1, <2>3, ReplySound DEF RevokeCredential, Answers
  <2> QED
    BY <2>2, <2>3
<1>11. CASE FindTrusted(s) \/ StoreAttestation(s)
  <2>1. /\ req[s].op = "attest" /\ pc[s] \in {"trust", "attest"}
        /\ UNCHANGED <<identities, world>>
    BY <1>1, <1>11 DEF FindTrusted, StoreAttestation, Answering, RouteOf, rows
  <2>2. \/ GoTo(s, "attest") \/ Reply(s, 201) \/ Reply(s, 403)
        \/ Reply(s, 500) /\ ("postgres" \notin up \/ req[s].flawed)
    BY <1>11 DEF FindTrusted, StoreAttestation
  <2>3. CASE GoTo(s, "attest")
    BY <1>2, <2>1, <2>3 DEF Points, Active, world
  <2>4. CASE Reply(s, 201) \/ Reply(s, 403)
    BY <2>1, <2>4, ReplySound DEF Answers
  <2>5. CASE Reply(s, 500) /\ ("postgres" \notin up \/ req[s].flawed)
    BY <1>1, <2>1, <2>5, ReplySound DEF Answers
  <2> QED
    BY <2>2, <2>3, <2>4, <2>5
<1> QED
  BY <1>3, <1>4, <1>5, <1>6, <1>7, <1>8, <1>9, <1>10, <1>11 DEF Step

\* A new request is sound: it has been told nothing but a refusal.
LEMMA RequestSound ==
  ASSUME Typed, NEW s \in Slots, NEW r \in Requests,
         NEW a \in Accounts \cup {Nobody}, Request(s, r, a)
  PROVE  Sound(s)'
<1> USE DEF Typed, TypeOK
<1>1. UNCHANGED <<identities, credentials, up>> /\ pc[s] = "idle"
  BY DEF Request, Answering, rows, world
<1>2. ASSUME NEW account_, NEW point, Begin(s, r, account_, point),
             point # "insert", point # "store", point # "fallback",
             point = "resolve" => r.op = "resolve"
      PROVE  Sound(s)'
  <2>1. /\ req'[s] = r /\ pc'[s] = point /\ answer'[s] = 0
        /\ "postgres" \notin up => disturbed'[s]
    BY <1>2 DEF Begin
  <2>2. Noticed(s)' /\ Prepared(s)'
    BY <1>1, <1>2, <2>1 DEF Noticed, Prepared
  <2>3. AnswerHolds(s)' /\ ErrorExplained(s)'
    BY <2>1 DEF AnswerHolds, ErrorExplained
  <2> QED
    BY <2>2, <2>3 DEF Sound
<1>3. ASSUME NEW status \in {401, 403}, Refuse(s, status) PROVE Sound(s)'
  <2>1. pc'[s] = "idle" /\ answer'[s] = status
    BY <1>1, <1>3 DEF Refuse
  <2> QED
    BY <2>1 DEF Sound, Noticed, Prepared, AnswerHolds, ErrorExplained, Active
<1> QED
  BY <1>2, <1>3 DEF Request, RequestResolve, RequestCreate, RequestAdd, RequestGuarded

\* What the environment does, the requests it concerns notice.
LEMMA WorldSound ==
  ASSUME Typed, AllSound, NEW s \in Slots,
         \/ \E x \in Faulty : Fail(x) \/ Recover(x)
         \/ \E o \in Owners : CreateOnChain(o) \/ MirrorDID(o)
         \/ \E c \in CredentialIds : MirrorCredential(c) \/ MirrorRevocation(c)
         \/ \E i \in Issuers : \E status \in {"active", "inactive"} :
              MirrorIssuer(i, status)
         \/ UNCHANGED vars
  PROVE  Rests(s) /\ Noticed(s)'
<1> USE DEF Typed, TypeOK
<1>1. Noticed(s)
  BY DEF AllSound, Sound
<1>2. pc[s] = "insert" => req[s].op = "create" /\ Active(s)
  BY DEF OnRoute, RouteOf, Active
<1>3. ASSUME NEW x, Fail(x) PROVE Rests(s) /\ Noticed(s)'
  <2>1. Rests(s) /\ UNCHANGED <<identities, req, pc>>
    BY <1>3 DEF Fail, Disturb, Disturbs, Rests, rows
  <2>2. x = "postgres" /\ Active(s) => disturbed'[s]
    BY <1>3 DEF Fail, Disturb, Disturbs
  <2> QED
    BY <1>1, <1>3, <2>1, <2>2 DEF Fail, Noticed, Rests, Active
<1>4. ASSUME NEW x, Recover(x) PROVE Rests(s) /\ Noticed(s)'
  BY <1>1, <1>4 DEF Recover, Rests, Noticed, Active, rows, slots
<1>5. ASSUME NEW o, MirrorDID(o) PROVE Rests(s) /\ Noticed(s)'
  <2>1. Rests(s) /\ UNCHANGED <<req, pc, up>>
    BY <1>5 DEF MirrorDID, Disturb, Disturbs, Rests, world
  <2>2. pc[s] = "insert" /\ req[s].owner = o => disturbed'[s]
    BY <1>2, <1>5 DEF MirrorDID, Disturb, Disturbs, Creating
  <2> QED
    BY <1>1, <1>5, <2>1, <2>2 DEF MirrorDID, Noticed, Rests, Active
<1>6. ASSUME NEW i, NEW status, MirrorIssuer(i, status)
      PROVE  Rests(s) /\ Noticed(s)'
  <2>1. Rests(s) /\ UNCHANGED <<req, pc, up, identities>>
    BY <1>6 DEF MirrorIssuer, Disturb, Disturbs, Rests, world
  <2> QED
    BY <1>1, <2>1 DEF Noticed, Rests, Active
<1>7. ASSUME UNCHANGED <<identities, up, slots>> PROVE Rests(s) /\ Noticed(s)'
  BY <1>1, <1>7 DEF Rests, Noticed, Active, slots
<1> QED
  BY <1>3, <1>4, <1>5, <1>6, <1>7 DEF CreateOnChain, MirrorCredential, MirrorRevocation, vars, rows, world

\* Every step keeps every request sound.
LEMMA SoundStep == Typed /\ AllSound /\ [Next]_vars => AllSound'
<1> SUFFICES ASSUME Typed, AllSound, [Next]_vars, NEW s \in Slots PROVE Sound(s)'
  BY DEF AllSound
<1>1. Grows /\ Sound(s)
  BY RowsGrow DEF AllSound
<1>2. ASSUME NEW t \in Slots, Step(t) PROVE Sound(s)'
  <2>1. CASE s = t
    BY <1>1, <1>2, <2>1, StepSound
  <2>2. CASE s # t
    BY <1>1, <1>2, <2>2, OthersNotice, RestingSound
  <2> QED
    BY <2>1, <2>2
<1>3. ASSUME NEW t \in Slots, NEW r \in Requests,
             NEW a \in Accounts \cup {Nobody}, Request(t, r, a)
      PROVE  Sound(s)'
  <2>1. CASE s = t
    BY <1>3, <2>1, RequestSound
  <2>2. CASE s # t
    BY <1>1, <1>3, <2>2, OthersNotice, RestingSound
  <2> QED
    BY <2>1, <2>2
<1>4. CASE Rests(s) /\ Noticed(s)'
  BY <1>1, <1>4, RestingSound
<1> QED
  BY <1>2, <1>3, <1>4, WorldSound DEF Next

\* No request has been told anything at the start.
LEMMA SoundInit == Init => AllSound
BY DEF Init, AllSound, Sound, Noticed, Prepared, AnswerHolds, ErrorExplained, Active, NoRequest

\* Every request is sound in every reachable state.
THEOREM AlwaysSound == Spec => []AllSound
BY SoundInit, SoundStep, AlwaysTyped, PTL DEF Spec

\* What a client was told stays true, whatever else goes on.
THEOREM AnswersKept == Spec => []AnswersHold
<1>1. AllSound => AnswersHold
  BY DEF AllSound, Sound, AnswerHolds, AnswersHold
<1> QED
  BY <1>1, AlwaysSound, PTL

\* No request fails with 500 for any reason but those ServerErrorsExplained
\* names.
THEOREM ErrorsExplained == Spec => []ServerErrorsExplained
<1>1. AllSound => ServerErrorsExplained
  BY DEF AllSound, Sound, ErrorExplained, ServerErrorsExplained
<1> QED
  BY <1>1, AlwaysSound, PTL

-----------------------------------------------------------------------------
(***************************************************************************)
(* An address is created once.  The insert lets one request pass, because  *)
(* there is no row before it and there is one ever after.                  *)
(***************************************************************************)

Finishing(s, o) ==
  /\ pc[s] \in {"resolve", "fallback"}
  /\ req[s].op = "create" /\ req[s].owner = o

OneCreator ==
  \A o \in Owners :
    /\ created[o] \in {0, 1}
    /\ created[o] = 1 => o \in identities
    /\ \A s \in Slots : Finishing(s, o) => created[o] = 0
    /\ \A s, t \in Slots : Finishing(s, o) /\ Finishing(t, o) => s = t

\* A request that does not move, or does not come to its end, changes nothing.
LEMMA NoNewCreator ==
  ASSUME OneCreator, Grows, UNCHANGED created,
         \A t \in Slots, o \in Owners : Finishing(t, o)' => Finishing(t, o)
  PROVE  OneCreator'
BY DEF OneCreator, Grows

\* Every step leaves each address at most one creator.
LEMMA OneCreatorStep ==
  Typed /\ AllSound /\ OneCreator /\ [Next]_vars => OneCreator'
<1> SUFFICES ASSUME Typed, AllSound, OneCreator, [Next]_vars PROVE OneCreator'
  OBVIOUS
<1> USE DEF Typed, TypeOK
<1>1. Grows
  BY RowsGrow
<1>2. ASSUME NEW t \in Slots, Rests(t)
      PROVE  \A o \in Owners : Finishing(t, o)' <=> Finishing(t, o)
  BY <1>2 DEF Rests, Finishing
<1>3. ASSUME UNCHANGED created, \A t \in Slots : Rests(t) PROVE OneCreator'
  BY <1>1, <1>2, <1>3, NoNewCreator
<1>4. ASSUME NEW s \in Slots, NEW r \in Requests,
             NEW a \in Accounts \cup {Nobody}, Request(s, r, a)
      PROVE  OneCreator'
  <2>1. UNCHANGED created
    BY <1>4 DEF Request, Answering
  <2>2. \A o \in Owners : ~Finishing(s, o)'
    BY <1>4 DEF Request, RequestResolve, RequestCreate, RequestAdd, RequestGuarded, Begin, Refuse, Finishing
  <2>3. \A t \in Slots \ {s} : Rests(t)
    BY <1>4, OthersNotice
  <2> QED
    BY <1>1, <1>2, <2>1, <2>2, <2>3, NoNewCreator
<1>5. ASSUME NEW s \in Slots, Step(s) PROVE OneCreator'
  <2>1. \A t \in Slots \ {s} : Rests(t)
    BY <1>5, OthersNotice
  <2>2. req[s].op \in RouteOf(pc[s])
    BY DEF OnRoute
  <2>3. ASSUME UNCHANGED created,
               \A o \in Owners : Finishing(s, o)' => Finishing(s, o)
        PROVE  OneCreator'
    BY <1>1, <1>2, <2>1, <2>3, NoNewCreator
  <2>4. CASE ResolveOnChain(s) \/ ResolveFromDB(s)
    <3>1. pc[s] \in {"resolve", "fallback"} /\ UNCHANGED identities
      BY <2>4 DEF ResolveOnChain, ResolveFromDB, rows
    <3>2. CASE UNCHANGED created
      <4>1. \/ \E status : Reply(s, status)
            \/ GoTo(s, "fallback")
        BY <2>4 DEF ResolveOnChain, ResolveFromDB, Resolved
      <4> QED
        BY <2>3, <3>1, <3>2, <4>1 DEF Reply, GoTo, Finishing
    <3>3. CASE ~UNCHANGED created
      <4>0. req[s].op = "create" /\ req[s].owner \in Owners
        BY <2>2, <2>4, <3>3, Fields DEF ResolveOnChain, ResolveFromDB, Resolved, RouteOf
      <4> PICK o \in Owners : o = req[s].owner
        BY <4>0
      <4>1. /\ Reply(s, 201)
            /\ created' = [created EXCEPT ![o] = IF @ < 2 THEN @ + 1 ELSE @]
        BY <2>4, <3>3, <4>0 DEF ResolveOnChain, ResolveFromDB, Resolved
      <4>2. Finishing(s, o) /\ o \in identities
        BY <3>1, <4>0 DEF Finishing, AllSound, Sound, Prepared
      <4>3. created[o] = 0 /\ created'[o] = 1
        BY <4>1, <4>2 DEF OneCreator
      <4>4. \A p \in Owners : ~Finishing(s, p)'
        BY <4>1 DEF Reply, Finishing
      <4>5. \A t \in Slots : ~Finishing(t, o)'
        BY <1>2, <2>1, <4>2, <4>4 DEF OneCreator
      <4>6. ASSUME NEW p \in Owners \ {o}
            PROVE  created'[p] = created[p]
        BY <4>1, <4>6
      <4>7. \A p \in Owners, t \in Slots : Finishing(t, p)' => Finishing(t, p)
        BY <1>2, <2>1, <4>4
      <4> QED
        BY <3>1, <4>2, <4>3, <4>5, <4>6, <4>7 DEF OneCreator
    <3> QED
      BY <3>2, <3>3
  <2>5. CASE CreateIdentity(s)
    <3>1. UNCHANGED created /\ req[s].op = "create" /\ req[s].owner \in Owners
      BY <2>2, <2>5, Fields DEF CreateIdentity, RouteOf
    <3>2. CASE req[s].owner \in identities \/ "postgres" \notin up
      <4>1. Reply(s, 500)
        BY <2>5, <3>2 DEF CreateIdentity
      <4> QED
        BY <2>3, <3>1, <4>1 DEF Reply, Finishing
    <3>3. CASE req[s].owner \notin identities /\ "postgres" \in up
      <4> DEFINE o == req[s].owner
      <4>1. req'[s] = req[s] /\ o \in Owners
        BY <2>5, <3>1, <3>3 DEF CreateIdentity
      <4>2. created[o] = 0
        BY <3>3, <4>1 DEF OneCreator
      <4>3. \A t \in Slots \ {s} : ~Finishing(t, o)
        BY <3>3 DEF AllSound, Sound, Prepared, Finishing
      <4>4. \A p \in Owners : Finishing(s, p)' => p = o
        BY <4>1 DEF Finishing
      <4>5. \A p \in Owners, t \in Slots \ {s} : Finishing(t, p)' => Finishing(t, p)
        BY <1>2, <2>1
      <4> HIDE DEF o
      <4> QED
        BY <1>1, <3>1, <4>1, <4>2, <4>3, <4>4, <4>5 DEF OneCreator, Grows
    <3> QED
      BY <3>2, <3>3
  <2>6. ASSUME \/ FindIdentity(s) \/ FindIssuer(s) \/ UpsertOwner(s)
               \/ StoreCredential(s) \/ FindCredential(s) \/ RevokeCredential(s)
               \/ FindTrusted(s) \/ StoreAttestation(s)
        PROVE  OneCreator'
    <3>1. UNCHANGED created
      BY <2>6 DEF FindIdentity, FindIssuer, UpsertOwner, StoreCredential, FindCredential, RevokeCredential, FindTrusted, StoreAttestation, Answering
    <3>2. pc'[s] \notin {"resolve", "fallback"}
      <4>1. ASSUME NEW status, Reply(s, status) PROVE pc'[s] = "idle"
        BY <4>1 DEF Reply
      <4>2. ASSUME NEW point, GoTo(s, point) \/ Permitted(s, point)
            PROVE  pc'[s] = point
        BY <4>2 DEF GoTo, Permitted
      <4>3. CASE FindIdentity(s) \/ FindIssuer(s)
        BY <4>1, <4>2, <4>3 DEF FindIdentity, FindIssuer, Abandon
      <4>4. CASE UpsertOwner(s)
        BY <4>1, <4>4 DEF UpsertOwner
      <4>5. CASE FindCredential(s) \/ FindTrusted(s)
        BY <4>1, <4>2, <4>5 DEF FindCredential, FindTrusted
      <4>6. CASE StoreCredential(s) \/ RevokeCredential(s) \/ StoreAttestation(s)
        BY <4>1, <4>6 DEF StoreCredential, RevokeCredential, StoreAttestation
      <4> QED
        BY <2>6, <4>3, <4>4, <4>5, <4>6
    <3> QED
      BY <2>3, <3>1, <3>2 DEF Finishing
  <2> QED
    BY <1>5, <2>4, <2>5, <2>6 DEF Step
<1>6. ASSUME \/ \E x \in Faulty : Fail(x) \/ Recover(x)
             \/ \E o \in Owners : CreateOnChain(o) \/ MirrorDID(o)
             \/ \E c \in CredentialIds : MirrorCredential(c) \/ MirrorRevocation(c)
             \/ \E i \in Issuers : \E status \in {"active", "inactive"} :
                  MirrorIssuer(i, status)
             \/ UNCHANGED vars
      PROVE  OneCreator'
  <2>1. \A t \in Slots : Rests(t)
    BY <1>6, WorldSound
  <2>2. UNCHANGED created
    BY <1>6 DEF Fail, Recover, CreateOnChain, MirrorDID, MirrorCredential, MirrorRevocation, MirrorIssuer, vars
  <2> QED
    BY <1>3, <2>1, <2>2
<1> QED
  BY <1>4, <1>5, <1>6 DEF Next

\* No address has one at the start.
LEMMA OneCreatorInit == Init => OneCreator
BY DEF Init, OneCreator, Finishing

\* However many requests to create an address pass its check together, one of
\* them at most is told that it created it.
THEOREM CreatedOnceOnly == Spec => []CreatedOnce
<1>1. OneCreator => CreatedOnce
  BY DEF OneCreator, CreatedOnce
<1> QED
  BY <1>1, OneCreatorInit, OneCreatorStep, AlwaysTyped, AlwaysSound, PTL DEF Spec

-----------------------------------------------------------------------------
(***************************************************************************)
(* What a request is told about the rows.                                  *)
(***************************************************************************)

\* A request's step, and a new request, leave the others and the issuers.
LEMMA OthersStay ==
  ASSUME Typed, NEW s \in Slots, NEW t \in Slots \ {s},
         Step(s) \/ \E r \in Requests, a \in Accounts \cup {Nobody} :
                      Request(s, r, a)
  PROVE  /\ pc'[t] = pc[t] /\ account'[t] = account[t]
         /\ disturbed[t] => disturbed'[t]
<1> USE DEF Typed, TypeOK
<1>1. ASSUME NEW status, Reply(s, status)
      PROVE  /\ pc'[t] = pc[t] /\ account'[t] = account[t]
             /\ disturbed[t] => disturbed'[t]
  BY <1>1 DEF Reply
<1>2. ASSUME NEW point, GoTo(s, point) \/ Permitted(s, point)
      PROVE  /\ pc'[t] = pc[t] /\ account'[t] = account[t]
             /\ disturbed[t] => disturbed'[t]
  BY <1>2 DEF GoTo, Permitted
<1>3. ASSUME NEW point, pc' = [pc EXCEPT ![s] = point], UNCHANGED account,
             PutIdentity(s, req[s].owner)
      PROVE  /\ pc'[t] = pc[t] /\ account'[t] = account[t]
             /\ disturbed[t] => disturbed'[t]
  BY <1>3 DEF PutIdentity, Disturbs
<1>4. CASE \E r \in Requests, a \in Accounts \cup {Nobody} : Request(s, r, a)
  BY <1>4 DEF Request, RequestResolve, RequestCreate, RequestAdd,
     RequestGuarded, Begin, Refuse
<1>5. CASE ResolveOnChain(s)
  BY <1>1, <1>2, <1>5 DEF ResolveOnChain, Resolved
<1>6. CASE ResolveFromDB(s)
  BY <1>1, <1>6 DEF ResolveFromDB, Resolved
<1>7. CASE FindIdentity(s) \/ FindIssuer(s) \/ FindCredential(s) \/ FindTrusted(s)
  BY <1>1, <1>2, <1>7 DEF FindIdentity, FindIssuer, FindCredential, FindTrusted, Abandon
<1>8. CASE CreateIdentity(s) \/ UpsertOwner(s)
  BY <1>1, <1>3, <1>8 DEF CreateIdentity, UpsertOwner
<1>9. CASE StoreCredential(s) \/ RevokeCredential(s) \/ StoreAttestation(s)
  BY <1>1, <1>9 DEF StoreCredential, RevokeCredential, StoreAttestation
<1> QED
  BY <1>4, <1>5, <1>6, <1>7, <1>8, <1>9 DEF Step

\* A request is told something in a step of its own.
LEMMA ToldByStep ==
  ASSUME Typed, [Next]_vars, NEW s \in Slots, pc[s] # "idle", pc'[s] = "idle"
  PROVE  Step(s)
<1>1. CASE UNCHANGED pc
  BY <1>1
<1>2. ASSUME NEW t \in Slots, Step(t) PROVE Step(s)
  BY <1>2, OthersStay
<1>3. ASSUME NEW t \in Slots, NEW r \in Requests,
             NEW a \in Accounts \cup {Nobody}, Request(t, r, a)
      PROVE  FALSE
  <2>1. pc[t] = "idle"
    BY <1>3 DEF Request
  <2> QED
    BY <1>3, <2>1, OthersStay
<1> QED
  BY <1>1, <1>2, <1>3 DEF Next, Fail, Recover, CreateOnChain, MirrorDID,
     MirrorCredential, MirrorRevocation, MirrorIssuer, Disturb, vars, slots

LEMMA NotFoundStep ==
  ASSUME Typed, [Next]_vars, NEW s \in Slots, Told(s, "resolve", 404)
  PROVE  req[s].owner \notin identities
<1>1. pc[s] # "idle" /\ req[s].op = "resolve" /\ pc'[s] = "idle"
      /\ answer'[s] = 404
  BY DEF Told
<1>2. pc[s] \in {"resolve", "fallback", "unanswered"}
  BY <1>1 DEF Typed, TypeOK, OnRoute, RouteOf, Points
<1>3. ASSUME NEW status, Reply(s, status) PROVE status = 404
  BY <1>1, <1>3 DEF Reply, Typed, TypeOK
<1>4. Step(s)
  BY <1>1, ToldByStep
<1>5. ResolveOnChain(s) \/ ResolveFromDB(s)
  BY <1>2, <1>4 DEF Step, FindIdentity, CreateIdentity, FindIssuer,
     UpsertOwner, StoreCredential, FindCredential, RevokeCredential,
     FindTrusted, StoreAttestation
<1>6. ~Resolved(s)
  BY <1>1, <1>3 DEF Resolved
<1>7. ~GoTo(s, "fallback")
  BY <1>1 DEF GoTo, Typed, TypeOK
<1>8. CASE ResolveFromDB(s)
  <2>1. "postgres" \in up
    BY <1>3, <1>8 DEF ResolveFromDB
  <2> QED
    BY <1>6, <1>8, <2>1 DEF ResolveFromDB
<1>9. ~ResolveOnChain(s)
  BY <1>6, <1>7 DEF ResolveOnChain
<1> QED
  BY <1>5, <1>8, <1>9

\* Nobody who has a row is told that he is not found.
THEOREM NotFoundTrue == Spec => NotFoundIsTrue
<1>1. Typed /\ [Next]_vars =>
        [\A s \in Slots :
           Told(s, "resolve", 404) => req[s].owner \notin identities]_vars
  BY NotFoundStep
<1> QED
  BY <1>1, AlwaysTyped, PTL DEF Spec, NotFoundIsTrue

\* Between the lookup and the insert, a change of the issuer is noticed.
Verified(s) ==
  pc[s] = "attest" => issuers[account[s]] = "active" \/ disturbed[s]

AllVerified == \A s \in Slots : Verified(s)

LEMMA VerifiedStep == Typed /\ AllVerified /\ [Next]_vars => AllVerified'
<1> SUFFICES ASSUME Typed, AllVerified, [Next]_vars, NEW s \in Slots
             PROVE  Verified(s)'
  BY DEF AllVerified
<1> USE DEF Typed, TypeOK
<1>1. Verified(s)
  BY DEF AllVerified
<1>2. pc[s] = "attest" => account[s] \in Issuers /\ req[s].op = "attest"
  BY DEF OnRoute, RouteOf
<1>3. ASSUME UNCHANGED issuers, pc'[s] = pc[s], account'[s] = account[s],
             disturbed[s] => disturbed'[s]
      PROVE  Verified(s)'
  BY <1>1, <1>3 DEF Verified
<1>4. ASSUME NEW t \in Slots, Step(t) PROVE Verified(s)'
  <2>1. UNCHANGED issuers
    BY <1>4 DEF Step, ResolveOnChain, ResolveFromDB, FindIdentity,
       CreateIdentity, FindIssuer, UpsertOwner, StoreCredential,
       FindCredential, RevokeCredential, FindTrusted, StoreAttestation,
       Answering, rows
  <2>2. CASE s # t
    BY <1>3, <1>4, <2>1, <2>2, OthersStay
  <2>3. CASE s = t
    <3>1. ASSUME NEW status, Reply(s, status) PROVE Verified(s)'
      BY <3>1 DEF Reply, Verified
    <3>2. ASSUME NEW point, point # "attest",
                 GoTo(s, point) \/ Permitted(s, point)
          PROVE  Verified(s)'
      BY <3>2 DEF GoTo, Permitted, Verified
    <3>3. ASSUME NEW point, point # "attest", pc' = [pc EXCEPT ![s] = point]
          PROVE  Verified(s)'
      BY <3>3 DEF Verified
    <3>4. CASE ResolveOnChain(s) \/ ResolveFromDB(s)
      BY <3>1, <3>2, <3>4 DEF ResolveOnChain, ResolveFromDB, Resolved
    <3>5. CASE FindIdentity(s) \/ FindIssuer(s) \/ FindCredential(s)
      BY <3>1, <3>2, <3>5 DEF FindIdentity, FindIssuer, FindCredential, Abandon, Verified
    <3>6. CASE CreateIdentity(s) \/ UpsertOwner(s)
      BY <3>1, <3>3, <3>6 DEF CreateIdentity, UpsertOwner
    <3>7. CASE StoreCredential(s) \/ RevokeCredential(s) \/ StoreAttestation(s)
      BY <3>1, <3>7 DEF StoreCredential, RevokeCredential, StoreAttestation
    <3>8. CASE FindTrusted(s)
      <4>1. \/ \E status : Reply(s, status)
            \/ GoTo(s, "attest") /\ issuers[account[s]] = "active"
        BY <3>8 DEF FindTrusted
      <4>2. CASE GoTo(s, "attest") /\ issuers[account[s]] = "active"
        BY <2>1, <4>2 DEF GoTo, Verified
      <4> QED
        BY <3>1, <4>1, <4>2
    <3> QED
      BY <1>4, <2>3, <3>4, <3>5, <3>6, <3>7, <3>8 DEF Step
  <2> QED
    BY <2>2, <2>3
<1>5. ASSUME NEW t \in Slots, NEW r \in Requests,
             NEW a \in Accounts \cup {Nobody}, Request(t, r, a)
      PROVE  Verified(s)'
  <2>1. UNCHANGED issuers
    BY <1>5 DEF Request, Answering, rows
  <2>2. CASE s # t
    BY <1>3, <1>5, <2>1, <2>2, OthersStay
  <2>3. CASE s = t
    <3>1. pc'[s] # "attest"
      BY <1>5, <2>3 DEF Request, RequestResolve, RequestCreate, RequestAdd,
         RequestGuarded, Begin, Refuse
    <3> QED
      BY <3>1 DEF Verified
  <2> QED
    BY <2>2, <2>3
<1>6. ASSUME NEW i \in Issuers, NEW status, MirrorIssuer(i, status)
      PROVE  Verified(s)'
  <2>1. UNCHANGED <<req, account, pc>>
    BY <1>6 DEF MirrorIssuer, Disturb
  <2>2. CASE account[s] = i /\ pc[s] = "attest"
    <3>1. disturbed'[s]
      BY <1>2, <1>6, <2>2 DEF MirrorIssuer, Disturb, Disturbs, Active
    <3> QED
      BY <3>1 DEF Verified
  <2>3. CASE account[s] # i /\ pc[s] = "attest"
    <3>1. issuers'[account[s]] = issuers[account[s]]
      BY <1>2, <1>6, <2>3 DEF MirrorIssuer
    <3>2. disturbed[s] => disturbed'[s]
      BY <1>6 DEF MirrorIssuer, Disturb, Disturbs
    <3> QED
      BY <1>1, <2>1, <2>3, <3>1, <3>2 DEF Verified
  <2> QED
    BY <2>1, <2>2, <2>3 DEF Verified
<1>7. ASSUME \/ \E x \in Faulty : Fail(x) \/ Recover(x)
             \/ \E o \in Owners : CreateOnChain(o) \/ MirrorDID(o)
             \/ \E c \in CredentialIds : MirrorCredential(c) \/ MirrorRevocation(c)
             \/ UNCHANGED vars
      PROVE  Verified(s)'
  <2>1. UNCHANGED <<issuers, pc, account>>
    BY <1>7 DEF Fail, Recover, CreateOnChain, MirrorDID, MirrorCredential,
       MirrorRevocation, Disturb, vars, slots, rows
  <2>2. disturbed[s] => disturbed'[s]
    BY <1>7 DEF Fail, Recover, CreateOnChain, MirrorDID, MirrorCredential,
       MirrorRevocation, Disturb, Disturbs, vars, slots
  <2> QED
    BY <1>3, <2>1, <2>2
<1> QED
  BY <1>4, <1>5, <1>6, <1>7 DEF Next

LEMMA AttestedStep ==
  ASSUME Typed, AllVerified, [Next]_vars, NEW s \in Slots,
         Told(s, "attest", 201)
  PROVE  issuers[account[s]] = "active" \/ disturbed[s]
<1>1. /\ pc[s] # "idle" /\ req[s].op = "attest" /\ pc'[s] = "idle"
      /\ answer'[s] = 201
  BY DEF Told
<1>2. pc[s] \in {"trust", "attest", "unanswered"}
  BY <1>1 DEF Typed, TypeOK, OnRoute, RouteOf, Points
<1>3. Step(s)
  BY <1>1, ToldByStep
<1>4. FindTrusted(s) \/ StoreAttestation(s)
  BY <1>2, <1>3 DEF Step, ResolveOnChain, ResolveFromDB, FindIdentity,
     CreateIdentity, FindIssuer, UpsertOwner, StoreCredential,
     FindCredential, RevokeCredential
<1>5. ASSUME NEW status, Reply(s, status) PROVE status = 201
  BY <1>1, <1>5 DEF Reply, Typed, TypeOK
<1>6. ~GoTo(s, "attest")
  BY <1>1 DEF GoTo, Typed, TypeOK
<1>7. StoreAttestation(s)
  BY <1>4, <1>5, <1>6 DEF FindTrusted
<1> QED
  BY <1>7 DEF StoreAttestation, AllVerified, Verified

\* An attestation is recorded only for an issuer that is active or was when it
\* was looked up.
THEOREM AttestedTrusted == Spec => AttestedByTrusted
<1>1. Init => AllVerified
  BY DEF Init, AllVerified, Verified
<1>2. Typed /\ AllVerified /\ [Next]_vars =>
        [\A s \in Slots :
           Told(s, "attest", 201) =>
             issuers[account[s]] = "active" \/ disturbed[s]]_vars
  BY AttestedStep
<1> QED
  BY <1>1, <1>2, VerifiedStep, AlwaysTyped, PTL DEF Spec, AttestedByTrusted

=============================================================================
