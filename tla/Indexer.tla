------------------------------ MODULE Indexer ------------------------------
(***************************************************************************)
(* StellarIndexerService (src/backend/src/services/stellar-indexer.ts):    *)
(* contract events are mirrored into Postgres, one at a time by a poller   *)
(* that keeps a cursor in Redis, and concurrently by a handler for every   *)
(* event that EventListenerWorker receives from a stream.                  *)
(*                                                                         *)
(* Each await of processEvent is a step.  Horizon is external: it keeps    *)
(* the published events in order, and the paging token of an event is its  *)
(* position.  A mirrored row is reduced to what its handler decides.       *)
(***************************************************************************)
EXTENDS Integers, Sequences, FiniteSets

CONSTANTS
  Owners, Credentials, Issuers,
  Contracts,     \* the configured contracts, in the order they are polled
  Now,           \* the cursor 'now'
  Poller,        \* the worker that stands for the polling loop
  PageLimit,     \* events per request (100)
  Streaming,     \* whether the streams ever deliver
  Faulty,        \* the services that may fail
  MaxEvents,     \* bound: events published
  MaxRestarts    \* bound: restarts of the process

IdentityEvent ==
  [topic : {"did_created"}, owner : Owners]
    \cup [topic : {"credential_added", "credential_revoked"},
          owner : Owners, credential : Credentials]
ScoreEvent == [topic : {"score_computed"}, owner : Owners]
RegistryEvent ==
  [topic : {"issuer_registered"}, issuer : Issuers, active : BOOLEAN]

EventsOf(contract) ==
  CASE contract = "identity" -> IdentityEvent
    [] contract = "score" -> ScoreEvent
    [] contract = "registry" -> RegistryEvent

Event == UNION {EventsOf(Contracts[n]) : n \in DOMAIN Contracts}

ASSUME ContractsAssumption ==
  Contracts \in Seq({"identity", "score", "registry"}) /\ Contracts # <<>>
ASSUME NowAssumption == Now \notin Nat
ASSUME PollerAssumption == Poller \notin Nat
ASSUME PageAssumption == PageLimit \in Nat \ {0}
ASSUME IndexerBounds == {MaxEvents, MaxRestarts} \subseteq Nat

Services == {"postgres", "redis", "horizon"}
ASSUME FaultyAssumption == Faulty \subseteq Services

Positions == 1..MaxEvents

\* A handler is known by the position of its event.
Workers == {Poller} \cup Positions

VARIABLES
  ledger,      \* the events published so far
  cursor,      \* indexer:cursor in Redis
  up,          \* the services that answer
  turn,        \* the contract being polled, 0 between two polls
  pollFrom,    \* the cursor this poll has read
  page,        \* the events of the page it is not done with
  step,        \* per worker: "idle" or the await it stands before
  streamed,    \* per contract: the last event its stream has passed
  identities,  \* owners that have an Identity row
  credentials, \* the Credential rows
  snapshots,   \* per event: ScoreSnapshot rows made of it (2: several)
  issuers,     \* the Issuer rows
  audit,       \* events that have a WebhookEvent row
  refused,     \* ghost: events whose WebhookEvent row Postgres refused
  seen,        \* ghost: events whose processing has come to its end
  start,       \* ghost: the cursor's first value, less one
  restarts

mirror == <<identities, credentials, snapshots, issuers>>
trail == <<audit, refused>>
pollVars == <<turn, pollFrom, page>>
ghosts == <<seen, start, restarts>>
vars == <<ledger, cursor, up, pollVars, step, streamed, mirror, trail, ghosts>>

Cursors == 0..MaxEvents \cup {Now}

TypeOK ==
  /\ ledger \in Seq(Event) /\ Len(ledger) <= MaxEvents
  /\ cursor \in 0..Len(ledger) \cup {Now}
  /\ up \subseteq Services
  /\ turn \in 0..Len(Contracts)
  /\ pollFrom \in Cursors
  /\ page \subseteq 1..Len(ledger) /\ Cardinality(page) <= PageLimit
  /\ step \in [Workers -> {"idle", "audit", "owner", "apply", "advance"}]
  /\ streamed \in [DOMAIN Contracts -> 0..Len(ledger)]
  /\ identities \subseteq Owners
  /\ credentials \in [Credentials -> {"absent", "valid", "revoked"}]
  /\ snapshots \in [Positions -> 0..2]
  /\ issuers \in [Issuers -> {"absent", "active", "inactive"}]
  /\ audit \subseteq Positions /\ refused \subseteq Positions
  /\ seen \subseteq Positions
  /\ start \in Cursors
  /\ restarts \in 0..MaxRestarts

Init ==
  /\ ledger = <<>>
  /\ cursor = Now
  /\ up = Services
  /\ turn = 0 /\ pollFrom = Now /\ page = {}
  /\ step = [w \in Workers |-> "idle"]
  /\ streamed = [n \in DOMAIN Contracts |-> 0]
  /\ identities = {}
  /\ credentials = [c \in Credentials |-> "absent"]
  /\ snapshots = [k \in Positions |-> 0]
  /\ issuers = [i \in Issuers |-> "absent"]
  /\ audit = {} /\ refused = {} /\ seen = {}
  /\ start = Now
  /\ restarts = 0

-----------------------------------------------------------------------------
\* Definitions named X_Y are faulty variants of X, used to see that a property
\* notices the fault; nothing else refers to them.

(***************************************************************************)
(* The environment.                                                        *)
(***************************************************************************)

\* A credential is revoked only while it is on chain.
OnChain(c) ==
  \E k \in DOMAIN ledger :
    /\ ledger[k].topic = "credential_added" /\ ledger[k].credential = c
    /\ \A j \in (k + 1)..Len(ledger) :
         ledger[j].topic = "credential_revoked" => ledger[j].credential # c

Publish(e) ==
  /\ Len(ledger) < MaxEvents
  /\ e.topic = "credential_revoked" => OnChain(e.credential)
  /\ ledger' = Append(ledger, e)
  /\ UNCHANGED <<cursor, up, pollVars, step, streamed, mirror, trail, ghosts>>

Fail(s) ==
  /\ s \in up
  /\ up' = up \ {s}
  /\ UNCHANGED <<ledger, cursor, pollVars, step, streamed, mirror, trail,
                 ghosts>>

Recover(s) ==
  /\ s \notin up
  /\ up' = up \cup {s}
  /\ UNCHANGED <<ledger, cursor, pollVars, step, streamed, mirror, trail,
                 ghosts>>

\* The process stops and starts again: what is in memory is lost, and the
\* streams are opened anew from 'now'.
Restart ==
  /\ restarts < MaxRestarts
  /\ restarts' = restarts + 1
  /\ turn' = 0 /\ pollFrom' = Now /\ page' = {}
  /\ step' = [w \in Workers |-> "idle"]
  /\ streamed' = [n \in DOMAIN Contracts |-> Len(ledger)]
  /\ UNCHANGED <<ledger, cursor, up, mirror, trail, seen, start>>

\* A stream delivers its events in order; those published while it is not
\* connected are passed over.
Deliver(n, k) ==
  /\ Streaming
  /\ k \in (streamed[n] + 1)..Len(ledger)
  /\ ledger[k] \in EventsOf(Contracts[n])
  /\ streamed' = [streamed EXCEPT ![n] = k]
  /\ step' = [step EXCEPT ![k] = "audit"]
  /\ UNCHANGED <<ledger, cursor, up, pollVars, mirror, trail, ghosts>>

-----------------------------------------------------------------------------
(***************************************************************************)
(* processEvent, one step per await.  An error of Postgres is logged and   *)
(* swallowed wherever it occurs.                                           *)
(***************************************************************************)

\* the event it is about: of the page, the first
EventOf(w) == IF w = Poller THEN {k \in page : \A j \in page : k <= j} ELSE {w}

GoTo(w, point) == step' = [step EXCEPT ![w] = point]

Finish(w, k) ==
  /\ GoTo(w, IF w = Poller THEN "advance" ELSE "idle")
  /\ seen' = seen \cup {k}

\* the poller goes on to the next contract, or waits for the next poll
NextTurn ==
  IF turn = Len(Contracts) THEN turn' = 0 /\ pollFrom' = Now
  ELSE turn' = turn + 1 /\ UNCHANGED pollFrom

Unpolled == UNCHANGED <<ledger, cursor, up, pollVars, streamed, start, restarts>>

PersistWebhookEvent_Forgets(w, k) ==
  /\ step[w] = "audit"
  /\ GoTo(w, IF ledger[k].topic = "credential_added" THEN "owner"
             ELSE "apply")
  /\ UNCHANGED <<mirror, trail, seen>> /\ Unpolled

PersistWebhookEvent_ThrowsOnDuplicate(w, k) ==
  /\ step[w] = "audit"
  /\ IF "postgres" \in up THEN audit' = audit \cup {k} /\ UNCHANGED refused
     ELSE refused' = refused \cup {k} /\ UNCHANGED audit
  /\ IF k \in audit /\ w = Poller
     THEN GoTo(w, "idle") /\ page' = {} /\ NextTurn
     ELSE /\ GoTo(w, IF ledger[k].topic = "credential_added" THEN "owner"
                     ELSE "apply")
          /\ UNCHANGED pollVars
  /\ UNCHANGED <<ledger, cursor, up, streamed, mirror, ghosts>>

PersistWebhookEvent(w, k) ==
  /\ step[w] = "audit"
  /\ IF "postgres" \in up
     THEN audit' = audit \cup {k} /\ UNCHANGED refused
     ELSE refused' = refused \cup {k} /\ UNCHANGED audit
  /\ GoTo(w, IF ledger[k].topic = "credential_added" THEN "owner"
             ELSE "apply")
  /\ UNCHANGED <<mirror, seen>> /\ Unpolled

\* a credential's owner gets an Identity row first
UpsertOwner(w, k) ==
  /\ step[w] = "owner"
  /\ IF "postgres" \in up
     THEN /\ identities' = identities \cup {ledger[k].owner}
          /\ GoTo(w, "apply")
          /\ UNCHANGED seen
     ELSE UNCHANGED identities /\ Finish(w, k)
  /\ UNCHANGED <<credentials, snapshots, issuers, trail>> /\ Unpolled

Written(change) == IF "postgres" \in up THEN change ELSE UNCHANGED mirror

MirrorDID(e) ==
  /\ e.topic = "did_created"
  /\ identities' = identities \cup {e.owner}
  /\ UNCHANGED <<credentials, snapshots, issuers>>

\* an upsert whose update leaves revokedAt alone
MirrorCredential_ClearsRevocation(e) ==
  /\ e.topic = "credential_added"
  /\ credentials' = [credentials EXCEPT ![e.credential] = "valid"]
  /\ UNCHANGED <<identities, snapshots, issuers>>

MirrorCredential(e) ==
  /\ e.topic = "credential_added"
  /\ credentials' = [credentials EXCEPT ![e.credential] =
                       IF @ = "absent" THEN "valid" ELSE @]
  /\ UNCHANGED <<identities, snapshots, issuers>>

\* an update of the rows there are: none, if the credential is not known yet
MirrorRevocation(e) ==
  /\ e.topic = "credential_revoked"
  /\ credentials' = [credentials EXCEPT ![e.credential] =
                       IF @ = "absent" THEN @ ELSE "revoked"]
  /\ UNCHANGED <<identities, snapshots, issuers>>

MirrorScore(e, k) ==
  /\ e.topic = "score_computed"
  /\ snapshots' = [snapshots EXCEPT ![k] = IF @ < 2 THEN @ + 1 ELSE @]
  /\ UNCHANGED <<identities, credentials, issuers>>

\* an upsert whose create ignores the event's "active"
MirrorIssuer(e) ==
  /\ e.topic = "issuer_registered"
  /\ issuers' = [issuers EXCEPT ![e.issuer] =
                   IF @ = "absent" \/ e.active THEN "active" ELSE "inactive"]
  /\ UNCHANGED <<identities, credentials, snapshots>>

ApplyEvent(w, k) ==
  LET e == ledger[k] IN
  /\ step[w] = "apply"
  /\ Written(\/ MirrorDID(e) \/ MirrorCredential(e) \/ MirrorRevocation(e)
             \/ MirrorScore(e, k) \/ MirrorIssuer(e))
  /\ Finish(w, k)
  /\ UNCHANGED trail /\ Unpolled

Process(w) ==
  \E k \in EventOf(w) :
    PersistWebhookEvent(w, k) \/ UpsertOwner(w, k) \/ ApplyEvent(w, k)

-----------------------------------------------------------------------------
(***************************************************************************)
(* The polling loop.                                                       *)
(***************************************************************************)

\* One poll asks for the events of every contract after the same cursor.
StartPoll ==
  /\ turn = 0
  /\ turn' = 1
  /\ pollFrom' = IF "redis" \in up THEN cursor ELSE Now
  /\ UNCHANGED <<ledger, cursor, up, page, step, streamed, mirror, trail,
                 ghosts>>

Later(n, from) ==
  {k \in DOMAIN ledger : k > from /\ ledger[k] \in EventsOf(Contracts[n])}

\* the first PageLimit of the later events, or all there are
PageAfter(n, from) ==
  {p \in SUBSET Later(n, from) :
     /\ Cardinality(p) <= PageLimit
     /\ Cardinality(p) = PageLimit \/ p = Later(n, from)
     /\ \A k \in p, j \in Later(n, from) \ p : k < j}

\* 'now' is the last ledger Horizon knows of, which may be one behind.
BaseOf(c) ==
  IF c = Now THEN {k \in {Len(ledger) - 1, Len(ledger)} : k >= 0} ELSE {c}

FetchPage_AdvancesFirst ==
  /\ turn # 0
  /\ page = {}
  /\ \/ /\ "horizon" \in up
        /\ \E from \in BaseOf(pollFrom) : page' \in PageAfter(turn, from)
     \/ "horizon" \notin up /\ page' = {}
  /\ IF page' = {} THEN NextTurn /\ UNCHANGED <<step, cursor, start>>
     ELSE /\ GoTo(Poller, "audit") /\ UNCHANGED <<turn, pollFrom>>
          /\ cursor' = CHOOSE k \in page' : \A j \in page' : j <= k
          /\ start' = IF start = Now
                      THEN (CHOOSE k \in page' : \A j \in page' : k <= j) - 1
                      ELSE start
  /\ UNCHANGED <<ledger, up, streamed, mirror, trail, seen, restarts>>

\* A request that fails is treated as an empty page.
FetchPage ==
  /\ turn # 0
  /\ page = {}
  /\ \/ /\ "horizon" \in up
        /\ \E from \in BaseOf(pollFrom) : page' \in PageAfter(turn, from)
     \/ "horizon" \notin up /\ page' = {}
  /\ IF page' = {} THEN NextTurn /\ UNCHANGED step
     ELSE GoTo(Poller, "audit") /\ UNCHANGED <<turn, pollFrom>>
  /\ UNCHANGED <<ledger, cursor, up, streamed, mirror, trail, ghosts>>

\* start is where the cursor's promise begins
SetCursor(k) ==
  /\ cursor' = IF "redis" \in up THEN k ELSE cursor
  /\ start' = IF cursor = Now /\ cursor' # Now THEN cursor' - 1 ELSE start

AdvanceCursor ==
  /\ step[Poller] = "advance"
  /\ \E k \in EventOf(Poller) : SetCursor(k) /\ page' = page \ {k}
  /\ IF page' = {} THEN GoTo(Poller, "idle") /\ NextTurn
     ELSE GoTo(Poller, "audit") /\ UNCHANGED <<turn, pollFrom>>
  /\ UNCHANGED <<ledger, up, streamed, mirror, trail, seen, restarts>>

-----------------------------------------------------------------------------

Poll == StartPoll \/ FetchPage \/ AdvanceCursor \/ Process(Poller)

Next ==
  \/ \E e \in Event : Publish(e)
  \/ \E s \in Faulty : Fail(s) \/ Recover(s)
  \/ Restart
  \/ \E n \in DOMAIN Contracts, k \in Positions : Deliver(n, k)
  \/ \E w \in Positions : Process(w)
  \/ Poll

\* The timer of the poller fires, and every call returns or fails.  Nothing
\* makes a stream deliver or a service recover.
Fairness == WF_vars(Poll) /\ \A w \in Positions : WF_vars(Process(w))

Spec == Init /\ [][Next]_vars
FairSpec == Spec /\ Fairness

-----------------------------------------------------------------------------
(***************************************************************************)
(* Safety.                                                                 *)
(***************************************************************************)

\* The cursor is a promise: no event between its first value and the present
\* one goes without having been processed, across crashes at any point of a
\* page, failed requests and failed writes.
NothingSkipped ==
  cursor # Now =>
    \A k \in (start + 1)..cursor : ledger[k] \in Event => k \in seen

\* The raw event is recorded "for audit / replay" before anything is derived
\* from it: what the mirror holds is explained by a recorded event, or by one
\* whose record Postgres refused.
Explained == {ledger[k] : k \in audit \cup refused}

EffectsRecorded ==
  /\ \A o \in identities : \E e \in Explained :
       e.topic \in {"did_created", "credential_added"} /\ e.owner = o
  /\ \A c \in Credentials :
       /\ credentials[c] # "absent" => \E e \in Explained :
            e.topic = "credential_added" /\ e.credential = c
       /\ credentials[c] = "revoked" => \E e \in Explained :
            e.topic = "credential_revoked" /\ e.credential = c
  /\ \A k \in Positions : snapshots[k] > 0 => k \in audit \cup refused
  /\ \A i \in Issuers : issuers[i] = "inactive" => \E e \in Explained :
       e.topic = "issuer_registered" /\ e.issuer = i /\ ~e.active

\* A revocation that has reached the mirror is final: no redelivered, late or
\* concurrent event makes the credential valid again.
RevocationSticks ==
  [][\A c \in Credentials :
       credentials[c] = "revoked" => credentials'[c] = "revoked"]_vars

-----------------------------------------------------------------------------
(***************************************************************************)
(* Liveness.                                                               *)
(***************************************************************************)

\* Once the cursor is set and the services stay up, every event after it is
\* processed, in pages of any size and after any number of failures.
PollingCatchesUp ==
  <>[](up = Services) =>
    \A k \in Positions :
      (cursor # Now /\ cursor < k /\ k <= Len(ledger)) ~> k \in seen

-----------------------------------------------------------------------------
(***************************************************************************)
(* Claims of the documentation the code does not keep.                     *)
(***************************************************************************)

Quiet == \A w \in Workers : step[w] = "idle"

\* "score:score_computed -> upsert ScoreSnapshot row" (stellar-indexer.ts:11).
OneSnapshotPerEvent == \A k \in Positions : snapshots[k] <= 1

\* "identity:credential_revoked -> mark Credential revoked"
\* (stellar-indexer.ts:10): when the addition and the revocation of a
\* credential have both been processed, the credential is not valid.
RevokedIsMarked ==
  Quiet => \A k \in seen :
    /\ ledger[k].topic = "credential_revoked"
    /\ \A j \in DOMAIN ledger :
         ledger[j].topic = "credential_added" =>
           j \in seen /\ (ledger[j].credential = ledger[k].credential => j < k)
    => credentials[ledger[k].credential] # "valid"

\* "Issuer - mirrors IssuerRecord" (schema.prisma:96): the row of an issuer
\* whose one registration has been processed shows whether it is active.
IssuerMirrored ==
  Quiet => \A k \in seen :
    /\ ledger[k].topic = "issuer_registered"
    /\ \A j \in DOMAIN ledger \ {k} :
         ledger[j].topic = "issuer_registered" =>
           ledger[j].issuer # ledger[k].issuer
    => issuers[ledger[k].issuer] = IF ledger[k].active THEN "active"
                                   ELSE "inactive"

\* "Falls back to polling via the StellarIndexerService if SSE is unavailable"
\* (event-listener.ts:7-8): an event no stream delivers is polled in the end.
PollingIsBackstop ==
  <>[](up = Services) =>
    \A k \in Positions : (k <= Len(ledger)) ~> k \in seen

=============================================================================
