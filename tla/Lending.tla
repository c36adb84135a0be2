------------------------------ MODULE Lending ------------------------------
(***************************************************************************)
(* What lenders ask of a borrower: POST /lender/verify (src/backend/src/   *)
(* api/lender.ts) and the report of GET /score/:address/report (api/score  *)
(* and services/score-engine.ts).  Both put their answer together from     *)
(* parts that run at once, each of them several calls of Redis, the        *)
(* contracts and Postgres, while the borrower's score and credentials      *)
(* change.  The same getScore serves GET /score/:address.                  *)
(*                                                                         *)
(* Every await is a step.  There is one borrower.  A call of the contracts *)
(* may fail at any time; Redis and Postgres fail and recover, and a call   *)
(* of Redis that is down may wait, and without an end.                     *)
(***************************************************************************)
EXTENDS Naturals, Sequences, FiniteSets, SequencesExt

CONSTANTS
  Clients,       \* concurrent requests
  Types,         \* credential types
  Scores,        \* scores that the contract computes
  Required,      \* values of requiredScore; 0 stands for an omitted one too
  ReportLength,  \* snapshots of a report
  MaxSnapshots   \* bound: snapshots

None == 0

\* scValToNative gives an enum value of the contract as a list of one symbol,
\* and credentialTypeToString the first key of that list.
Index == "0"

ASSUME ScoresAssumption == Scores \subseteq 300..900 /\ Required \subseteq Nat
ASSUME TypesAssumption == Index \notin Types
ASSUME LengthAssumption == ReportLength \in Nat \ {0} /\ MaxSnapshots \in Nat

Services == {"postgres", "redis"}
Kinds == {"score", "history", "verify", "report"}
RowStates == {"absent", "active", "unlimited", "expired", "revoked"}
Running == {"cache", "fetch", "persist", "db", "store"}
Idle == [kind |-> "idle", score |-> 0, types |-> {}]

VARIABLES
  chainScore, \* the score the contract holds
  computed,   \* ghost: every score it has held
  cache,      \* score:<address> in Redis
  snapshots,  \* ScoreSnapshot rows, newest first
  chainTypes, \* types of the credentials in the DID document on chain
  rows,       \* per type: the Credential row; "unlimited" has no expiresAt
  up,         \* which of the services answer
  asked,      \* per client: the request, or Idle
  scorePart,  \* per client: where getScore stands, "done" or "failed"
  score,      \* per client: what getScore holds
  docPart,    \* per client: "chain", "db", "done" or "failed"
  docTypes,   \* per client: types of the credentials found
  listPart,   \* per client: getScoreHistory of a report
  list,       \* per client: its rows
  answer,     \* per client: "none", or what the last request was answered
  seen, alive \* ghosts, per client: the types whose row was not revoked, or
              \* was neither revoked nor expired, at some time of the request

borrowerVars == <<chainScore, computed, chainTypes, rows>>
storeVars == <<cache, snapshots>>
partVars == <<scorePart, score, docPart, docTypes, listPart, list>>
requestVars == <<asked, partVars, answer>>
ghostVars == <<seen, alive>>
vars == <<borrowerVars, storeVars, up, requestVars, ghostVars>>

TypeOK ==
  /\ chainScore \in Scores \cup {None} /\ cache \in Scores \cup {None}
  /\ computed \subseteq Scores
  /\ snapshots \in SeqOf(Scores, MaxSnapshots)
  /\ chainTypes \subseteq Types
  /\ rows \in [Types -> RowStates]
  /\ up \subseteq Services
  /\ asked \in [Clients -> [kind : Kinds \cup {"idle"}, score : Required \cup {0},
                            types : SUBSET Types]]
  /\ scorePart \in [Clients -> Running \cup {"done", "failed"}]
  /\ score \in [Clients -> Scores \cup {None}]
  /\ docPart \in [Clients -> {"chain", "db", "done", "failed"}]
  /\ docTypes \in [Clients -> SUBSET (Types \cup {Index})]
  /\ listPart \in [Clients -> {"db", "done", "failed"}]
  /\ list \in [Clients -> SeqOf(Scores, ReportLength)]
  /\ answer \in [Clients -> {"none", "invalid", "approved", "denied", "report",
                             "score", "history", "failed"}]
  /\ seen \in [Clients -> SUBSET Types] /\ alive \in [Clients -> SUBSET Types]

Init ==
  /\ chainScore = None /\ computed = {} /\ cache = None /\ snapshots = <<>>
  /\ chainTypes = {} /\ rows = [t \in Types |-> "absent"]
  /\ up = Services
  /\ asked = [c \in Clients |-> Idle]
  /\ scorePart = [c \in Clients |-> "done"] /\ score = [c \in Clients |-> None]
  /\ docPart = [c \in Clients |-> "done"] /\ docTypes = [c \in Clients |-> {}]
  /\ listPart = [c \in Clients |-> "done"] /\ list = [c \in Clients |-> <<>>]
  /\ answer = [c \in Clients |-> "none"]
  /\ seen = [c \in Clients |-> {}] /\ alive = [c \in Clients |-> {}]

-----------------------------------------------------------------------------
\* Definitions named X_Y are faulty variants of X, used to see that a property
\* notices the fault; nothing else refers to them.

(***************************************************************************)
(* The borrower, and the services.                                         *)
(***************************************************************************)

Compute(s) ==
  /\ chainScore' = s /\ chainScore # s
  /\ computed' = computed \cup {s}
  /\ UNCHANGED <<chainTypes, rows, storeVars, up, requestVars, ghostVars>>

ChangeDocument(t) ==
  /\ chainTypes' = (chainTypes \cup {t}) \ (chainTypes \cap {t})
  /\ UNCHANGED <<chainScore, computed, rows, storeVars, up, requestVars, ghostVars>>

\* A row is added, by the API or the indexer, again after a revocation;
\* time passes; it is revoked.
Successors(state) ==
  CASE state \in {"absent", "revoked"} -> {"active", "unlimited"}
    [] state = "active" -> {"expired", "revoked"}
    [] OTHER -> {"revoked"}

Present(rs) == {t \in Types : rs[t] \in {"active", "unlimited", "expired"}}
Live(rs) == {t \in Types : rs[t] \in {"active", "unlimited"}}

ChangeRow(t) ==
  /\ \E state \in Successors(rows[t]) : rows' = [rows EXCEPT ![t] = state]
  /\ seen' = [c \in Clients |-> IF asked[c] = Idle THEN {} ELSE seen[c] \cup Present(rows')]
  /\ alive' = [c \in Clients |-> IF asked[c] = Idle THEN {} ELSE alive[c] \cup Live(rows')]
  /\ UNCHANGED <<chainScore, computed, chainTypes, storeVars, up, requestVars>>

Switch(service) ==
  /\ up' = (up \cup {service}) \ (up \cap {service})
  /\ UNCHANGED <<borrowerVars, storeVars, requestVars, ghostVars>>

Expire ==
  /\ cache # None
  /\ cache' = None
  /\ UNCHANGED <<borrowerVars, snapshots, up, requestVars, ghostVars>>

-----------------------------------------------------------------------------
(***************************************************************************)
(* Requests.                                                               *)
(***************************************************************************)

Over(c) == scorePart[c] \in {"done", "failed"} /\ docPart[c] \in {"done", "failed"}
           /\ listPart[c] \in {"done", "failed"}

\* LenderVerifySchema: an omitted requiredScore becomes 0, and 0 is checked
\* against the bounds like any other.
ValidScore(required) == required \in 300..900

Answered(c, what) == answer' = [answer EXCEPT ![c] = what]

\* The parts of a request all start at once: verify resolves the document, a
\* report reads the rows of the credentials and the history itself.
Begin(c, kind, required, types) ==
  /\ asked[c] = Idle /\ Over(c)
  /\ kind # "verify" => required = 0 /\ types = {}
  /\ IF kind = "verify" /\ ~ValidScore(required)
     THEN Answered(c, "invalid") /\ UNCHANGED <<asked, partVars, ghostVars>>
     ELSE /\ asked' = [asked EXCEPT ![c] = [kind |-> kind, score |-> required, types |-> types]]
          /\ scorePart' = [scorePart EXCEPT ![c] = IF kind = "history" THEN "done" ELSE "cache"]
          /\ docPart' = [docPart EXCEPT ![c] = CASE kind = "verify" -> "chain"
                                                [] kind = "report" -> "db"
                                                [] OTHER -> "done"]
          /\ listPart' = [listPart EXCEPT ![c] = IF kind \in {"report", "history"} THEN "db" ELSE "done"]
          /\ score' = [score EXCEPT ![c] = None]
          /\ docTypes' = [docTypes EXCEPT ![c] = {}]
          /\ list' = [list EXCEPT ![c] = <<>>]
          /\ Answered(c, "none")
          /\ seen' = [seen EXCEPT ![c] = Present(rows)]
          /\ alive' = [alive EXCEPT ![c] = Live(rows)]
  /\ UNCHANGED <<borrowerVars, storeVars, up>>

-----------------------------------------------------------------------------
(***************************************************************************)
(* getScore, one step per await.                                           *)
(***************************************************************************)

Score(c, from, to, value) ==
  /\ scorePart[c] = from
  /\ scorePart' = [scorePart EXCEPT ![c] = to]
  /\ score' = [score EXCEPT ![c] = value]
  /\ UNCHANGED <<borrowerVars, up, asked, docPart, docTypes, listPart, list,
                 answer, ghostVars>>

\* A call of Redis that is down fails, which counts as a miss, or waits: see
\* Fairness.
ReadCache(c) ==
  /\ IF "redis" \in up /\ cache # None THEN Score(c, "cache", "done", cache)
     ELSE Score(c, "cache", "fetch", None)
  /\ UNCHANGED storeVars

FetchOnChain(c) ==
  /\ \/ chainScore # None /\ Score(c, "fetch", "persist", chainScore)
     \/ Score(c, "fetch", "db", None)
  /\ UNCHANGED storeVars

\* A snapshot that cannot be stored does not matter to the answer.
PersistSnapshot(c) ==
  /\ Score(c, "persist", "store", score[c])
  /\ snapshots' = IF "postgres" \in up /\ Len(snapshots) < MaxSnapshots
                  THEN <<score[c]>> \o snapshots ELSE snapshots
  /\ UNCHANGED cache

FetchFromDB(c) ==
  /\ IF "postgres" \in up /\ snapshots # <<>>
     THEN Score(c, "db", "store", Head(snapshots))
     ELSE Score(c, "db", "failed", None)
  /\ UNCHANGED storeVars

SetCache(c) ==
  /\ Score(c, "store", "done", score[c])
  /\ cache' = IF "redis" \in up THEN score[c] ELSE cache
  /\ UNCHANGED snapshots

-----------------------------------------------------------------------------
(***************************************************************************)
(* The other parts: resolve of the DID resolver, or the rows of a report.  *)
(***************************************************************************)

Doc(c, from, to, types) ==
  /\ docPart[c] = from
  /\ docPart' = [docPart EXCEPT ![c] = to]
  /\ docTypes' = [docTypes EXCEPT ![c] = types]
  /\ UNCHANGED <<borrowerVars, storeVars, up, asked, scorePart, score, listPart,
                 list, answer, ghostVars>>

\* The contract may not know the borrower.
ResolveOnChain(c) ==
  \/ Doc(c, "chain", "done", IF chainTypes = {} THEN {} ELSE {Index})
  \/ Doc(c, "chain", "db", {})

\* The resolver takes every row that is not revoked; the report those that
\* expire later than now, which leaves out a row without expiresAt.
FindRows(c) ==
  IF asked[c].kind = "report" THEN {t \in Types : rows[t] = "active"} ELSE Present(rows)

ResolveFromDB(c) ==
  IF "postgres" \in up THEN Doc(c, "db", "done", FindRows(c))
  ELSE Doc(c, "db", "failed", {})

\* A resolver without an Identity row finds no document; a report goes on.
ResolveNobody(c) ==
  /\ asked[c].kind = "verify" /\ \A t \in Types : rows[t] = "absent"
  /\ Doc(c, "db", "failed", {})

GetScoreHistory(c) ==
  /\ listPart[c] = "db"
  /\ listPart' = [listPart EXCEPT ![c] = IF "postgres" \in up THEN "done" ELSE "failed"]
  /\ list' = [list EXCEPT ![c] = IF "postgres" \in up
                                 THEN SubSeq(snapshots, 1, IF Len(snapshots) < ReportLength
                                                           THEN Len(snapshots) ELSE ReportLength)
                                 ELSE <<>>]
  /\ UNCHANGED <<borrowerVars, storeVars, up, asked, scorePart, score, docPart,
                 docTypes, answer, ghostVars>>

-----------------------------------------------------------------------------
(***************************************************************************)
(* Answers.                                                                *)
(***************************************************************************)

ScoreApproved(c) == scorePart[c] = "done" /\ score[c] >= asked[c].score

CredentialsVerified_UnlessKnown(c) ==
  docPart[c] = "done" => asked[c].types \subseteq docTypes[c]

CredentialsVerified(c) ==
  \/ asked[c].types = {}
  \/ docPart[c] = "done" /\ asked[c].types \subseteq docTypes[c]

End(c, what) ==
  /\ Answered(c, what)
  /\ asked' = [asked EXCEPT ![c] = Idle]
  /\ score' = [score EXCEPT ![c] = IF scorePart[c] = "done" THEN None ELSE @]
  /\ docTypes' = [docTypes EXCEPT ![c] = {}]
  /\ list' = [list EXCEPT ![c] = <<>>]
  /\ UNCHANGED <<borrowerVars, storeVars, up, scorePart, docPart, listPart>>
  /\ seen' = [seen EXCEPT ![c] = {}] /\ alive' = [alive EXCEPT ![c] = {}]

\* Promise.allSettled
AnswerVerify_IfBoth(c) ==
  /\ asked[c].kind = "verify" /\ Over(c)
  /\ scorePart[c] = "done" /\ docPart[c] = "done"
  /\ End(c, IF ScoreApproved(c) /\ CredentialsVerified(c) THEN "approved" ELSE "denied")

AnswerVerify(c) ==
  /\ asked[c].kind = "verify" /\ Over(c)
  /\ End(c, IF ScoreApproved(c) /\ CredentialsVerified(c) THEN "approved" ELSE "denied")

\* Promise.all: the first part that fails is the answer, and the others go on.
\* What they find then is of no use.
AnswerReport(c) ==
  /\ asked[c].kind \in {"report", "score", "history"}
  /\ IF "failed" \in {scorePart[c], docPart[c], listPart[c]}
     THEN End(c, "failed")
     ELSE Over(c) /\ End(c, asked[c].kind)

CacheStep(c) == ReadCache(c) \/ SetCache(c)

OtherStep(c) ==
  \/ FetchOnChain(c) \/ PersistSnapshot(c) \/ FetchFromDB(c)
  \/ ResolveOnChain(c) \/ ResolveFromDB(c) \/ ResolveNobody(c)
  \/ GetScoreHistory(c) \/ AnswerVerify(c) \/ AnswerReport(c)

Step(c) == CacheStep(c) \/ OtherStep(c)

Next ==
  \/ \E s \in Scores : Compute(s)
  \/ \E t \in Types : ChangeDocument(t) \/ ChangeRow(t)
  \/ \E service \in Services : Switch(service)
  \/ Expire
  \/ \E c \in Clients :
       \/ \E kind \in Kinds, required \in Required, types \in SUBSET Types :
            Begin(c, kind, required, types)
       \/ Step(c)

\* Every call of the contracts and of Postgres is answered or fails.  One of
\* Redis need not while Redis is down: getRedis awaits a connection that is
\* tried again for ever (score-engine.ts:90-105), and a client that has lost
\* its own queues the command (:285-308).
Fairness ==
  \A c \in Clients : WF_vars(("redis" \in up /\ CacheStep(c)) \/ OtherStep(c))

Spec == Init /\ [][Next]_vars
FairSpec == Spec /\ Fairness

-----------------------------------------------------------------------------
(***************************************************************************)
(* Safety.                                                                 *)
(***************************************************************************)

Answers(c, what) == asked[c] # Idle /\ asked'[c] = Idle /\ answer'[c] = what

\* A borrower is approved only with a score that the contract has computed and
\* that is high enough, and with every required credential: each of them was,
\* at some time during the request, in Postgres and not revoked.  Neither a
\* failed part nor one that is read while another changes makes up for it.
ApprovalIsBacked(c) ==
  Answers(c, "approved") =>
    /\ score[c] \in computed /\ score[c] >= asked[c].score
    /\ asked[c].types \subseteq seen[c]

\* A report has a score the contract has computed, a history of such scores,
\* and no credential that was revoked or expired all through the request.
ReportIsBacked(c) ==
  Answers(c, "report") =>
    /\ {score[c]} \cup ToSet(list[c]) \subseteq computed
    /\ docTypes[c] \subseteq alive[c]

\* What a lender is told rests on what was true during the request.
AnswersAreBacked ==
  [][\A c \in Clients : ApprovalIsBacked(c) /\ ReportIsBacked(c)]_vars

-----------------------------------------------------------------------------
(***************************************************************************)
(* Liveness.                                                               *)
(***************************************************************************)

\* Every request is answered, whatever the contracts and Postgres do on the way,
\* once Redis is there to stay; one for the history does not need Redis.
EveryRequestAnswered ==
  /\ <>[]("redis" \in up) =>
       \A c \in Clients : (asked[c] # Idle) ~> (asked[c] = Idle)
  /\ \A c \in Clients : (asked[c].kind = "history") ~> (asked[c] = Idle)

-----------------------------------------------------------------------------
(***************************************************************************)
(* Claims of the documentation the code does not keep.                     *)
(***************************************************************************)

\* lender.ts:36: "Credential types that must all be present and active".  The
\* resolver leaves out revoked credentials, not expired ones.
ApprovedCredentialsAreActive ==
  [][\A c \in Clients : Answers(c, "approved") => asked[c].types \subseteq alive[c]]_vars

\* did-resolver.ts:102 calls the chain the "source of truth".  The types of the
\* credentials that are read there are lost.
ChainCredentialsAreFound ==
  [][\A c \in Clients : docPart[c] = "chain" /\ docPart'[c] = "done"
       => docTypes'[c] = chainTypes]_vars

\* lender.ts:35 makes requiredScore optional.  A request without it is refused.
RequiredScoreIsOptional == \A c \in Clients : answer[c] # "invalid"

\* score-engine.ts:190: "the full credit report".  A credential without an end
\* is not in it.
ReportIsFull ==
  [][\A c \in Clients : docPart[c] = "db" /\ docPart'[c] = "done"
       /\ asked[c].kind = "report" => Live(rows) \subseteq docTypes'[c]]_vars

\* "Non-fatal" (score-engine.ts:306): a cache that cannot be written, or read,
\* does not keep a request from its answer.
AnsweredWithoutRedis == \A c \in Clients : (asked[c] # Idle) ~> (asked[c] = Idle)

=============================================================================
