# StellarTrust Protocol: TLA+ verification project

TLA+ specifications of the StellarTrust Protocol, TLC configurations that check
them on small instances, and TLAPS proofs about them. Paths such as
`contracts/identity` are below the repository's `src/`; those of the API, services
and workers are below `src/backend/src/`. `PROJECT.json` maps every definition
that models code to its file and lines.

1. [The system](#1-the-system)
2. [Modules and code](#2-modules-and-code)
3. [Runs](#3-runs)
4. [Fairness](#4-fairness)
5. [Theorems](#5-theorems)
6. [Where code and documentation disagree](#6-where-code-and-documentation-disagree)
7. [What is not modelled](#7-what-is-not-modelled)
8. [Plan](#8-plan)

## 1. The system

Three layers. On the ledger, three Soroban contracts keep the trusted issuers, the
identities and the credit scores; an invocation of a contract is atomic and is
rolled back if it fails. Off the ledger, a Node backend serves an HTTP API from
Postgres, Redis and the contracts; two workers run in its process. In the browser,
the pages of the frontend call the API through two hooks and a few forms.

```
              invoke                      invoke
 wallets ---------------> Identity ------------------> Registry   (trust check)
 wallets ---------------> CreditScore
                             |    events (Horizon)
                             v
   EventListenerWorker --processEvent--> StellarIndexerService --> Postgres
                                           ^ polls, cursor in Redis   ^   ^
   ScoreUpdaterWorker --getScore--> ScoreEngineService ---------------+   |
                        score and lender routes ---^  | contract, cache   |
                        identity and attestation routes ------------------+
                          ^        | DIDResolver: contract first, then Postgres
                          | limiters, challenge, token (Gateway)
   pages --hooks, forms --+        main: connects, starts, stops all of it
     | wallet extension
```

| Component | State | Operations | What is hard | What makes it correct |
|---|---|---|---|---|
| Registry contract | issuer records, schemas | register issuer, register schema, trust queries | an empty list of types means all types; registering again replaces | typed and untyped trust checks agree |
| Identity contract | DID documents, attestations, allow-list, address of the registry | create DID, add and revoke credential, attest, allow issuer, wire registry | two sources of trust; credential ids that repeat; limits; several timestamps | the contract is a ledger of credentials that only trusted accounts fill; attestations are append-only; timestamps agree; a wired registry decides |
| Credit-score contract | payment events, their summary, metrics, score, history | record repayment / default / transaction, compute, query | summary kept next to the events; bounded history; integer arithmetic in tiers; a stored score goes stale | score, history, queries and summary agree; only a setback lowers a score |
| Score service, updater worker | Redis cache, `ScoreSnapshot` rows, timer, batch, counters | `getScore`, `invalidateCache`; cycle, batch, stop | stale values written after an await; every call may fail by itself; stop during a cycle | what is published is recorded; stale entries do not survive; a cycle accounts for every identity |
| Score and lender API | a request's parts that run at once | score, history, report, verify | parts fail, fall back or change under way; the first failure answers while the others go on | an approval or a report rests on what was true during the request; once Redis is back to stay, every request is answered |
| Event indexer | cursor in Redis, mirrored rows, audit rows | poll, page, one handler per event | one cursor for several contracts; crash between handling and cursor; handlers of stream and poller interleave | the cursor passes nothing unprocessed; effects are audited; a revocation is final |
| Event listener | streams, close handles, shared attempt counter, timers | start, subscribe, message, error, reconnect, stop | counter shared by all contracts; timers that fire after stop; streams in error are not closed | no contract is forgotten; a stream beyond the first is owed to an error, and every stream can be closed; silence after stop |
| Identity API, resolver, attestation service | `Identity`, `Credential`, `Issuer`, `AttestationRecord` rows | resolve, create, add, revoke, attest | check-then-act over an await; rows shared with the indexer; partial failure | answers stay true; one creator per address; a 500 is explained by Postgres, another writer, an id that is taken or the request itself; nobody with a row is "not found" |
| Authentication, rate limits | windows in memory; challenges and tokens that only signatures prove | GET and POST `/auth`, the middlewares, the limiters | two checks of one signature list; clocks; windows that begin with a request; a limiter named twice on one route | an account is acted for only by who signed in time; what passes and what is refused is bounded |
| Bootstrap and shutdown | connections, timers, callbacks of `server.close` | connect, start, serve, signal, exception, drain, stop, exit | signals that come again; a ten-second exit that races the drain; jobs that outlive `stop` | Postgres is there for every request; a clean exit code means a clean exit; the shutdown ends |
| Frontend | wallet per component, document, score, forms, calls under way | open, type, connect, create, add, revoke, verify | nothing cancels a call; answers in any order; the extension's account is switched silently | a page shows what it was asked for; success is shown only for what happened; nothing loads for ever |

Components that are not modelled are in [section 7](#7-what-is-not-modelled). The
hazards of the code are listed in `PROJECT.json`, each at its line with the
properties that watch it.

## 2. Modules and code

| Module | Models | Extends or uses |
|---|---|---|
| `Registry` | `contracts/registry` | |
| `Identity` | `contracts/identity`, with its calls of the registry | extends `Registry`, implements `CredentialLedger` |
| `CredentialLedger` | abstract: what the identity contract promises | |
| `Scoring` | the arithmetic of `score.rs` and `metrics.rs` | |
| `CreditScore` | `contracts/credit-score` | extends `Scoring` |
| `ScoreService` | `services/score-engine.ts`, `workers/score-updater.ts` | |
| `Lending` | `api/lender.ts`, `api/score.ts`, the history and report of `score-engine.ts`, the resolver's credential types | |
| `Indexer` | `services/stellar-indexer.ts` | |
| `EventListener` | `workers/event-listener.ts` | |
| `IdentityApi` | `api/identity.ts`, attestation route of `api/credentials.ts`, `services/did-resolver.ts`, `services/attestation.ts` | |
| `Gateway` | `middleware/ratelimit.ts`, `middleware/auth.ts`, `api/auth.ts`, the order of the middleware in `index.ts` and the routers | |
| `Bootstrap` | `main` and `shutdown` in `index.ts`, start and stop of the workers | |
| `Wallet` | `hooks/useStellarWallet.ts`, `lib/stellar.ts`, the connect button | |
| `Portal` | `hooks/useDID.ts`, `hooks/useCreditScore.ts`, `lib/api.ts`, the five pages with state, their forms and buttons | extends `Wallet` |
| `EventProofs` | theorems about `EventListener` and `Indexer` | extends both and `TLAPS` |
| `ServerProofs` | theorems about `Bootstrap` and `Gateway` | extends both and `TLAPS` |
| other `*Proofs` | theorems about the module they are named after | extend it and `TLAPS` |
| `MC*` | values and constraints for TLC; one `.cfg` per configuration | extend the module |

`EventListener` and `Gateway` prefix the names of their specifications (`ListenerSpec`,
`GatewaySpec`, ...), so that they can be extended together with the other module
of their proofs.

A definition named `X_Y` is a faulty variant of `X`. It is put in the place of `X`
to see that a property notices the fault; no specification refers to it.

**Contracts.** A call is one action: `require_auth` is the account the action
quantifies over, every `return Err` and panic a guard, since the host undoes a
call that fails. Storage entries are functions with a value for "absent".
Document entries kept alive by TTL bumps do not expire in the models. Amounts,
assets, names, keys and expiry dates are stored and never read by the contracts,
and are left out. In `Identity`, `dids`, `attestations`, `allowList` and
`registryContract` are the entries `DIDDoc`, `Attestations`, `TrustedIssuer` and
`RegistryContract`; `issuers` and `schemas` are those of every registry. `signer`
is the account that authorised the last call. In `CreditScore`, `repayments`,
`defaults`, `summary`, `metrics`, `score` and `history` are the entries of one
subject each; `Scoring` holds the tier tables and the weights as they are.

**`CredentialLedger`.** Holders have lists of credentials; an account that is
trusted for a type appends, the issuer of an entry removes it, nothing else
changes. `Identity!Ledger` maps the trusted pairs to those the trust check
accepts, whichever source it consults, a holder's list to its document's
credentials, and the actor to `signer`.

**Backend.** JavaScript runs to the next `await`, so a step is what happens
between two awaits, and the awaited call belongs to the step that starts with it.
A service outside the process is up or down (`up`, `Fail`, `Recover`, `Switch`); a
call of one that is down is an error at that call.

- `ScoreService`: `pc`, `got`, `from` are a call of `getScore` in flight, of a client
  or of a job of the worker. A score is the number of times the contract had
  computed it. `phase`, `remaining`, `batch`, `updated`, `errors` are the locals of
  the worker's `run`. `lost` and `floor` are ghosts. `RedisAnswers` covers the
  client of the worker that `stop` closes under active jobs.
- `Lending`: one borrower. `scorePart`, `docPart` and `listPart` are the parts of a
  request's `Promise.all`, each at its own await, and a call of the contract may fail at any time; `rows` keeps of a `Credential` row
  whether it is revoked, past its `expiresAt`, or without one. A score is its value.
  `computed`, `seen` and `alive` are ghosts: what was true at some time during the request.
- `Indexer`: `turn`, `pollFrom`, `page` are the locals of the poll, `step` the await at
  which the poller or the handler of a streamed event stands, `cursor` the key
  `indexer:cursor`. An event is its position in the ledger, which orders them, so a
  page is a set of positions that is worked off from the first; the events of a
  page are those of a contract after the cursor, the first `PageLimit` of them. `Restart` loses all of it but the cursor and the rows. Horizon
  is external: `ledger`. `now` may be one ledger behind.
- `EventListener`: `attempts`, `handles`, `timers` are `reconnectAttempts`,
  `closeHandles` and the pending `setTimeout`s; `live` are the streams that call
  back. `onerror` closes nothing, so a stream that reports an error keeps its handle:
  it connects again by itself, as an `EventSource` does, beside the one that is opened
  for it, or is ended by the server; either may happen at every error. `errors` counts them.
- `IdentityApi`: a slot is a request in progress, `pc` the await it stands before.
  `answer` keeps the status a client was given. The contents of documents are left
  out; the id of a credential is owner, issuer, type and millisecond, as in the code. A
  request that the schema and the address checks of its route refuse (400) ends before
  anything is awaited and is left out. One that they let pass may still be `flawed` and is
  answered 500: an invalid subject or blank claim of an attestation, a time beyond
  what a `Date` holds, a text that Postgres does not store. The
  `AttestationRecord` that is inserted is read by no route and is not kept.
  The indexer's effects are actions of the environment. `created` and `disturbed`
  are ghosts.
- `Gateway`: a request passes its limiters in one step; `counter` is the memory store
  of express-rate-limit, which a restart empties. `alike` is what decides whether
  `verifyChallengeAndIssueJWT` finds a signature: the code compares the first bytes
  of the signature with the last bytes of the key. The ghosts `reached` and `passed`
  log, per limiter and moment, the requests of the last window: `Total` counts them. Requests come from one client address.
- `Bootstrap`: each call of `shutdown` has a `callback` and a timer of its own. A
  worker is its timer (`loop`); what a job does is the other modules'.
- `Portal`: a call is sent, handled by the server and answered in separate steps,
  in any order: `calls` is a set, and `no` orders those of one kind as they were
  sent. `late` notes the kinds whose last answer belongs to a call that a later
  one had overtaken. A page that is left hears no answer, and its call still takes
  effect. Each component that uses the wallet hook has a wallet of its own, as
  React's state is per component. Of the server, the rows that the pages'
  answers depend on are kept. A document is the contract's (`chain`), with any number
  of credentials, for an account of `OnChain`, and otherwise, or when the contract does
  not answer, made of the rows: `did-resolver.ts` asks in this order, and the API
  adds credentials to the rows alone.

**Composition.** `Identity` contains `Registry`; `Portal` contains `Wallet`. The
others meet at the rows, keys and streams named above: where a module needs what
another does, it has that as actions of its environment (the indexer in
`IdentityApi`, the contract in `ScoreService`, `Indexer` and `Lending`), free to
happen at any time, which allows every behaviour of the other module and more.

## 3. Runs

Every property of a run that passes is paired with a plausible fault of the code
under which the same run finds the property violated (`mutants`).

| Run | Instance | Shows |
|---|---|---|
| `identity` | 1 owner, 2 issuers, 2 registries, 2 types, 2 hashes, lists of 2, 2 timestamps | the ledger is implemented, whatever the source of trust; the two trust checks agree; a wired registry decides; attestations append-only; timestamps in order |
| `score` | 4 events per list, history of 2, 2 transactions, months pass | summary agrees with events; score, history and queries agree; `data_points` detects staleness; metrics consistent; only setbacks lower a score |
| `service_calls` | one address, a client and the worker, 2 computations, any service failing | what is cached or about to be is recorded, or its row was refused; a cycle accounts for each identity; stale entries go; the worker records the current score |
| `indexer_poll` | one contract, 3 events, pages of 2, one crash, Postgres and Horizon failing | nothing skipped; effects audited; polling catches up |
| `indexer_streams` | 3 contracts, 3 events, stream and poller at once | a revocation is final |
| `indexer_skipped` | 2 contracts | violated: see section 6 |
| `listener_reconnect` | 2 contracts, 2 attempts, 3 errors of each, after which a stream goes on or not | no contract forgotten and silence after stop; streams are owed to errors and can be closed; reconnection settles |
| `api_requests` | 2 requests, flawed or not, owner, issuer and stranger, 1 type, 2 moments, Postgres failing | answers stay true; one creator; each 500 is explained; "not found" is true; attestations are of trusted issuers |
| `gateway` | 2 accounts, 4 kinds of route, limits of 1 to 6, a clock of 5 moments, 5 requests, a restart at any time | an account is acted for only by who signed in time; passes and refusals of every limiter are bounded across windows |
| `lending` | 1 request, 1 type, 2 scores, a borrower and services that change at any time | approvals and reports rest on what was true; a history is always answered, and any other request once Redis is back to stay |
| `shutdown` | 2 connections, 2 shutdowns, Redis configured or not, failing and recovering | everything stops in order; no job after stop; the shutdown ends; the process comes up |
| `portal` | 2 accounts, one of them with a DID on chain, the wallets of page and navbar, 5 pages, 3 acts of the user | pages show what was asked for; success is shown for what happened; one outcome per submission; loading ends |

**Why the bounds are enough.** The limits are constants, so a list of two is full,
and is full again after a removal, as one of 64 or 128 would be; two hashes give
equal and different ids, two issuers an own and another's credential. A history of
two drops its oldest entry after three computations, which the run makes. Four
repayments and four defaults reach every branch of the penalties and the clamp
below zero; tiers change with the first and the second transaction and after 30
days. Two calls of `getScore` for one address give every overtaking of two calls.
Three events give a page that is full and one that is not, and an event published
in the middle of a poll. Two attempts per contract, shared by two contracts, reach
the limit and its reset; with three errors a contract has four streams, or none left, and
is given up. Two requests give every race of two requests; two moments
give equal and different ids, and a second type, which would take the run beyond its
time, only more different ones. In `api_requests` only Postgres fails: a chain that
cannot be reached is answered as one without the DID, so the same steps are taken.
A window of 3 in a clock of 5 gives two windows and their boundary; a limit of 4 with
routes that count twice is reached by both kinds of refusal. One lending request has
two or three concurrent parts; clients share only what the borrower and the
cache hold, which change at any time all the same. Two shutdowns overlap in every order, with a
request on each connection. Three acts open a page, leave it and come back, or type,
retype and leave; two accounts switch under any call. What the larger instances
would add is covered, where section 5 lists a theorem, for all sizes.

**Constraints.** Three runs restrict the state space, so that each part of it is
explored to its full depth. `MCIdentity!Focused`: either the sources of trust (two
registries, two types) with a single issuer and credential, or the document and
the attestations with one registry. `MCCreditScore!Focused`: either payment events alone,
or at most one of each besides transactions and scores. `MCGateway!LimitsOrLogin`:
either the limits, or a login and the use of its token. `MCPortal!Bounded`: the navbar's
wallet is used first or not at all, and the score page, which sends two calls for each
act, gets one act less. The properties of the first three runs that this could hide
something from are proved for all instances.
`MCScoreService_cycle.cfg` is a larger instance of the worker's cycle (3 addresses,
batches of 2).

**Deadlock** is checked except where the system really stops: `listener_reconnect`
(stopped, or given up), `shutdown` (the process ends), `gateway` and `portal` (the clock, the requests
and the user's acts are bounded).

**Bounds in the guards.** `MaxTime`, `MaxEvents`, `MaxTransactions` (contracts),
`MaxVersion` (computations on chain), `MaxEvents` and `MaxRestarts` (indexer),
`MaxErrors` (errors of a contract's streams), `MaxSnapshots` (lending), `MaxConnections` and `MaxShutdowns` (bootstrap), `MaxTime`, `MaxRequests`,
`MaxChallenges` (gateway), `MaxActs` and `MaxCreds` (portal). Two ghost counters
stop at 2 (`created`, `snapshots`).

**`TypeOK`.** Each module has one; it is proved for every one that section 5 lists it
for, which is every module with a specification, and is no property of a run.

Two properties depend on their run's instance and are stated for it alone.
`NothingSkipped` and `PollingCatchesUp` hold where a single contract is polled and
Redis does not fail; the theorem about the first has that as its premise, and section 6
shows the other cases.

## 4. Fairness

Liveness is checked with weak fairness, of steps only that the program takes by
itself. Nothing makes a service recover, a client ask, a stream deliver, the
contract compute, a request or a job end, or a user act.

- `ScoreService`: `Advance(t) /\ ~WaitsForRedis(t)`, a call returns or fails, except
  that one of Redis need not return while Redis is down (its client queues
  commands and retries for ever); `Expire(a)`, the five minutes of an entry run
  out; `Work`, the worker's timer fires and its loop goes on.
- `Indexer`: `Poll`, the interval fires and calls return or fail, and `Process(w)` of
  each streamed event's handler.
- `EventListener`: `OnTimer(c)`, a `setTimeout` fires.
- `IdentityApi`: `Step`, an await of a request ends, with a value or an error. No
  property of a passing run needs it.
- `Lending`: `OtherStep`, a call of Postgres or a contract returns or fails and an answer
  is given; `CacheStep`, only while Redis is up, for the reason above. So
  `EveryRequestAnswered` has the premise that Redis is up from some time on, except
  for a history, which does not use it.
- `Bootstrap`: `ConnectDatabase`, Postgres answers or refuses; `Serve`, a Redis that
  can be reached is connected to; `ForceExit`, the ten-second timer fires.
- `Portal`: some call under way is handled, answered or fails. `lib/api.ts` sets no
  timeout, so of a call that the backend never answers (`MCIdentityApi_answered`, `MCLending_claims`)
  this assumes that the browser gives it up in the end.

`CacheConverges`, `SnapshotsFollow`, `PollingCatchesUp`, `Settles`, `EveryRequestAnswered` and `ComesUp` have a
premise of the form "from some time on": the services answer, or no stream fails.

## 5. Theorems

All are proved for every value of the constants that the named assumptions allow:
bounds are natural numbers, capacities positive, sets of inputs of the right type,
absent values outside the sets they stand apart from. None assumes the size of an
instance, but `NothingIsSkipped`, which is about one polled contract and says so.

| Theorem | States | Argument |
|---|---|---|
| `IdentityProofs!TypeCorrect` | `Spec => []TypeOK` | inductive by itself |
| `…!LimitsHold` | `[]WithinLimits` | inductive together with the type invariant |
| `…!ScopesAgree` | `[]AnyScopeAgrees` | needs `ScopesNonEmpty`: no issuer record is without a scope |
| `…!ImplementsCredentialLedger` | `ImplementsLedger` | each call maps to an action of the ledger or to a change of trust; typing on both sides of a step makes the trusted pairs a set of the abstract type |
| `…!ChronologyKept` | `[]Chronology` | document by document: a list in order stays so when an entry with the current time is appended or one is removed |
| `…!AttestationsKept`, `RegistryDecidesAlways` | `AttestationsAppendOnly`, `RegistryDecides` | per call; the trust check reads one source only once a registry is wired |
| `CreditScoreProofs!CompositeInRange` | the composite is in `SCORE_MIN..SCORE_MAX` without the clamp | bounds of the weighted sum |
| `…!TypeCorrect` | `[]TypeOK` | with `HistoryBounded`, since an entry is dropped from a full history only |
| `…!HistoryAgreement`, `MetricsKept`, `SummaryKept`, `FreshnessKept` | `[]HistoryAgrees`, `[]MetricsConsistent`, `[]SummaryMatchesEvents`, `[]FreshUnlessNewData` | each inductive relative to the typed, bounded state; the summary needs the count of on-time events under `Append`; a recording makes the data points grow, so a score that claims to be fresh is about the same data |
| `…!ActivityHelps`, `SetbacksHurt` | `ActivityNeverHurts`, `SetbacksNeverHelp` | every link keeps order: the truncating quotient is the greatest number that fits, so a share of on-time repayments moves the right way; tier tables rise; weighted sum and clamps keep order. `SummaryMatchesEvents` shows that late and on-time repayments add up, and that a summary without events is the empty one, the only one a default can improve on |
| `ScoreServiceProofs!TypeCorrect`, `PublishedRecorded`, `CycleComplete` | `[]TypeOK`, `[]PublishedIsRecorded`, `[]CycleAccounts` | `Kept`: what the stores hold and what a call that has passed `persistSnapshot` holds has a row or was refused; the counters follow the cardinalities of batch and rest |
| `LendingProofs!TypeCorrect`, `AnswersBacked` | `[]TypeOK`, `AnswersAreBacked` | `Kept`: every score on its way comes from the contract, and what has been found of the credentials is in the ghosts of the request |
| `EventProofs!ListenerTypeCorrect`, `Attends`, `StreamsOwed` | `[]TypeOK`, `[]Attended`, `[]StreamsAreOwed` | `Kept`: streams have handles, and handles and reconnections together grow at an error only; a contract that `start` has come to has a stream, a timer or was given up; those it has not come to are untouched |
| `…!IndexerTypeCorrect`, `EffectsAreRecorded` | `[]TypeOK`, `[]EffectsRecorded` | `Indexed`: a handler past its first await (`Tracked`) has its event in the audit rows or among those refused, and the ledger only grows, so what the rows are explained by stays |
| `…!RevocationIsFinal` | `RevocationSticks` | per handler: none writes over a revoked row |
| `…!NothingIsSkipped` | `Alone => (Spec => []NothingSkipped)`: one contract, Redis never down | `Polled`: the page under way holds every event of the contract between the cursor and its own last position (`PageWhole`), the cursor is set to the first of it that is not yet behind, and that one has been processed (`Promise`) |
| `IdentityApiProofs!TypeCorrect` | `[]TypeOK` | with `OnRoute`: a request stands at a point of its own route, which is what makes its fields exist |
| `…!AnswersKept`, `ErrorsExplained` | `[]AnswersHold`, `[]ServerErrorsExplained` | `AllSound`: rows only grow; a request knows that its row is there once it has written it (`Prepared`), and failures and rows of others have been noticed before they can make it fail (`Noticed`), unless it is flawed itself |
| `…!CreatedOnceOnly` | `[]CreatedOnce` | `OneCreator`: before its insert there is no row, after it there is one for good, so no two requests for one address are past the insert |
| `…!NotFoundTrue`, `AttestedTrusted` | `NotFoundIsTrue`, `AttestedByTrusted` | only the row's absence leads to 404; a request that stores has verified its issuer, and a change since is noticed |
| `ServerProofs!TypeCorrect`, `ShutdownInOrder`, `StoppedForGood` | `[]TypeOK`, `[]StopsInOrder`, `NoJobAfterStop` | `Kept`: a callback of `server.close` that has begun finds the server drained and the workers stopped, and both stay so, since the server never listens again |
| `…!AccountsAreProven` | `[]AccountIsProven` | `LoginKept`: behind every token is a challenge that its account signed in time, and neither goes away |
| `…!LimitersAreBounded` | `[]LimitersBounded` | `RatesKept`, for each limiter: the requests logged since its window began are no fewer than its hits (half of them for `api`), those passed before that are at most its maximum, and so are those since. A stretch as long as a window meets at most two windows; the counts are cardinalities of sets of logged requests that are split at the window's beginning |
| `…!GatewayTypeCorrect` | `[]GatewayTypeOK` | from both: hits are at most two per request |
| `PortalProofs!PortalTypeCorrect` | `[]TypeOK` | with the invariant `Consistent` of the next rows: an answer is about an account because the call's outcome rests on a row or a DID on chain |
| `…!AskedScoreIsShown` | `[]ScoreIsOfAddress` | `ScoresFollow`: either the last call of a kind is under way and about the address that is asked for, or all that are under way have been overtaken and what is shown is right, an error, or noted in `late` |
| `…!AdditionsAreListed` | `[]AddedIsListed` | `ListFollows`, in the same way: the last resolution under way is not handled yet, has failed, has every credential acknowledged (`Lists`), since the rows forget none, or is the contract's; the page's address cannot change any more once it has acknowledged one |
| `…!CreatedDIDExists`, `FormsAreSingle` | `[]CreatedIsReal`, `[]OneOutcome` | `Sound` and `Distinct`: a call that is heard belongs to the open page and its form, which waits for it; a submission that has succeeded is about an account with a row |

The runs show the same properties on their instances.

Every safety invariant, action property and refinement that a run checks is
stated by one of these theorems. Only model-checked is liveness, since the prover
does not treat fairness and ENABLED: `CacheConverges`, `SnapshotsFollow`, `PollingCatchesUp`,
`Settles`, `ShutdownEnds`, `ComesUp`, `EveryRequestAnswered` and `LoadingEnds`. Induction
over data is out of the prover's reach; the models use no recursive operators, and
what is counted is counted by cardinality. An invariant that a proof rests on was first
checked by TLC on the run's instance.

## 6. Where code and documentation disagree

Each line is a claim of a document or a comment for which TLC gives a trace that
breaks it. `MCIndexer_skipped.cfg` is the run `indexer_skipped`. A configuration
`*_claims.cfg` lists several claims; TLC stops at the first it meets, and another is seen
by keeping its line alone.

| Configuration | Claim | What the code does |
|---|---|---|
| `MCIndexer_skipped` | `NothingSkipped`: "so it can resume from where it left off", `stellar-indexer.ts:14-15` | all contracts share one cursor (`:136`); the one polled last moves it past events of the others |
| `MCIndexer_outage` | the same | a cursor that cannot be read counts as `now` (`:306`) and is then overwritten |
| `MCIndexer_backstop` | `PollingIsBackstop`: "Falls back to polling", `event-listener.ts:7-8` | with no cursor yet, each poll asks from `now` on and may pass an event by |
| `MCIndexer_claims` | `OneSnapshotPerEvent`: "upsert ScoreSnapshot row", `stellar-indexer.ts:11` | it is inserted (`:240`): an event received twice has two rows |
| | `RevokedIsMarked`: "mark Credential revoked", `:10` | the handler of a revocation may run before that of the addition, and then changes no row (`:221`) |
| | `IssuerMirrored`: "mirrors IssuerRecord", `schema.prisma:96` | the first event of an issuer ignores `active` (`:272`) |
| `MCEventListener_claims` | `GivesUpOnlyAtTheLimit`: "Give up after 10 consecutive failures", `event-listener.ts:26` | the attempts of all contracts are counted together (`:147`) |
| | `OneStreamPerContract`: "Opens an SSE connection", "Automatically reconnects", `:11`, `:14` | a stream in error is not closed (`:127`) and goes on beside the one opened for it |
| | `GivenUpIsPolledOnly`: "Falling back to polling only", `:150` | the stream whose error was the last one goes on |
| `MCScoreService_claims` | `InvalidationSticks`: "ensuring the next query fetches the fresh score", `docs/scoring-model.md:243-244` | a reader that fetched before the worker stores its older score after the key was deleted |
| | `JobsAskTheContract`: "fetches on-chain + persists snapshot", `score-updater.ts:102` | the worker goes through the cache, and a hit ends its job (`score-engine.ts:128`) |
| `MCLending_claims` | `RequiredScoreIsOptional`: `requiredScore` is optional, `lender.ts:35` | without it, as when it is 0, the request is refused |
| | `ApprovedCredentialsAreActive`: "must all be present and active", `lender.ts:36` | the resolver leaves out revoked credentials, not expired ones |
| | `ChainCredentialsAreFound`: "source of truth", `did-resolver.ts:102` | the types read on chain come back as the key of a list and match nothing |
| | `ReportIsFull`: "the full credit report", `score-engine.ts:190` | `expiresAt` later than now (`:200`) leaves out credentials without an end |
| | `AnsweredWithoutRedis`: "Non-fatal", `score-engine.ts:306` | a call of Redis that is down waits in `connect` or in the client's queue (`:90-105`, `:285-308`), and with it the request |
| `MCGateway_claims` | `SignedChallengeIsAccepted`: sign, send, get a token, `docs/api-reference.md:28-30` | `api/auth.ts` looks for a signature that begins with the last bytes of the key |
| | `RefusedOnlyBeyondMax`: 100 requests, `ratelimit.ts:7` | where a router names `apiRateLimit` again, each request counts twice |
| | `ReadsAreLooser`: reads may ask more often, `ratelimit.ts:9` | `apiRateLimit`, before every route, refuses them first |
| | `HealthIsNotLimited`: "no auth / rate-limit", `index.ts:60` | it is behind the limiter of all routes |
| | `CountersSurvive`: counters in Redis, `docs/api-reference.md:38` | they are in memory |
| `MCBootstrap_claims` | `ComesUpWithoutRedis`: goes on when "Redis not available", `stellar-indexer.ts:326` | the client retries its first connection without an end, and the server never listens |
| | `ErrorsAreReported`: a failed startup ends with 1, `index.ts:169` | a port in use is an uncaught exception, goes through `shutdown` and ends with 0 |
| | `JobsAreOver`: "shutting down gracefully", `index.ts:135` | the exit does not wait for a job of a worker |
| `MCIdentity_claims` | `OriginalIssuerCanRevoke`: "Only the original issuer of the credential may revoke it", `credentials.rs:80` | of two credentials with one hash only the first is found (`:95`) |
| | `SchemaAuthorSigned`: "Address of the account that registered this schema", `schemas.rs:44` | the author is an argument, unrelated to the account that authorises (`:67`) |
| `MCCreditScore_claims` | `DefaultNeverHelps`: "Penalise each default by 150 points", `score.rs:131` | without a history the sub-score is 500, after one default 750 |
| | `LatePaymentsPenalised`: "Penalise each late payment by 30 points (capped at -300)", `score.rs:132` | the penalty is 400 times the share of late ones (`:141`) |
| | `ScoringDatesTheAccount`: "Set on first `compute_score`", `metrics.rs:50` | `compute_score` does not store the metrics it reads (`score.rs:219`) |
| | `CredentialCountKept`: "at last score computation", `metrics.rs:66-67` | the same (`score.rs:220`) |
| `MCIdentityApi_claims` | `DuplicatesConflict`: "Duplicate creation returns HTTP 409", `docs/did-spec.md:107` | two requests may both pass the check (`identity.ts:121`); the loser gets 500 |
| | `RevokedOnce`: "409 Conflict: Credential already revoked", `docs/api-reference.md:192` | two requests may both pass the check and both succeed (`identity.ts:261`) |
| | `InvalidInputIs400`: "400 Bad Request: Invalid input (validation failure)", `docs/api-reference.md:408` | what the schema lets pass is refused at the write or by `attest` (`identity.ts:210`, `attestation.ts:71-77`, `:98`), with 500 (`credentials.ts:60-63`) |
| `MCIdentityApi_answered` | `EveryRequestAnswered`: "500 Internal Server Error", `docs/api-reference.md` | the issuer lookup of `POST /credential` stands outside the `try` (`identity.ts:183`); the process logs the rejection (`index.ts:161`) and nobody answers |
| `MCPortal_claims` | `LastAskedIsShown`: "your on-chain credit score", `score/page.tsx:31` | a late answer to an earlier call replaces it by that of another address |
| | `AdditionsAreShown`: "Add, view, and revoke verifiable credentials", `manage/page.tsx:39` | for an account with a DID on chain the contract's credentials are listed (`did-resolver.ts:118`), and one that is added goes to Postgres alone |
| | `ConnectingOpensPage`: connect a wallet "to manage credentials", `manage/page.tsx:29` | the button connects a wallet of its own, and the page never hears of it |

Others seen while reading, without a model: no contract publishes events, although
the indexer and the listener wait for them; the API never invokes a contract,
although `docs/did-spec.md` and `docs/architecture.md` say that creation and
credentials go on chain; `attestation.ts` names an on-chain `attest()` that it does
not call; `POST /credential` accepts an issuer whose row is inactive; the row that
`POST /credential` creates for an unknown owner has no key and makes that owner's
`POST /create` answer 409; the frontend sends no token with a revocation
(`lib/api.ts`), so the route refuses it and the button says nothing; a `publicKeyHex` that is no hex
of 32 bytes is accepted, where `docs/api-reference.md` names 400; the page that creates an
identity speaks of anchoring it to Stellar (`create/page.tsx:38`), which nothing does; the SDK's
`verify` sends 0 for an omitted `requiredScore`, which the API refuses.

## 7. What is not modelled

- *Registry, contract and webhook routes*: their middleware is in `Gateway`. The handlers
  are one database statement, a constant or one simulation each, and nothing reads
  the `WebhookEvent` rows they insert.
- *`useContracts` and `lib/soroban.ts`* of the frontend: no page uses them. *Gauges,
  labels, static pages*: presentation.
- *SDK*: one request and its answer per call, no state.
- *KYC bridge*: its providers throw "not implemented" and nothing calls it. *Oracle and
  governance contracts*: empty stubs.
- *IPFS, crypto and Stellar helpers*: I/O and encodings, abstracted to the identity of
  credentials and accounts. *Logging*: output. *Scripts*: run by hand.
- *Starting the score worker a second time*: nothing in the program does it.
- *Expiry dates, amounts, keys, document contents* in the contracts: see section 2. *TTL
  and archival* of ledger entries: the host's.
- *Concurrent upserts of one key in the indexer* (Prisma's unique errors): the error
  is logged like any other of Postgres, which the runs have.
- *Unset contract ids*: as if the contract could not be reached.
- *Requests that are answered 400*: by the schema or the address checks of a route,
  before anything is awaited. What passes these and is refused later is in `IdentityApi`.
- *Further client addresses*: the limiters count by the first `X-Forwarded-For`
  (`ratelimit.ts:39-42`), which the client chooses; `Gateway` has one address, and
  what it bounds is what one address can do.
- *Paging* of lists: reads.

## 8. Plan

Done, in this order: `Registry`, `Identity`, `CredentialLedger`; `Scoring`,
`CreditScore`; `ScoreService`; `Indexer`; `EventListener`; `IdentityApi`; `Bootstrap`;
`Gateway`; `Lending`; `Wallet`, `Portal`; and theorems about each.

Next:

1. Abstract specifications to be implemented, as `CredentialLedger` is: a register that
   may forget for the cache of `ScoreService`, a set of processed events for the mirror
   of `Indexer`.
2. `Mirror`: `Identity` composed with `Indexer` and `IdentityApi`, the contract's documents as
   the source of the events: what the resolver answers from the rows against what it
   answers from the chain. It is of use once the contracts publish events.
