---------------------------- MODULE ScoreService ----------------------------
(***************************************************************************)
(* ScoreEngineService (src/backend/src/services/score-engine.ts), which    *)
(* answers getScore from a Redis cache, the credit-score contract or the   *)
(* snapshots in Postgres, and ScoreUpdaterWorker (workers/score-updater),  *)
(* which goes through the known identities in batches.                     *)
(*                                                                         *)
(* Every await is a point where the other requests run, so each external   *)
(* call is a step of its own: the calls of the API's clients and of the    *)
(* worker's jobs interleave.  A score is known by its version, the number  *)
(* of times the contract had computed it; 0 stands for "none".  The API    *)
(* and the worker each have an engine, but all of them share one Redis.    *)
(***************************************************************************)
EXTENDS Naturals, FiniteSets

CONSTANTS
  Addresses,    \* addresses asked for; all of them have an Identity row
  Clients,      \* concurrent callers of the API
  Updater,      \* the caller that stands for the worker
  BatchSize,    \* BATCH_SIZE
  MaxVersion    \* bound: computations of a score on chain

ASSUME UpdaterAssumption == Updater \notin Clients
ASSUME BatchAssumption == BatchSize \in Nat \ {0}
ASSUME AddressesAssumption == IsFiniteSet(Addresses)
ASSUME VersionsAssumption == MaxVersion \in Nat

\* A call of getScore in flight.  A client may ask for several addresses at
\* once; the worker has at most one job per address.
Requests == [client : Clients, address : Addresses]
Jobs == [client : {Updater}, address : Addresses]
Tasks == Requests \cup Jobs
JobOf(a) == [client |-> Updater, address |-> a]

Services == {"rpc", "redis", "postgres"}
Versions == 0..MaxVersion

\* where a call of getScore stands: before which await
Points == {"idle", "readCache", "fetch", "persist", "readDB", "store",
           "invalidate"}
Sources == {"none", "cache", "chain", "db"}

VARIABLES
  chain,     \* the version stored on chain, per address
  cache,     \* score:<address> in Redis
  latest,    \* the most recently inserted ScoreSnapshot
  stored,    \* every version that has a ScoreSnapshot
  lost,      \* ghost: the versions whose snapshot Postgres refused
  up,        \* the services that answer
  pc, got, from,       \* per task: its point, the score it holds, its source
  running,   \* the worker has been started and not stopped
  phase,     \* "armed": the timer is set; "cycle": run() is active; or "off"
  remaining, \* identities of the cycle that no batch has contained yet
  batch,     \* identities of the current batch whose job is not finished
  updated, errors,     \* the counters of the cycle
  floor      \* ghost: the version the worker's last successful job fetched

storeVars == <<chain, cache, latest, stored, lost>>
taskVars == <<pc, got, from>>
cycleVars == <<running, phase, remaining, batch, updated, errors>>
vars == <<storeVars, up, taskVars, cycleVars, floor>>

TypeOK ==
  /\ chain \in [Addresses -> Versions]
  /\ cache \in [Addresses -> Versions]
  /\ latest \in [Addresses -> Versions]
  /\ stored \in [Addresses -> SUBSET (Versions \ {0})]
  /\ lost \in [Addresses -> SUBSET (Versions \ {0})]
  /\ up \subseteq Services
  /\ pc \in [Tasks -> Points]
  /\ got \in [Tasks -> Versions]
  /\ from \in [Tasks -> Sources]
  /\ running \in BOOLEAN
  /\ phase \in {"armed", "cycle", "off"}
  /\ remaining \subseteq Addresses /\ batch \subseteq Addresses
  /\ updated \in 0..Cardinality(Addresses)
  /\ errors \in 0..Cardinality(Addresses)
  /\ floor \in [Addresses -> Versions]

Init ==
  /\ chain = [a \in Addresses |-> 0]
  /\ cache = [a \in Addresses |-> 0]
  /\ latest = [a \in Addresses |-> 0]
  /\ stored = [a \in Addresses |-> {}]
  /\ lost = [a \in Addresses |-> {}]
  /\ up = Services
  /\ pc = [t \in Tasks |-> "idle"]
  /\ got = [t \in Tasks |-> 0]
  /\ from = [t \in Tasks |-> "none"]
  /\ running = TRUE /\ phase = "armed"
  /\ remaining = {} /\ batch = {} /\ updated = 0 /\ errors = 0
  /\ floor = [a \in Addresses |-> 0]

-----------------------------------------------------------------------------
\* Definitions named X_Y are faulty variants of X, used to see that a property
\* notices the fault; nothing else refers to them.

(***************************************************************************)
(* The environment: the contract computes scores, services fail and        *)
(* recover, and a cache entry is dropped when its five minutes are over.   *)
(***************************************************************************)

Compute(a) ==
  /\ chain[a] < MaxVersion
  /\ chain' = [chain EXCEPT ![a] = @ + 1]
  /\ UNCHANGED <<cache, latest, stored, lost, up, taskVars, cycleVars, floor>>

Fail(s) ==
  /\ s \in up
  /\ up' = up \ {s}
  /\ UNCHANGED <<storeVars, taskVars, cycleVars, floor>>

Recover(s) ==
  /\ s \notin up
  /\ up' = up \cup {s}
  /\ UNCHANGED <<storeVars, taskVars, cycleVars, floor>>

Expire(a) ==
  /\ cache[a] # 0
  /\ cache' = [cache EXCEPT ![a] = 0]
  /\ UNCHANGED <<chain, latest, stored, lost, up, taskVars, cycleVars, floor>>

-----------------------------------------------------------------------------
(***************************************************************************)
(* getScore, one step per await.                                           *)
(***************************************************************************)

MoveTo(t, point, version, source) ==
  /\ pc' = [pc EXCEPT ![t] = point]
  /\ got' = [got EXCEPT ![t] = version]
  /\ from' = [from EXCEPT ![t] = source]

\* A request that has its answer is over; a job goes on to invalidateCache.
Answer(t, version, source) ==
  IF t \in Jobs THEN MoveTo(t, "invalidate", version, source)
  ELSE MoveTo(t, "idle", 0, "none")

\* The worker's accounting of a job that is over.  Promise.all waits for every
\* job of a batch, and a job catches its own errors.
Settle(t, ok) ==
  IF t \in Jobs
  THEN /\ batch' = batch \ {t.address}
       /\ updated' = IF ok THEN updated + 1 ELSE updated
       /\ errors' = IF ok THEN errors ELSE errors + 1
       /\ UNCHANGED <<running, phase, remaining>>
  ELSE UNCHANGED cycleVars

\* Whether Redis answers a call.  stop closes the client of the worker's engine
\* under the jobs that are active; the next one to need it opens another.
RedisAnswers(t) ==
  {"redis" \in up} \cup (IF t \in Jobs /\ ~running THEN {FALSE} ELSE {})

Request(t) ==
  /\ t \in Requests
  /\ pc[t] = "idle"
  /\ MoveTo(t, "readCache", 0, "none")
  /\ UNCHANGED <<storeVars, up, cycleVars, floor>>

\* A cache that does not answer counts as a miss.
ReadCache_DatabaseFirst(t) ==
  /\ pc[t] = "readCache"
  /\ \E answers \in RedisAnswers(t) :
     IF answers /\ cache[t.address] # 0
     THEN Answer(t, cache[t.address], "cache")
     ELSE MoveTo(t, IF latest[t.address] # 0 THEN "readDB" ELSE "fetch",
                 0, "none")
  /\ UNCHANGED <<storeVars, up, cycleVars, floor>>

ReadCache(t) ==
  /\ pc[t] = "readCache"
  /\ \E answers \in RedisAnswers(t) :
     IF answers /\ cache[t.address] # 0
     THEN Answer(t, cache[t.address], "cache")
     ELSE MoveTo(t, "fetch", 0, "none")
  /\ UNCHANGED <<storeVars, up, cycleVars, floor>>

\* A missing score is an error as much as a failed call is.
FetchOnChain_CachesFirst(t) ==
  /\ pc[t] = "fetch"
  /\ IF "rpc" \in up /\ chain[t.address] # 0
     THEN /\ MoveTo(t, "persist", chain[t.address], "chain")
          /\ cache' = [cache EXCEPT ![t.address] =
                         IF "redis" \in up THEN chain[t.address] ELSE @]
     ELSE MoveTo(t, "readDB", 0, "none") /\ UNCHANGED cache
  /\ UNCHANGED <<chain, latest, stored, lost, up, cycleVars, floor>>

FetchOnChain(t) ==
  /\ pc[t] = "fetch"
  /\ IF "rpc" \in up /\ chain[t.address] # 0
     THEN MoveTo(t, "persist", chain[t.address], "chain")
     ELSE MoveTo(t, "readDB", 0, "none")
  /\ UNCHANGED <<storeVars, up, cycleVars, floor>>

\* The snapshot is dated by its insertion; a failure is only logged.
PersistSnapshot(t) ==
  LET a == t.address IN
  /\ pc[t] = "persist"
  /\ IF "postgres" \in up
     THEN /\ latest' = [latest EXCEPT ![a] = got[t]]
          /\ stored' = [stored EXCEPT ![a] = @ \cup {got[t]}]
          /\ UNCHANGED lost
     ELSE /\ lost' = [lost EXCEPT ![a] = @ \cup {got[t]}]
          /\ UNCHANGED <<latest, stored>>
  /\ MoveTo(t, "store", got[t], from[t])
  /\ UNCHANGED <<chain, cache, up, cycleVars, floor>>

\* With neither a score on chain nor a snapshot, getScore throws.
ReadDB(t) ==
  /\ pc[t] = "readDB"
  /\ IF "postgres" \in up /\ latest[t.address] # 0
     THEN MoveTo(t, "store", latest[t.address], "db") /\ UNCHANGED cycleVars
     ELSE MoveTo(t, "idle", 0, "none") /\ Settle(t, FALSE)
  /\ UNCHANGED <<storeVars, up, floor>>

SetCache(t) ==
  /\ pc[t] = "store"
  /\ \E answers \in RedisAnswers(t) :
       cache' = [cache EXCEPT ![t.address] = IF answers THEN got[t] ELSE @]
  /\ Answer(t, got[t], from[t])
  /\ UNCHANGED <<chain, latest, stored, lost, up, cycleVars, floor>>

-----------------------------------------------------------------------------
(***************************************************************************)
(* The worker.                                                             *)
(***************************************************************************)

\* With Redis down, del fails on a client that was connected before, and is
\* skipped by an engine that never got a client.
InvalidateCache_CountsFirst(t) ==
  /\ pc[t] = "invalidate"
  /\ IF "redis" \in up
     THEN cache' = [cache EXCEPT ![t.address] = 0] /\ Settle(t, TRUE)
     ELSE /\ UNCHANGED cache
          /\ batch' = batch \ {t.address}
          /\ updated' = updated + 1
          /\ errors' \in {errors, errors + 1}
          /\ UNCHANGED <<running, phase, remaining>>
  /\ MoveTo(t, "idle", 0, "none")
  /\ UNCHANGED <<chain, latest, stored, lost, up, floor>>

InvalidateCache(t) ==
  LET a == t.address IN
  /\ pc[t] = "invalidate"
  /\ \E answers \in RedisAnswers(t) :
       IF answers
       THEN /\ cache' = [cache EXCEPT ![a] = 0]
            /\ floor' = [floor EXCEPT ![a] =
                           IF from[t] = "chain" THEN got[t] ELSE @]
            /\ Settle(t, TRUE)
       ELSE /\ UNCHANGED <<cache, floor>>
            /\ \E ok \in BOOLEAN : Settle(t, ok)
  /\ MoveTo(t, "idle", 0, "none")
  /\ UNCHANGED <<chain, latest, stored, lost, up>>

\* The timer fires and run() lists the identities.  If that fails the cycle
\* is over at once, and the timer is set again as it is after any cycle.
StartCycle_NoRearm ==
  /\ phase = "armed"
  /\ IF "postgres" \in up
     THEN /\ phase' = "cycle" /\ remaining' = Addresses
          /\ updated' = 0 /\ errors' = 0
     ELSE phase' = "off" /\ UNCHANGED <<remaining, updated, errors>>
  /\ UNCHANGED <<storeVars, up, taskVars, running, batch, floor>>

StartCycle ==
  /\ phase = "armed"
  /\ "postgres" \in up
  /\ phase' = "cycle"
  /\ remaining' = Addresses
  /\ updated' = 0 /\ errors' = 0
  /\ UNCHANGED <<storeVars, up, taskVars, running, batch, floor>>

\* The next BATCH_SIZE identities, in whatever order Postgres listed them.
StartBatch ==
  /\ phase = "cycle"
  /\ batch = {}
  /\ remaining # {}
  /\ \E b \in SUBSET remaining :
       /\ IF Cardinality(remaining) <= BatchSize THEN b = remaining
          ELSE Cardinality(b) = BatchSize
       /\ batch' = b
       /\ remaining' = remaining \ b
       /\ pc' = [t \in Tasks |->
                   IF t \in Jobs /\ t.address \in b THEN "readCache" ELSE pc[t]]
  /\ UNCHANGED <<storeVars, up, got, from, running, phase, updated, errors,
                 floor>>

EndCycle ==
  /\ phase = "cycle"
  /\ batch = {} /\ remaining = {}
  /\ phase' = IF running THEN "armed" ELSE "off"
  /\ UNCHANGED <<storeVars, up, taskVars, running, remaining, batch, updated,
                 errors, floor>>

\* A cycle that is active goes on to its end.  The engine's client is closed:
\* see RedisAnswers.
Stop ==
  /\ running
  /\ running' = FALSE
  /\ phase' = IF phase = "armed" THEN "off" ELSE phase
  /\ UNCHANGED <<storeVars, up, taskVars, remaining, batch, updated, errors,
                 floor>>

-----------------------------------------------------------------------------

Advance(t) ==
  \/ ReadCache(t) \/ FetchOnChain(t) \/ PersistSnapshot(t)
  \/ ReadDB(t) \/ SetCache(t) \/ InvalidateCache(t)

Work == StartCycle \/ StartBatch \/ EndCycle

Next ==
  \/ \E a \in Addresses : Compute(a) \/ Expire(a)
  \/ \E s \in Services : Fail(s) \/ Recover(s)
  \/ \E t \in Tasks : Request(t) \/ Advance(t)
  \/ Work
  \/ Stop

\* A call that has to wait for Redis: its client queues commands while it
\* reconnects, and getRedis awaits the first connection.
WaitsForRedis(t) ==
  pc[t] \in {"readCache", "store", "invalidate"} /\ "redis" \notin up

\* Calls of services that answer return, and the others fail, except that a
\* call of Redis may wait for it.  An entry's time to live runs out and the
\* timer of the worker fires.  Nothing makes a service recover, a client ask
\* or the contract compute.
Fairness ==
  /\ \A t \in Tasks : WF_vars(Advance(t) /\ ~WaitsForRedis(t))
  /\ \A a \in Addresses : WF_vars(Expire(a))
  /\ WF_vars(Work)

Spec == Init /\ [][Next]_vars
FairSpec == Spec /\ Fairness

-----------------------------------------------------------------------------
(***************************************************************************)
(* Safety.                                                                 *)
(***************************************************************************)

\* "Every on-chain fetch persists a row" before its score is published: what
\* the cache or a call about to fill it holds is a computed score that has a
\* snapshot, unless Postgres refused the snapshot of that very score.
PublishedIsRecorded ==
  /\ \A a \in Addresses :
       cache[a] # 0 => cache[a] \in stored[a] \cup lost[a]
  /\ \A t \in Tasks :
       pc[t] \in {"store", "invalidate"} =>
         got[t] \in stored[t.address] \cup lost[t.address]

\* A cycle accounts for every identity exactly once, whichever of its calls
\* fail and whether or not the worker is stopped meanwhile: each one is
\* updated, in error, in the current batch or still to come, and exactly the
\* jobs of the current batch are in flight.
CycleAccounts ==
  /\ phase = "cycle" =>
       updated + errors + Cardinality(batch) + Cardinality(remaining)
         = Cardinality(Addresses)
  /\ \A t \in Jobs : pc[t] # "idle" <=> t.address \in batch
  /\ Cardinality(batch) <= BatchSize
  /\ phase # "cycle" => batch = {} /\ remaining = {}

-----------------------------------------------------------------------------
(***************************************************************************)
(* Liveness.                                                               *)
(***************************************************************************)

\* A stale entry does not survive: if the contract can be reached from some
\* time on, the cache ends up holding the current score or nothing, however
\* slow calls, failures and invalidations were interleaved before.
CacheConverges ==
  <>[]("rpc" \in up) =>
    \A a \in Addresses : <>[](cache[a] \in {0, chain[a]})

\* The worker's purpose: while it runs and the services answer, the score that
\* is current on chain gets a snapshot, even if nobody asks for it and even if
\* an earlier attempt to record it failed.
SnapshotsFollow ==
  <>[](up = Services /\ running) =>
    \A a \in Addresses : <>[](chain[a] # 0 => chain[a] \in stored[a])

-----------------------------------------------------------------------------
(***************************************************************************)
(* Claims of the documentation the code does not keep.                     *)
(***************************************************************************)

\* "every successful recompute deletes the Redis key, ensuring the next query
\* fetches the fresh score" (docs/scoring-model.md:243-244): once a job has
\* fetched a score and deleted the key, no older score is cached.
InvalidationSticks ==
  \A a \in Addresses : cache[a] # 0 => cache[a] >= floor[a]

\* "getScore() fetches on-chain + persists snapshot" (score-updater.ts:102):
\* a job that succeeds has asked the contract, not the cache.
JobsAskTheContract ==
  \A t \in Jobs : pc[t] = "invalidate" => from[t] # "cache"

=============================================================================
