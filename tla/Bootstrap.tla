----------------------------- MODULE Bootstrap -----------------------------
(***************************************************************************)
(* The life of the backend process (main in src/backend/src/index.ts):     *)
(* Postgres, then the workers, then the HTTP server, and a shutdown that   *)
(* lets the server drain, stops the workers, disconnects Postgres and      *)
(* exits, unless ten seconds pass first.                                   *)
(*                                                                         *)
(* Every await is a point where requests, the workers' timers and signals  *)
(* run.  Node's HTTP server, node-redis and Prisma are external: a server  *)
(* emits "close" whenever it is not listening and has no connection left,  *)
(* a client that cannot reach Redis keeps trying, and a query after        *)
(* $disconnect connects again.  What the workers do is ScoreService,       *)
(* Indexer and EventListener.                                              *)
(***************************************************************************)
EXTENDS Naturals, FiniteSets

CONSTANTS
  MaxConnections,  \* bound: connections of the server
  MaxShutdowns     \* bound: calls of shutdown

ASSUME BoundsAssumption == MaxConnections \in Nat /\ MaxShutdowns \in Nat \ {0}

Calls == 1..MaxShutdowns
Loops == {"updater", "poller"}

VARIABLES
  process,    \* "connecting" (Postgres), "waiting" (for Redis, in
              \* eventListener.start), "up", or ended: "exit0", "exit1", "killed"
  configured, \* of the environment, and constant: REDIS_URL is set
  redisUp,    \* of the environment: Redis answers
  redis,      \* the indexer's client: "none", "open" or "closed"
  db,         \* Prisma holds connections to Postgres
  listening,  \* the HTTP server accepts connections
  active,     \* requests being handled, one per connection
  idle,       \* connections kept alive between requests
  loop,       \* per worker: its timer is "armed", its job is "busy", the job
              \* goes on after stop ("leftover"), or it is "off"
  shutdowns,  \* calls of shutdown so far, each with its ten-second timer
  callback,   \* per call: what server.close was given: "none", "registered",
              \* "stopping" the listener, "disconnecting", "exiting", "rejected"
  reason      \* ghost: why shutdown was called: "none", "signal" or "error"

environment == <<configured, redisUp>>
serverVars == <<listening, active, idle>>
shutdownVars == <<shutdowns, callback, reason>>
vars == <<process, environment, redis, db, serverVars, loop, shutdownVars>>

Ended == process \in {"exit0", "exit1", "killed"}

TypeOK ==
  /\ process \in {"connecting", "waiting", "up", "exit0", "exit1", "killed"}
  /\ configured \in BOOLEAN /\ redisUp \in BOOLEAN
  /\ redis \in {"none", "open", "closed"}
  /\ db \in BOOLEAN
  /\ listening \in BOOLEAN
  /\ active \in 0..MaxConnections /\ idle \in 0..MaxConnections
  /\ active + idle <= MaxConnections
  /\ loop \in [Loops -> {"off", "armed", "busy", "leftover"}]
  /\ shutdowns \in 0..MaxShutdowns
  /\ callback \in [Calls -> {"none", "registered", "stopping",
                             "disconnecting", "exiting", "rejected"}]
  /\ reason \in {"none", "signal", "error"}

Init ==
  /\ process = "connecting"
  /\ configured \in BOOLEAN /\ redisUp \in BOOLEAN
  /\ redis = "none"
  /\ db = FALSE
  /\ listening = FALSE /\ active = 0 /\ idle = 0
  /\ loop = [l \in Loops |-> "off"]
  /\ shutdowns = 0
  /\ callback = [k \in Calls |-> "none"]
  /\ reason = "none"

-----------------------------------------------------------------------------
\* Definitions named X_Y are faulty variants of X, used to see that a property
\* notices the fault; nothing else refers to them.

(***************************************************************************)
(* Startup.                                                                *)
(***************************************************************************)

\* prisma.$connect; then scoreUpdater.start, and eventListener.start as far as
\* the connection to Redis.
ConnectDatabase ==
  /\ process = "connecting"
  /\ \/ /\ process' = "waiting" /\ db' = TRUE
        /\ loop' = [loop EXCEPT !["updater"] = "armed"]
     \/ /\ process' = "exit1" /\ UNCHANGED <<db, loop>>
  /\ UNCHANGED <<environment, redis, serverVars, shutdownVars>>

\* Each call registers a callback of its own for the next "close" event.
\* close() ends the idle connections, and no other.
Shutdown(why) ==
  /\ shutdowns < MaxShutdowns
  /\ shutdowns' = shutdowns + 1
  /\ callback' = [callback EXCEPT ![shutdowns + 1] = "registered"]
  /\ reason' = IF reason = "none" THEN why ELSE reason
  /\ listening' = FALSE /\ idle' = 0

\* The rest of main is one callback: the poller's timer, app.listen, and the
\* handlers of signals and errors.  A port in use comes back as an uncaught
\* exception.
Serve_OnceConnected ==
  /\ process = "waiting"
  /\ redisUp /\ configured
  /\ process' = "up"
  /\ redis' = "open"
  /\ loop' = [loop EXCEPT !["poller"] = "armed"]
  /\ \/ listening' = TRUE /\ UNCHANGED <<idle, shutdownVars>>
     \/ Shutdown("error")
  /\ UNCHANGED <<environment, db, active>>

Serve ==
  /\ process = "waiting"
  /\ redisUp \/ ~configured
  /\ process' = "up"
  /\ redis' = IF configured THEN "open" ELSE "none"
  /\ loop' = [loop EXCEPT !["poller"] = "armed"]
  /\ \/ listening' = TRUE /\ UNCHANGED <<idle, shutdownVars>>
     \/ Shutdown("error")
  /\ UNCHANGED <<environment, db, active>>

-----------------------------------------------------------------------------
(***************************************************************************)
(* Requests and the workers' jobs.                                         *)
(***************************************************************************)

\* A request comes over a new connection, or over one kept alive.
Request ==
  /\ process = "up"
  /\ \/ listening /\ active + idle < MaxConnections /\ UNCHANGED idle
     \/ idle > 0 /\ idle' = idle - 1
  /\ active' = active + 1
  /\ UNCHANGED <<process, environment, redis, db, listening, loop, shutdownVars>>

\* The answer is sent; the connection is closed or kept.
Answer ==
  /\ process = "up"
  /\ active > 0
  /\ active' = active - 1
  /\ idle' \in {idle, idle + 1}
  /\ UNCHANGED <<process, environment, redis, db, listening, loop, shutdownVars>>

\* An idle connection is closed by the client or by keepAliveTimeout.
CloseIdle ==
  /\ process = "up"
  /\ idle > 0
  /\ idle' = idle - 1
  /\ UNCHANGED <<process, environment, redis, db, listening, active, loop,
                 shutdownVars>>

RunJob(l) ==
  /\ ~Ended
  /\ loop[l] = "armed"
  /\ loop' = [loop EXCEPT ![l] = "busy"]
  /\ UNCHANGED <<process, environment, redis, db, serverVars, shutdownVars>>

FinishJob_Rearms(l) ==
  /\ ~Ended
  /\ loop[l] \in {"busy", "leftover"}
  /\ loop' = [loop EXCEPT ![l] = "armed"]
  /\ UNCHANGED <<process, environment, redis, db, serverVars, shutdownVars>>

\* finally: the timer is set again, unless the worker has been stopped.
FinishJob(l) ==
  /\ ~Ended
  /\ loop[l] \in {"busy", "leftover"}
  /\ loop' = [loop EXCEPT ![l] = IF @ = "busy" THEN "armed" ELSE "off"]
  /\ UNCHANGED <<process, environment, redis, db, serverVars, shutdownVars>>

\* A query of a job after $disconnect connects again.
Query(l) ==
  /\ ~Ended
  /\ loop[l] \in {"busy", "leftover"}
  /\ ~db
  /\ db' = TRUE
  /\ UNCHANGED <<process, environment, redis, serverVars, loop, shutdownVars>>

-----------------------------------------------------------------------------
(***************************************************************************)
(* Shutdown.                                                               *)
(***************************************************************************)

\* Without a handler a signal ends the process, and so does an exception.
Signal ==
  /\ ~Ended
  /\ IF process = "up"
     THEN Shutdown("signal") /\ UNCHANGED process
     ELSE process' = "killed" /\ UNCHANGED <<listening, idle, shutdownVars>>
  /\ UNCHANGED <<environment, redis, db, active, loop>>

UncaughtException ==
  /\ ~Ended
  /\ IF process = "up"
     THEN Shutdown("error") /\ UNCHANGED process
     ELSE process' = "exit1" /\ UNCHANGED <<listening, idle, shutdownVars>>
  /\ UNCHANGED <<environment, redis, db, active, loop>>

Stopped == [l \in Loops |-> IF loop[l] \in {"busy", "leftover"}
                            THEN "leftover" ELSE "off"]

\* The "close" event runs every callback as far as redis.quit: both workers
\* are told to stop, and their timers are cleared.
Closed_DisconnectsAtOnce ==
  /\ process = "up"
  /\ ~listening /\ active + idle = 0
  /\ \E k \in Calls : callback[k] = "registered"
  /\ callback' = [k \in Calls |-> IF callback[k] = "registered"
                                  THEN "exiting" ELSE callback[k]]
  /\ loop' = Stopped
  /\ UNCHANGED <<process, environment, redis, db, serverVars, shutdowns, reason>>

Closed ==
  /\ process = "up"
  /\ ~listening /\ active + idle = 0
  /\ \E k \in Calls : callback[k] = "registered"
  /\ callback' = [k \in Calls |-> IF callback[k] = "registered"
                                  THEN "stopping" ELSE callback[k]]
  /\ loop' = Stopped
  /\ UNCHANGED <<process, environment, redis, db, serverVars, shutdowns, reason>>

\* A client that is closed refuses to quit; one that cannot reach Redis waits
\* or refuses.  A callback that is refused goes no further.
QuitRedis(k) ==
  /\ process = "up"
  /\ callback[k] = "stopping"
  /\ \/ /\ redis = "none" \/ (redis = "open" /\ redisUp)
        /\ callback' = [callback EXCEPT ![k] = "disconnecting"]
     \/ /\ redis = "closed" \/ (redis = "open" /\ ~redisUp)
        /\ callback' = [callback EXCEPT ![k] = "rejected"]
  /\ redis' = IF redis = "open" THEN "closed" ELSE redis
  /\ UNCHANGED <<process, environment, db, serverVars, loop, shutdowns, reason>>

DisconnectDatabase(k) ==
  /\ process = "up"
  /\ callback[k] = "disconnecting"
  /\ db' = FALSE
  /\ callback' = [callback EXCEPT ![k] = "exiting"]
  /\ UNCHANGED <<process, environment, redis, serverVars, loop, shutdowns, reason>>

Exit(k) ==
  /\ process = "up"
  /\ callback[k] = "exiting"
  /\ process' = "exit0"
  /\ UNCHANGED <<environment, redis, db, serverVars, loop, shutdownVars>>

ForceExit_SetInCallback ==
  /\ process = "up"
  /\ \E k \in Calls : callback[k] \notin {"none", "registered"}
  /\ process' = "exit1"
  /\ UNCHANGED <<environment, redis, db, serverVars, loop, shutdownVars>>

ForceExit ==
  /\ process = "up"
  /\ shutdowns > 0
  /\ process' = "exit1"
  /\ UNCHANGED <<environment, redis, db, serverVars, loop, shutdownVars>>

\* Redis fails and recovers.  An open client reconnects by itself.
RedisChanges ==
  /\ ~Ended
  /\ redisUp' = ~redisUp
  /\ UNCHANGED <<process, configured, redis, db, serverVars, loop, shutdownVars>>

-----------------------------------------------------------------------------
Next ==
  \/ ConnectDatabase \/ Serve \/ RedisChanges
  \/ Request \/ Answer \/ CloseIdle
  \/ \E l \in Loops : RunJob(l) \/ FinishJob(l) \/ Query(l)
  \/ Signal \/ UncaughtException
  \/ Closed \/ ForceExit
  \/ \E k \in Calls : QuitRedis(k) \/ DisconnectDatabase(k) \/ Exit(k)

\* Postgres answers or refuses, a client that can reach Redis connects, and a
\* timer fires.  A request or a job need never end.
Fairness == WF_vars(ConnectDatabase) /\ WF_vars(Serve) /\ WF_vars(ForceExit)

Spec == Init /\ [][Next]_vars
FairSpec == Spec /\ Fairness

-----------------------------------------------------------------------------
(***************************************************************************)
(* Safety.                                                                 *)
(***************************************************************************)

\* No request is handled without Postgres: prisma.$disconnect comes after the
\* server has drained, whichever of several shutdowns gets there first.
DatabaseUnderRequests == active > 0 => db

\* The exit code 0 means that nothing was cut off but jobs that the workers
\* had begun before they were stopped: no connection is left, no timer of a
\* worker is armed, and the indexer has given up its Redis client.
CleanExit ==
  process = "exit0" =>
    /\ ~listening /\ active + idle = 0
    /\ redis # "open"
    /\ \A l \in Loops : loop[l] \in {"off", "leftover"}

\* The shutdown stops everything in an order in which nothing is cut off.
StopsInOrder == DatabaseUnderRequests /\ CleanExit

\* A worker that has been stopped begins no job, even when the stop came while
\* one was running and the job's end would have set the timer again.
NoJobAfterStop ==
  [][\A l \in Loops :
       process = "up" /\ loop[l] \in {"off", "leftover"}
         => loop'[l] \in {"off", "leftover"}]_vars

-----------------------------------------------------------------------------
(***************************************************************************)
(* Liveness.                                                               *)
(***************************************************************************)

\* A shutdown that has begun ends the process, even if a request never
\* finishes, a job hangs or Redis does not let the indexer quit.
ShutdownEnds == (shutdowns > 0) ~> Ended

\* The process comes up, or ends, if Redis is not configured or recovers.
ComesUp ==
  <>[](redisUp \/ ~configured) =>
    (process = "connecting" ~> (process = "up" \/ Ended))

-----------------------------------------------------------------------------
(***************************************************************************)
(* Claims of the documentation the code does not keep.                     *)
(***************************************************************************)

\* stellar-indexer.ts:326 goes on when "Redis not available".  node-redis does
\* not give up its first connection, so the server never listens.
ComesUpWithoutRedis == process = "connecting" ~> (process = "up" \/ Ended)

\* index.ts:169 ends a failed startup with exit code 1.  A port in use, like
\* any uncaught exception, goes through shutdown and ends with 0.
ErrorsAreReported == process = "exit0" => reason = "signal"

\* index.ts:135 logs "shutting down gracefully".  The exit does not wait for a
\* job of a worker that was running.
JobsAreOver == process = "exit0" => \A l \in Loops : loop[l] = "off"

=============================================================================
