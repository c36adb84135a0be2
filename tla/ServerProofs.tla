---------------------------- MODULE ServerProofs ----------------------------
(***************************************************************************)
(* Theorems about the two parts of src/backend/src/index.ts: Bootstrap,    *)
(* for any number of connections and of calls of shutdown, and Gateway,    *)
(* for any accounts, limits and durations.                                 *)
(***************************************************************************)
EXTENDS Bootstrap, Gateway, FiniteSetTheorems, TLAPS

-----------------------------------------------------------------------------
(***************************************************************************)
(* BOOTSTRAP.                                                              *)
(***************************************************************************)

(***************************************************************************)
(* The inductive invariant.  A callback of server.close that has begun     *)
(* finds the server drained and the workers stopped, and both stay so: the *)
(* server never listens again.                                             *)
(***************************************************************************)

Begun == {"stopping", "disconnecting", "exiting", "rejected"}

Drained ==
  /\ ~listening /\ active = 0 /\ idle = 0
  /\ \A l \in Loops : loop[l] \in {"off", "leftover"}

BeforeServe ==
  process \in {"connecting", "waiting"} =>
    /\ ~listening /\ active = 0 /\ idle = 0
    /\ \A k \in Calls : callback[k] = "none"

Callbacks ==
  \A k \in Calls :
    /\ callback[k] # "none" => ~listening
    /\ callback[k] \in Begun => Drained
    /\ callback[k] \in {"disconnecting", "exiting", "rejected"} => redis # "open"

\* Postgres is there for whoever holds or may open a connection.
Database ==
  /\ process = "waiting" => db
  /\ listening \/ active + idle > 0 => db

Exits == process = "exit0" => \E k \in Calls : callback[k] = "exiting"

Order == BeforeServe /\ Callbacks /\ Database /\ Exits

Kept == TypeOK /\ Order

LEMMA InitKept == Init => Kept
<1> SUFFICES ASSUME Init PROVE Kept
  OBVIOUS
<1>1. TypeOK
  <2>1. /\ active \in 0..MaxConnections /\ idle \in 0..MaxConnections
        /\ active + idle <= MaxConnections /\ shutdowns \in 0..MaxShutdowns
    BY BoundsAssumption DEF Init
  <2>2. loop \in [Loops -> {"off", "armed", "busy", "leftover"}]
    BY DEF Init
  <2>3. callback \in [Calls -> {"none", "registered", "stopping",
                                "disconnecting", "exiting", "rejected"}]
    BY DEF Init
  <2> QED
    BY <2>1, <2>2, <2>3 DEF Init, TypeOK
<1>2. \A k \in Calls : callback[k] = "none"
  BY DEF Init
<1>3. Order
  BY <1>2 DEF Init, Order, BeforeServe, Callbacks, Database, Exits, Begun
<1> QED
  BY <1>1, <1>3 DEF Kept

-----------------------------------------------------------------------------
(***************************************************************************)
(* Type correctness of a step.                                             *)
(***************************************************************************)

LEMMA ShutdownTyped ==
  ASSUME TypeOK, NEW why \in {"signal", "error"}, Shutdown(why)
  PROVE  /\ shutdowns' \in 0..MaxShutdowns
         /\ callback' \in [Calls -> {"none", "registered", "stopping",
                                     "disconnecting", "exiting", "rejected"}]
         /\ reason' \in {"none", "signal", "error"}
         /\ ~listening' /\ listening' \in BOOLEAN /\ idle' = 0
         /\ \A k \in Calls : callback'[k] \in {callback[k], "registered"}
<1>1. shutdowns + 1 \in Calls /\ shutdowns + 1 \in 0..MaxShutdowns
  BY BoundsAssumption DEF TypeOK, Shutdown, Calls
<1> QED
  BY <1>1 DEF TypeOK, Shutdown

LEMMA TypeNext ==
  ASSUME TypeOK, [Next]_vars
  PROVE  TypeOK'
<1> USE BoundsAssumption DEF TypeOK, environment, serverVars, shutdownVars
<1>1. CASE ConnectDatabase
  BY <1>1 DEF ConnectDatabase
<1>2. CASE Serve
  <2>1. CASE Shutdown("error")
    <3>1. /\ shutdowns' \in 0..MaxShutdowns
          /\ callback' \in [Calls -> {"none", "registered", "stopping",
                                      "disconnecting", "exiting", "rejected"}]
          /\ reason' \in {"none", "signal", "error"}
          /\ listening' \in BOOLEAN /\ idle' = 0
      BY <2>1, ShutdownTyped
    <3>2. loop' \in [Loops -> {"off", "armed", "busy", "leftover"}]
      BY <1>2 DEF Serve
    <3> QED
      BY <1>2, <3>1, <3>2 DEF Serve
  <2>2. CASE listening' = TRUE /\ UNCHANGED <<idle, shutdownVars>>
    BY <1>2, <2>2 DEF Serve
  <2> QED
    BY <1>2, <2>1, <2>2 DEF Serve
<1>3. CASE RedisChanges
  BY <1>3 DEF RedisChanges
<1>4. CASE Request
  BY <1>4 DEF Request
<1>5. CASE Answer
  <2>1. /\ active' \in 0..MaxConnections /\ idle' \in 0..MaxConnections
        /\ active' + idle' <= MaxConnections
    <3>1. CASE idle' = idle
      BY <1>5, <3>1 DEF Answer
    <3>2. CASE idle' = idle + 1
      BY <1>5, <3>2 DEF Answer
    <3> QED
      BY <1>5, <3>1, <3>2 DEF Answer
  <2> QED
    BY <1>5, <2>1 DEF Answer
<1>6. CASE CloseIdle
  BY <1>6 DEF CloseIdle
<1>7. ASSUME NEW l \in Loops, RunJob(l) \/ FinishJob(l) \/ Query(l)
      PROVE  TypeOK'
  <2>1. CASE RunJob(l)
    BY <2>1 DEF RunJob
  <2>2. CASE FinishJob(l)
    <3>1. loop' \in [Loops -> {"off", "armed", "busy", "leftover"}]
      BY <2>2 DEF FinishJob
    <3> QED
      BY <2>2, <3>1 DEF FinishJob
  <2>3. CASE Query(l)
    BY <2>3 DEF Query
  <2> QED
    BY <1>7, <2>1, <2>2, <2>3
<1>8. CASE Signal
  <2>1. CASE Shutdown("signal") /\ UNCHANGED process
    BY <1>8, <2>1, ShutdownTyped DEF Signal
  <2>2. CASE process' = "killed" /\ UNCHANGED <<listening, idle, shutdownVars>>
    BY <1>8, <2>2 DEF Signal
  <2> QED
    BY <1>8, <2>1, <2>2 DEF Signal
<1>9. CASE UncaughtException
  <2>1. CASE Shutdown("error") /\ UNCHANGED process
    BY <1>9, <2>1, ShutdownTyped DEF UncaughtException
  <2>2. CASE process' = "exit1" /\ UNCHANGED <<listening, idle, shutdownVars>>
    BY <1>9, <2>2 DEF UncaughtException
  <2> QED
    BY <1>9, <2>1, <2>2 DEF UncaughtException
<1>10. CASE Closed
  BY <1>10 DEF Closed, Stopped
<1>11. CASE ForceExit
  BY <1>11 DEF ForceExit
<1>12. ASSUME NEW k \in Calls, QuitRedis(k) \/ DisconnectDatabase(k) \/ Exit(k)
       PROVE  TypeOK'
  BY <1>12 DEF QuitRedis, DisconnectDatabase, Exit
<1>13. CASE UNCHANGED vars
  BY <1>13 DEF vars
<1> QED
  BY <1>1, <1>2, <1>3, <1>4, <1>5, <1>6, <1>7, <1>8, <1>9, <1>10, <1>11,
     <1>12, <1>13 DEF Next

-----------------------------------------------------------------------------
(***************************************************************************)
(* The order of startup and shutdown in a step.                            *)
(***************************************************************************)

\* A step that touches neither the server nor what a shutdown does.
LEMMA Elsewhere ==
  ASSUME Kept, UNCHANGED <<process, redis, serverVars, shutdownVars>>, db => db',
         \A l \in Loops : loop[l] \in {"off", "leftover"}
                            => loop'[l] \in {"off", "leftover"}
  PROVE  Order'
BY DEF Kept, Order, BeforeServe, Callbacks, Database, Exits, Drained,
       serverVars, shutdownVars

\* A call of shutdown: its callback is registered, and the server listens no
\* longer.
LEMMA ShutdownOrder ==
  ASSUME Kept, NEW why \in {"signal", "error"}, Shutdown(why),
         process \in {"waiting", "up"}, process' = "up",
         active' = active, db' = db,
         process = "up" => redis' = redis /\ loop' = loop
  PROVE  Order'
<1>1. /\ ~listening' /\ idle' = 0
      /\ \A k \in Calls : callback'[k] \in {callback[k], "registered"}
  BY ShutdownTyped DEF Kept
<1>2. BeforeServe' /\ Exits'
  BY DEF BeforeServe, Exits
<1>3. Callbacks'
  <2> SUFFICES ASSUME NEW k \in Calls
               PROVE  /\ callback'[k] # "none" => ~listening'
                      /\ callback'[k] \in Begun => Drained'
                      /\ callback'[k] \in {"disconnecting", "exiting", "rejected"}
                           => redis' # "open"
    BY DEF Callbacks
  <2>1. CASE callback'[k] = "registered"
    BY <1>1, <2>1 DEF Begun
  <2>2. CASE process = "waiting" /\ callback'[k] = callback[k]
    BY <1>1, <2>2 DEF Kept, Order, BeforeServe, Begun
  <2>3. CASE process = "up" /\ callback'[k] = callback[k]
    BY <1>1, <2>3 DEF Kept, Order, Callbacks, Begun, Drained
  <2> QED
    BY <1>1, <2>1, <2>2, <2>3
<1>4. Database'
  <2>1. active + idle > 0 => db
    BY DEF Kept, Order, Database
  <2>2. active \in Nat /\ idle \in Nat
    BY BoundsAssumption DEF Kept, TypeOK
  <2>3. active' + idle' > 0 => active + idle > 0
    BY <1>1, <2>2
  <2> QED
    BY <1>1, <2>1, <2>3 DEF Database
<1> QED
  BY <1>2, <1>3, <1>4 DEF Order

\* The process has ended without exit code 0: all that is left is Postgres.
LEMMA KilledOrder ==
  ASSUME Kept, process' \in {"exit1", "killed"},
         UNCHANGED <<redis, db, serverVars, loop, shutdownVars>>
  PROVE  Order'
BY DEF Kept, Order, BeforeServe, Callbacks, Database, Exits, Drained,
       serverVars, shutdownVars

\* Connections come and go only while one is held or the server listens.
LEMMA ConnectionOrder ==
  ASSUME Kept, process = "up", Request \/ Answer \/ CloseIdle
  PROVE  Order'
<1>0. active \in Nat /\ idle \in Nat
  BY BoundsAssumption DEF Kept, TypeOK
<1>1. /\ UNCHANGED <<process, redis, db, listening, loop, callback>>
      /\ listening \/ active + idle > 0
  BY <1>0 DEF Request, Answer, CloseIdle, shutdownVars
<1>2. \A k \in Calls : callback[k] \notin Begun
  BY <1>0, <1>1 DEF Kept, Order, Callbacks, Drained
<1>3. db
  BY <1>1 DEF Kept, Order, Database
<1> QED
  BY <1>1, <1>2, <1>3 DEF Kept, Order, BeforeServe, Callbacks, Database, Exits

LEMMA OrderNext ==
  ASSUME Kept, [Next]_vars
  PROVE  Order'
<1>1. CASE ConnectDatabase
  <2>1. \A k \in Calls : callback'[k] = "none"
    BY <1>1 DEF ConnectDatabase, Kept, Order, BeforeServe, shutdownVars
  <2> QED
    BY <1>1, <2>1
       DEF ConnectDatabase, Kept, Order, BeforeServe, Callbacks, Database, Exits,
           Begun, serverVars
<1>2. CASE Serve
  <2>1. CASE Shutdown("error")
    BY <1>2, <2>1, ShutdownOrder DEF Serve
  <2>2. CASE listening' = TRUE /\ UNCHANGED <<idle, shutdownVars>>
    <3>1. \A k \in Calls : callback'[k] = "none"
      BY <1>2, <2>2 DEF Serve, Kept, Order, BeforeServe, shutdownVars
    <3> QED
      BY <1>2, <2>2, <3>1
         DEF Serve, Kept, Order, BeforeServe, Callbacks, Database, Exits, Begun
  <2> QED
    BY <1>2, <2>1, <2>2 DEF Serve
<1>3. CASE RedisChanges
  BY <1>3, Elsewhere DEF RedisChanges
<1>4. CASE Request \/ Answer \/ CloseIdle
  BY <1>4, ConnectionOrder DEF Request, Answer, CloseIdle
<1>5. ASSUME NEW l \in Loops, RunJob(l) \/ FinishJob(l) \/ Query(l)
      PROVE  Order'
  <2>1. UNCHANGED <<process, redis, serverVars, shutdownVars>> /\ (db => db')
    BY <1>5 DEF RunJob, FinishJob, Query
  <2>2. \A m \in Loops : loop[m] \in {"off", "leftover"}
                           => loop'[m] \in {"off", "leftover"}
    BY <1>5 DEF RunJob, FinishJob, Query, Kept, TypeOK
  <2> QED
    BY <2>1, <2>2, Elsewhere
<1>6. CASE Signal
  <2>1. CASE process = "up"
    BY <1>6, <2>1, ShutdownOrder DEF Signal
  <2>2. CASE process # "up"
    BY <1>6, <2>2, KilledOrder DEF Signal, serverVars
  <2> QED
    BY <2>1, <2>2
<1>7. CASE UncaughtException
  <2>1. CASE process = "up"
    BY <1>7, <2>1, ShutdownOrder DEF UncaughtException
  <2>2. CASE process # "up"
    BY <1>7, <2>2, KilledOrder DEF UncaughtException, serverVars
  <2> QED
    BY <2>1, <2>2
<1>8. CASE Closed
  <2>1. Drained'
    <3>1. active \in Nat /\ idle \in Nat
      BY BoundsAssumption DEF Kept, TypeOK
    <3> QED
      BY <1>8, <3>1 DEF Closed, Drained, Stopped, serverVars
  <2>2. \A k \in Calls : /\ callback'[k] # "none" => callback[k] # "none"
                         /\ callback'[k] \in {"disconnecting", "exiting", "rejected"}
                              => callback'[k] = callback[k]
    BY <1>8 DEF Closed
  <2>3. UNCHANGED <<process, redis, db, serverVars>> /\ process = "up"
    BY <1>8 DEF Closed
  <2> QED
    BY <2>1, <2>2, <2>3
       DEF Kept, Order, BeforeServe, Callbacks, Database, Exits, Drained, serverVars
<1>9. CASE ForceExit
  BY <1>9, KilledOrder DEF ForceExit
<1>10. ASSUME NEW k \in Calls, QuitRedis(k)
       PROVE  Order'
  <2>1. /\ UNCHANGED <<process, db, listening, active, idle, loop>>
        /\ process = "up" /\ redis' # "open" /\ callback[k] = "stopping"
    BY <1>10 DEF QuitRedis, serverVars
  <2>2. \A m \in Calls : m # k => callback'[m] = callback[m]
    BY <1>10 DEF QuitRedis, Kept, TypeOK
  <2>3. Drained
    BY <2>1 DEF Kept, Order, Callbacks, Begun
  <2> QED
    BY <2>1, <2>2, <2>3
       DEF Kept, Order, BeforeServe, Callbacks, Database, Exits, Drained
<1>11. ASSUME NEW k \in Calls, DisconnectDatabase(k)
       PROVE  Order'
  <2>1. /\ UNCHANGED <<process, redis, listening, active, idle, loop>>
        /\ process = "up" /\ callback[k] = "disconnecting"
    BY <1>11 DEF DisconnectDatabase, serverVars
  <2>2. \A m \in Calls : m # k => callback'[m] = callback[m]
    BY <1>11 DEF DisconnectDatabase, Kept, TypeOK
  <2>3. Drained /\ redis # "open"
    BY <2>1 DEF Kept, Order, Callbacks, Begun
  <2> QED
    BY <2>1, <2>2, <2>3
       DEF Kept, Order, BeforeServe, Callbacks, Database, Exits, Drained
<1>12. ASSUME NEW k \in Calls, Exit(k)
       PROVE  Order'
  BY <1>12
     DEF Exit, Kept, Order, BeforeServe, Callbacks, Database, Exits, Drained,
         serverVars, shutdownVars
<1>13. CASE UNCHANGED vars
  BY <1>13, Elsewhere DEF vars
<1> QED
  BY <1>1, <1>2, <1>3, <1>4, <1>5, <1>6, <1>7, <1>8, <1>9, <1>10, <1>11,
     <1>12, <1>13 DEF Next

-----------------------------------------------------------------------------
(***************************************************************************)
(* The theorems.                                                           *)
(***************************************************************************)

LEMMA AlwaysKept == Spec => []Kept
<1>1. Kept /\ [Next]_vars => Kept'
  BY TypeNext, OrderNext DEF Kept
<1> QED
  BY <1>1, InitKept, PTL DEF Spec

\* Every variable has its type, and no more connections are held than allowed.
THEOREM TypeCorrect == Spec => []TypeOK
<1>1. Kept => TypeOK
  BY DEF Kept
<1> QED
  BY <1>1, AlwaysKept, PTL

\* However many shutdowns overlap with requests, jobs and errors, Postgres is
\* there for every request, and exit code 0 means that nothing was cut off but
\* jobs that were already running.
THEOREM ShutdownInOrder == Spec => []StopsInOrder
<1>1. Kept => StopsInOrder
  <2> SUFFICES ASSUME Kept PROVE StopsInOrder
    OBVIOUS
  <2>1. active \in Nat /\ idle \in Nat
    BY BoundsAssumption DEF Kept, TypeOK
  <2>2. DatabaseUnderRequests
    BY <2>1 DEF Kept, Order, Database, DatabaseUnderRequests
  <2>3. CleanExit
    BY <2>1 DEF Kept, Order, Exits, Callbacks, Begun, Drained, CleanExit
  <2> QED
    BY <2>2, <2>3 DEF StopsInOrder
<1> QED
  BY <1>1, AlwaysKept, PTL

\* A worker that has been stopped begins no further job.
THEOREM StoppedForGood == Spec => NoJobAfterStop
<1> DEFINE Silent == \A l \in Loops :
                       process = "up" /\ loop[l] \in {"off", "leftover"}
                         => loop'[l] \in {"off", "leftover"}
<1>1. TypeOK /\ [Next]_vars => [Silent]_vars
  <2> SUFFICES ASSUME TypeOK, [Next]_vars, NEW l \in Loops,
                      process = "up", loop[l] \in {"off", "leftover"}
               PROVE  loop'[l] \in {"off", "leftover"}
    OBVIOUS
  <2> QED
    BY DEF Next, vars, ConnectDatabase, Serve, RedisChanges, Request, Answer,
           CloseIdle, RunJob, FinishJob, Query, Signal, UncaughtException,
           Closed, Stopped, ForceExit, QuitRedis, DisconnectDatabase, Exit,
           TypeOK
<1> QED
  BY <1>1, TypeCorrect, PTL DEF Spec, NoJobAfterStop

-----------------------------------------------------------------------------
(***************************************************************************)
(* GATEWAY.                                                                *)
(***************************************************************************)

(***************************************************************************)
(* The inductive invariant: behind every token there is a challenge that   *)
(* its account signed in time.                                             *)
(***************************************************************************)

LoginTyped ==
  /\ now \in Times
  /\ challenges \subseteq Challenge
  /\ tokens \subseteq Token

Proves(c, a) == c \in challenges /\ c.account = a /\ <<a, c>> \in signed

TokensProven ==
  \A t \in tokens :
    \E c \in challenges : Proves(c, t.sub) /\ t.iat <= c.at + Timeout

LoginKept == LoginTyped /\ TokensProven /\ AccountIsProven

LEMMA TimesAreNat == /\ Times \subseteq Nat
                     /\ Timeout \in Nat /\ Expiry \in Nat
BY DurationAssumption DEF Times

LEMMA LoginKeptInit == GatewayInit => LoginKept
BY GatewayBounds
   DEF GatewayInit, LoginKept, LoginTyped, Times, TokensProven, AccountIsProven

\* Nothing that proves a token goes away.
LEMMA ProofsStay ==
  ASSUME LoginKept, challenges \subseteq challenges', signed \subseteq signed',
         tokens' \subseteq tokens
  PROVE  TokensProven'
BY DEF LoginKept, TokensProven, Proves

\* A step on behalf of nobody.
LEMMA NobodyActs ==
  ASSUME LoginKept, LoginTyped', acting' = Nobody,
         challenges \subseteq challenges', signed \subseteq signed',
         tokens' = tokens
  PROVE  LoginKept'
BY ProofsStay DEF LoginKept, AccountIsProven

LEMMA LoginKeptNext == LoginKept /\ [GatewayNext]_gatewayVars => LoginKept'
<1> SUFFICES ASSUME LoginKept, [GatewayNext]_gatewayVars PROVE LoginKept'
  OBVIOUS
<1>0. LoginTyped /\ TokensProven /\ AccountIsProven
  BY DEF LoginKept
<1>1. CASE Tick
  <2>1. now' \in Times
    BY <1>0, <1>1, GatewayBounds DEF Tick, LoginTyped, Times
  <2> QED
    BY <1>0, <1>1, <2>1, NobodyActs DEF Tick, loginVars, LoginTyped
<1>2. CASE Restart
  BY <1>0, <1>2, NobodyActs DEF Restart, loginVars, LoginTyped
<1>3. ASSUME NEW a \in Accounts, BuildChallenge(a)
      PROVE  LoginKept'
  <2>1. PICK ks \in SUBSET Keys :
          \/ challenges' = challenges
          \/ challenges' = challenges \cup {[account |-> a, at |-> now, alike |-> ks]}
    BY <1>3 DEF BuildChallenge
  <2>2. [account |-> a, at |-> now, alike |-> ks] \in Challenge
    BY <1>0 DEF LoginTyped, Challenge
  <2>3. challenges' \subseteq Challenge /\ challenges \subseteq challenges'
    BY <1>0, <2>1, <2>2 DEF LoginTyped
  <2>4. acting' = Nobody /\ UNCHANGED <<now, signed, tokens>>
    BY <1>3 DEF BuildChallenge
  <2> QED
    BY <1>0, <2>3, <2>4, NobodyActs DEF LoginTyped
<1>4. ASSUME NEW a \in Accounts, NEW c \in challenges, Sign(a, c)
      PROVE  LoginKept'
  BY <1>0, <1>4, NobodyActs DEF Sign, LoginTyped
<1>5. ASSUME NEW a \in Accounts, NEW c \in challenges, NEW keys \in SUBSET Keys,
             SubmitChallenge(a, c, keys)
      PROVE  LoginKept'
  <2> DEFINE new == [sub |-> a, iat |-> now]
  <2>0. acting' = Nobody /\ UNCHANGED <<now, challenges, signed>>
    BY <1>5 DEF SubmitChallenge
  <2>1. CASE tokens' = tokens
    BY <1>0, <2>0, <2>1, NobodyActs DEF LoginTyped
  <2>2. CASE Verified(a, c, keys) /\ tokens' = tokens \cup {new}
    <3>1. new \in Token /\ new.sub = a /\ new.iat = now
      BY <1>0 DEF LoginTyped, Token
    <3>2. <<a, c>> \in signed
      <4>1. a \in Found(a, c, keys) /\ a # Server
        BY <2>2, ServerAssumption DEF Verified
      <4> QED
        BY <4>1 DEF Found
    <3>3. Proves(c, a) /\ now <= c.at + Timeout
      BY <2>2, <3>2 DEF Proves, Verified
    <3> HIDE DEF new
    <3>4. TokensProven'
      BY <1>0, <2>0, <2>2, <3>1, <3>3 DEF TokensProven, Proves
    <3>5. LoginTyped'
      BY <1>0, <2>0, <2>2, <3>1 DEF LoginTyped
    <3> QED
      BY <2>0, <3>4, <3>5 DEF LoginKept, AccountIsProven
  <2> QED
    BY <1>5, <2>1, <2>2 DEF SubmitChallenge
<1>6. ASSUME NEW route \in Served, NEW t \in tokens \cup {NoToken}, ApiRequest(route, t)
      PROVE  LoginKept'
  <2>0. UNCHANGED <<now, challenges, signed, tokens>>
    BY <1>6 DEF ApiRequest, loginVars
  <2>1. LoginTyped' /\ TokensProven'
    BY <1>0, <2>0 DEF LoginTyped, TokensProven, Proves
  <2>2. CASE acting' = Nobody
    BY <2>1, <2>2 DEF LoginKept, AccountIsProven
  <2>3. CASE VerifyJWT(t) /\ acting' = t.sub
    <3>1. t \in tokens /\ now < t.iat + Expiry /\ t \in Token
      BY <1>0, <2>3 DEF VerifyJWT, LoginTyped
    <3>2. PICK c \in challenges : Proves(c, t.sub) /\ t.iat <= c.at + Timeout
      BY <1>0, <3>1 DEF TokensProven
    <3>3. now \in Nat /\ t.iat \in Nat /\ c.at \in Nat
      BY <1>0, <3>1, TimesAreNat DEF LoginTyped, Token, Challenge
    <3>4. now < c.at + Timeout + Expiry
      BY <3>1, <3>2, <3>3, TimesAreNat
    <3>5. AccountIsProven'
      BY <2>0, <2>3, <3>2, <3>4 DEF AccountIsProven, Proves
    <3> QED
      BY <2>1, <3>5 DEF LoginKept
  <2> QED
    BY <1>6, <2>2, <2>3 DEF ApiRequest, Account
<1>7. CASE UNCHANGED gatewayVars
  BY <1>7 DEF gatewayVars, loginVars, LoginKept, LoginTyped, TokensProven, AccountIsProven, Proves
<1> QED
  BY <1>1, <1>2, <1>3, <1>4, <1>5, <1>6, <1>7 DEF GatewayNext

-----------------------------------------------------------------------------
\* Whoever a request is handled as has signed a challenge that names him, not
\* longer ago than a challenge and a token last, whatever tokens, challenges
\* and signatures other clients mix.
THEOREM AccountsAreProven == GatewaySpec => []AccountIsProven
<1>1. LoginKept => AccountIsProven
  BY DEF LoginKept
<1> QED
  BY <1>1, LoginKeptInit, LoginKeptNext, PTL DEF GatewaySpec

-----------------------------------------------------------------------------
(***************************************************************************)
(* How many requests a limiter's log holds.                                *)
(***************************************************************************)

\* the requests of the window that is over at time s, and those before it
Within(log, s) == {p \in Requests(log) : s <= p[1] + Window}
Before(log, s) == {p \in Requests(log) : p[1] + Window < s}

LEMMA RequestsMember ==
  ASSUME NEW n \in Nat, NEW log \in [Times -> 0..n]
  PROVE  \A p : p \in Requests(log)
           <=> p \in Times \X (1..n) /\ p[2] <= log[p[1]]
<1> SUFFICES ASSUME NEW p
             PROVE  p \in Requests(log)
                      <=> p \in Times \X (1..n) /\ p[2] <= log[p[1]]
  OBVIOUS
<1>1. p \in Requests(log) <=> \E t \in Times : p \in {t} \X (1..log[t])
  BY DEF Requests
<1>2. ASSUME NEW t \in Times, p \in {t} \X (1..log[t])
      PROVE  p \in Times \X (1..n) /\ p[2] <= log[p[1]]
  BY <1>2
<1>3. ASSUME p \in Times \X (1..n), p[2] <= log[p[1]]
      PROVE  \E t \in Times : p \in {t} \X (1..log[t])
  <2>1. p[1] \in Times /\ log[p[1]] \in 0..n
    BY <1>3
  <2>2. p \in {p[1]} \X (1..log[p[1]])
    BY <1>3, <2>1
  <2> QED
    BY <2>1, <2>2
<1> QED
  BY <1>1, <1>2, <1>3

LEMMA RequestsFinite ==
  ASSUME NEW n \in Nat, NEW log \in [Times -> 0..n]
  PROVE  /\ IsFiniteSet(Requests(log))
         /\ Total(log) \in Nat
<1>1. IsFiniteSet(Times \X (1..n))
  <2>1. IsFiniteSet(Times)
    BY GatewayBounds, FS_Interval DEF Times
  <2>2. IsFiniteSet(1..n)
    BY FS_Interval
  <2> QED
    BY <2>1, <2>2, FS_Product
<1>2. Requests(log) \subseteq Times \X (1..n)
  BY RequestsMember
<1> QED
  BY <1>1, <1>2, FS_Subset, FS_CardinalityType DEF Total

LEMMA PartsFinite ==
  ASSUME NEW n \in Nat, NEW log \in [Times -> 0..n], NEW s \in Nat
  PROVE  /\ IsFiniteSet(Within(log, s)) /\ IsFiniteSet(Before(log, s))
         /\ Cardinality(Within(log, s)) \in Nat
         /\ Cardinality(Before(log, s)) \in Nat
         /\ Cardinality(Within(log, s)) <= Total(log)
         /\ Total(log) = Cardinality(Within(log, s)) + Cardinality(Before(log, s))
<1>1. IsFiniteSet(Requests(log))
  BY RequestsFinite
<1>2. /\ Within(log, s) \subseteq Requests(log)
      /\ Before(log, s) \subseteq Requests(log)
  BY DEF Within, Before
<1>3. /\ IsFiniteSet(Within(log, s)) /\ IsFiniteSet(Before(log, s))
      /\ Cardinality(Within(log, s)) <= Total(log)
  BY <1>1, <1>2, FS_Subset DEF Total
<1>4. Within(log, s) \cap Before(log, s) = {}
  <2>1. \A p \in Requests(log) : p[1] \in Nat
    BY RequestsMember DEF Times
  <2> QED
    BY <2>1, DurationAssumption DEF Within, Before
<1>5. Requests(log) = Within(log, s) \cup Before(log, s)
  <2>1. \A p \in Requests(log) : p[1] \in Nat
    BY RequestsMember DEF Times
  <2> QED
    BY <2>1, DurationAssumption DEF Within, Before
<1>6. Cardinality(Within(log, s)) \in Nat /\ Cardinality(Before(log, s)) \in Nat
  BY <1>3, FS_CardinalityType
<1>7. Cardinality(Within(log, s) \cup Before(log, s))
        = Cardinality(Within(log, s)) + Cardinality(Before(log, s)) - Cardinality({})
  BY <1>3, <1>4, FS_Union
<1> QED
  BY <1>3, <1>5, <1>6, <1>7, FS_EmptySet DEF Total

\* a request at the present time is one more in its window
LEMMA LoggedOnce ==
  ASSUME NEW n \in Nat, NEW log \in [Times -> 0..n], now \in Times,
         NEW s \in Nat, s <= now + Window,
         NEW after, after = [log EXCEPT ![now] = @ + 1]
  PROVE  /\ after \in [Times -> 0..(n + 1)]
         /\ Cardinality(Within(after, s)) = Cardinality(Within(log, s)) + 1
         /\ Before(after, s) = Before(log, s)
<1> DEFINE new == <<now, log[now] + 1>>
<1>0. Times \subseteq Nat /\ Window \in Nat
  BY TimesAreNat, DurationAssumption
<1>1. after \in [Times -> 0..(n + 1)]
  OBVIOUS
<1>2. \A p : p \in Requests(after) <=> p \in Requests(log) \/ p = new
  <2> SUFFICES ASSUME NEW p
               PROVE  p \in Requests(after) <=> p \in Requests(log) \/ p = new
    OBVIOUS
  <2>0. p \in Requests(after) <=> p \in Times \X (1..(n + 1)) /\ p[2] <= after[p[1]]
    <3>1. n + 1 \in Nat
      OBVIOUS
    <3> QED
      BY <1>1, <3>1, RequestsMember
  <2>1. /\ p \in Requests(after) <=> p \in Times \X (1..(n + 1)) /\ p[2] <= after[p[1]]
        /\ p \in Requests(log) <=> p \in Times \X (1..n) /\ p[2] <= log[p[1]]
    BY <2>0, RequestsMember
  <2>2. log[now] \in 0..n
    OBVIOUS
  <2>3. CASE p \in Times \X (1..(n + 1)) /\ p[1] # now
    <3>1. after[p[1]] = log[p[1]] /\ log[p[1]] \in 0..n /\ p # new
      BY <2>3
    <3> QED
      BY <2>1, <2>3, <3>1
  <2>4. CASE p \in Times \X (1..(n + 1)) /\ p[1] = now
    <3>1. after[p[1]] = log[now] + 1 /\ p = <<now, p[2]>> /\ p[2] \in Nat
      BY <2>4
    <3> QED
      BY <2>1, <2>2, <2>4, <3>1
  <2>5. new \in Times \X (1..(n + 1))
    BY <2>2
  <2>6. CASE p \notin Times \X (1..(n + 1))
    BY <2>1, <2>5, <2>6
  <2> QED
    BY <2>3, <2>4, <2>6
<1>3. new \notin Requests(log)
  BY RequestsMember
<1>4. s <= new[1] + Window /\ ~(new[1] + Window < s)
  BY <1>0
<1> HIDE DEF new
<1>5. Within(after, s) = Within(log, s) \cup {new} /\ new \notin Within(log, s)
  BY <1>2, <1>3, <1>4 DEF Within
<1>6. Before(after, s) = Before(log, s)
  BY <1>2, <1>4 DEF Before
<1>7. IsFiniteSet(Within(log, s))
  BY PartsFinite
<1>8. Cardinality(Within(log, s) \cup {new}) = Cardinality(Within(log, s)) + 1
  BY <1>5, <1>7, FS_AddElement
<1> QED
  BY <1>1, <1>5, <1>6, <1>8

\* what the log forgets at time t is not in a window that is over later
NotForgotten(log, t) == [u \in Times |-> IF u + Window <= t THEN 0 ELSE log[u]]

LEMMA Forgotten ==
  ASSUME NEW n \in Nat, NEW log \in [Times -> 0..n], NEW s \in Nat, NEW t \in Nat,
         NEW after, after = NotForgotten(log, t)
  PROVE  /\ after \in [Times -> 0..n]
         /\ Cardinality(Within(after, s)) <= Cardinality(Within(log, s))
         /\ Cardinality(Before(after, s)) <= Cardinality(Before(log, s))
         /\ t < s => Within(after, s) = Within(log, s)
<1>0. Times \subseteq Nat /\ Window \in Nat
  BY TimesAreNat, DurationAssumption
<1>1. after \in [Times -> 0..n]
  BY DEF NotForgotten
<1>2. \A p : p \in Requests(after)
               <=> p \in Requests(log) /\ ~(p[1] + Window <= t)
  <2> SUFFICES ASSUME NEW p
               PROVE  p \in Requests(after)
                        <=> p \in Requests(log) /\ ~(p[1] + Window <= t)
    OBVIOUS
  <2>1. /\ p \in Requests(after) <=> p \in Times \X (1..n) /\ p[2] <= after[p[1]]
        /\ p \in Requests(log) <=> p \in Times \X (1..n) /\ p[2] <= log[p[1]]
    BY <1>1, RequestsMember
  <2>2. CASE p \in Times \X (1..n)
    <3>1. p[1] \in Times /\ p[2] \in 1..n
      BY <2>2
    <3> QED
      BY <2>1, <2>2, <3>1 DEF NotForgotten
  <2> QED
    BY <2>1, <2>2
<1>3. Within(after, s) \subseteq Within(log, s) /\ Before(after, s) \subseteq Before(log, s)
  BY <1>2 DEF Within, Before
<1>4. IsFiniteSet(Within(log, s)) /\ IsFiniteSet(Before(log, s))
  BY PartsFinite
<1>5. /\ Cardinality(Within(after, s)) <= Cardinality(Within(log, s))
      /\ Cardinality(Before(after, s)) <= Cardinality(Before(log, s))
  BY <1>3, <1>4, FS_Subset
<1>6. ASSUME t < s PROVE Within(after, s) = Within(log, s)
  <2>1. \A p \in Requests(log) : p[1] \in Nat
    BY RequestsMember DEF Times
  <2>2. ASSUME NEW p \in Requests(log), s <= p[1] + Window
        PROVE  ~(p[1] + Window <= t)
    <3>1. p[1] \in Nat
      BY <2>1
    <3> QED
      BY <1>0, <1>6, <2>2, <3>1
  <2> QED
    BY <1>2, <2>2 DEF Within
<1> QED
  BY <1>1, <1>5, <1>6

-----------------------------------------------------------------------------
(***************************************************************************)
(* The windows of the limiters.  What a limiter let pass in the last       *)
(* window's time belongs to its present window or to the one before, and   *)
(* of each it let pass no more than its maximum.  As long as a window is   *)
(* not over, its hits are requests that are still in the log: one hit      *)
(* each, or two of apiRateLimit.                                           *)
(***************************************************************************)

RatesTyped ==
  /\ now \in Times
  /\ sent \in 0..MaxRequests
  /\ counter \in [Limiters -> [hits : 0..(2 * sent), reset : 0..(MaxTime + Window)]]
  /\ reached \in [Limiters -> [Times -> 0..sent]]
  /\ passed \in [Limiters -> [Times -> 0..sent]]

HitsPerRequest(l) == IF l = "api" THEN 2 ELSE 1

\* the requests of a log are recent, and none is later than the window
Recorded(log, s) ==
  \A t \in Times : log[t] > 0 => t <= now /\ now < t + Window /\ t < s

WindowKept(l) ==
  LET s == counter[l].reset IN
  /\ s <= now + Window
  /\ Recorded(reached[l], s) /\ Recorded(passed[l], s)
  /\ Cardinality(Within(passed[l], s)) <= counter[l].hits
  /\ Cardinality(Within(passed[l], s)) <= Limit[l]
  /\ Cardinality(Before(passed[l], s)) <= Limit[l]
  /\ now < s => counter[l].hits
                  <= HitsPerRequest(l) * Cardinality(Within(reached[l], s))

RefusalKept ==
  refusedBy # "none" =>
    /\ refusedBy \in Limiters
    /\ now < counter[refusedBy].reset
    /\ counter[refusedBy].hits > Limit[refusedBy]

RatesKept == RatesTyped /\ (\A l \in Limiters : WindowKept(l)) /\ RefusalKept

\* one request, which the limiter has counted k times
Met(l, k) ==
  /\ counter'[l] = IF counter[l].reset <= now
                   THEN [hits |-> k, reset |-> now + Window]
                   ELSE [hits |-> counter[l].hits + k, reset |-> counter[l].reset]
  /\ reached'[l] = [reached[l] EXCEPT ![now] = @ + 1]
  /\ \/ passed'[l] = passed[l]
     \/ /\ passed'[l] = [passed[l] EXCEPT ![now] = @ + 1]
        /\ counter'[l].hits <= Limit[l]

LEMMA RatesFacts ==
  ASSUME RatesTyped, NEW l \in Limiters
  PROVE  /\ now \in Nat /\ sent \in Nat /\ Window \in Nat /\ Window > 0
         /\ counter[l].hits \in Nat /\ counter[l].reset \in Nat
         /\ reached[l] \in [Times -> 0..sent] /\ passed[l] \in [Times -> 0..sent]
         /\ Limit[l] \in Nat /\ Limit[l] > 0
BY DurationAssumption, LimitAssumption DEF RatesTyped, Times

LEMMA Uncounted ==
  ASSUME NEW l \in Limiters, WindowKept(l), now' = now,
         counter'[l] = counter[l], reached'[l] = reached[l], passed'[l] = passed[l]
  PROVE  WindowKept(l)'
BY DEF WindowKept, Recorded

\* A window that begins has no request yet, and what is left of the window
\* before was within it.
LEMMA WindowBegins ==
  ASSUME NEW n \in Nat, NEW log \in [Times -> 0..n], NEW s \in Nat,
         now \in Nat, s <= now, Recorded(log, s)
  PROVE  /\ Cardinality(Within(log, now + Window)) = 0
         /\ Cardinality(Before(log, now + Window)) = Cardinality(Within(log, s))
<1>0. Times \subseteq Nat /\ Window \in Nat
  BY TimesAreNat, DurationAssumption
<1>1. ASSUME NEW p \in Requests(log)
      PROVE  p[1] + Window < now + Window /\ s <= p[1] + Window
                 /\ ~(now + Window <= p[1] + Window)
  <2>1. p[1] \in Times /\ p[2] \in 1..n /\ p[2] <= log[p[1]]
    BY RequestsMember
  <2>2. log[p[1]] \in 0..n /\ log[p[1]] > 0
    BY <2>1
  <2>3. p[1] < s /\ now < p[1] + Window
    BY <2>1, <2>2 DEF Recorded
  <2>4. p[1] \in Nat
    BY <1>0, <2>1
  <2> HIDE DEF Requests
  <2> QED
    BY <1>0, <2>3, <2>4
<1>2. Within(log, now + Window) = {}
  BY <1>1 DEF Within
<1>3. Before(log, now + Window) = Within(log, s)
  BY <1>1 DEF Within, Before
<1> QED
  BY <1>2, <1>3, FS_EmptySet

LEMMA RecordedNow ==
  ASSUME NEW n \in Nat, NEW log \in [Times -> 0..n], NEW s \in Nat, NEW r \in Nat,
         NEW after, after = log \/ after = [log EXCEPT ![now] = @ + 1],
         now \in Times, Recorded(log, s), s <= r, now < r
  PROVE  Recorded(after, r)
<1>0. Times \subseteq Nat /\ Window \in Nat /\ Window > 0
  BY TimesAreNat, DurationAssumption
<1> SUFFICES ASSUME NEW t \in Times, after[t] > 0
             PROVE  t <= now /\ now < t + Window /\ t < r
  BY DEF Recorded
<1>1. CASE t = now
  BY <1>0, <1>1
<1>2. CASE t # now
  <2>1. log[t] > 0 /\ log[t] \in 0..n
    BY <1>2
  <2> QED
    BY <1>0, <2>1 DEF Recorded
<1> QED
  BY <1>1, <1>2

LEMMA MetKept ==
  ASSUME RatesTyped, NEW l \in Limiters, WindowKept(l), now' = now,
         NEW k \in 1..HitsPerRequest(l), Met(l, k)
  PROVE  WindowKept(l)'
<1> DEFINE s == counter[l].reset
           r == counter'[l].reset
           within == Cardinality(Within(passed[l], s))
           heard == Cardinality(Within(reached[l], s))
<1>0. /\ now \in Nat /\ sent \in Nat /\ Window \in Nat /\ Window > 0
      /\ counter[l].hits \in Nat /\ s \in Nat /\ now \in Times
      /\ reached[l] \in [Times -> 0..sent] /\ passed[l] \in [Times -> 0..sent]
      /\ Limit[l] \in Nat /\ Limit[l] > 0
  BY RatesFacts DEF RatesTyped
<1>1. k \in Nat /\ k >= 1 /\ k <= HitsPerRequest(l) /\ HitsPerRequest(l) \in {1, 2}
  BY DEF HitsPerRequest
<1>2. /\ s <= now + Window /\ Recorded(reached[l], s) /\ Recorded(passed[l], s)
      /\ within <= counter[l].hits /\ within <= Limit[l]
      /\ Cardinality(Before(passed[l], s)) <= Limit[l]
      /\ now < s => counter[l].hits <= HitsPerRequest(l) * heard
  BY DEF WindowKept
<1>3. within \in Nat /\ heard \in Nat
  BY <1>0, PartsFinite
<1>4. r \in Nat /\ s <= r /\ now < r /\ r <= now + Window
  <2>1. r = IF s <= now THEN now + Window ELSE s
    BY DEF Met
  <2> QED
    BY <2>1, <1>0, <1>2
<1>5. Recorded(reached'[l], r) /\ Recorded(passed'[l], r)
  <2>1. reached'[l] = [reached[l] EXCEPT ![now] = @ + 1]
    BY DEF Met
  <2>2. passed'[l] = passed[l] \/ passed'[l] = [passed[l] EXCEPT ![now] = @ + 1]
    BY DEF Met
  <2> HIDE DEF s, r
  <2> QED
    BY <1>0, <1>2, <1>4, <2>1, <2>2, RecordedNow
<1>6. /\ Cardinality(Within(passed'[l], r)) <= counter'[l].hits
      /\ Cardinality(Within(passed'[l], r)) <= Limit[l]
      /\ Cardinality(Before(passed'[l], r)) <= Limit[l]
      /\ counter'[l].hits <= HitsPerRequest(l) * Cardinality(Within(reached'[l], r))
  <2>1. /\ Cardinality(Within(reached'[l], r)) = Cardinality(Within(reached[l], r)) + 1
        /\ \/ passed'[l] = passed[l]
           \/ /\ counter'[l].hits <= Limit[l]
              /\ Cardinality(Within(passed'[l], r)) = Cardinality(Within(passed[l], r)) + 1
              /\ Before(passed'[l], r) = Before(passed[l], r)
    <3> HIDE DEF r, s
    <3>1. Cardinality(Within(reached'[l], r)) = Cardinality(Within(reached[l], r)) + 1
      BY <1>0, <1>4, LoggedOnce DEF Met
    <3>2. ASSUME passed'[l] = [passed[l] EXCEPT ![now] = @ + 1]
          PROVE  /\ Cardinality(Within(passed'[l], r)) = Cardinality(Within(passed[l], r)) + 1
                 /\ Before(passed'[l], r) = Before(passed[l], r)
      BY <1>0, <1>4, <3>2, LoggedOnce
    <3> QED
      BY <3>1, <3>2 DEF Met
  <2>2. CASE s <= now
    <3>1. r = now + Window /\ counter'[l].hits = k
      BY <2>2 DEF Met
    <3>2. /\ Cardinality(Within(passed[l], r)) = 0
          /\ Cardinality(Before(passed[l], r)) = within
          /\ Cardinality(Within(reached[l], r)) = 0
      BY <1>0, <1>2, <2>2, <3>1, WindowBegins
    <3> HIDE DEF r, s, within, heard
    <3> QED
      BY <1>0, <1>1, <1>2, <1>3, <2>1, <3>1, <3>2
  <2>3. CASE ~(s <= now)
    <3>1. r = s /\ counter'[l].hits = counter[l].hits + k
      BY <2>3 DEF Met
    <3>2. /\ Cardinality(Within(passed[l], r)) = within
          /\ Cardinality(Within(reached[l], r)) = heard
      BY <3>1
    <3>3. now < s
      BY <1>0, <2>3
    <3>4. Cardinality(Before(passed[l], r)) <= Limit[l]
      BY <1>2, <3>1
    <3> HIDE DEF r, s, within, heard
    <3> QED
      BY <1>0, <1>1, <1>2, <1>3, <2>1, <3>1, <3>2, <3>3, <3>4
  <2> QED
    BY <2>2, <2>3
<1> QED
  BY <1>4, <1>5, <1>6 DEF WindowKept, Recorded

\* A request that the limiters have seen: apiRateLimit once or, if its router
\* names that again, twice, and the limiter of its router, the last, if it came
\* as far as that.
CountedBy(last, k) ==
  /\ k = 2 => last = "api"
  /\ Met(last, k)
  /\ last # "api" => Met("api", 1)
  /\ \A l \in Limiters \ {"api", last} :
       /\ counter'[l] = counter[l]
       /\ reached'[l] = reached[l] /\ passed'[l] = passed[l]
  /\ refusedBy' = "none" \/ (refusedBy' = last /\ counter'[last].hits > Limit[last])

LEMMA RouteLimiters ==
  ASSUME NEW route \in DOMAIN Routes
  PROVE  Routes[route].limiter \in Limiters \cup {"none"}
<1>1. route \in {"health", "login", "registry", "webhook", "read", "lender",
                 "write", "revoke", "attest"}
  BY DEF Routes
<1> QED
  BY <1>1 DEF Routes, Limiters

LEMMA RateLimitedCounts ==
  ASSUME RatesTyped, NEW route \in DOMAIN Routes, RateLimited(route)
  PROVE  /\ \E last \in Limiters, k \in 1..2 : CountedBy(last, k)
         /\ counter' = [l \in Limiters |-> counter'[l]]
         /\ reached' = [l \in Limiters |-> reached'[l]]
         /\ passed' = [l \in Limiters |-> passed'[l]]
         /\ sent' = sent + 1 /\ sent < MaxRequests
<1> DEFINE own == Routes[route].limiter
           first == Hit(counter, "api")
           both == own # "none" /\ ~OverLimit(first, "api")
           last == IF both THEN own ELSE "api"
<1>1. /\ sent < MaxRequests /\ sent' = sent + 1
      /\ counter' = IF both THEN Hit(first, own) ELSE first
      /\ refusedBy' = IF OverLimit(counter', last) THEN last ELSE "none"
      /\ reached' = Logged(reached, {"api", last})
      /\ passed' = Logged(passed, {"api", last} \ {refusedBy'})
  BY DEF RateLimited
<1>2. own \in Limiters \cup {"none"} /\ last \in Limiters /\ "api" \in Limiters
      /\ "none" \notin Limiters
  BY RouteLimiters DEF Limiters
<1>3. /\ counter \in [Limiters -> [hits : Nat, reset : Nat]]
      /\ now \in Nat /\ Window \in Nat /\ Window > 0
      /\ Limit \in [Limiters -> Nat]
  BY DurationAssumption, LimitAssumption, GatewayBounds DEF RatesTyped, Times
<1>4. ASSUME NEW c \in [Limiters -> [hits : Nat, reset : Nat]], NEW l \in Limiters
      PROVE  /\ Hit(c, l) \in [Limiters -> [hits : Nat, reset : Nat]]
             /\ Hit(c, l)[l] = IF c[l].reset <= now
                               THEN [hits |-> 1, reset |-> now + Window]
                               ELSE [hits |-> c[l].hits + 1, reset |-> c[l].reset]
  <2> DEFINE hit == IF c[l].reset <= now THEN [hits |-> 1, reset |-> now + Window]
                    ELSE [hits |-> c[l].hits + 1, reset |-> c[l].reset]
  <2>1. c[l] \in [hits : Nat, reset : Nat]
    OBVIOUS
  <2>3. hit \in [hits : Nat, reset : Nat]
    BY <1>3, <2>1
  <2>4. Hit(c, l) = [c EXCEPT ![l] = hit]
    BY DEF Hit
  <2> HIDE DEF hit
  <2>5. Hit(c, l) \in [Limiters -> [hits : Nat, reset : Nat]] /\ Hit(c, l)[l] = hit
    BY <2>3, <2>4
  <2> QED
    BY <2>5 DEF hit
<1>14. ASSUME NEW c \in [Limiters -> [hits : Nat, reset : Nat]], NEW l \in Limiters,
              NEW m \in Limiters, m # l
       PROVE  Hit(c, l)[m] = c[m]
  BY <1>14 DEF Hit
<1>5. first \in [Limiters -> [hits : Nat, reset : Nat]]
  BY <1>2, <1>3, <1>4
<1>6. /\ counter' = [l \in Limiters |-> counter'[l]]
      /\ reached' = [l \in Limiters |-> reached'[l]]
      /\ passed' = [l \in Limiters |-> passed'[l]]
  <2>1. counter' \in [Limiters -> [hits : Nat, reset : Nat]]
    BY <1>1, <1>2, <1>4, <1>5
  <2> QED
    BY <1>1, <2>1 DEF Logged
<1>7. \A l \in Limiters :
        /\ reached'[l] = IF l \in {"api", last} THEN [reached[l] EXCEPT ![now] = @ + 1]
                         ELSE reached[l]
        /\ passed'[l] = IF l \in {"api", last} /\ l # refusedBy'
                        THEN [passed[l] EXCEPT ![now] = @ + 1] ELSE passed[l]
  BY <1>1 DEF Logged
<1> HIDE DEF own, first, both, last
<1>8. refusedBy' = "none" \/ (refusedBy' = last /\ counter'[last].hits > Limit[last])
  BY <1>1 DEF OverLimit
<1>0. /\ first = Hit(counter, "api")
      /\ both <=> (own # "none" /\ ~OverLimit(first, "api"))
      /\ last = IF both THEN own ELSE "api"
  BY DEF own, first, both, last
<1>9. last # refusedBy' => counter'[last].hits <= Limit[last]
  <2>1. counter' \in [Limiters -> [hits : Nat, reset : Nat]]
    <3>1. both => own \in Limiters
      BY <1>0, <1>2
    <3>2. both => Hit(first, own) \in [Limiters -> [hits : Nat, reset : Nat]]
      BY <1>4, <1>5, <3>1
    <3> QED
      BY <1>1, <1>5, <3>2
  <2>2. counter'[last].hits \in Nat /\ Limit[last] \in Nat
    BY <1>2, <1>3, <2>1
  <2> QED
    BY <1>1, <2>2 DEF OverLimit
<1>13. \A l \in Limiters : l # "api" => first[l] = counter[l]
  <2> SUFFICES ASSUME NEW l \in Limiters, l # "api"
               PROVE  Hit(counter, "api")[l] = counter[l]
    BY <1>0
  <2> QED
    BY <1>2, <1>3, <1>14
<1>10. CASE ~both
  <2>1. last = "api" /\ counter' = first
    BY <1>0, <1>1, <1>10
  <2>2. Met("api", 1)
    BY <1>0, <1>2, <1>3, <1>4, <1>7, <1>9, <2>1 DEF Met
  <2>3. \A l \in Limiters \ {"api", last} :
          /\ counter'[l] = counter[l]
          /\ reached'[l] = reached[l] /\ passed'[l] = passed[l]
    BY <1>7, <1>13, <2>1
  <2>4. CountedBy("api", 1)
    BY <1>8, <2>1, <2>2, <2>3 DEF CountedBy
  <2> QED
    BY <1>1, <1>2, <1>6, <2>4
<1>11. CASE both /\ own = "api"
  <2>1. last = "api" /\ counter' = Hit(first, "api")
    BY <1>0, <1>1, <1>11
  <2>2. counter'["api"] = IF counter["api"].reset <= now
                          THEN [hits |-> 2, reset |-> now + Window]
                          ELSE [hits |-> counter["api"].hits + 2,
                                reset |-> counter["api"].reset]
    <3>1. first["api"] = IF counter["api"].reset <= now
                         THEN [hits |-> 1, reset |-> now + Window]
                         ELSE [hits |-> counter["api"].hits + 1,
                               reset |-> counter["api"].reset]
      BY <1>0, <1>2, <1>3, <1>4
    <3>2. counter'["api"] = IF first["api"].reset <= now
                            THEN [hits |-> 1, reset |-> now + Window]
                            ELSE [hits |-> first["api"].hits + 1,
                                  reset |-> first["api"].reset]
      BY <1>2, <1>4, <1>5, <2>1
    <3>3. counter["api"].hits \in Nat /\ counter["api"].reset \in Nat
      BY <1>2, <1>3
    <3> QED
      BY <1>3, <3>1, <3>2, <3>3
  <2>3. Met("api", 2)
    BY <1>2, <1>7, <1>9, <2>1, <2>2 DEF Met
  <2>4. \A l \in Limiters \ {"api", last} :
          /\ counter'[l] = counter[l]
          /\ reached'[l] = reached[l] /\ passed'[l] = passed[l]
    <3> SUFFICES ASSUME NEW l \in Limiters, l # "api"
                 PROVE  /\ counter'[l] = counter[l]
                        /\ reached'[l] = reached[l] /\ passed'[l] = passed[l]
      BY <2>1
    <3>1. Hit(first, "api")[l] = first[l]
      BY <1>2, <1>5, <1>14
    <3> QED
      BY <1>7, <1>13, <2>1, <3>1
  <2>5. CountedBy("api", 2)
    BY <1>8, <2>1, <2>3, <2>4 DEF CountedBy
  <2> QED
    BY <1>1, <1>2, <1>6, <2>5
<1>12. CASE both /\ own # "api"
  <2>1. last = own /\ counter' = Hit(first, own) /\ own \in Limiters
    BY <1>0, <1>1, <1>2, <1>12
  <2>2. counter'["api"] = first["api"] /\ first[own] = counter[own]
    <3>1. Hit(first, own)["api"] = first["api"]
      BY <1>2, <1>5, <1>12, <1>14, <2>1
    <3> QED
      BY <1>12, <1>13, <2>1, <3>1
  <2>3. first["api"].hits <= Limit["api"]
    BY <1>0, <1>2, <1>3, <1>5, <1>12 DEF OverLimit
  <2>4. Met("api", 1)
    <3>1. "api" # refusedBy'
      BY <1>2, <1>8, <1>12, <2>1
    <3>2. first["api"] = IF counter["api"].reset <= now
                         THEN [hits |-> 1, reset |-> now + Window]
                         ELSE [hits |-> counter["api"].hits + 1,
                               reset |-> counter["api"].reset]
      BY <1>0, <1>2, <1>3, <1>4
    <3> QED
      BY <1>2, <1>7, <2>2, <2>3, <3>1, <3>2 DEF Met
  <2>5. Met(own, 1)
    BY <1>4, <1>5, <1>7, <1>9, <2>1, <2>2 DEF Met
  <2>6. \A l \in Limiters \ {"api", last} :
          /\ counter'[l] = counter[l]
          /\ reached'[l] = reached[l] /\ passed'[l] = passed[l]
    <3> SUFFICES ASSUME NEW l \in Limiters \ {"api", own}
                 PROVE  /\ counter'[l] = counter[l]
                        /\ reached'[l] = reached[l] /\ passed'[l] = passed[l]
      BY <2>1
    <3>1. Hit(first, own)[l] = first[l]
      BY <1>5, <1>14, <2>1
    <3> QED
      BY <1>7, <1>13, <2>1, <3>1
  <2>7. CountedBy(own, 1)
    BY <1>8, <2>1, <2>4, <2>5, <2>6 DEF CountedBy
  <2> QED
    BY <1>1, <1>2, <1>6, <2>1, <2>7
<1> QED
  BY <1>10, <1>11, <1>12

LEMMA MetTyped ==
  ASSUME RatesTyped, NEW l \in Limiters, NEW k \in 1..2, Met(l, k),
         sent' = sent + 1, sent < MaxRequests
  PROVE  /\ counter'[l] \in [hits : 0..(2 * sent'), reset : 0..(MaxTime + Window)]
         /\ reached'[l] \in [Times -> 0..sent'] /\ passed'[l] \in [Times -> 0..sent']
<1>1. /\ sent \in Nat /\ now \in 0..MaxTime /\ MaxTime \in Nat /\ Window \in Nat
      /\ counter[l].hits \in 0..(2 * sent)
      /\ counter[l].reset \in 0..(MaxTime + Window)
      /\ reached[l] \in [Times -> 0..sent] /\ passed[l] \in [Times -> 0..sent]
  BY GatewayBounds, DurationAssumption DEF RatesTyped, Times
<1>2. counter'[l] \in [hits : 0..(2 * sent'), reset : 0..(MaxTime + Window)]
  <2>1. CASE counter[l].reset <= now
    <3>1. k \in 0..(2 * sent') /\ now + Window \in 0..(MaxTime + Window)
      BY <1>1
    <3> QED
      BY <2>1, <3>1 DEF Met
  <2>2. CASE ~(counter[l].reset <= now)
    <3>1. counter[l].hits + k \in 0..(2 * sent')
      BY <1>1
    <3> QED
      BY <1>1, <2>2, <3>1 DEF Met
  <2> QED
    BY <2>1, <2>2
<1>3. ASSUME NEW log \in [Times -> 0..sent]
      PROVE  log \in [Times -> 0..sent'] /\ [log EXCEPT ![now] = @ + 1] \in [Times -> 0..sent']
  <2>1. 0..sent \subseteq 0..sent'
    BY <1>1
  <2>2. log[now] \in 0..sent
    BY <1>1 DEF Times
  <2>3. log[now] + 1 \in 0..sent'
    BY <1>1, <2>2
  <2>4. log \in [Times -> 0..sent']
    BY <2>1
  <2> QED
    BY <2>3, <2>4
<1> QED
  BY <1>1, <1>2, <1>3 DEF Met

LEMMA RateLimitedKept ==
  ASSUME RatesKept, NEW route \in DOMAIN Routes, RateLimited(route), now' = now
  PROVE  RatesKept'
<1>0. RatesTyped /\ RefusalKept /\ \A l \in Limiters : WindowKept(l)
  BY DEF RatesKept
<1>1. /\ counter' = [l \in Limiters |-> counter'[l]]
      /\ reached' = [l \in Limiters |-> reached'[l]]
      /\ passed' = [l \in Limiters |-> passed'[l]]
      /\ sent' = sent + 1 /\ sent < MaxRequests
  BY <1>0, RateLimitedCounts
<1>2. PICK last \in Limiters, k \in 1..2 : CountedBy(last, k)
  BY <1>0, RateLimitedCounts
<1>3. "api" \in Limiters
  BY DEF Limiters
<1>4. sent \in Nat /\ MaxRequests \in Nat
  BY <1>0, GatewayBounds DEF RatesTyped
<1>5. ASSUME NEW l \in Limiters
      PROVE  \/ \E n \in 1..HitsPerRequest(l) : n \in 1..2 /\ Met(l, n)
             \/ /\ counter'[l] = counter[l]
                /\ reached'[l] = reached[l] /\ passed'[l] = passed[l]
  <2>1. CASE l = last
    <3>1. k \in 1..HitsPerRequest(last)
      BY <1>2 DEF CountedBy, HitsPerRequest
    <3> QED
      BY <1>2, <2>1, <3>1 DEF CountedBy
  <2>2. CASE l # last /\ l = "api"
    <3>1. 1 \in 1..HitsPerRequest("api") /\ 1 \in 1..2
      BY DEF HitsPerRequest
    <3>2. Met("api", 1)
      BY <1>2, <2>2 DEF CountedBy
    <3> QED
      BY <2>2, <3>1, <3>2
  <2>3. CASE l # last /\ l # "api"
    BY <1>2, <2>3 DEF CountedBy
  <2> QED
    BY <2>1, <2>2, <2>3
<1>6. ASSUME NEW l \in Limiters
      PROVE  WindowKept(l)'
  BY <1>0, <1>5, MetKept, Uncounted
<1>7. ASSUME NEW l \in Limiters
      PROVE  /\ counter'[l] \in [hits : 0..(2 * sent'), reset : 0..(MaxTime + Window)]
             /\ reached'[l] \in [Times -> 0..sent'] /\ passed'[l] \in [Times -> 0..sent']
  <2>1. ASSUME counter'[l] = counter[l], reached'[l] = reached[l], passed'[l] = passed[l]
        PROVE  /\ counter'[l] \in [hits : 0..(2 * sent'), reset : 0..(MaxTime + Window)]
               /\ reached'[l] \in [Times -> 0..sent'] /\ passed'[l] \in [Times -> 0..sent']
    <3>1. /\ counter[l] \in [hits : 0..(2 * sent), reset : 0..(MaxTime + Window)]
          /\ reached[l] \in [Times -> 0..sent] /\ passed[l] \in [Times -> 0..sent]
      BY <1>0 DEF RatesTyped
    <3>2. 0..sent \subseteq 0..sent' /\ 0..(2 * sent) \subseteq 0..(2 * sent')
      BY <1>1, <1>4
    <3> QED
      BY <2>1, <3>1, <3>2
  <2> QED
    BY <1>0, <1>1, <1>5, <2>1, MetTyped
<1>8. RatesTyped'
  <2>1. sent' \in 0..MaxRequests
    BY <1>1, <1>4
  <2>2. /\ counter' \in [Limiters -> [hits : 0..(2 * sent'), reset : 0..(MaxTime + Window)]]
        /\ reached' \in [Limiters -> [Times -> 0..sent']]
        /\ passed' \in [Limiters -> [Times -> 0..sent']]
    BY <1>1, <1>7
  <2> QED
    BY <1>0, <2>1, <2>2 DEF RatesTyped
<1>9. RefusalKept'
  <2>1. now < counter'[last].reset
    <3>1. now \in Nat /\ counter[last].reset \in Nat /\ Window \in Nat /\ Window > 0
      BY <1>0, RatesFacts
    <3> QED
      BY <1>2, <3>1 DEF CountedBy, Met
  <2> QED
    BY <1>2, <2>1 DEF CountedBy, RefusalKept
<1> QED
  BY <1>6, <1>8, <1>9 DEF RatesKept

LEMMA TickKept == RatesKept /\ Tick => RatesKept'
<1> SUFFICES ASSUME RatesKept, Tick PROVE RatesKept'
  OBVIOUS
<1>0. RatesTyped /\ \A l \in Limiters : WindowKept(l)
  BY DEF RatesKept
<1>1. /\ now < MaxTime /\ now' = now + 1 /\ refusedBy' = "none"
      /\ counter' = counter /\ sent' = sent
      /\ \A l \in Limiters :
           /\ reached'[l] = [u \in Times |-> IF u + Window <= now' THEN 0 ELSE reached[l][u]]
           /\ passed'[l] = [u \in Times |-> IF u + Window <= now' THEN 0 ELSE passed[l][u]]
  BY DEF Tick, Recent
<1>2. now' \in Times /\ now' \in Nat /\ now \in Nat /\ Times \subseteq Nat
  BY <1>0, <1>1, GatewayBounds DEF RatesTyped, Times
<1>3. ASSUME NEW l \in Limiters
      PROVE  WindowKept(l)' /\ reached'[l] \in [Times -> 0..sent]
                           /\ passed'[l] \in [Times -> 0..sent]
  <2> DEFINE s == counter[l].reset
  <2>1. /\ s \in Nat /\ sent \in Nat /\ Window \in Nat
        /\ counter[l].hits \in Nat /\ Limit[l] \in Nat
        /\ reached[l] \in [Times -> 0..sent] /\ passed[l] \in [Times -> 0..sent]
    BY <1>0, RatesFacts
  <2>2. /\ s <= now + Window
        /\ Recorded(reached[l], s) /\ Recorded(passed[l], s)
        /\ Cardinality(Within(passed[l], s)) <= counter[l].hits
        /\ Cardinality(Within(passed[l], s)) <= Limit[l]
        /\ Cardinality(Before(passed[l], s)) <= Limit[l]
        /\ now < s => counter[l].hits
                        <= HitsPerRequest(l) * Cardinality(Within(reached[l], s))
    BY <1>0 DEF WindowKept
  <2> HIDE DEF s
  <2>12. s \in Nat /\ sent \in Nat
    BY <2>1
  <2>13. reached[l] \in [Times -> 0..sent] /\ passed[l] \in [Times -> 0..sent]
    BY <2>1
  <2> DEFINE moment == now'
  <2>14. moment \in Nat
    BY <1>2
  <2>15. reached'[l] = NotForgotten(reached[l], moment) /\ passed'[l] = NotForgotten(passed[l], moment)
    BY <1>1 DEF NotForgotten
  <2> HIDE DEF moment
  <2>16. ASSUME NEW log \in [Times -> 0..sent]
         PROVE  /\ NotForgotten(log, moment) \in [Times -> 0..sent]
                /\ Cardinality(Within(NotForgotten(log, moment), s)) <= Cardinality(Within(log, s))
                /\ Cardinality(Before(NotForgotten(log, moment), s)) <= Cardinality(Before(log, s))
                /\ moment < s => Within(NotForgotten(log, moment), s) = Within(log, s)
    BY <2>12, <2>14, Forgotten
  <2>3. /\ passed'[l] \in [Times -> 0..sent]
        /\ Cardinality(Within(passed'[l], s)) <= Cardinality(Within(passed[l], s))
        /\ Cardinality(Before(passed'[l], s)) <= Cardinality(Before(passed[l], s))
    BY <2>13, <2>15, <2>16
  <2>4. /\ reached'[l] \in [Times -> 0..sent]
        /\ now' < s => Within(reached'[l], s) = Within(reached[l], s)
    BY <2>13, <2>15, <2>16 DEF moment
  <2>5. ASSUME NEW log, NEW after, log \in [Times -> 0..sent], Recorded(log, s),
               after = [u \in Times |-> IF u + Window <= now' THEN 0 ELSE log[u]]
        PROVE  \A t \in Times : after[t] > 0 => t <= now' /\ now' < t + Window /\ t < s
    <3> SUFFICES ASSUME NEW t \in Times, after[t] > 0
                 PROVE  t <= now' /\ now' < t + Window /\ t < s
      OBVIOUS
    <3>1. ~(t + Window <= now') /\ log[t] > 0
      BY <2>5
    <3>2. t <= now /\ t < s
      BY <2>5, <3>1 DEF Recorded
    <3> QED
      BY <1>1, <1>2, <2>1, <3>1, <3>2
  <2>6. /\ \A t \in Times : reached'[l][t] > 0 => t <= now' /\ now' < t + Window /\ t < s
        /\ \A t \in Times : passed'[l][t] > 0 => t <= now' /\ now' < t + Window /\ t < s
    BY <1>1, <2>1, <2>2, <2>5
  <2>7. /\ Cardinality(Within(passed'[l], s)) \in Nat /\ Cardinality(Within(passed[l], s)) \in Nat
        /\ Cardinality(Before(passed'[l], s)) \in Nat /\ Cardinality(Before(passed[l], s)) \in Nat
    BY <2>1, <2>3, PartsFinite
  <2>8. s <= now' + Window /\ (now' < s => now < s)
    BY <1>1, <1>2, <2>1, <2>2
  <2>9. /\ Cardinality(Within(passed'[l], s)) <= counter[l].hits
        /\ Cardinality(Within(passed'[l], s)) <= Limit[l]
        /\ Cardinality(Before(passed'[l], s)) <= Limit[l]
    BY <2>1, <2>2, <2>3, <2>7
  <2>10. now' < s => counter[l].hits
                       <= HitsPerRequest(l) * Cardinality(Within(reached'[l], s))
    BY <2>2, <2>4, <2>8
  <2>11. counter'[l].reset = s /\ counter'[l].hits = counter[l].hits
    BY <1>1 DEF s
  <2> QED
    BY <2>3, <2>4, <2>6, <2>8, <2>9, <2>10, <2>11 DEF WindowKept, Recorded
<1>4. RatesTyped'
  <2>1. reached' = [l \in Limiters |-> reached'[l]] /\ passed' = [l \in Limiters |-> passed'[l]]
    BY DEF Tick, Recent
  <2> QED
    BY <1>0, <1>1, <1>2, <1>3, <2>1 DEF RatesTyped
<1> QED
  BY <1>1, <1>3, <1>4 DEF RatesKept, RefusalKept

\* No request has come to a process that has just begun.
Fresh ==
  /\ now \in Times /\ sent \in 0..MaxRequests
  /\ counter = FreshCounters /\ reached = NoRequests /\ passed = NoRequests
  /\ refusedBy = "none"

LEMMA FreshKept == Fresh => RatesKept
<1> SUFFICES ASSUME Fresh PROVE RatesKept
  OBVIOUS
<1>0. /\ MaxTime \in Nat /\ Window \in Nat /\ now \in Nat /\ sent \in Nat
      /\ Limit \in [Limiters -> Nat]
  BY GatewayBounds, DurationAssumption, LimitAssumption DEF Fresh, Times
<1>1. RatesTyped
  <2>1. 0 \in 0..sent /\ 0 \in 0..(2 * sent) /\ 0 \in 0..(MaxTime + Window)
    BY <1>0
  <2> QED
    BY <2>1 DEF Fresh, RatesTyped, FreshCounters, NoRequests
<1>2. ASSUME NEW l \in Limiters PROVE WindowKept(l)
  <2> DEFINE log == [t \in Times |-> 0]
  <2>1. reached[l] = log /\ passed[l] = log
        /\ counter[l].reset = 0 /\ counter[l].hits = 0
    BY DEF Fresh, NoRequests, FreshCounters
  <2>2. Within(log, 0) = {} /\ Before(log, 0) = {}
    <3>1. log \in [Times -> 0..0]
      OBVIOUS
    <3>2. \A p \in Requests(log) : p[1] \in Times /\ p[2] \in 1..0
      BY <3>1, RequestsMember
    <3>3. Requests(log) = {}
      BY <3>2
    <3> QED
      BY <3>3 DEF Within, Before
  <2>3. Recorded(log, 0)
    BY DEF Recorded
  <2> HIDE DEF log
  <2>4. 0 <= now + Window /\ 0 <= Limit[l] /\ ~(now < 0)
    BY <1>0
  <2> QED
    BY <2>1, <2>2, <2>3, <2>4, FS_EmptySet DEF WindowKept
<1> QED
  BY <1>1, <1>2 DEF Fresh, RatesKept, RefusalKept

\* A step that is no request.
LEMMA RatesUntouched ==
  ASSUME RatesKept, UNCHANGED <<now, counter, sent, reached, passed>>,
         refusedBy' = refusedBy \/ refusedBy' = "none"
  PROVE  RatesKept'
<1>1. RatesTyped' /\ RefusalKept'
  BY DEF RatesKept, RatesTyped, RefusalKept
<1>2. ASSUME NEW l \in Limiters PROVE WindowKept(l)'
  BY Uncounted DEF RatesKept
<1> QED
  BY <1>1, <1>2 DEF RatesKept

LEMMA RatesKeptInit == GatewayInit => RatesKept
<1>1. 0 \in Times /\ 0 \in 0..MaxRequests
  BY GatewayBounds DEF Times
<1> QED
  BY <1>1, FreshKept DEF GatewayInit, Fresh

LEMMA RatesKeptNext == RatesKept /\ [GatewayNext]_gatewayVars => RatesKept'
<1> SUFFICES ASSUME RatesKept, [GatewayNext]_gatewayVars PROVE RatesKept'
  OBVIOUS
<1>0. RatesTyped
  BY DEF RatesKept
<1>1. CASE Tick
  BY <1>1, TickKept
<1>2. CASE Restart
  <2>1. Fresh'
    BY <1>2 DEF Restart, Fresh, RatesKept, RatesTyped
  <2>2. (Fresh => RatesKept)'
    BY FreshKept, PTL
  <2> QED
    BY <2>1, <2>2
<1>3. ASSUME NEW a \in Accounts, BuildChallenge(a)
      PROVE  RatesKept'
  BY <1>3, ServedAssumption, RateLimitedKept DEF BuildChallenge
<1>4. ASSUME NEW a \in Accounts, NEW c \in challenges, Sign(a, c)
      PROVE  RatesKept'
  BY <1>4, RatesUntouched DEF Sign
<1>5. ASSUME NEW a \in Accounts, NEW c \in challenges, NEW keys \in SUBSET Keys,
             SubmitChallenge(a, c, keys)
      PROVE  RatesKept'
  BY <1>5, ServedAssumption, RateLimitedKept DEF SubmitChallenge
<1>6. ASSUME NEW route \in Served, NEW t \in tokens \cup {NoToken}, ApiRequest(route, t)
      PROVE  RatesKept'
  BY <1>6, ServedAssumption, RateLimitedKept DEF ApiRequest
<1>7. CASE UNCHANGED gatewayVars
  BY <1>7, RatesUntouched DEF gatewayVars, limitVars
<1> QED
  BY <1>1, <1>2, <1>3, <1>4, <1>5, <1>6, <1>7 DEF GatewayNext

LEMMA RatesKeptBounds == RatesKept => LimitersBounded
<1> SUFFICES ASSUME RatesKept PROVE LimitersBounded
  OBVIOUS
<1>0. RatesTyped /\ RefusalKept /\ \A l \in Limiters : WindowKept(l)
  BY DEF RatesKept
<1>1. AtMostTwice
  <2> SUFFICES ASSUME NEW l \in Limiters
               PROVE  Total(passed[l]) <= 2 * Limit[l]
    BY DEF AtMostTwice
  <2> DEFINE s == counter[l].reset
             log == passed[l]
  <2>1. s \in Nat /\ Limit[l] \in Nat /\ sent \in Nat /\ log \in [Times -> 0..sent]
    BY <1>0, RatesFacts
  <2>2. Cardinality(Within(log, s)) <= Limit[l] /\ Cardinality(Before(log, s)) <= Limit[l]
    BY <1>0 DEF WindowKept
  <2> HIDE DEF s, log
  <2>3. /\ Total(log) = Cardinality(Within(log, s)) + Cardinality(Before(log, s))
        /\ Cardinality(Within(log, s)) \in Nat /\ Cardinality(Before(log, s)) \in Nat
    BY <2>1, PartsFinite
  <2>4. Total(log) <= 2 * Limit[l]
    BY <2>1, <2>2, <2>3
  <2> QED
    BY <2>4 DEF log
<1>2. RefusalIsExplained
  <2> SUFFICES ASSUME refusedBy # "none"
               PROVE  IF refusedBy = "api" THEN 2 * Total(reached["api"]) > Limit["api"]
                      ELSE Total(reached[refusedBy]) > Limit[refusedBy]
    BY DEF RefusalIsExplained
  <2> DEFINE l == refusedBy
             s == counter[l].reset
             log == reached[l]
             hits == counter[l].hits
             part == Cardinality(Within(log, s))
  <2>1. l \in Limiters /\ now < s /\ hits > Limit[l]
    BY <1>0 DEF RefusalKept
  <2>2. s \in Nat /\ Limit[l] \in Nat /\ sent \in Nat /\ log \in [Times -> 0..sent]
        /\ hits \in Nat
    BY <1>0, <2>1, RatesFacts
  <2>3. hits <= HitsPerRequest(l) * part
    BY <1>0, <2>1 DEF WindowKept
  <2>4. part \in Nat /\ part <= Total(log) /\ Total(log) \in Nat
    <3> HIDE DEF s, log
    <3> QED
      BY <2>2, PartsFinite, RequestsFinite
  <2> HIDE DEF part, hits, log
  <2>5. CASE l = "api"
    <3>1. HitsPerRequest(l) = 2
      BY <2>5 DEF HitsPerRequest
    <3>2. 2 * Total(log) > Limit[l]
      BY <2>1, <2>2, <2>3, <2>4, <3>1
    <3> QED
      BY <2>5, <3>2 DEF log
  <2>6. CASE l # "api"
    <3>1. HitsPerRequest(l) = 1
      BY <2>6 DEF HitsPerRequest
    <3>2. Total(log) > Limit[l]
      BY <2>1, <2>2, <2>3, <2>4, <3>1
    <3> QED
      BY <2>6, <3>2 DEF log
  <2> QED
    BY <2>5, <2>6
<1> QED
  BY <1>1, <1>2 DEF LimitersBounded

\* Whenever the windows begin and end, and whatever routes the requests ask
\* for: a limiter lets pass at most twice its maximum in the time of a window,
\* and refuses only who has sent it enough requests within that time.
THEOREM LimitersAreBounded == GatewaySpec => []LimitersBounded
BY RatesKeptInit, RatesKeptNext, RatesKeptBounds, PTL DEF GatewaySpec

-----------------------------------------------------------------------------
(***************************************************************************)
(* Type correctness needs both invariants, and the few variables that      *)
(* neither speaks of.                                                      *)
(***************************************************************************)

ActorTyped ==
  /\ signed \subseteq Accounts \X challenges
  /\ acting \in Accounts \cup {Nobody}
  /\ refusedBy \in Limiters \cup {"none"}

GatewayTyped == LoginKept /\ RatesKept /\ ActorTyped

LEMMA ActorTypedNext ==
  GatewayTyped /\ [GatewayNext]_gatewayVars => ActorTyped'
<1> SUFFICES ASSUME GatewayTyped, [GatewayNext]_gatewayVars PROVE ActorTyped'
  OBVIOUS
<1>0. ActorTyped /\ RatesTyped /\ LoginTyped /\ RefusalKept'
      /\ signed \subseteq Accounts \X challenges
  BY RatesKeptNext DEF GatewayTyped, RatesKept, LoginKept, ActorTyped
<1>1. refusedBy' \in Limiters \cup {"none"}
  BY <1>0 DEF RefusalKept
<1>2. CASE Tick \/ Restart \/ UNCHANGED gatewayVars
  BY <1>0, <1>1, <1>2 DEF Tick, Restart, gatewayVars, loginVars, ActorTyped
<1>3. ASSUME NEW a \in Accounts, BuildChallenge(a)
      PROVE  ActorTyped'
  <2>1. challenges \subseteq challenges' /\ signed' = signed /\ acting' = Nobody
    BY <1>3 DEF BuildChallenge
  <2> QED
    BY <1>0, <1>1, <2>1 DEF ActorTyped
<1>4. ASSUME NEW a \in Accounts, NEW c \in challenges, Sign(a, c)
      PROVE  ActorTyped'
  BY <1>0, <1>1, <1>4 DEF Sign, ActorTyped
<1>5. ASSUME NEW a \in Accounts, NEW c \in challenges, NEW keys \in SUBSET Keys,
             SubmitChallenge(a, c, keys)
      PROVE  ActorTyped'
  BY <1>0, <1>1, <1>5 DEF SubmitChallenge, ActorTyped
<1>6. ASSUME NEW route \in Served, NEW t \in tokens \cup {NoToken}, ApiRequest(route, t)
      PROVE  ActorTyped'
  <2>1. acting' = Nobody \/ (t \in tokens /\ acting' = t.sub)
    BY <1>6 DEF ApiRequest, Account, VerifyJWT
  <2>2. acting' \in Accounts \cup {Nobody}
    BY <1>0, <2>1 DEF LoginTyped, Token
  <2>3. signed' = signed /\ challenges' = challenges
    BY <1>6 DEF ApiRequest, loginVars
  <2> QED
    BY <1>0, <1>1, <2>2, <2>3 DEF ActorTyped
<1> QED
  BY <1>2, <1>3, <1>4, <1>5, <1>6 DEF GatewayNext

\* Every variable keeps its type: the counters and the logs stay within the
\* number of requests that were sent, and only issued challenges are signed.
THEOREM GatewayTypeCorrect == GatewaySpec => []GatewayTypeOK
<1>1. GatewayInit => GatewayTyped
  BY LoginKeptInit, RatesKeptInit DEF GatewayInit, GatewayTyped, ActorTyped
<1>2. GatewayTyped /\ [GatewayNext]_gatewayVars => GatewayTyped'
  BY LoginKeptNext, RatesKeptNext, ActorTypedNext DEF GatewayTyped
<1>3. GatewayTyped => GatewayTypeOK
  <2> SUFFICES ASSUME GatewayTyped PROVE GatewayTypeOK
    OBVIOUS
  <2>1. RatesTyped /\ LoginTyped /\ ActorTyped
    BY DEF GatewayTyped, RatesKept, LoginKept
  <2>2. 0..sent \subseteq 0..MaxRequests /\ 0..(2 * sent) \subseteq 0..(2 * MaxRequests)
    BY <2>1, GatewayBounds DEF RatesTyped
  <2>3. /\ counter \in [Limiters -> [hits : 0..(2 * MaxRequests), reset : 0..(MaxTime + Window)]]
        /\ reached \in [Limiters -> [Times -> 0..MaxRequests]]
        /\ passed \in [Limiters -> [Times -> 0..MaxRequests]]
    <3>1. ASSUME NEW log \in [Limiters -> [Times -> 0..sent]]
          PROVE  log \in [Limiters -> [Times -> 0..MaxRequests]]
      BY <2>2
    <3>2. ASSUME NEW l \in Limiters
          PROVE  counter[l] \in [hits : 0..(2 * MaxRequests), reset : 0..(MaxTime + Window)]
      BY <2>1, <2>2 DEF RatesTyped
    <3> QED
      BY <2>1, <3>1, <3>2 DEF RatesTyped
  <2> QED
    BY <2>1, <2>3 DEF GatewayTypeOK, RatesTyped, LoginTyped, ActorTyped
<1> QED
  BY <1>1, <1>2, <1>3, PTL DEF GatewaySpec

=============================================================================
