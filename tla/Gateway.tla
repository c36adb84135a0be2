------------------------------ MODULE Gateway ------------------------------
(***************************************************************************)
(* What a request of the API passes before its handler runs (createApp in  *)
(* src/backend/src/index.ts): the rate limiters of middleware/ratelimit.ts *)
(* and the accounts of middleware/auth.ts, with the two routes of          *)
(* api/auth.ts that turn a challenge signed by an account into a token.    *)
(*                                                                         *)
(* A request passes the middleware in one step.  express-rate-limit,       *)
(* jsonwebtoken and the Stellar SDK are external: a limiter counts, in the *)
(* memory of the process, the requests of a window that begins with the    *)
(* first of them.  The requests are those of one client address, which may *)
(* speak for several accounts.                                             *)
(***************************************************************************)
EXTENDS Naturals, FiniteSets

CONSTANTS
  Accounts,      \* Stellar accounts
  Server,        \* the server's key
  Served,        \* the routes that are asked for
  Limit,         \* per limiter: max
  Window,        \* windowMs
  Timeout,       \* CHALLENGE_TIMEOUT
  Expiry,        \* JWT_EXPIRY
  MaxTime,       \* bound: the clock
  MaxRequests,   \* bound: requests
  MaxChallenges  \* bound: challenges issued

Limiters == {"api", "auth", "read", "lender", "attest"}
Keys == Accounts \cup {Server}
Times == 0..MaxTime
Nobody == "nobody"

ASSUME ServerAssumption == Server \notin Accounts /\ Nobody \notin Accounts
ASSUME LimitAssumption == Limit \in [Limiters -> Nat \ {0}]
ASSUME GatewayBounds == {MaxTime, MaxRequests} \subseteq Nat
ASSUME DurationAssumption == {Window, Timeout, Expiry} \subseteq Nat \ {0}

\* What a route asks of the caller, and the limiter its router names after
\* apiRateLimit, which createApp puts before everything: some name that again.
Routes ==
  [health   |-> [limiter |-> "none",   auth |-> "none"],
   login    |-> [limiter |-> "auth",   auth |-> "none"],
   registry |-> [limiter |-> "read",   auth |-> "none"],
   webhook  |-> [limiter |-> "api",    auth |-> "none"],
   read     |-> [limiter |-> "read",   auth |-> "optional"],
   lender   |-> [limiter |-> "lender", auth |-> "optional"],
   write    |-> [limiter |-> "api",    auth |-> "optional"],
   revoke   |-> [limiter |-> "api",    auth |-> "required"],
   attest   |-> [limiter |-> "attest", auth |-> "required"]]

ASSUME ServedAssumption == Served \subseteq DOMAIN Routes

\* A challenge names an account and the time it was issued.  An Ed25519
\* signature is fixed by the key and the content: "alike" are the keys whose
\* signature of it begins with the last four bytes of the key.
Challenge == [account : Accounts, at : Times, alike : SUBSET Keys]
Token == [sub : Accounts, iat : Times]
NoToken == [sub |-> Nobody, iat |-> 0]

VARIABLES
  now,        \* the clock
  counter,    \* per limiter: hits of the window and the time it is over
  sent,       \* requests so far
  challenges, \* issued, each signed by the server
  signed,     \* pairs of an account and a challenge that it has signed
  tokens,     \* issued
  acting,     \* ghost: the account the last request was handled as, or Nobody
  refusedBy,  \* ghost: the limiter that refused the last request, or "none"
  reached,    \* ghost: per limiter and time, the requests that came to it
  passed      \* ghost: per limiter and time, the requests it let pass

limitVars == <<counter, sent, refusedBy, reached, passed>>
loginVars == <<challenges, signed, tokens>>
gatewayVars == <<now, limitVars, loginVars, acting>>

NoRequests == [l \in Limiters |-> [t \in Times |-> 0]]
FreshCounters == [l \in Limiters |-> [hits |-> 0, reset |-> 0]]

GatewayTypeOK ==
  /\ now \in Times
  /\ counter \in [Limiters -> [hits : 0..(2 * MaxRequests), reset : 0..(MaxTime + Window)]]
  /\ sent \in 0..MaxRequests
  /\ challenges \subseteq Challenge
  /\ signed \subseteq Accounts \X challenges
  /\ tokens \subseteq Token
  /\ acting \in Accounts \cup {Nobody}
  /\ refusedBy \in Limiters \cup {"none"}
  /\ reached \in [Limiters -> [Times -> 0..MaxRequests]]
  /\ passed \in [Limiters -> [Times -> 0..MaxRequests]]

GatewayInit ==
  /\ now = 0
  /\ counter = FreshCounters
  /\ sent = 0
  /\ challenges = {} /\ signed = {} /\ tokens = {}
  /\ acting = Nobody
  /\ refusedBy = "none"
  /\ reached = NoRequests /\ passed = NoRequests

-----------------------------------------------------------------------------
\* Definitions named X_Y are faulty variants of X, used to see that a property
\* notices the fault; nothing else refers to them.

(***************************************************************************)
(* The rate limiters.                                                      *)
(***************************************************************************)

\* one hit of limiter l
Hit_SlidesOn(counters, l) ==
  [counters EXCEPT ![l] =
     [hits |-> IF @.reset <= now THEN 1 ELSE @.hits + 1, reset |-> now + Window]]

Hit(counters, l) ==
  [counters EXCEPT ![l] =
     IF @.reset <= now THEN [hits |-> 1, reset |-> now + Window]
     ELSE [hits |-> @.hits + 1, reset |-> @.reset]]

OverLimit(counters, l) == counters[l].hits > Limit[l]

Logged(log, ls) == [l \in Limiters |-> IF l \in ls THEN [log[l] EXCEPT ![now] = @ + 1]
                                      ELSE log[l]]

\* apiRateLimit and, if it lets the request pass, the limiter of the router.
\* The request is counted; the handler may run if refusedBy' is "none".
RateLimited(route) ==
  LET own == Routes[route].limiter
      first == Hit(counter, "api")
      both == own # "none" /\ ~OverLimit(first, "api")
      last == IF both THEN own ELSE "api"
  IN /\ sent < MaxRequests
     /\ sent' = sent + 1
     /\ counter' = IF both THEN Hit(first, own) ELSE first
     /\ refusedBy' = IF OverLimit(counter', last) THEN last ELSE "none"
     /\ reached' = Logged(reached, {"api", last})
     /\ passed' = Logged(passed, {"api", last} \ {refusedBy'})

-----------------------------------------------------------------------------
(***************************************************************************)
(* SEP-10: GET /auth and POST /auth.                                       *)
(***************************************************************************)

\* The SDK may refuse to build the transaction: the answer is a 500.
BuildChallenge(a) ==
  /\ "login" \in Served
  /\ RateLimited("login")
  /\ acting' = Nobody
  /\ challenges' \in {challenges} \cup
       IF refusedBy' = "none" /\ Cardinality(challenges) < MaxChallenges
       THEN {challenges \cup {[account |-> a, at |-> now, alike |-> ks]} :
               ks \in SUBSET Keys}
       ELSE {}
  /\ UNCHANGED <<now, signed, tokens>>

\* The owner of a key signs a challenge, whichever account it names.
Sign(a, c) ==
  /\ <<a, c>> \notin signed
  /\ signed' = signed \cup {<<a, c>>}
  /\ acting' = Nobody /\ refusedBy' = "none"
  /\ UNCHANGED <<now, counter, sent, reached, passed, challenges, tokens>>

\* The signatures of a transaction sent for account a that
\* verifyChallengeAndIssueJWT finds: it compares the first bytes of each
\* signature with the last bytes of the key.
Found(a, c, keys) ==
  {k \in keys \cap c.alike \cap {Server, a} : k = Server \/ <<k, c>> \in signed}

Verified_AnyAccount(a, c, keys) ==
  /\ c.at <= now /\ now <= c.at + Timeout
  /\ Found(a, c, keys) = {Server, a}

Verified(a, c, keys) ==
  /\ c.at <= now /\ now <= c.at + Timeout
  /\ c.account = a
  /\ Found(a, c, keys) = {Server, a}

\* A client sends a challenge with some of the signatures it has.  Any other
\* transaction lacks the server's signature and is refused as well.
SubmitChallenge(a, c, keys) ==
  /\ "login" \in Served
  /\ RateLimited("login")
  /\ acting' = Nobody
  /\ tokens' = IF refusedBy' = "none" /\ Verified(a, c, keys)
               THEN tokens \cup {[sub |-> a, iat |-> now]} ELSE tokens
  /\ UNCHANGED <<now, challenges, signed>>

-----------------------------------------------------------------------------
(***************************************************************************)
(* requireAuth and optionalAuth.                                           *)
(***************************************************************************)

VerifyJWT(t) == t \in tokens /\ now < t.iat + Expiry

\* req.account: an invalid or expired token counts as none.
Account(t) == IF VerifyJWT(t) THEN t.sub ELSE Nobody

\* A request with token t, or with NoToken.  requireAuth answers 401 where
\* optionalAuth goes on as Nobody: the handler does not run.
ApiRequest(route, t) ==
  /\ route # "login"
  /\ RateLimited(route)
  /\ acting' = IF refusedBy' = "none" /\ Routes[route].auth # "none"
               THEN Account(t) ELSE Nobody
  /\ UNCHANGED <<now, loginVars>>

-----------------------------------------------------------------------------
\* Requests that are older than a window are forgotten in the ghosts.
Recent(log, t) ==
  [l \in Limiters |-> [u \in Times |-> IF u + Window <= t THEN 0 ELSE log[l][u]]]

Tick ==
  /\ now < MaxTime
  /\ now' = now + 1
  /\ reached' = Recent(reached, now') /\ passed' = Recent(passed, now')
  /\ acting' = Nobody /\ refusedBy' = "none"
  /\ UNCHANGED <<counter, sent, loginVars>>

\* The counters are lost.  Tokens and challenges are not kept at all: they are
\* proved by the server's key and by JWT_SECRET.
Restart ==
  /\ counter # FreshCounters
  /\ counter' = FreshCounters
  /\ reached' = NoRequests /\ passed' = NoRequests
  /\ acting' = Nobody /\ refusedBy' = "none"
  /\ UNCHANGED <<now, sent, loginVars>>

GatewayNext ==
  \/ Tick \/ Restart
  \/ \E a \in Accounts :
       \/ BuildChallenge(a)
       \/ \E c \in challenges :
            \/ Sign(a, c)
            \/ \E keys \in SUBSET Keys : SubmitChallenge(a, c, keys)
  \/ \E route \in Served, t \in tokens \cup {NoToken} : ApiRequest(route, t)

GatewaySpec == GatewayInit /\ [][GatewayNext]_gatewayVars

-----------------------------------------------------------------------------
(***************************************************************************)
(* Safety.                                                                 *)
(***************************************************************************)

\* A limiter's requests in the last window, each known by its time and its
\* number.
Requests(log) == UNION {{t} \X (1..log[t]) : t \in Times}
Total(log) == Cardinality(Requests(log))

\* A request handled as an account was allowed by its owner: the account's key
\* has signed a challenge that names the account, and that was issued at most
\* the challenge's time and the token's time ago.
AccountIsProven ==
  acting # Nobody =>
    \E c \in challenges :
      /\ c.account = acting
      /\ <<acting, c>> \in signed
      /\ now < c.at + Timeout + Expiry

\* In any stretch as long as the window, wherever it begins, a limiter lets
\* pass at most twice its maximum, while the process runs.
AtMostTwice == \A l \in Limiters : Total(passed[l]) <= 2 * Limit[l]

\* Who is refused has himself sent, within the last window, enough requests
\* to that limiter: more than its maximum, or half of that where a router
\* names the limiter again.
RefusalIsExplained ==
  refusedBy # "none" =>
    IF refusedBy = "api" THEN 2 * Total(reached["api"]) > Limit["api"]
    ELSE Total(reached[refusedBy]) > Limit[refusedBy]

\* What the limiters let pass and what they refuse is bounded, whenever the
\* windows begin and end.
LimitersBounded == AtMostTwice /\ RefusalIsExplained

-----------------------------------------------------------------------------
(***************************************************************************)
(* Claims of the documentation the code does not keep.                     *)
(***************************************************************************)

\* docs/api-reference.md:28-30: the client signs the challenge, sends it, and
\* gets a token.  Signed by both in time, it is refused unless both signatures
\* happen to begin with the right bytes.
SignedChallengeIsAccepted ==
  [][\A a \in Accounts, c \in challenges :
       (/\ SubmitChallenge(a, c, {Server, a})
        /\ c.account = a /\ <<a, c>> \in signed /\ now <= c.at + Timeout
        /\ refusedBy' = "none")
       => [sub |-> a, iat |-> now] \in tokens']_gatewayVars

\* ratelimit.ts:7 allows 100 requests of the standard routes.  Where a router
\* names apiRateLimit again, each request counts twice.
RefusedOnlyBeyondMax ==
  refusedBy = "api" => Total(reached["api"]) > Limit["api"]

\* ratelimit.ts:9 allows reads more than other requests.  apiRateLimit refuses
\* them first.
ReadsAreLooser ==
  Served = {"read"} => (refusedBy # "none" => Total(reached["api"]) > Limit["read"])

\* index.ts:60 says of /health "no auth / rate-limit".
HealthIsNotLimited == Served = {"health"} => refusedBy = "none"

\* docs/api-reference.md:38 counts in Redis, where a restart leaves the counters.
CountersSurvive ==
  [][\A l \in Limiters : counter'[l].hits < counter[l].hits
       => counter[l].reset <= now]_gatewayVars

=============================================================================
