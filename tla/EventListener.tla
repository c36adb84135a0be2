--------------------------- MODULE EventListener ---------------------------
(***************************************************************************)
(* EventListenerWorker (src/backend/src/workers/event-listener.ts): one    *)
(* stream per contract, reopened after an error by a timer whose delay     *)
(* grows with a counter that all contracts share.                          *)
(*                                                                         *)
(* The code runs in callbacks, each of them a step.  Horizon's streams are *)
(* external: opening one succeeds or throws, and an open one delivers or   *)
(* reports an error at any time.  The SDK's stream is an EventSource that  *)
(* connects again by itself, and the worker does not close it on an error, *)
(* so one that has reported an error goes on, unless its server has ended  *)
(* it for good.  What a delivery does is Indexer.                          *)
(***************************************************************************)
EXTENDS Naturals, Sequences, SequencesExt

CONSTANTS
  Subscribed,    \* the contract ids that are set, in the order of subscription
  MaxAttempts,   \* MAX_RECONNECT_ATTEMPTS
  MaxErrors      \* bound: errors the streams of one contract report

ASSUME SubscribedAssumption ==
  Subscribed \in Seq(ToSet(Subscribed)) /\ IsInjective(Subscribed)
ASSUME AttemptsAssumption == MaxAttempts \in Nat \ {0}
ASSUME ErrorsAssumption == MaxErrors \in Nat

VARIABLES
  phase,      \* of the process: "new", "starting" (inside start), "running"
              \* or "stopped"; this.running in the second and third
  toOpen,     \* the contracts start has still to subscribe to
  attempts,   \* reconnectAttempts
  live,       \* per contract: the streams that call back
  handles,    \* per contract: its functions in closeHandles
  timers,     \* per contract: the reconnections that are due
  errors,     \* ghost, per contract: the errors its streams have reported
  failures,   \* ghost: failures since the last event, up to MaxAttempts
  abandoned   \* ghost: contracts with an abandoned reconnection

listenerVars == <<phase, toOpen, attempts, live, handles, timers, errors,
                  failures, abandoned>>

Ids == ToSet(Subscribed)

ListenerTypeOK ==
  /\ phase \in {"new", "starting", "running", "stopped"}
  /\ toOpen \in Seq(Ids)
  /\ attempts \in 0..MaxAttempts
  /\ live \in [Ids -> 0..(1 + MaxErrors)]
  /\ handles \in [Ids -> 0..(1 + MaxErrors)]
  /\ timers \in [Ids -> 0..(1 + MaxErrors)]
  /\ errors \in [Ids -> 0..MaxErrors]
  /\ failures \in [Ids -> 0..MaxAttempts]
  /\ abandoned \subseteq Ids

ListenerInit ==
  /\ phase = "new"
  /\ toOpen = <<>>
  /\ attempts = 0
  /\ live = [c \in Ids |-> 0]
  /\ handles = [c \in Ids |-> 0]
  /\ timers = [c \in Ids |-> 0]
  /\ errors = [c \in Ids |-> 0]
  /\ failures = [c \in Ids |-> 0]
  /\ abandoned = {}

-----------------------------------------------------------------------------
\* Definitions named X_Y are faulty variants of X, used to see that a property
\* notices the fault; nothing else refers to them.

Failed(c) ==
  failures' = [failures EXCEPT ![c] = IF @ < MaxAttempts THEN @ + 1 ELSE @]

\* "due" is the timers without the one that has just fired, if one has
ScheduleReconnect_StartsOver(c, due) ==
  /\ attempts' = IF attempts >= MaxAttempts THEN 1 ELSE attempts + 1
  /\ timers' = [due EXCEPT ![c] = @ + 1]
  /\ UNCHANGED abandoned

ScheduleReconnect(c, due) ==
  IF attempts >= MaxAttempts
  THEN /\ abandoned' = abandoned \cup {c}
       /\ timers' = due
       /\ UNCHANGED attempts
  ELSE /\ attempts' = attempts + 1
       /\ timers' = [due EXCEPT ![c] = @ + 1]
       /\ UNCHANGED abandoned

Opened(c, due) ==
  /\ live' = [live EXCEPT ![c] = @ + 1]
  /\ handles' = [handles EXCEPT ![c] = @ + 1]
  /\ attempts' = 0
  /\ timers' = due
  /\ UNCHANGED <<failures, abandoned>>

\* The counter is reset when stream() returns, before anything is received.
SubscribeToContract(c, due) ==
  \/ Opened(c, due)
  \/ /\ Failed(c)
     /\ ScheduleReconnect(c, due)
     /\ UNCHANGED <<live, handles>>

\* start sets running and waits for the indexer to start.  Without contracts it
\* is over then.
Start ==
  /\ phase = "new"
  /\ phase' = IF Subscribed = <<>> THEN "running" ELSE "starting"
  /\ toOpen' = Subscribed
  /\ UNCHANGED <<attempts, live, handles, timers, errors, failures, abandoned>>

\* The rest of start is one callback: nothing else runs until every contract
\* has been subscribed to.
OpenNext ==
  /\ phase = "starting"
  /\ toOpen # <<>>
  /\ SubscribeToContract(Head(toOpen), timers)
  /\ toOpen' = Tail(toOpen)
  /\ phase' = IF toOpen' = <<>> THEN "running" ELSE phase
  /\ UNCHANGED errors

OnMessage(c) ==
  /\ phase = "running"
  /\ live[c] > 0
  /\ failures' = [failures EXCEPT ![c] = 0]
  /\ UNCHANGED <<phase, toOpen, attempts, live, handles, timers, errors,
                 abandoned>>

\* The stream in error is not closed, and its handle stays: it connects again
\* by itself beside the one that is opened for it, or is ended by its server.
OnError(c) ==
  /\ phase = "running"
  /\ live[c] > 0
  /\ errors[c] < MaxErrors
  /\ errors' = [errors EXCEPT ![c] = @ + 1]
  /\ \/ UNCHANGED live
     \/ live' = [live EXCEPT ![c] = @ - 1]
  /\ Failed(c)
  /\ ScheduleReconnect(c, timers)
  /\ UNCHANGED <<phase, toOpen, handles>>

\* due timers without one of c's
Without(c) == [timers EXCEPT ![c] = @ - 1]

OnTimer_StoppedToo(c) ==
  /\ timers[c] > 0
  /\ phase \in {"running", "stopped"}
  /\ SubscribeToContract(c, Without(c))
  /\ UNCHANGED <<phase, toOpen, errors>>

OnTimer_Repeats(c) ==
  /\ timers[c] > 0
  /\ \/ /\ phase = "running"
        /\ handles[c] + timers[c] <= MaxErrors
        /\ SubscribeToContract(c, timers)
     \/ /\ phase = "stopped"
        /\ timers' = Without(c)
        /\ UNCHANGED <<attempts, live, handles, failures, abandoned>>
  /\ UNCHANGED <<phase, toOpen, errors>>

\* A timer that fires after stop does nothing.
OnTimer(c) ==
  /\ timers[c] > 0
  /\ \/ /\ phase = "running"
        /\ SubscribeToContract(c, Without(c))
     \/ /\ phase = "stopped"
        /\ timers' = Without(c)
        /\ UNCHANGED <<attempts, live, handles, failures, abandoned>>
  /\ UNCHANGED <<phase, toOpen, errors>>

\* index.ts installs the handler of its signals when start has returned.
\* Closing a dead stream is harmless; one without a handle would survive.
Stop ==
  /\ phase = "running"
  /\ phase' = "stopped"
  /\ live' = [c \in Ids |-> IF live[c] > handles[c] THEN live[c] - handles[c]
                            ELSE 0]
  /\ handles' = [c \in Ids |-> 0]
  /\ UNCHANGED <<toOpen, attempts, timers, errors, failures, abandoned>>

ListenerNext ==
  \/ Start
  \/ OpenNext
  \/ \E c \in Ids : OnMessage(c) \/ OnError(c) \/ OnTimer(c)
  \/ Stop

\* Every timer fires.
ListenerFairness == \A c \in Ids : WF_listenerVars(OnTimer(c))

ListenerSpec == ListenerInit /\ [][ListenerNext]_listenerVars
ListenerFairSpec == ListenerSpec /\ ListenerFairness

-----------------------------------------------------------------------------

\* No contract is forgotten: as long as the worker runs, each of them has a
\* stream, is about to be reopened, or has been given up on purpose.
NeverForgotten ==
  phase = "running" =>
    \A c \in Ids : live[c] > 0 \/ timers[c] > 0 \/ c \in abandoned

\* After stop nothing calls back and nothing is opened any more, whatever
\* reconnections were due at that time.
SilentAfterStop ==
  phase = "stopped" => \A c \in Ids : live[c] = 0 /\ handles[c] = 0

\* The worker attends to all contracts while it runs, and to none after stop.
Attended == NeverForgotten /\ SilentAfterStop

\* A contract has one stream, or one reconnection that will open it, and one
\* more for each error that a stream of it has reported: neither an opening that
\* fails, nor a timer, nor a success of another contract makes them more, and
\* every stream that calls back has a handle by which stop closes it.
StreamsAreOwed ==
  \A c \in Ids : /\ live[c] <= handles[c]
                 /\ handles[c] + timers[c] <= 1 + errors[c]

\* When the streams that are open stop failing, every contract gets a stream
\* again or is given up, although successes of one contract reset the attempts
\* of another: nobody stays in the cycle of failures and timers for ever.
Settles ==
  <>[][\A c \in Ids : ~OnError(c)]_listenerVars =>
    \A c \in Ids :
      phase = "running" ~> live[c] > 0 \/ c \in abandoned \/ phase = "stopped"

-----------------------------------------------------------------------------
(***************************************************************************)
(* What the comments of the worker say, which the code does not do.        *)
(***************************************************************************)

\* "Give up after 10 consecutive failures" (event-listener.ts:26): a contract
\* that is given up has failed as often as that since it last delivered an
\* event.
GivesUpOnlyAtTheLimit == \A c \in abandoned : failures[c] >= MaxAttempts

\* "Opens an SSE connection" and "Automatically reconnects on disconnect"
\* (event-listener.ts:11, :14): a contract has one stream, or one reconnection
\* that will open it.
OneStreamPerContract == \A c \in Ids : live[c] + timers[c] <= 1

\* "Falling back to polling only" (event-listener.ts:150): a contract that is
\* given up has no stream.
GivenUpIsPolledOnly == \A c \in abandoned : live[c] = 0

=============================================================================
