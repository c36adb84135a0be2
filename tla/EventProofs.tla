---------------------------- MODULE EventProofs ----------------------------
(***************************************************************************)
(* Theorems about EventListener and Indexer, for any number of contracts,  *)
(* events and attempts.                                                    *)
(***************************************************************************)
EXTENDS EventListener, Indexer, FiniteSetTheorems, SequenceTheorems, TLAPS

-----------------------------------------------------------------------------
(***************************************************************************)
(* EVENT LISTENER.                                                         *)
(***************************************************************************)

-----------------------------------------------------------------------------
(***************************************************************************)
(* The contracts still to be subscribed to.                                *)
(***************************************************************************)

\* Taking the first element off a sequence without repetitions takes that
\* element, and no other, out of its set.
LEMMA TailOfInjective ==
  ASSUME NEW S, NEW q \in Seq(S), q # <<>>, IsInjective(q)
  PROVE  /\ Head(q) \in S
         /\ Head(q) \in ToSet(q)
         /\ Tail(q) \in Seq(S)
         /\ IsInjective(Tail(q))
         /\ ToSet(Tail(q)) = ToSet(q) \ {Head(q)}
<1> DEFINE t == Tail(q)
<1>1. Len(q) \in Nat \ {0} /\ DOMAIN q = 1..Len(q) /\ Head(q) = q[1]
  BY EmptySeq, LenProperties
<1>2. /\ t \in Seq(S) /\ Len(t) = Len(q) - 1 /\ DOMAIN t = 1..(Len(q) - 1)
      /\ \A i \in 1..(Len(q) - 1) : t[i] = q[i + 1]
  BY HeadTailProperties, LenProperties
<1>3. q[1] \in S
  BY <1>1, ElementOfSeq
<1>4. IsInjective(t)
  BY <1>1, <1>2 DEF IsInjective
<1>5. q[1] \in ToSet(q)
  BY <1>1 DEF ToSet
<1>6. ToSet(t) \subseteq ToSet(q) \ {q[1]}
  <2> SUFFICES ASSUME NEW i \in 1..(Len(q) - 1)
               PROVE  t[i] \in ToSet(q) \ {q[1]}
    BY <1>2 DEF ToSet
  <2>1. t[i] = q[i + 1] /\ i + 1 \in DOMAIN q /\ i + 1 # 1
    BY <1>1, <1>2
  <2> QED
    BY <1>1, <2>1 DEF ToSet, IsInjective
<1>7. ToSet(q) \ {q[1]} \subseteq ToSet(t)
  <2> SUFFICES ASSUME NEW i \in 1..Len(q), q[i] # q[1]
               PROVE  q[i] \in ToSet(t)
    BY <1>1 DEF ToSet
  <2>1. i - 1 \in 1..(Len(q) - 1) /\ (i - 1) + 1 = i
    BY <1>1
  <2>2. t[i - 1] = q[i]
    BY <1>2, <2>1
  <2> QED
    BY <1>2, <2>1, <2>2 DEF ToSet
<1> QED
  BY <1>1, <1>2, <1>3, <1>4, <1>5, <1>6, <1>7

-----------------------------------------------------------------------------
(***************************************************************************)
(* The inductive invariant.  A contract that start has not come to yet has *)
(* nothing; one it has come to is attended to until stop, by a stream that *)
(* has a handle or by a timer.                                             *)
(***************************************************************************)

Untouched(c) == live[c] = 0 /\ handles[c] = 0 /\ timers[c] = 0

Order ==
  /\ IsInjective(toOpen)
  /\ phase # "starting" => toOpen = <<>>
  /\ phase = "new" => \A c \in Ids : Untouched(c)
  /\ \A c \in ToSet(toOpen) : Untouched(c)

Streams(c) ==
  /\ live[c] <= handles[c]
  /\ handles[c] + timers[c] <= 1 + errors[c]
  /\ phase \in {"starting", "running"} /\ c \notin ToSet(toOpen)
       => live[c] > 0 \/ timers[c] > 0 \/ c \in abandoned
  /\ phase = "stopped" => live[c] = 0 /\ handles[c] = 0

Kept == ListenerTypeOK /\ Order /\ \A c \in Ids : Streams(c)

LEMMA InitKept == ListenerInit => Kept
<1> SUFFICES ASSUME ListenerInit PROVE Kept
  OBVIOUS
<1>1. toOpen \in Seq(Ids) /\ ToSet(toOpen) = {} /\ IsInjective(toOpen)
  BY EmptySeq DEF ListenerInit, ToSet, IsInjective
<1>2. ListenerTypeOK
  BY <1>1, AttemptsAssumption, ErrorsAssumption DEF ListenerInit, ListenerTypeOK
<1>3. Order
  BY <1>1 DEF ListenerInit, Order, Untouched
<1>4. \A c \in Ids : Streams(c)
  BY ErrorsAssumption DEF ListenerInit, Streams
<1> QED
  BY <1>2, <1>3, <1>4 DEF Kept

\* A reconnection is due then, or the contract is given up.
LEMMA Scheduling ==
  ASSUME ListenerTypeOK, NEW c \in Ids, NEW due \in [Ids -> 0..(1 + MaxErrors)],
         due[c] <= MaxErrors, ScheduleReconnect(c, due)
  PROVE  /\ attempts' \in 0..MaxAttempts
         /\ timers' \in [Ids -> 0..(1 + MaxErrors)]
         /\ abandoned \subseteq abandoned' /\ abandoned' \subseteq Ids
         /\ \A d \in Ids : d # c => timers'[d] = due[d]
         /\ \/ timers'[c] = due[c] + 1
            \/ timers'[c] = due[c] /\ c \in abandoned'
<1>1. CASE attempts >= MaxAttempts
  BY <1>1 DEF ScheduleReconnect, ListenerTypeOK
<1>2. CASE ~(attempts >= MaxAttempts)
  <2>1. due[c] + 1 \in 0..(1 + MaxErrors)
    BY ErrorsAssumption
  <2>2. attempts + 1 \in 0..MaxAttempts
    BY <1>2, AttemptsAssumption DEF ListenerTypeOK
  <2> QED
    BY <1>2, <2>1, <2>2 DEF ScheduleReconnect, ListenerTypeOK
<1> QED
  BY <1>1, <1>2

LEMMA FailureTyped ==
  ASSUME ListenerTypeOK, NEW c \in Ids, Failed(c)
  PROVE  failures' \in [Ids -> 0..MaxAttempts]
BY AttemptsAssumption DEF ListenerTypeOK, Failed

\* A subscription leaves its contract with a new stream, with a reconnection,
\* or given up, and other contracts alone.
LEMMA Subscribing ==
  ASSUME ListenerTypeOK, NEW c \in Ids, NEW due \in [Ids -> 0..(1 + MaxErrors)],
         live[c] <= handles[c], handles[c] + due[c] <= MaxErrors,
         SubscribeToContract(c, due)
  PROVE  /\ attempts' \in 0..MaxAttempts
         /\ live' \in [Ids -> 0..(1 + MaxErrors)]
         /\ handles' \in [Ids -> 0..(1 + MaxErrors)]
         /\ timers' \in [Ids -> 0..(1 + MaxErrors)]
         /\ failures' \in [Ids -> 0..MaxAttempts]
         /\ abandoned \subseteq abandoned' /\ abandoned' \subseteq Ids
         /\ \A d \in Ids : d # c => /\ live'[d] = live[d]
                                    /\ handles'[d] = handles[d]
                                    /\ timers'[d] = due[d]
         /\ live'[c] <= handles'[c]
         /\ handles'[c] + timers'[c] <= handles[c] + due[c] + 1
         /\ live'[c] > 0 \/ timers'[c] > 0 \/ c \in abandoned'
<1>0. /\ live[c] \in Nat /\ handles[c] \in Nat /\ due[c] \in Nat
      /\ due[c] <= MaxErrors /\ handles[c] <= MaxErrors /\ live[c] <= MaxErrors
  BY ErrorsAssumption DEF ListenerTypeOK
<1>1. CASE Opened(c, due)
  <2>1. handles[c] + 1 \in 0..(1 + MaxErrors) /\ live[c] + 1 \in 0..(1 + MaxErrors)
    BY <1>0, ErrorsAssumption
  <2>2. /\ live' \in [Ids -> 0..(1 + MaxErrors)] /\ live'[c] = live[c] + 1
        /\ handles' \in [Ids -> 0..(1 + MaxErrors)] /\ handles'[c] = handles[c] + 1
        /\ \A d \in Ids : d # c => live'[d] = live[d] /\ handles'[d] = handles[d]
    BY <1>1, <2>1 DEF Opened, ListenerTypeOK
  <2>3. /\ attempts' = 0 /\ 0 \in 0..MaxAttempts
        /\ timers' = due /\ failures' = failures /\ abandoned' = abandoned
    BY <1>1, AttemptsAssumption DEF Opened
  <2>4. failures \in [Ids -> 0..MaxAttempts] /\ abandoned \subseteq Ids
    BY DEF ListenerTypeOK
  <2>5. /\ live[c] + 1 <= handles[c] + 1 /\ live[c] + 1 > 0
        /\ handles[c] + 1 + due[c] <= handles[c] + due[c] + 1
    BY <1>0, ErrorsAssumption
  <2> QED
    BY <2>2, <2>3, <2>4, <2>5
<1>2. CASE /\ Failed(c)
           /\ ScheduleReconnect(c, due)
           /\ UNCHANGED <<live, handles>>
  <2>1. live' = live /\ handles' = handles
    BY <1>2
  <2>2. failures' \in [Ids -> 0..MaxAttempts]
    BY <1>2, FailureTyped
  <2>3. /\ attempts' \in 0..MaxAttempts
        /\ timers' \in [Ids -> 0..(1 + MaxErrors)]
        /\ abandoned \subseteq abandoned' /\ abandoned' \subseteq Ids
        /\ \A d \in Ids : d # c => timers'[d] = due[d]
        /\ \/ timers'[c] = due[c] + 1
           \/ timers'[c] = due[c] /\ c \in abandoned'
    BY <1>0, <1>2, Scheduling
  <2>4. /\ handles[c] + timers'[c] <= handles[c] + due[c] + 1
        /\ timers'[c] > 0 \/ c \in abandoned'
    BY <1>0, <2>3, ErrorsAssumption
  <2>5. live \in [Ids -> 0..(1 + MaxErrors)] /\ handles \in [Ids -> 0..(1 + MaxErrors)]
    BY DEF ListenerTypeOK
  <2> QED
    BY <2>1, <2>2, <2>3, <2>4, <2>5
<1> QED
  BY <1>1, <1>2 DEF SubscribeToContract

-----------------------------------------------------------------------------
(***************************************************************************)
(* One lemma per action.                                                   *)
(***************************************************************************)

LEMMA StartKept ==
  ASSUME Kept, Start
  PROVE  Kept'
<1> USE DEF Kept, Start
<1>1. toOpen' \in Seq(Ids) /\ IsInjective(toOpen')
  BY SubscribedAssumption DEF Ids
<1>2. ToSet(toOpen') = Ids
  BY DEF Ids
<1>3. ListenerTypeOK'
  BY <1>1 DEF ListenerTypeOK
<1>4. \A c \in Ids : Untouched(c) /\ Untouched(c)'
  BY DEF Order, Untouched
<1>5. Order'
  BY <1>1, <1>2, <1>4 DEF Order
<1>6. ASSUME NEW c \in Ids PROVE Streams(c)'
  BY <1>2, <1>4 DEF Streams, Untouched
<1> QED
  BY <1>3, <1>5, <1>6

LEMMA OpenNextKept ==
  ASSUME Kept, OpenNext
  PROVE  Kept'
<1> DEFINE c == Head(toOpen)
<1>0. /\ ListenerTypeOK /\ Order /\ phase = "starting" /\ phase' \in {"starting", "running"}
      /\ (phase' = "running" <=> toOpen' = <<>>)
      /\ toOpen' = Tail(toOpen) /\ errors' = errors
  BY DEF Kept, OpenNext
<1>1. /\ c \in Ids /\ c \in ToSet(toOpen)
      /\ toOpen' \in Seq(Ids) /\ IsInjective(toOpen')
      /\ ToSet(toOpen') = ToSet(toOpen) \ {c}
  BY <1>0, TailOfInjective DEF OpenNext, Order, ListenerTypeOK
<1>2. live[c] = 0 /\ handles[c] = 0 /\ timers[c] = 0
  BY <1>0, <1>1 DEF Order, Untouched
<1>3. SubscribeToContract(c, timers)
  BY DEF OpenNext
<1>4. handles[c] + timers[c] <= MaxErrors /\ live[c] <= handles[c]
  BY <1>2, ErrorsAssumption
<1>5. timers \in [Ids -> 0..(1 + MaxErrors)]
  BY <1>0 DEF ListenerTypeOK
<1> HIDE DEF c
<1>6. ListenerTypeOK'
  BY <1>0, <1>1, <1>3, <1>4, <1>5, Subscribing DEF ListenerTypeOK
<1>7. \A d \in ToSet(toOpen') : d \in ToSet(toOpen) /\ d # c
  BY <1>1
<1>8. \A d \in ToSet(toOpen') : d \in Ids
  BY <1>1, LenProperties, ElementOfSeq DEF ToSet
<1>9. \A d \in Ids : d # c => /\ live'[d] = live[d]
                               /\ handles'[d] = handles[d]
                               /\ timers'[d] = timers[d]
  BY <1>0, <1>1, <1>3, <1>4, <1>5, Subscribing
<1>10. Order'
  <2>1. ASSUME NEW d \in ToSet(toOpen') PROVE Untouched(d)'
    <3>1. d \in Ids /\ d # c /\ Untouched(d)
      BY <1>0, <1>7, <1>8 DEF Order
    <3>2. live'[d] = live[d] /\ handles'[d] = handles[d] /\ timers'[d] = timers[d]
      BY <1>9, <3>1
    <3> QED
      BY <3>1, <3>2 DEF Untouched
  <2> QED
    BY <1>0, <1>1, <2>1 DEF Order
<1>11. ASSUME NEW d \in Ids PROVE Streams(d)'
  <2>1. CASE d = c
    <3>1. /\ live'[c] <= handles'[c]
          /\ handles'[c] + timers'[c] <= handles[c] + timers[c] + 1
          /\ live'[c] > 0 \/ timers'[c] > 0 \/ c \in abandoned'
      BY <1>0, <1>1, <1>3, <1>4, <1>5, Subscribing
    <3>2. handles'[c] + timers'[c] <= 1 + errors'[c]
      <4>1. errors[c] \in Nat /\ errors'[c] = errors[c]
        BY <1>0, <1>1, ErrorsAssumption DEF ListenerTypeOK
      <4>2. handles'[c] \in Nat /\ timers'[c] \in Nat
        BY <1>1, <1>6, ErrorsAssumption DEF ListenerTypeOK
      <4> QED
        BY <1>2, <3>1, <4>1, <4>2
    <3>3. phase' # "stopped"
      BY <1>0
    <3> QED
      BY <2>1, <3>1, <3>2, <3>3 DEF Streams
  <2>2. CASE d # c
    <3>1. d \notin ToSet(toOpen') => d \notin ToSet(toOpen)
      BY <1>1, <2>2
    <3>2. /\ live'[d] = live[d] /\ handles'[d] = handles[d]
          /\ timers'[d] = timers[d] /\ abandoned \subseteq abandoned'
      BY <1>0, <1>1, <1>3, <1>4, <1>5, <2>2, Subscribing
    <3> QED
      BY <1>0, <3>1, <3>2 DEF Kept, Streams
  <2> QED
    BY <2>1, <2>2
<1> QED
  BY <1>6, <1>10, <1>11 DEF Kept

LEMMA OnMessageKept ==
  ASSUME Kept, NEW c \in Ids, OnMessage(c)
  PROVE  Kept'
<1>1. failures' \in [Ids -> 0..MaxAttempts]
  BY AttemptsAssumption DEF Kept, OnMessage, ListenerTypeOK
<1>2. ListenerTypeOK'
  BY <1>1 DEF Kept, OnMessage, ListenerTypeOK
<1>3. Order' /\ \A d \in Ids : Streams(d)'
  BY DEF Kept, OnMessage, Order, Untouched, Streams
<1> QED
  BY <1>2, <1>3 DEF Kept

LEMMA OnErrorKept ==
  ASSUME Kept, NEW c \in Ids, OnError(c)
  PROVE  Kept'
<1>0. /\ ListenerTypeOK /\ Order /\ Streams(c) /\ phase = "running" /\ toOpen = <<>>
      /\ live[c] > 0 /\ errors[c] < MaxErrors
      /\ errors' = [errors EXCEPT ![c] = @ + 1]
      /\ UNCHANGED <<phase, toOpen, handles>>
  BY DEF Kept, OnError, Order
<1>1. /\ live[c] \in Nat /\ handles[c] \in Nat /\ timers[c] \in Nat
      /\ live[c] <= handles[c] /\ live[c] <= 1 + MaxErrors /\ errors[c] \in Nat
      /\ timers \in [Ids -> 0..(1 + MaxErrors)] /\ timers[c] <= MaxErrors
  BY <1>0, ErrorsAssumption DEF ListenerTypeOK, Streams
<1>2. /\ live' \in [Ids -> 0..(1 + MaxErrors)]
      /\ \A d \in Ids : d # c => live'[d] = live[d]
      /\ \/ live'[c] = live[c] - 1
         \/ live'[c] = live[c]
  <2>1. live \in [Ids -> 0..(1 + MaxErrors)] /\ live[c] - 1 \in 0..(1 + MaxErrors)
    BY <1>0, <1>1, ErrorsAssumption DEF ListenerTypeOK
  <2>2. CASE live' = [live EXCEPT ![c] = @ - 1]
    BY <2>1, <2>2
  <2>3. CASE UNCHANGED live
    BY <2>1, <2>3
  <2> QED
    BY <2>2, <2>3 DEF OnError
<1>3. /\ attempts' \in 0..MaxAttempts
      /\ timers' \in [Ids -> 0..(1 + MaxErrors)]
      /\ abandoned \subseteq abandoned' /\ abandoned' \subseteq Ids
      /\ \A d \in Ids : d # c => timers'[d] = timers[d]
      /\ \/ timers'[c] = timers[c] + 1
         \/ timers'[c] = timers[c] /\ c \in abandoned'
  BY <1>0, <1>1, Scheduling DEF OnError
<1>4. failures' \in [Ids -> 0..MaxAttempts]
  BY <1>0, FailureTyped DEF OnError
<1>5. ListenerTypeOK'
  <2>1. errors' \in [Ids -> 0..MaxErrors]
    BY <1>0, <1>1, ErrorsAssumption DEF ListenerTypeOK
  <2> QED
    BY <1>0, <1>2, <1>3, <1>4, <2>1 DEF ListenerTypeOK
<1>6. ToSet(toOpen) = {} /\ toOpen' = toOpen
  BY <1>0 DEF ToSet
<1>7. Order'
  BY <1>0, <1>6 DEF Order
<1>8. ASSUME NEW d \in Ids PROVE Streams(d)'
  <2>1. CASE d = c
    <3>1. live'[c] <= handles'[c]
      BY <1>0, <1>1, <1>2
    <3>2. handles'[c] + timers'[c] <= 1 + errors'[c]
      <4>1. errors'[c] = errors[c] + 1
        BY <1>0 DEF ListenerTypeOK
      <4>2. handles[c] + timers[c] <= 1 + errors[c] /\ handles'[c] = handles[c]
        BY <1>0 DEF Streams
      <4> QED
        BY <1>1, <1>3, <4>1, <4>2
    <3>3. timers'[c] > 0 \/ c \in abandoned'
      BY <1>1, <1>3
    <3> QED
      BY <1>0, <2>1, <3>1, <3>2, <3>3 DEF Streams
  <2>2. CASE d # c
    <3>1. /\ live'[d] = live[d] /\ handles'[d] = handles[d]
          /\ timers'[d] = timers[d] /\ abandoned \subseteq abandoned'
          /\ errors'[d] = errors[d]
      BY <1>0, <1>2, <1>3, <2>2 DEF ListenerTypeOK
    <3> QED
      BY <1>0, <3>1 DEF Kept, Streams
  <2> QED
    BY <2>1, <2>2
<1> QED
  BY <1>5, <1>7, <1>8 DEF Kept

LEMMA OnTimerKept ==
  ASSUME Kept, NEW c \in Ids, OnTimer(c)
  PROVE  Kept'
<1> DEFINE due == Without(c)
<1>0. /\ ListenerTypeOK /\ Order /\ Streams(c) /\ phase \in {"running", "stopped"}
      /\ toOpen = <<>> /\ UNCHANGED <<phase, toOpen, errors>>
  BY DEF Kept, OnTimer, Order
<1>1. /\ live[c] \in Nat /\ handles[c] \in Nat /\ timers[c] \in Nat \ {0}
      /\ errors[c] \in 0..MaxErrors
      /\ live[c] <= handles[c] /\ handles[c] + timers[c] <= 1 + errors[c]
      /\ timers[c] - 1 \in 0..(1 + MaxErrors)
  BY <1>0, ErrorsAssumption DEF OnTimer, ListenerTypeOK, Streams
<1>2. /\ due \in [Ids -> 0..(1 + MaxErrors)] /\ due[c] = timers[c] - 1
      /\ \A d \in Ids : d # c => due[d] = timers[d]
  BY <1>0, <1>1 DEF Without, ListenerTypeOK
<1>3. ToSet(toOpen) = {} /\ toOpen' = toOpen
  BY <1>0 DEF ToSet
<1>4. CASE phase = "running"
  <2>1. SubscribeToContract(c, due)
    BY <1>4 DEF OnTimer
  <2>2. handles[c] + due[c] <= MaxErrors
    BY <1>1, <1>2, ErrorsAssumption
  <2> HIDE DEF due
  <2>3. ListenerTypeOK'
    BY <1>0, <1>1, <1>2, <2>1, <2>2, Subscribing DEF ListenerTypeOK
  <2>4. Order'
    BY <1>0, <1>3, <1>4 DEF Order
  <2>5. ASSUME NEW d \in Ids PROVE Streams(d)'
    <3>1. CASE d = c
      <4>1. /\ live'[c] <= handles'[c]
            /\ handles'[c] + timers'[c] <= handles[c] + due[c] + 1
            /\ live'[c] > 0 \/ timers'[c] > 0 \/ c \in abandoned'
        BY <1>0, <1>1, <1>2, <2>1, <2>2, Subscribing
      <4>2. handles'[c] \in Nat /\ timers'[c] \in Nat
        BY <2>3, ErrorsAssumption DEF ListenerTypeOK
      <4>3. /\ due[c] = timers[c] - 1 /\ errors[c] \in Nat
            /\ handles[c] \in Nat /\ timers[c] \in Nat
            /\ handles[c] + timers[c] <= 1 + errors[c]
        BY <1>1, <1>2, ErrorsAssumption
      <4>4. handles'[c] + timers'[c] <= 1 + errors[c]
        BY <4>1, <4>2, <4>3
      <4>5. errors'[c] = errors[c]
        BY <1>0
      <4> QED
        BY <1>0, <1>4, <3>1, <4>1, <4>4, <4>5 DEF Streams
    <3>2. CASE d # c
      <4>1. /\ live'[d] = live[d] /\ handles'[d] = handles[d]
            /\ timers'[d] = due[d] /\ abandoned \subseteq abandoned'
        BY <1>0, <1>1, <1>2, <2>1, <2>2, <3>2, Subscribing
      <4>2. due[d] = timers[d]
        BY <1>2, <3>2
      <4> QED
        BY <1>0, <4>1, <4>2 DEF Kept, Streams
    <3> QED
      BY <3>1, <3>2
  <2> QED
    BY <2>3, <2>4, <2>5 DEF Kept
<1>5. CASE phase = "stopped"
  <2>1. timers' = due /\ UNCHANGED <<attempts, live, handles, failures, abandoned>>
    BY <1>5 DEF OnTimer
  <2> HIDE DEF due
  <2>2. ListenerTypeOK'
    BY <1>0, <1>2, <2>1 DEF ListenerTypeOK
  <2>3. Order'
    BY <1>0, <1>3, <1>5 DEF Order
  <2>4. ASSUME NEW d \in Ids PROVE Streams(d)'
    <3>1. /\ Streams(d) /\ timers[d] \in Nat /\ live[d] \in Nat
          /\ handles[d] \in Nat /\ errors[d] \in Nat
      BY <1>0, ErrorsAssumption DEF Kept, ListenerTypeOK
    <3>2. due[d] \in Nat /\ due[d] <= timers[d]
      <4>1. CASE d = c
        BY <1>1, <1>2, <4>1
      <4>2. CASE d # c
        BY <1>2, <3>1, <4>2
      <4> QED
        BY <4>1, <4>2
    <3> QED
      BY <1>0, <1>5, <2>1, <3>1, <3>2, ErrorsAssumption DEF Streams
  <2> QED
    BY <2>2, <2>3, <2>4 DEF Kept
<1> QED
  BY <1>0, <1>4, <1>5

LEMMA StopKept ==
  ASSUME Kept, Stop
  PROVE  Kept'
<1>0. /\ ListenerTypeOK /\ Order /\ toOpen = <<>> /\ toOpen' = toOpen
      /\ phase' = "stopped" /\ timers' = timers /\ errors' = errors
  BY DEF Kept, Stop, Order
<1>1. \A c \in Ids : /\ live[c] \in Nat /\ handles[c] \in Nat /\ timers[c] \in Nat
                     /\ ~(live[c] > handles[c]) /\ errors[c] \in Nat
                     /\ handles[c] + timers[c] <= 1 + errors[c]
  BY ErrorsAssumption DEF Kept, Streams, ListenerTypeOK
<1>2. live' = [c \in Ids |-> 0] /\ handles' = [c \in Ids |-> 0]
  BY <1>1 DEF Stop
<1>3. ToSet(toOpen') = {}
  BY <1>0 DEF ToSet
<1>4. ListenerTypeOK'
  BY <1>0, <1>2, ErrorsAssumption DEF ListenerTypeOK, Stop
<1>5. Order'
  BY <1>0, <1>3 DEF Order
<1>6. \A c \in Ids : Streams(c)'
  BY <1>0, <1>1, <1>2, ErrorsAssumption DEF Streams
<1> QED
  BY <1>4, <1>5, <1>6 DEF Kept

LEMMA NextKept == Kept /\ [ListenerNext]_listenerVars => Kept'
<1> SUFFICES ASSUME Kept, [ListenerNext]_listenerVars PROVE Kept'
  OBVIOUS
<1>1. CASE UNCHANGED listenerVars
  BY <1>1 DEF listenerVars, Kept, ListenerTypeOK, Order, Untouched, Streams
<1>2. CASE ListenerNext
  BY <1>2, StartKept, OpenNextKept, OnMessageKept, OnErrorKept, OnTimerKept,
     StopKept DEF ListenerNext
<1> QED
  BY <1>1, <1>2

-----------------------------------------------------------------------------
(***************************************************************************)
(* The theorems.                                                           *)
(***************************************************************************)

LEMMA AlwaysKept == ListenerSpec => []Kept
BY InitKept, NextKept, PTL DEF ListenerSpec

\* Every variable has its type; in particular no contract has more streams and
\* reconnections than the bound of the model allows.
THEOREM ListenerTypeCorrect == ListenerSpec => []ListenerTypeOK
<1>1. Kept => ListenerTypeOK
  BY DEF Kept
<1> QED
  BY <1>1, AlwaysKept, PTL

\* Whatever order streams fail, are reopened and are stopped in, no contract is
\* forgotten while the worker runs, and nothing is left after stop.
THEOREM Attends == ListenerSpec => []Attended
<1>1. Kept => Attended
  <2> SUFFICES ASSUME Kept PROVE Attended
    OBVIOUS
  <2>1. phase = "running" => ToSet(toOpen) = {}
    BY DEF Kept, Order, ToSet
  <2>2. NeverForgotten
    BY <2>1 DEF Kept, Streams, NeverForgotten
  <2>3. SilentAfterStop
    BY DEF Kept, Streams, SilentAfterStop
  <2> QED
    BY <2>2, <2>3 DEF Attended
<1> QED
  BY <1>1, AlwaysKept, PTL

\* A stream or a reconnection beyond a contract's first is owed to an error that
\* one of its streams has reported, and every stream can be closed.
THEOREM StreamsOwed == ListenerSpec => []StreamsAreOwed
<1>1. Kept => StreamsAreOwed
  BY DEF Kept, Streams, StreamsAreOwed
<1> QED
  BY <1>1, AlwaysKept, PTL

-----------------------------------------------------------------------------
(***************************************************************************)
(* INDEXER.                                                                *)
(***************************************************************************)

(***************************************************************************)
(* The inductive invariant.  A worker that is past its first step has left *)
(* a record of its event, or Postgres has refused it, and nothing takes    *)
(* back an event or its record.                                            *)
(***************************************************************************)

Tracked ==
  /\ audit \cup refused \cup seen \subseteq 1..Len(ledger)
  /\ \A k \in Positions : step[k] # "idle" => k <= Len(ledger)
  /\ \A w \in Workers : \A k \in EventOf(w) :
       /\ step[w] \in {"owner", "apply"} => k \in audit \cup refused
       /\ step[w] = "owner" => ledger[k].topic = "credential_added"

Indexed == TypeOK /\ Tracked /\ EffectsRecorded

LEMMA EventFacts ==
  ASSUME NEW e \in Event
  PROVE  /\ e.topic \in {"did_created", "credential_added", "credential_revoked",
                         "score_computed", "issuer_registered"}
         /\ e.topic \in {"did_created", "credential_added"} => e.owner \in Owners
         /\ e.topic \in {"credential_added", "credential_revoked"}
              => e.credential \in Credentials
         /\ e.topic = "issuer_registered" => e.issuer \in Issuers /\ e.active \in BOOLEAN
<1>1. PICK n \in DOMAIN Contracts : e \in EventsOf(Contracts[n])
  BY DEF Event
<1>2. Contracts[n] \in {"identity", "score", "registry"}
  BY ContractsAssumption, ElementOfSeq, LenProperties
<1>3. e \in IdentityEvent \cup ScoreEvent \cup RegistryEvent
  BY <1>1, <1>2 DEF EventsOf
<1> QED
  BY <1>3 DEF IdentityEvent, ScoreEvent, RegistryEvent

LEMMA IndexerFacts ==
  ASSUME TypeOK
  PROVE  /\ Len(ledger) \in Nat /\ Len(ledger) \in 0..MaxEvents
         /\ DOMAIN ledger = 1..Len(ledger)
         /\ MaxEvents \in Nat /\ MaxRestarts \in Nat /\ PageLimit \in Nat
         /\ Len(Contracts) \in Nat \ {0} /\ DOMAIN Contracts = 1..Len(Contracts)
         /\ 1..Len(ledger) \subseteq Positions /\ Positions \subseteq Nat
         /\ \A k \in 1..Len(ledger) : ledger[k] \in Event
         /\ Poller \in Workers /\ Positions \subseteq Workers /\ Poller \notin Positions
<1>1. MaxEvents \in Nat /\ MaxRestarts \in Nat /\ PageLimit \in Nat
  BY IndexerBounds, PageAssumption
<1>2. ledger \in Seq(Event) /\ Len(ledger) <= MaxEvents
  BY DEF TypeOK
<1>3. Len(ledger) \in Nat /\ DOMAIN ledger = 1..Len(ledger)
      /\ \A k \in 1..Len(ledger) : ledger[k] \in Event
  BY <1>2, LenProperties, ElementOfSeq
<1>4. Len(Contracts) \in Nat \ {0} /\ DOMAIN Contracts = 1..Len(Contracts)
  BY ContractsAssumption, LenProperties, EmptySeq
<1>5. /\ 1..Len(ledger) \subseteq Positions /\ Positions \subseteq Nat
      /\ Poller \in Workers /\ Positions \subseteq Workers /\ Poller \notin Positions
      /\ Len(ledger) \in 0..MaxEvents
  BY <1>1, <1>2, <1>3, PollerAssumption DEF Positions, Workers
<1> QED
  BY <1>1, <1>3, <1>4, <1>5

\* Every worker is at an event that has been published.
LEMMA AtPublished ==
  ASSUME TypeOK, Tracked, NEW w \in Workers, NEW k \in EventOf(w), step[w] # "idle"
  PROVE  k \in 1..Len(ledger)
<1>1. CASE w = Poller
  BY <1>1 DEF EventOf, TypeOK
<1>2. CASE w # Poller
  BY <1>2, IndexerFacts DEF EventOf, Workers, Positions, Tracked
<1> QED
  BY <1>1, <1>2

\* The present events and records are kept: what was explained is explained.
LEMMA ExplainedStays ==
  ASSUME TypeOK, Tracked, NEW events, events = ledger',
         \A k \in 1..Len(ledger) : ledger'[k] = ledger[k],
         audit \cup refused \subseteq audit' \cup refused'
  PROVE  Explained \subseteq Explained'
BY DEF Explained, Tracked

LEMMA EffectsStay ==
  ASSUME EffectsRecorded, UNCHANGED mirror, Explained \subseteq Explained',
         audit \cup refused \subseteq audit' \cup refused'
  PROVE  EffectsRecorded'
<1>1. \A o \in identities' : \E e \in Explained' :
        e.topic \in {"did_created", "credential_added"} /\ e.owner = o
  BY DEF EffectsRecorded, mirror
<1>2. ASSUME NEW c \in Credentials
      PROVE  /\ credentials'[c] # "absent" => \E e \in Explained' :
                  e.topic = "credential_added" /\ e.credential = c
             /\ credentials'[c] = "revoked" => \E e \in Explained' :
                  e.topic = "credential_revoked" /\ e.credential = c
  BY DEF EffectsRecorded, mirror
<1>3. \A k \in Positions : snapshots'[k] > 0 => k \in audit' \cup refused'
  BY DEF EffectsRecorded, mirror
<1>4. \A i \in Issuers : issuers'[i] = "inactive" => \E e \in Explained' :
        e.topic = "issuer_registered" /\ e.issuer = i /\ ~e.active
  BY DEF EffectsRecorded, mirror
<1> QED
  BY <1>1, <1>2, <1>3, <1>4 DEF EffectsRecorded

LEMMA IndexedInit == Init => Indexed
<1> SUFFICES ASSUME Init PROVE Indexed
  OBVIOUS
<1>1. /\ MaxEvents \in Nat /\ MaxRestarts \in Nat /\ PageLimit \in Nat
      /\ Len(Contracts) \in Nat
  BY IndexerBounds, PageAssumption, ContractsAssumption, LenProperties
<1>2. ledger \in Seq(Event) /\ Len(ledger) = 0
  BY EmptySeq DEF Init
<1>3. page = {} /\ Cardinality(page) = 0
  BY FS_EmptySet DEF Init
<1>4. TypeOK
  BY <1>1, <1>2, <1>3 DEF Init, TypeOK, Cursors
<1>5. Tracked
  <2>1. \A w \in Workers : step[w] = "idle"
    BY DEF Init
  <2>2. Positions \subseteq Workers
    BY DEF Workers
  <2> QED
    BY <2>1, <2>2 DEF Init, Tracked
<1>6. EffectsRecorded
  BY DEF Init, EffectsRecorded
<1> QED
  BY <1>4, <1>5, <1>6 DEF Indexed

-----------------------------------------------------------------------------
\* One lemma per step: first those that touch no row.

LEMMA PublishIndexed ==
  ASSUME Indexed, NEW e \in Event, Publish(e)
  PROVE  Indexed'
<1>0. /\ TypeOK /\ Tracked /\ EffectsRecorded /\ Len(ledger) < MaxEvents
      /\ ledger' = Append(ledger, e)
      /\ UNCHANGED <<cursor, up, turn, pollFrom, page, step, streamed, identities,
                     credentials, snapshots, issuers, audit, refused, seen, start,
                     restarts>>
  BY DEF Indexed, Publish, pollVars, mirror, trail, ghosts
<1>1. /\ Len(ledger) \in Nat /\ MaxEvents \in Nat /\ ledger \in Seq(Event)
  BY <1>0, IndexerFacts DEF TypeOK
<1>2. /\ ledger' \in Seq(Event) /\ Len(ledger') = Len(ledger) + 1
      /\ \A k \in 1..Len(ledger) : ledger'[k] = ledger[k]
  BY <1>0, <1>1, AppendProperties
<1>3. 1..Len(ledger) \subseteq 1..Len(ledger') /\ 0..Len(ledger) \subseteq 0..Len(ledger')
      /\ Len(ledger') <= MaxEvents
  BY <1>0, <1>1, <1>2
<1>4. streamed' \in [DOMAIN Contracts -> 0..Len(ledger')]
  BY <1>0, <1>3 DEF TypeOK
<1>5. TypeOK'
  BY <1>0, <1>2, <1>3, <1>4 DEF TypeOK
<1>6. Tracked'
  <2>1. \A w \in Workers : EventOf(w)' = EventOf(w)
    BY <1>0 DEF EventOf
  <2>2. ASSUME NEW w \in Workers, NEW k \in EventOf(w), step[w] = "owner"
        PROVE  ledger'[k].topic = "credential_added"
    <3>1. k \in 1..Len(ledger)
      BY <1>0, <2>2, AtPublished
    <3> QED
      BY <1>0, <1>2, <2>2, <3>1 DEF Tracked
  <2>3. \A k \in Positions : step[k] # "idle" => k <= Len(ledger')
    BY <1>0, <1>1, <1>2, IndexerFacts DEF Tracked
  <2> QED
    BY <1>0, <1>3, <2>1, <2>2, <2>3 DEF Tracked
<1>7. EffectsRecorded'
  BY <1>0, <1>2, ExplainedStays, EffectsStay DEF mirror
<1> QED
  BY <1>5, <1>6, <1>7 DEF Indexed

\* A step that publishes nothing and touches no row, no record and no worker.
LEMMA WorkersIdle ==
  ASSUME Indexed, TypeOK',
         UNCHANGED <<ledger, page, step, identities, credentials, snapshots,
                     issuers, audit, refused, seen>>
  PROVE  Indexed'
<1>0. TypeOK /\ Tracked /\ EffectsRecorded
  BY DEF Indexed
<1>1. \A w \in Workers : EventOf(w)' = EventOf(w)
  BY DEF EventOf
<1>2. Tracked'
  BY <1>0, <1>1 DEF Tracked
<1>3. EffectsRecorded'
  BY <1>0, ExplainedStays, EffectsStay DEF mirror
<1> QED
  BY <1>2, <1>3 DEF Indexed

LEMMA ServicesIndexed ==
  ASSUME Indexed, NEW s \in Faulty, Fail(s) \/ Recover(s)
  PROVE  Indexed'
<1>1. /\ up' \subseteq Services
      /\ UNCHANGED <<ledger, cursor, turn, pollFrom, page, step, streamed, identities,
                     credentials, snapshots, issuers, audit, refused, seen, start,
                     restarts>>
  BY FaultyAssumption DEF Indexed, TypeOK, Fail, Recover, pollVars, mirror, trail, ghosts
<1>2. TypeOK'
  BY <1>1 DEF Indexed, TypeOK
<1> QED
  BY <1>1, <1>2, WorkersIdle

LEMMA RestartIndexed ==
  ASSUME Indexed, Restart
  PROVE  Indexed'
<1>0. TypeOK /\ Tracked /\ EffectsRecorded
  BY DEF Indexed
<1>1. /\ restarts < MaxRestarts /\ restarts' = restarts + 1
      /\ turn' = 0 /\ pollFrom' = Now /\ page' = {}
      /\ step' = [w \in Workers |-> "idle"]
      /\ streamed' = [n \in DOMAIN Contracts |-> Len(ledger)]
      /\ UNCHANGED <<ledger, cursor, up, identities, credentials, snapshots, issuers,
                     audit, refused, seen, start>>
  BY DEF Restart, mirror, trail
<1>2. Len(ledger) \in 0..Len(ledger) /\ 0 \in 0..Len(Contracts) /\ Cardinality(page') = 0
      /\ restarts' \in 0..MaxRestarts /\ PageLimit \in Nat
  BY <1>0, <1>1, IndexerFacts, FS_EmptySet DEF TypeOK
<1>3. TypeOK'
  BY <1>0, <1>1, <1>2 DEF TypeOK, Cursors
<1>4. Tracked'
  <2>1. \A w \in Workers : step'[w] = "idle"
    BY <1>1
  <2>2. Positions \subseteq Workers
    BY DEF Workers
  <2> QED
    BY <1>0, <1>1, <2>1, <2>2 DEF Tracked
<1>5. EffectsRecorded'
  BY <1>0, <1>1, ExplainedStays, EffectsStay DEF mirror
<1> QED
  BY <1>3, <1>4, <1>5 DEF Indexed

LEMMA DeliverIndexed ==
  ASSUME Indexed, NEW n \in DOMAIN Contracts, NEW k \in Positions, Deliver(n, k)
  PROVE  Indexed'
<1>0. TypeOK /\ Tracked /\ EffectsRecorded
  BY DEF Indexed
<1>1. /\ k \in (streamed[n] + 1)..Len(ledger)
      /\ streamed' = [streamed EXCEPT ![n] = k]
      /\ step' = [step EXCEPT ![k] = "audit"]
      /\ UNCHANGED <<ledger, cursor, up, turn, pollFrom, page, identities, credentials,
                     snapshots, issuers, audit, refused, seen, start, restarts>>
  BY DEF Deliver, pollVars, mirror, trail, ghosts
<1>2. k \in 0..Len(ledger) /\ k \in Nat /\ k <= Len(ledger)
  BY <1>0, <1>1, IndexerFacts DEF TypeOK
<1>3. TypeOK'
  <2>1. streamed' \in [DOMAIN Contracts -> 0..Len(ledger)]
    BY <1>0, <1>1, <1>2 DEF TypeOK
  <2>2. step' \in [Workers -> {"idle", "audit", "owner", "apply", "advance"}]
    BY <1>0, <1>1 DEF TypeOK
  <2> QED
    BY <1>0, <1>1, <2>1, <2>2 DEF TypeOK
<1>4. Tracked'
  <2>1. \A w \in Workers : EventOf(w)' = EventOf(w)
    BY <1>1 DEF EventOf
  <2>2. \A w \in Workers : step'[w] = IF w = k THEN "audit" ELSE step[w]
    BY <1>0, <1>1 DEF TypeOK
  <2>3. \A j \in Positions : step'[j] # "idle" => j <= Len(ledger)
    BY <1>0, <1>2, <2>2, IndexerFacts DEF Tracked
  <2> QED
    BY <1>0, <1>1, <2>1, <2>2, <2>3 DEF Tracked
<1>5. EffectsRecorded'
  BY <1>0, <1>1, ExplainedStays, EffectsStay DEF mirror
<1> QED
  BY <1>3, <1>4, <1>5 DEF Indexed

LEMMA StartPollIndexed ==
  ASSUME Indexed, StartPoll
  PROVE  Indexed'
<1>1. /\ turn' = 1 /\ pollFrom' \in {cursor, Now}
      /\ UNCHANGED <<ledger, cursor, up, page, step, streamed, identities, credentials,
                     snapshots, issuers, audit, refused, seen, start, restarts>>
  BY DEF StartPoll, mirror, trail, ghosts
<1>2. 1 \in 0..Len(Contracts) /\ 0..Len(ledger) \subseteq 0..MaxEvents
  BY IndexerFacts DEF Indexed
<1>3. TypeOK'
  BY <1>1, <1>2 DEF Indexed, TypeOK, Cursors
<1> QED
  BY <1>1, <1>3, WorkersIdle

LEMMA NextTurnTyped ==
  ASSUME TypeOK, NextTurn
  PROVE  turn' \in 0..Len(Contracts) /\ pollFrom' \in Cursors
BY IndexerFacts DEF TypeOK, NextTurn, Cursors

\* A page holds published events, not more than the limit.
LEMMA PageFacts ==
  ASSUME TypeOK, NEW n, NEW from, NEW p \in PageAfter(n, from)
  PROVE  p \subseteq 1..Len(ledger) /\ Cardinality(p) <= PageLimit
BY IndexerFacts DEF PageAfter, Later

LEMMA FetchPageIndexed ==
  ASSUME Indexed, FetchPage
  PROVE  Indexed'
<1>0. TypeOK /\ Tracked /\ EffectsRecorded
  BY DEF Indexed
<1>1. UNCHANGED <<ledger, cursor, up, streamed, identities, credentials,
                  snapshots, issuers, audit, refused, seen, start, restarts>>
  BY DEF FetchPage, mirror, trail, ghosts
<1>2. page' \subseteq 1..Len(ledger) /\ Cardinality(page') <= PageLimit
  <2>1. CASE page' = {}
    BY <2>1, <1>0, FS_EmptySet, IndexerFacts
  <2>2. CASE \E from \in BaseOf(pollFrom) : page' \in PageAfter(turn, from)
    BY <1>0, <2>2, PageFacts
  <2> QED
    BY <2>1, <2>2 DEF FetchPage
<1>3. \/ page' = {} /\ page = {} /\ NextTurn /\ step' = step
      \/ /\ step' = [step EXCEPT ![Poller] = "audit"]
         /\ turn' = turn /\ pollFrom' = pollFrom
  BY DEF FetchPage, GoTo
<1>4. step' \in [Workers -> {"idle", "audit", "owner", "apply", "advance"}]
  BY <1>0, <1>3 DEF TypeOK
<1>5. turn' \in 0..Len(Contracts) /\ pollFrom' \in Cursors
  BY <1>0, <1>3, NextTurnTyped DEF TypeOK
<1>6. TypeOK'
  BY <1>0, <1>1, <1>2, <1>4, <1>5 DEF TypeOK
<1>7. Tracked'
  <2>1. \A w \in Workers : w # Poller => step'[w] = step[w] /\ EventOf(w)' = EventOf(w)
    BY <1>0, <1>3 DEF TypeOK, EventOf
  <2>2. EventOf(Poller)' = {} \/ step'[Poller] = "audit"
    BY <1>0, <1>3, IndexerFacts DEF EventOf, TypeOK
  <2>3. \A k \in Positions : step'[k] # "idle" => k <= Len(ledger)
    BY <1>0, <2>1, IndexerFacts DEF Tracked
  <2>4. ASSUME NEW w \in Workers, NEW k \in EventOf(w)'
        PROVE  /\ step'[w] \in {"owner", "apply"} => k \in audit \cup refused
               /\ step'[w] = "owner" => ledger[k].topic = "credential_added"
    BY <1>0, <2>1, <2>2, <2>4 DEF Tracked
  <2> QED
    BY <1>0, <1>1, <2>3, <2>4 DEF Tracked
<1>8. EffectsRecorded'
  BY <1>0, <1>1, ExplainedStays, EffectsStay DEF mirror
<1> QED
  BY <1>6, <1>7, <1>8 DEF Indexed

LEMMA AdvanceCursorIndexed ==
  ASSUME Indexed, AdvanceCursor
  PROVE  Indexed'
<1>0. TypeOK /\ Tracked /\ EffectsRecorded
  BY DEF Indexed
<1>1. UNCHANGED <<ledger, up, streamed, identities, credentials,
                  snapshots, issuers, audit, refused, seen, restarts>>
  BY DEF AdvanceCursor, mirror, trail
<1>2. PICK k \in EventOf(Poller) : SetCursor(k) /\ page' = page \ {k}
  BY DEF AdvanceCursor
<1>3. k \in 1..Len(ledger)
  BY <1>0 DEF EventOf, TypeOK
<1>4. /\ cursor' \in 0..Len(ledger) \cup {Now}
      /\ start' \in Cursors
  <2>1. cursor' = k \/ cursor' = cursor
    BY <1>2 DEF SetCursor
  <2>2. start' = start \/ (cursor' = k /\ start' = k - 1)
    BY <1>2 DEF SetCursor
  <2>3. k \in 0..Len(ledger) /\ k - 1 \in 0..MaxEvents
    BY <1>0, <1>3, IndexerFacts
  <2> QED
    BY <1>0, <2>1, <2>2, <2>3 DEF TypeOK, Cursors
<1>5. page' \subseteq 1..Len(ledger) /\ Cardinality(page') <= PageLimit
  <2>1. page \subseteq 1..Len(ledger) /\ Cardinality(page) <= PageLimit
    BY <1>0 DEF TypeOK
  <2>2. IsFiniteSet(1..Len(ledger))
    BY <1>0, IndexerFacts, FS_Interval
  <2>3. IsFiniteSet(page) /\ page' \subseteq page
    BY <1>2, <2>1, <2>2, FS_Subset
  <2>4. IsFiniteSet(page') /\ Cardinality(page') <= Cardinality(page)
    BY <2>3, FS_Subset
  <2>5. Cardinality(page) \in Nat /\ Cardinality(page') \in Nat
    BY <2>3, <2>4, FS_CardinalityType
  <2> QED
    BY <1>0, <2>1, <2>3, <2>4, <2>5, IndexerFacts
<1>6. \/ /\ step' = [step EXCEPT ![Poller] = "idle"] /\ NextTurn
      \/ /\ step' = [step EXCEPT ![Poller] = "audit"]
         /\ turn' = turn /\ pollFrom' = pollFrom
  BY DEF AdvanceCursor, GoTo
<1>7. turn' \in 0..Len(Contracts) /\ pollFrom' \in Cursors
  BY <1>0, <1>6, NextTurnTyped DEF TypeOK
<1>8. /\ step' \in [Workers -> {"idle", "audit", "owner", "apply", "advance"}]
      /\ step'[Poller] \in {"idle", "audit"}
      /\ \A w \in Workers : w # Poller => step'[w] = step[w]
  BY <1>0, <1>6 DEF TypeOK, Workers
<1>9. TypeOK'
  BY <1>0, <1>1, <1>4, <1>5, <1>7, <1>8 DEF TypeOK
<1>10. Tracked'
  <2>1. \A w \in Workers : w # Poller => EventOf(w)' = EventOf(w)
    BY DEF EventOf
  <2>2. \A j \in Positions : step'[j] # "idle" => j <= Len(ledger)
    BY <1>0, <1>8, IndexerFacts DEF Tracked
  <2>3. ASSUME NEW w \in Workers, NEW j \in EventOf(w)'
        PROVE  /\ step'[w] \in {"owner", "apply"} => j \in audit \cup refused
               /\ step'[w] = "owner" => ledger[j].topic = "credential_added"
    BY <1>0, <1>8, <2>1, <2>3 DEF Tracked
  <2> QED
    BY <1>0, <1>1, <2>2, <2>3 DEF Tracked
<1>11. EffectsRecorded'
  BY <1>0, <1>1, ExplainedStays, EffectsStay DEF mirror
<1> QED
  BY <1>9, <1>10, <1>11 DEF Indexed

-----------------------------------------------------------------------------
\* The steps of a worker.

LEMMA OneEvent ==
  ASSUME TypeOK, NEW w \in Workers, NEW j \in EventOf(w), NEW k \in EventOf(w)
  PROVE  j = k
<1>1. CASE w = Poller
  <2>1. j \in Nat /\ k \in Nat /\ j <= k /\ k <= j
    BY <1>1, IndexerFacts DEF EventOf, TypeOK
  <2> QED
    BY <2>1
<1>2. CASE w # Poller
  BY <1>2 DEF EventOf
<1> QED
  BY <1>1, <1>2

\* What a worker's step leaves to show: its rows, and where it goes to.
LEMMA WorkerIndexed ==
  ASSUME Indexed, NEW w \in Workers, NEW k \in EventOf(w), step[w] # "idle", Unpolled,
         NEW point \in {"idle", "audit", "owner", "apply", "advance"},
         step' = [step EXCEPT ![w] = point],
         point \in {"owner", "apply"} => k \in audit' \cup refused',
         point = "owner" => ledger[k].topic = "credential_added",
         audit' \in {audit, audit \cup {k}} /\ refused' \in {refused, refused \cup {k}},
         seen' \in {seen, seen \cup {k}},
         identities' \subseteq Owners,
         credentials' \in [Credentials -> {"absent", "valid", "revoked"}],
         snapshots' \in [Positions -> 0..2],
         issuers' \in [Issuers -> {"absent", "active", "inactive"}],
         EffectsRecorded'
  PROVE  Indexed'
<1>0. TypeOK /\ Tracked /\ EffectsRecorded /\ k \in 1..Len(ledger)
      /\ 1..Len(ledger) \subseteq Positions
  BY AtPublished, IndexerFacts DEF Indexed
<1>1. UNCHANGED <<ledger, cursor, up, turn, pollFrom, page, streamed, start, restarts>>
  BY DEF Unpolled, pollVars
<1>2. step' \in [Workers -> {"idle", "audit", "owner", "apply", "advance"}]
  BY <1>0 DEF TypeOK
<1>3. audit' \cup refused' \cup seen' \subseteq 1..Len(ledger)
      /\ audit \cup refused \subseteq audit' \cup refused'
  BY <1>0 DEF Tracked
<1>4. TypeOK'
  <2>1. /\ audit' \subseteq Positions /\ refused' \subseteq Positions /\ seen' \subseteq Positions
    BY <1>0, <1>3
  <2> QED
    BY <1>0, <1>1, <1>2, <2>1 DEF TypeOK
<1>5. Tracked'
  <2>1. \A v \in Workers : EventOf(v)' = EventOf(v)
    BY <1>1 DEF EventOf
  <2>2. \A v \in Workers : step'[v] = IF v = w THEN point ELSE step[v]
    BY <1>0 DEF TypeOK
  <2>3. ASSUME NEW j \in Positions, step'[j] # "idle"
        PROVE  j <= Len(ledger)
    BY <1>0, <2>2, <2>3, IndexerFacts DEF Tracked
  <2>4. ASSUME NEW v \in Workers, NEW j \in EventOf(v)
        PROVE  /\ step'[v] \in {"owner", "apply"} => j \in audit' \cup refused'
               /\ step'[v] = "owner" => ledger[j].topic = "credential_added"
    <3>1. CASE v = w
      <4>1. j = k
        BY <1>0, <2>4, <3>1, OneEvent
      <4> QED
        BY <2>2, <3>1, <4>1
    <3>2. CASE v # w
      BY <1>0, <1>3, <2>2, <2>4, <3>2 DEF Tracked
    <3> QED
      BY <3>1, <3>2
  <2> QED
    BY <1>1, <1>3, <2>1, <2>3, <2>4 DEF Tracked
<1> QED
  BY <1>4, <1>5 DEF Indexed

LEMMA PersistIndexed ==
  ASSUME Indexed, NEW w \in Workers, NEW k \in EventOf(w), PersistWebhookEvent(w, k)
  PROVE  Indexed'
<1>0. TypeOK /\ Tracked /\ EffectsRecorded /\ step[w] # "idle"
  BY DEF Indexed, PersistWebhookEvent
<1> DEFINE point == IF ledger[k].topic = "credential_added" THEN "owner" ELSE "apply"
<1>1. /\ step' = [step EXCEPT ![w] = point] /\ Unpolled /\ ledger' = ledger
      /\ UNCHANGED <<identities, credentials, snapshots, issuers, seen>>
      /\ \/ audit' = audit \cup {k} /\ refused' = refused
         \/ refused' = refused \cup {k} /\ audit' = audit
  BY DEF PersistWebhookEvent, GoTo, mirror, Unpolled
<1>2. EffectsRecorded'
  BY <1>0, <1>1, ExplainedStays, EffectsStay DEF mirror
<1>3. /\ identities' \subseteq Owners
      /\ credentials' \in [Credentials -> {"absent", "valid", "revoked"}]
      /\ snapshots' \in [Positions -> 0..2]
      /\ issuers' \in [Issuers -> {"absent", "active", "inactive"}]
  BY <1>0, <1>1 DEF TypeOK
<1>4. /\ point \in {"owner", "apply"}
      /\ point = "owner" => ledger[k].topic = "credential_added"
  OBVIOUS
<1> HIDE DEF point
<1> QED
  BY <1>0, <1>1, <1>2, <1>3, <1>4, WorkerIndexed

\* The event a worker writes rows of is recorded.
LEMMA ItsRecord ==
  ASSUME TypeOK, Tracked, NEW w \in Workers, NEW k \in EventOf(w),
         step[w] \in {"owner", "apply"}
  PROVE  /\ k \in audit \cup refused /\ ledger[k] \in Explained
         /\ ledger[k] \in Event /\ k \in Positions
BY AtPublished, IndexerFacts DEF Tracked, Explained

LEMMA UpsertOwnerIndexed ==
  ASSUME Indexed, NEW w \in Workers, NEW k \in EventOf(w), UpsertOwner(w, k)
  PROVE  Indexed'
<1>0. TypeOK /\ Tracked /\ EffectsRecorded /\ step[w] = "owner"
  BY DEF Indexed, UpsertOwner
<1>1. /\ ledger[k].topic = "credential_added" /\ k \in audit \cup refused
      /\ ledger[k] \in Explained /\ ledger[k].owner \in Owners
  BY <1>0, ItsRecord, EventFacts DEF Tracked
<1>2. /\ Unpolled /\ ledger' = ledger
      /\ UNCHANGED <<credentials, snapshots, issuers, audit, refused>>
      /\ identities' \in {identities, identities \cup {ledger[k].owner}}
      /\ seen' \in {seen, seen \cup {k}}
      /\ \E point \in {"idle", "apply", "advance"} : step' = [step EXCEPT ![w] = point]
  BY DEF UpsertOwner, Finish, GoTo, trail, Unpolled
<1>3. Explained' = Explained
  BY <1>2 DEF Explained
<1>4. EffectsRecorded'
  <2>1. ASSUME NEW o \in identities'
        PROVE  \E e \in Explained :
                 e.topic \in {"did_created", "credential_added"} /\ e.owner = o
    BY <1>0, <1>1, <1>2, <2>1 DEF EffectsRecorded
  <2> QED
    BY <1>0, <1>2, <1>3, <2>1 DEF EffectsRecorded
<1>5. /\ identities' \subseteq Owners
      /\ credentials' \in [Credentials -> {"absent", "valid", "revoked"}]
      /\ snapshots' \in [Positions -> 0..2]
      /\ issuers' \in [Issuers -> {"absent", "active", "inactive"}]
  BY <1>0, <1>1, <1>2 DEF TypeOK
<1> QED
  BY <1>0, <1>1, <1>2, <1>4, <1>5, WorkerIndexed

LEMMA ApplyEventIndexed ==
  ASSUME Indexed, NEW w \in Workers, NEW k \in EventOf(w), ApplyEvent(w, k)
  PROVE  Indexed'
<1> DEFINE e == ledger[k]
<1>0. TypeOK /\ Tracked /\ EffectsRecorded /\ step[w] = "apply"
  BY DEF Indexed, ApplyEvent
<1>1. /\ k \in audit \cup refused /\ e \in Explained /\ e \in Event /\ k \in Positions
  BY <1>0, ItsRecord
<1>2. /\ e.topic \in {"did_created", "credential_added"} => e.owner \in Owners
      /\ e.topic \in {"credential_added", "credential_revoked"}
           => e.credential \in Credentials
      /\ e.topic = "issuer_registered" => e.issuer \in Issuers /\ e.active \in BOOLEAN
  BY <1>1, EventFacts
<1>3. /\ Unpolled /\ ledger' = ledger /\ audit' = audit /\ refused' = refused
      /\ seen' = seen \cup {k}
      /\ \E point \in {"idle", "advance"} : step' = [step EXCEPT ![w] = point]
  BY DEF ApplyEvent, Finish, GoTo, trail, Unpolled
<1>4. \/ UNCHANGED mirror
      \/ MirrorDID(e) \/ MirrorCredential(e) \/ MirrorRevocation(e)
      \/ MirrorScore(e, k) \/ MirrorIssuer(e)
  BY DEF ApplyEvent, Written
<1> HIDE DEF e
<1>5. Explained' = Explained
  BY <1>3 DEF Explained
<1> DEFINE Rows == /\ identities' \subseteq Owners
                   /\ credentials' \in [Credentials -> {"absent", "valid", "revoked"}]
                   /\ snapshots' \in [Positions -> 0..2]
                   /\ issuers' \in [Issuers -> {"absent", "active", "inactive"}]
                   /\ EffectsRecorded'
<1>6. /\ identities \subseteq Owners
      /\ credentials \in [Credentials -> {"absent", "valid", "revoked"}]
      /\ snapshots \in [Positions -> 0..2]
      /\ issuers \in [Issuers -> {"absent", "active", "inactive"}]
  BY <1>0 DEF TypeOK
<1>7. ASSUME UNCHANGED mirror PROVE Rows
  BY <1>0, <1>3, <1>5, <1>6, <1>7 DEF mirror, EffectsRecorded
<1>8. ASSUME MirrorDID(e) PROVE Rows
  BY <1>0, <1>1, <1>2, <1>3, <1>5, <1>6, <1>8 DEF MirrorDID, EffectsRecorded
<1>9. ASSUME MirrorCredential(e) \/ MirrorRevocation(e) PROVE Rows
  <2>1. UNCHANGED <<identities, snapshots, issuers>>
    BY <1>9 DEF MirrorCredential, MirrorRevocation
  <2>2. credentials' \in [Credentials -> {"absent", "valid", "revoked"}]
    BY <1>2, <1>6, <1>9 DEF MirrorCredential, MirrorRevocation
  <2>3. ASSUME NEW c \in Credentials
        PROVE  /\ credentials'[c] # "absent" => \E d \in Explained :
                    d.topic = "credential_added" /\ d.credential = c
               /\ credentials'[c] = "revoked" => \E d \in Explained :
                    d.topic = "credential_revoked" /\ d.credential = c
    <3>1. /\ credentials[c] # "absent" => \E d \in Explained :
                d.topic = "credential_added" /\ d.credential = c
          /\ credentials[c] = "revoked" => \E d \in Explained :
                d.topic = "credential_revoked" /\ d.credential = c
      BY <1>0 DEF EffectsRecorded
    <3>2. CASE c # e.credential
      <4>1. credentials'[c] = credentials[c]
        BY <1>6, <1>9, <3>2 DEF MirrorCredential, MirrorRevocation
      <4> QED
        BY <3>1, <4>1
    <3>3. CASE c = e.credential /\ MirrorCredential(e)
      <4>1. credentials'[c] = IF credentials[c] = "absent" THEN "valid" ELSE credentials[c]
        BY <1>6, <3>3 DEF MirrorCredential
      <4>2. e.topic = "credential_added"
        BY <3>3 DEF MirrorCredential
      <4> QED
        BY <1>1, <3>1, <3>3, <4>1, <4>2
    <3>4. CASE c = e.credential /\ MirrorRevocation(e)
      <4>1. credentials'[c] = IF credentials[c] = "absent" THEN "absent" ELSE "revoked"
        BY <1>6, <3>4 DEF MirrorRevocation
      <4>2. e.topic = "credential_revoked"
        BY <3>4 DEF MirrorRevocation
      <4> QED
        BY <1>1, <3>1, <3>4, <4>1, <4>2
    <3> QED
      BY <1>9, <3>2, <3>3, <3>4
  <2>4. EffectsRecorded'
    BY <1>0, <1>3, <1>5, <2>1, <2>3 DEF EffectsRecorded
  <2> QED
    BY <1>6, <2>1, <2>2, <2>4
<1>10. ASSUME MirrorScore(e, k) PROVE Rows
  <2>1. /\ UNCHANGED <<identities, credentials, issuers>>
        /\ snapshots' = [snapshots EXCEPT ![k] = IF @ < 2 THEN @ + 1 ELSE @]
    BY <1>10 DEF MirrorScore
  <2>2. snapshots[k] \in 0..2 /\ (IF snapshots[k] < 2 THEN snapshots[k] + 1 ELSE snapshots[k]) \in 0..2
    BY <1>1, <1>6
  <2>3. snapshots' \in [Positions -> 0..2]
    BY <1>6, <2>1, <2>2
  <2>4. \A j \in Positions : snapshots'[j] > 0 => j \in audit \cup refused
    BY <1>0, <1>1, <1>6, <2>1 DEF EffectsRecorded
  <2>5. EffectsRecorded'
    BY <1>0, <1>3, <1>5, <2>1, <2>4 DEF EffectsRecorded
  <2> QED
    BY <1>6, <2>1, <2>3, <2>5
<1>11. ASSUME MirrorIssuer(e) PROVE Rows
  <2>1. /\ UNCHANGED <<identities, credentials, snapshots>> /\ e.topic = "issuer_registered"
        /\ issuers' = [issuers EXCEPT ![e.issuer] =
                         IF @ = "absent" \/ e.active THEN "active" ELSE "inactive"]
    BY <1>11 DEF MirrorIssuer
  <2>2. issuers' \in [Issuers -> {"absent", "active", "inactive"}]
    BY <1>2, <1>6, <2>1
  <2>3. ASSUME NEW i \in Issuers, issuers'[i] = "inactive"
        PROVE  \E d \in Explained : d.topic = "issuer_registered" /\ d.issuer = i /\ ~d.active
    <3>1. CASE i = e.issuer
      <4>1. ~e.active
        BY <1>6, <2>1, <2>3, <3>1
      <4> QED
        BY <1>1, <2>1, <3>1, <4>1
    <3>2. CASE i # e.issuer
      BY <1>0, <1>6, <2>1, <2>3, <3>2 DEF EffectsRecorded
    <3> QED
      BY <3>1, <3>2
  <2>4. EffectsRecorded'
    BY <1>0, <1>3, <1>5, <2>1, <2>3 DEF EffectsRecorded
  <2> QED
    BY <1>6, <2>1, <2>2, <2>4
<1>12. Rows
  BY <1>4, <1>7, <1>8, <1>9, <1>10, <1>11
<1> HIDE DEF Rows
<1>13. /\ identities' \subseteq Owners
       /\ credentials' \in [Credentials -> {"absent", "valid", "revoked"}]
       /\ snapshots' \in [Positions -> 0..2]
       /\ issuers' \in [Issuers -> {"absent", "active", "inactive"}]
       /\ EffectsRecorded'
  BY <1>12 DEF Rows
<1> QED
  BY <1>0, <1>1, <1>3, <1>13, WorkerIndexed

LEMMA ProcessIndexed ==
  ASSUME Indexed, NEW w \in Workers, Process(w)
  PROVE  Indexed'
BY PersistIndexed, UpsertOwnerIndexed, ApplyEventIndexed DEF Process

LEMMA IndexedNext == Indexed /\ [Next]_vars => Indexed'
<1> SUFFICES ASSUME Indexed, [Next]_vars PROVE Indexed'
  OBVIOUS
<1>0. Poller \in Workers /\ Positions \subseteq Workers
  BY DEF Workers
<1>1. CASE UNCHANGED vars
  <2>1. TypeOK'
    BY <1>1 DEF vars, pollVars, mirror, trail, ghosts, Indexed, TypeOK
  <2> QED
    BY <1>1, <2>1, WorkersIdle DEF vars, pollVars, mirror, trail, ghosts
<1>2. CASE Next
  BY <1>0, <1>2, PublishIndexed, ServicesIndexed, RestartIndexed, DeliverIndexed,
     ProcessIndexed, StartPollIndexed, FetchPageIndexed, AdvanceCursorIndexed
     DEF Next, Poll
<1> QED
  BY <1>1, <1>2

LEMMA AlwaysIndexed == Spec => []Indexed
BY IndexedInit, IndexedNext, PTL DEF Spec

\* Every variable keeps its type: pages within the limit, and workers at
\* published events.
THEOREM IndexerTypeCorrect == Spec => []TypeOK
<1>1. Indexed => TypeOK
  BY DEF Indexed
<1> QED
  BY <1>1, AlwaysIndexed, PTL

\* Whatever of the poller and of the handlers of streamed events interleave,
\* whichever services fail and whenever the process restarts: every row derives
\* from an event that is on record, or whose record Postgres refused.
THEOREM EffectsAreRecorded == Spec => []EffectsRecorded
<1>1. Indexed => EffectsRecorded
  BY DEF Indexed
<1> QED
  BY <1>1, AlwaysIndexed, PTL

-----------------------------------------------------------------------------
\* A revocation that is mirrored stays, in any interleaving.
THEOREM RevocationIsFinal == Spec => RevocationSticks
<1>1. ASSUME Indexed, [Next]_vars, NEW c \in Credentials, credentials[c] = "revoked"
      PROVE  credentials'[c] = "revoked"
  <2>0. credentials \in [Credentials -> {"absent", "valid", "revoked"}]
    BY <1>1 DEF Indexed, TypeOK
  <2>1. ASSUME NEW w \in Workers, NEW k \in EventOf(w), ApplyEvent(w, k)
        PROVE  credentials'[c] = "revoked"
    <3>1. \/ UNCHANGED mirror
          \/ MirrorDID(ledger[k]) \/ MirrorCredential(ledger[k])
          \/ MirrorRevocation(ledger[k]) \/ MirrorScore(ledger[k], k)
          \/ MirrorIssuer(ledger[k])
      BY <2>1 DEF ApplyEvent, Written
    <3>2. CASE MirrorCredential(ledger[k])
      BY <1>1, <2>0, <3>2 DEF MirrorCredential
    <3>3. CASE MirrorRevocation(ledger[k])
      BY <1>1, <2>0, <3>3 DEF MirrorRevocation
    <3> QED
      BY <1>1, <3>1, <3>2, <3>3 DEF mirror, MirrorDID, MirrorScore, MirrorIssuer
  <2>2. ASSUME NEW w \in Workers, Process(w)
        PROVE  credentials'[c] = "revoked"
    <3>1. PICK k \in EventOf(w) :
            PersistWebhookEvent(w, k) \/ UpsertOwner(w, k) \/ ApplyEvent(w, k)
      BY <2>2 DEF Process
    <3> QED
      BY <1>1, <2>1, <3>1 DEF PersistWebhookEvent, UpsertOwner, mirror
  <2>3. Poller \in Workers /\ Positions \subseteq Workers
    BY DEF Workers
  <2>4. CASE UNCHANGED credentials
    BY <1>1, <2>4
  <2>5. \/ \E w \in Workers : Process(w)
        \/ UNCHANGED credentials
    BY <1>1, <2>3 DEF Next, Poll, Publish, Fail, Recover, Restart, Deliver, StartPoll,
       FetchPage, AdvanceCursor, mirror, vars
  <2> QED
    BY <2>2, <2>4, <2>5
<1>2. Indexed /\ [Next]_vars =>
        [\A c \in Credentials :
           credentials[c] = "revoked" => credentials'[c] = "revoked"]_vars
  BY <1>1
<1> QED
  BY <1>2, AlwaysIndexed, PTL DEF Spec, RevocationSticks

-----------------------------------------------------------------------------
(***************************************************************************)
(* The cursor's promise.  With one contract and a cursor that can always   *)
(* be read and written, a page begins right after the cursor and has no    *)
(* gaps, and the poller has processed the event it is about to set the     *)
(* cursor to.  With two contracts, or an unreadable cursor, the promise is *)
(* broken (MCIndexer_skipped, MCIndexer_outage).                           *)
(***************************************************************************)

Alone == Len(Contracts) = 1 /\ "redis" \notin Faulty

Promise ==
  cursor # Now => start \in 0..cursor /\ \A k \in (start + 1)..cursor : k \in seen

PageWhole ==
  /\ page # {} => turn # 0
  /\ turn # 0 /\ page = {} => pollFrom = cursor
  /\ \A j, k \in page : \A i \in j..k : i \in page
  /\ cursor # Now =>
       \A k \in page : cursor < k /\ \A i \in (cursor + 1)..k : i \in page

Polled ==
  /\ "redis" \in up
  /\ Promise
  /\ PageWhole
  /\ step[Poller] = "advance" => EventOf(Poller) \subseteq seen

LEMMA PolledInit == Init => Polled
BY NowAssumption, PollerAssumption
   DEF Init, Polled, Promise, PageWhole, Services, EventOf

\* A step that is none of the poller's.
LEMMA PollerIdle ==
  ASSUME Polled, Indexed, UNCHANGED <<cursor, turn, pollFrom, page, start>>, "redis" \in up',
         step'[Poller] = step[Poller], seen \subseteq seen'
  PROVE  Polled'
<1>1. Promise'
  BY DEF Polled, Promise
<1>2. PageWhole'
  BY DEF Polled, PageWhole
<1>3. EventOf(Poller)' = EventOf(Poller)
  BY DEF EventOf
<1> QED
  BY <1>1, <1>2, <1>3 DEF Polled

LEMMA StartPollPolled ==
  ASSUME Polled, Indexed, StartPoll
  PROVE  Polled'
<1>1. /\ turn = 0 /\ turn' = 1 /\ pollFrom' = cursor
      /\ UNCHANGED <<cursor, up, page, step, seen, start>>
  BY DEF StartPoll, Polled, ghosts
<1>2. Promise'
  BY <1>1 DEF Polled, Promise
<1>3. PageWhole'
  BY <1>1 DEF Polled, PageWhole
<1>4. EventOf(Poller)' = EventOf(Poller)
  BY <1>1 DEF EventOf
<1> QED
  BY <1>1, <1>2, <1>3, <1>4 DEF Polled

\* The contract's events are all there are.
LEMMA LaterAlone ==
  ASSUME TypeOK, Alone, turn # 0, NEW from
  PROVE  Later(turn, from) = {k \in 1..Len(ledger) : k > from}
<1>1. turn = 1 /\ DOMAIN Contracts = {1}
  BY IndexerFacts DEF TypeOK, Alone
<1>2. Event = EventsOf(Contracts[1])
  BY <1>1 DEF Event
<1> QED
  BY <1>1, <1>2, IndexerFacts DEF Later

LEMMA NextTurnAlone ==
  ASSUME TypeOK, Alone, turn # 0, NextTurn
  PROVE  turn' = 0
BY IndexerFacts DEF TypeOK, Alone, NextTurn

LEMMA FetchPagePolled ==
  ASSUME Polled, Indexed, Alone, FetchPage
  PROVE  Polled'
<1>0. /\ TypeOK /\ turn # 0 /\ page = {} /\ pollFrom = cursor
      /\ Len(ledger) \in Nat /\ cursor \in 0..Len(ledger) \cup {Now}
  BY IndexerFacts DEF Indexed, TypeOK, FetchPage, Polled, PageWhole
<1>1. UNCHANGED <<cursor, up, seen, start>>
  BY DEF FetchPage, ghosts
<1>2. Promise'
  BY <1>1 DEF Polled, Promise
<1>3. CASE page' = {}
  <2>1. turn' = 0
    BY <1>0, <1>3, NextTurnAlone DEF FetchPage
  <2>2. PageWhole'
    BY <1>3, <2>1 DEF PageWhole
  <2>3. EventOf(Poller)' = {}
    BY <1>3 DEF EventOf
  <2> QED
    BY <1>1, <1>2, <2>2, <2>3 DEF Polled
<1>4. CASE page' # {}
  <2>1. PICK from \in BaseOf(pollFrom) : page' \in PageAfter(turn, from)
    BY <1>4 DEF FetchPage
  <2>2. from \in Int /\ (cursor # Now => from = cursor)
    BY <1>0, <2>1 DEF BaseOf
  <2> DEFINE all == {k \in 1..Len(ledger) : k > from}
  <2>3. page' \subseteq all /\ \A k \in page', j \in all \ page' : k < j
    BY <1>0, <2>1, LaterAlone DEF PageAfter
  <2>4. ASSUME NEW k \in page', NEW i \in Nat, i > from, 1 <= i, i <= k
        PROVE  i \in page'
    <3>1. k \in 1..Len(ledger)
      BY <2>3
    <3>2. i \in all
      BY <1>0, <2>2, <2>4, <3>1
    <3> HIDE DEF all
    <3>3. i \notin page' => k < i
      BY <2>3, <3>2
    <3> QED
      BY <2>4, <3>1, <3>3
  <2>5. \A k \in page' : k \in 1..Len(ledger) /\ k > from
    BY <2>3
  <2> HIDE DEF all
  <2>6. ASSUME NEW j \in page', NEW k \in page', NEW i \in j..k
        PROVE  i \in page'
    <3>1. j \in Nat /\ j >= 1 /\ j > from /\ k \in Nat
      BY <1>0, <2>5
    <3>2. i \in Nat /\ i > from /\ 1 <= i /\ i <= k
      BY <2>2, <2>6, <3>1
    <3> QED
      BY <2>4, <3>2
  <2>7. ASSUME cursor # Now, NEW k \in page'
        PROVE  cursor < k /\ \A i \in (cursor + 1)..k : i \in page'
    <3>1. cursor \in Nat /\ from = cursor /\ k \in Nat
      BY <1>0, <2>2, <2>5, <2>7
    <3>2. cursor < k
      BY <2>5, <3>1
    <3>3. ASSUME NEW i \in (cursor + 1)..k PROVE i \in page'
      <4>1. i \in Nat /\ i > from /\ 1 <= i /\ i <= k
        BY <3>1, <3>3
      <4> QED
        BY <2>4, <4>1
    <3> QED
      BY <3>2, <3>3
  <2>8. turn' = turn /\ step' = [step EXCEPT ![Poller] = "audit"]
    BY <1>4 DEF FetchPage, GoTo
  <2>9. PageWhole'
    BY <1>0, <1>1, <1>4, <2>6, <2>7, <2>8 DEF PageWhole
  <2>10. step'[Poller] = "audit"
    BY <1>0, <2>8, IndexerFacts DEF TypeOK
  <2> QED
    BY <1>1, <1>2, <2>9, <2>10 DEF Polled
<1> QED
  BY <1>3, <1>4

LEMMA AdvanceCursorPolled ==
  ASSUME Polled, Indexed, Alone, AdvanceCursor
  PROVE  Polled'
<1>0. TypeOK /\ Promise /\ PageWhole /\ "redis" \in up /\ step[Poller] = "advance"
      /\ Len(ledger) \in Nat /\ cursor \in 0..Len(ledger) \cup {Now}
      /\ page \subseteq 1..Len(ledger)
  BY IndexerFacts DEF Indexed, TypeOK, Polled, AdvanceCursor
<1>1. up' = up /\ seen' = seen
  BY DEF AdvanceCursor
<1>2. PICK k \in EventOf(Poller) : SetCursor(k) /\ page' = page \ {k}
  BY DEF AdvanceCursor
<1>3. k \in page /\ (\A j \in page : k <= j) /\ k \in seen
  BY <1>0, <1>2 DEF EventOf, Polled
<1>4. k \in Nat /\ k >= 1 /\ \A j \in page : j \in Nat
  BY <1>0, <1>3
<1>5. cursor' = k /\ cursor' # Now
      /\ start' = IF cursor = Now THEN k - 1 ELSE start
  BY <1>0, <1>2, <1>4, NowAssumption DEF SetCursor
<1>6. Promise'
  <2>1. CASE cursor = Now
    <3>1. start' = k - 1 /\ k - 1 \in 0..k
      BY <1>4, <1>5, <2>1
    <3>2. \A i \in ((k - 1) + 1)..k : i = k
      BY <1>4
    <3> QED
      BY <1>1, <1>3, <1>5, <3>1, <3>2 DEF Promise
  <2>2. CASE cursor # Now
    <3>1. cursor \in Nat /\ start \in 0..cursor
          /\ \A i \in (start + 1)..cursor : i \in seen
      BY <1>0, <2>2 DEF Promise
    <3>2. k = cursor + 1
      <4>1. cursor < k /\ \A i \in (cursor + 1)..k : i \in page
        BY <1>0, <1>3, <2>2 DEF PageWhole
      <4>2. cursor + 1 \in page
        BY <1>4, <3>1, <4>1
      <4> QED
        BY <1>3, <1>4, <3>1, <4>1, <4>2
    <3>3. start' = start /\ start \in 0..k
      BY <1>5, <2>2, <3>1, <3>2
    <3>4. ASSUME NEW i \in (start + 1)..k PROVE i \in seen
      <4>1. i = k \/ i \in (start + 1)..cursor
        BY <3>1, <3>2
      <4> QED
        BY <1>3, <3>1, <4>1
    <3> QED
      BY <1>1, <1>5, <3>3, <3>4 DEF Promise
  <2> QED
    BY <2>1, <2>2
<1>7. PageWhole'
  <2>1. ASSUME NEW j \in page', NEW q \in page', NEW i \in j..q
        PROVE  i \in page'
    <3>1. j \in page /\ q \in page /\ j # k /\ j \in Nat /\ q \in Nat /\ k <= j
      BY <1>2, <1>3, <1>4
    <3>2. i \in page
      BY <1>0, <3>1 DEF PageWhole
    <3>3. i # k
      BY <1>4, <3>1
    <3> QED
      BY <1>2, <3>2, <3>3
  <2>2. ASSUME NEW q \in page'
        PROVE  k < q /\ \A i \in (k + 1)..q : i \in page'
    <3>1. q \in page /\ q # k /\ q \in Nat /\ k <= q
      BY <1>2, <1>3, <1>4
    <3>2. ASSUME NEW i \in (k + 1)..q PROVE i \in page'
      <4>1. i \in k..q /\ i # k
        BY <1>4, <3>1
      <4>2. i \in page
        BY <1>0, <1>3, <3>1, <4>1 DEF PageWhole
      <4> QED
        BY <1>2, <4>1, <4>2
    <3> QED
      BY <1>4, <3>1, <3>2
  <2>3. page # {} /\ turn # 0
    BY <1>0, <1>3 DEF PageWhole
  <2>4. CASE page' = {}
    <3>1. turn' = 0
      BY <1>0, <2>3, <2>4, NextTurnAlone DEF AdvanceCursor
    <3> QED
      BY <2>4, <3>1 DEF PageWhole
  <2>5. CASE page' # {}
    <3>1. turn' = turn
      BY <2>5 DEF AdvanceCursor
    <3> QED
      BY <1>5, <2>1, <2>2, <2>3, <2>5, <3>1 DEF PageWhole
  <2> QED
    BY <2>4, <2>5
<1>8. step'[Poller] \in {"idle", "audit"}
  BY <1>0, IndexerFacts DEF AdvanceCursor, GoTo, TypeOK
<1> QED
  BY <1>0, <1>1, <1>6, <1>7, <1>8 DEF Polled

LEMMA ProcessPolled ==
  ASSUME Polled, Indexed, NEW w \in Workers, Process(w)
  PROVE  Polled'
<1>0. TypeOK
  BY DEF Indexed
<1>1. PICK k \in EventOf(w) :
        PersistWebhookEvent(w, k) \/ UpsertOwner(w, k) \/ ApplyEvent(w, k)
  BY DEF Process
<1>2. /\ UNCHANGED <<cursor, up, turn, pollFrom, page, start>>
      /\ \/ /\ seen' = seen
            /\ \E point \in {"owner", "apply"} : step' = [step EXCEPT ![w] = point]
         \/ /\ seen' = seen \cup {k}
            /\ step' = [step EXCEPT ![w] = IF w = Poller THEN "advance" ELSE "idle"]
  <2>1. CASE PersistWebhookEvent(w, k)
    BY <2>1 DEF PersistWebhookEvent, Unpolled, GoTo, pollVars
  <2>2. CASE UpsertOwner(w, k)
    BY <2>2 DEF UpsertOwner, Unpolled, GoTo, Finish, pollVars
  <2>3. CASE ApplyEvent(w, k)
    BY <2>3 DEF ApplyEvent, Unpolled, GoTo, Finish, pollVars
  <2> QED
    BY <1>1, <2>1, <2>2, <2>3
<1>3. CASE w # Poller
  <2>1. step'[Poller] = step[Poller] /\ seen \subseteq seen' /\ "redis" \in up'
    BY <1>0, <1>2, <1>3, IndexerFacts DEF TypeOK, Polled
  <2> QED
    BY <1>2, <2>1, PollerIdle
<1>4. CASE w = Poller
  <2>1. Promise' /\ PageWhole' /\ "redis" \in up'
    BY <1>2 DEF Polled, Promise, PageWhole
  <2>2. EventOf(Poller)' = EventOf(Poller)
    BY <1>2 DEF EventOf
  <2>3. step'[Poller] = "advance" => seen' = seen \cup {k}
    BY <1>0, <1>2, <1>4, IndexerFacts DEF TypeOK
  <2>4. \A j \in EventOf(Poller) : j = k
    BY <1>0, <1>4, OneEvent
  <2> QED
    BY <2>1, <2>2, <2>3, <2>4 DEF Polled
<1> QED
  BY <1>3, <1>4

LEMMA PolledNext ==
  Indexed /\ Alone /\ Polled /\ [Next]_vars => Polled'
<1> SUFFICES ASSUME Indexed, Alone, Polled, [Next]_vars PROVE Polled'
  OBVIOUS
<1>0. TypeOK /\ Poller \in Workers /\ Positions \subseteq Workers /\ "redis" \in up
      /\ Poller \notin Positions
  BY IndexerFacts DEF Indexed, Polled
<1>1. CASE UNCHANGED vars
  BY <1>0, <1>1, PollerIdle DEF vars, pollVars, ghosts
<1>2. ASSUME NEW e \in Event, Publish(e) PROVE Polled'
  BY <1>0, <1>2, PollerIdle DEF Publish, pollVars, ghosts
<1>3. ASSUME NEW s \in Faulty, Fail(s) \/ Recover(s) PROVE Polled'
  BY <1>0, <1>3, PollerIdle DEF Fail, Recover, Alone, pollVars, ghosts
<1>4. ASSUME NEW n \in DOMAIN Contracts, NEW k \in Positions, Deliver(n, k) PROVE Polled'
  <2>1. step'[Poller] = step[Poller]
    BY <1>0, <1>4 DEF Deliver, TypeOK
  <2> QED
    BY <1>0, <1>4, <2>1, PollerIdle DEF Deliver, pollVars, ghosts
<1>5. CASE Restart
  <2>1. /\ turn' = 0 /\ page' = {} /\ step'[Poller] = "idle"
        /\ UNCHANGED <<cursor, up, seen, start>>
    BY <1>0, <1>5 DEF Restart
  <2> QED
    BY <1>0, <2>1 DEF Polled, Promise, PageWhole
<1> QED
  BY <1>0, <1>1, <1>2, <1>3, <1>4, <1>5, StartPollPolled, FetchPagePolled,
     AdvanceCursorPolled, ProcessPolled DEF Next, Poll

\* One contract polled, and a cursor that can be read and written: no event
\* between the cursor's first value and the present one is skipped, for any
\* page limit, wherever in a page the process crashes, whatever requests and
\* writes of rows fail, and whatever streams deliver meanwhile.
THEOREM NothingIsSkipped == Alone => (Spec => []NothingSkipped)
<1> SUFFICES ASSUME Alone PROVE Spec => []NothingSkipped
  OBVIOUS
<1>1. Indexed /\ Polled /\ [Next]_vars => Polled'
  BY PolledNext
<1>2. Polled => NothingSkipped
  BY DEF Polled, Promise, NothingSkipped
<1> QED
  BY <1>1, <1>2, PolledInit, AlwaysIndexed, PTL DEF Spec

=============================================================================
