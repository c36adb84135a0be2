------------------------- MODULE ScoreServiceProofs -------------------------
(***************************************************************************)
(* Theorems about ScoreService, for any number of addresses and of clients *)
(* and any size of a batch.                                                *)
(***************************************************************************)
EXTENDS ScoreService, FiniteSetTheorems, TLAPS

-----------------------------------------------------------------------------
(***************************************************************************)
(* The inductive invariant.                                                *)
(***************************************************************************)

StoresTyped ==
  /\ chain \in [Addresses -> Versions]
  /\ cache \in [Addresses -> Versions]
  /\ latest \in [Addresses -> Versions]
  /\ stored \in [Addresses -> SUBSET (Versions \ {0})]
  /\ lost \in [Addresses -> SUBSET (Versions \ {0})]
  /\ up \subseteq Services
  /\ floor \in [Addresses -> Versions]

TasksTyped ==
  /\ pc \in [Tasks -> Points]
  /\ got \in [Tasks -> Versions]
  /\ from \in [Tasks -> Sources]

CycleTyped ==
  /\ running \in BOOLEAN
  /\ phase \in {"armed", "cycle", "off"}
  /\ remaining \subseteq Addresses /\ batch \subseteq Addresses
  /\ updated \in 0..Cardinality(Addresses)
  /\ errors \in 0..Cardinality(Addresses)

\* What the stores hold has a snapshot, or Postgres refused it.
StoresRecorded ==
  \A a \in Addresses :
    /\ cache[a] # 0 => cache[a] \in stored[a] \cup lost[a]
    /\ latest[a] # 0 => latest[a] \in stored[a]

\* A call that holds a score holds one that can be recorded, and is recorded
\* once it has been through persistSnapshot.
TasksRecorded ==
  \A t \in Tasks :
    /\ pc[t] \in {"persist", "store", "invalidate"} => got[t] # 0
    /\ pc[t] \in {"store", "invalidate"}
         => got[t] \in stored[t.address] \cup lost[t.address]

Kept ==
  /\ StoresTyped /\ TasksTyped /\ CycleTyped
  /\ StoresRecorded /\ TasksRecorded
  /\ CycleAccounts

LEMMA KeptIsTyped == Kept => TypeOK
BY DEF Kept, StoresTyped, TasksTyped, CycleTyped, TypeOK

LEMMA TaskTypes ==
  /\ \A t \in Tasks : t.address \in Addresses
  /\ \A t, u \in Jobs : t.address = u.address => t = u
  /\ Jobs \subseteq Tasks
BY DEF Tasks, Jobs, Requests

LEMMA Counts ==
  /\ Cardinality(Addresses) \in Nat
  /\ \A S \in SUBSET Addresses :
       /\ IsFiniteSet(S) /\ Cardinality(S) \in Nat
       /\ \A a \in S : Cardinality(S \ {a}) = Cardinality(S) - 1
                       /\ Cardinality(S) > 0
       /\ \A B \in SUBSET S :
            Cardinality(B) + Cardinality(S \ B) = Cardinality(S)
<1>1. Cardinality(Addresses) \in Nat
  BY AddressesAssumption, FS_CardinalityType
<1>2. ASSUME NEW S \in SUBSET Addresses
      PROVE  IsFiniteSet(S) /\ Cardinality(S) \in Nat
  BY AddressesAssumption, FS_Subset, FS_CardinalityType
<1>3. ASSUME NEW S \in SUBSET Addresses, NEW a \in S
      PROVE  /\ Cardinality(S \ {a}) = Cardinality(S) - 1
             /\ Cardinality(S) > 0
  <2>1. Cardinality(S) # 0
    BY <1>2, FS_EmptySet
  <2> QED
    BY <1>2, <2>1, FS_RemoveElement
<1>4. ASSUME NEW S \in SUBSET Addresses, NEW B \in SUBSET S
      PROVE  Cardinality(B) + Cardinality(S \ B) = Cardinality(S)
  <2>1. IsFiniteSet(B) /\ IsFiniteSet(S \ B)
    BY <1>2, FS_Subset
  <2>2. S = B \cup (S \ B) /\ B \cap (S \ B) = {}
    OBVIOUS
  <2>3. Cardinality(B) \in Nat /\ Cardinality(S \ B) \in Nat
    BY <2>1, FS_CardinalityType
  <2>4. Cardinality(B \cup (S \ B)) =
          Cardinality(B) + Cardinality(S \ B) - Cardinality(B \cap (S \ B))
    BY <2>1, FS_Union
  <2>5. Cardinality(B \cap (S \ B)) = 0
    BY <2>2, FS_EmptySet
  <2>6. Cardinality(S) = Cardinality(B \cup (S \ B))
    BY <2>2
  <2> QED
    BY <2>3, <2>4, <2>5, <2>6
<1> QED
  BY <1>1, <1>2, <1>3, <1>4

LEMMA InitKept == Init => Kept
<1> SUFFICES ASSUME Init PROVE Kept
  OBVIOUS
<1>1. 0 \in Versions
  BY VersionsAssumption DEF Versions
<1>2. StoresTyped
  BY <1>1 DEF Init, StoresTyped
<1>3. TasksTyped
  BY <1>1 DEF Init, TasksTyped, Points, Sources
<1>4. CycleTyped
  BY Counts DEF Init, CycleTyped
<1>5. StoresRecorded /\ TasksRecorded
  BY DEF Init, StoresRecorded, TasksRecorded
<1>6. CycleAccounts
  BY TaskTypes, FS_EmptySet, BatchAssumption DEF Init, CycleAccounts
<1> QED
  BY <1>2, <1>3, <1>4, <1>5, <1>6 DEF Kept

-----------------------------------------------------------------------------
(***************************************************************************)
(* A step of a call, in general.                                           *)
(***************************************************************************)

LEMMA Moved ==
  ASSUME TasksTyped, NEW t \in Tasks, NEW p \in Points, NEW v \in Versions,
         NEW s \in Sources, MoveTo(t, p, v, s)
  PROVE  /\ TasksTyped'
         /\ pc'[t] = p /\ got'[t] = v
         /\ \A u \in Tasks : u # t => pc'[u] = pc[u] /\ got'[u] = got[u]
BY DEF TasksTyped, MoveTo

\* A job that is over leaves its batch for one of the two counters.
LEMMA Settled ==
  ASSUME Kept, NEW t \in Jobs, NEW ok \in BOOLEAN, Settle(t, ok),
         pc[t] # "idle", pc'[t] = "idle",
         \A u \in Jobs : u # t => pc'[u] = pc[u]
  PROVE  CycleTyped' /\ CycleAccounts'
<1>0. CycleTyped /\ CycleAccounts
  BY DEF Kept
<1>1. /\ t.address \in batch /\ batch \subseteq Addresses
      /\ phase = "cycle"
  BY <1>0 DEF CycleTyped, CycleAccounts
<1>2. /\ batch' = batch \ {t.address}
      /\ UNCHANGED <<running, phase, remaining>>
      /\ \/ updated' = updated + 1 /\ errors' = errors
         \/ updated' = updated /\ errors' = errors + 1
  BY DEF Settle
<1>3. /\ Cardinality(batch') = Cardinality(batch) - 1
      /\ Cardinality(batch) \in Nat /\ Cardinality(batch) > 0
      /\ Cardinality(remaining) \in Nat /\ Cardinality(Addresses) \in Nat
  BY <1>0, <1>1, <1>2, Counts DEF CycleTyped
<1>4. updated + errors + Cardinality(batch) + Cardinality(remaining)
        = Cardinality(Addresses)
  BY <1>0, <1>1 DEF CycleAccounts
<1>5. updated \in Nat /\ errors \in Nat
  BY <1>0, <1>3 DEF CycleTyped
<1>6. /\ updated' \in Nat /\ errors' \in Nat
      /\ updated' + errors' + Cardinality(batch') + Cardinality(remaining)
           = Cardinality(Addresses)
  BY <1>2, <1>3, <1>4, <1>5
<1>7. Cardinality(batch') \in Nat
  BY <1>3
<1>8. /\ updated' \in 0..Cardinality(Addresses)
      /\ errors' \in 0..Cardinality(Addresses)
  BY <1>3, <1>6, <1>7
<1>9. CycleTyped'
  BY <1>0, <1>2, <1>8 DEF CycleTyped
<1>10. \A u \in Jobs : pc'[u] # "idle" <=> u.address \in batch'
  <2> SUFFICES ASSUME NEW u \in Jobs
               PROVE  pc'[u] # "idle" <=> u.address \in batch'
    OBVIOUS
  <2>1. CASE u = t
    BY <1>2, <2>1
  <2>2. CASE u # t
    <3>1. u.address # t.address
      BY <2>2, TaskTypes
    <3> QED
      BY <1>0, <1>2, <2>2, <3>1 DEF CycleAccounts
  <2> QED
    BY <2>1, <2>2
<1>11. Cardinality(batch') <= BatchSize
  BY <1>0, <1>3, BatchAssumption DEF CycleAccounts
<1> QED
  BY <1>1, <1>2, <1>6, <1>9, <1>10, <1>11 DEF CycleAccounts

\* A step that leaves the jobs and the cycle alone.
LEMMA CycleLeft ==
  ASSUME Kept, UNCHANGED cycleVars,
         \A u \in Jobs : pc'[u] = "idle" <=> pc[u] = "idle"
  PROVE  CycleTyped' /\ CycleAccounts'
BY DEF Kept, CycleTyped, CycleAccounts, cycleVars

\* What a step of a call may do: it goes on to another await with a score that
\* is recorded if it has to be, or is over, and stores only such scores.
Advances(t, p, v, s) ==
  /\ pc[t] # "idle"
  /\ MoveTo(t, p, v, s)
  /\ p \in {"persist", "store", "invalidate"} => v # 0
  /\ p \in {"store", "invalidate"}
       => v \in stored'[t.address] \cup lost'[t.address]
  /\ \/ p # "idle" /\ UNCHANGED cycleVars
     \/ p = "idle" /\ \E ok \in BOOLEAN : Settle(t, ok)
  /\ StoresTyped' /\ StoresRecorded'
  /\ \A a \in Addresses : stored[a] \subseteq stored'[a] /\ lost[a] \subseteq lost'[a]

LEMMA AdvancesKept ==
  ASSUME Kept, NEW t \in Tasks, NEW p \in Points, NEW v \in Versions,
         NEW s \in Sources, Advances(t, p, v, s)
  PROVE  Kept'
<1>0. TasksTyped /\ TasksRecorded
  BY DEF Kept
<1>1. /\ TasksTyped'
      /\ pc'[t] = p /\ got'[t] = v
      /\ \A u \in Tasks : u # t => pc'[u] = pc[u] /\ got'[u] = got[u]
  BY <1>0, Moved DEF Advances
<1>2. TasksRecorded'
  <2> SUFFICES ASSUME NEW u \in Tasks
               PROVE  /\ pc'[u] \in {"persist", "store", "invalidate"} => got'[u] # 0
                      /\ pc'[u] \in {"store", "invalidate"}
                           => got'[u] \in stored'[u.address] \cup lost'[u.address]
    BY DEF TasksRecorded
  <2>1. CASE u = t
    BY <1>1, <2>1 DEF Advances
  <2>2. CASE u # t
    BY <1>0, <1>1, <2>2, TaskTypes DEF TasksRecorded, Advances
  <2> QED
    BY <2>1, <2>2
<1>3. CycleTyped' /\ CycleAccounts'
  <2>1. CASE p # "idle" /\ UNCHANGED cycleVars
    <3>1. \A u \in Jobs : pc'[u] = "idle" <=> pc[u] = "idle"
      BY <1>1, <2>1, TaskTypes DEF Advances
    <3> QED
      BY <2>1, <3>1, CycleLeft
  <2>2. ASSUME p = "idle", NEW ok \in BOOLEAN, Settle(t, ok)
        PROVE  CycleTyped' /\ CycleAccounts'
    <3>1. CASE t \in Jobs
      <4>1. \A u \in Jobs : u # t => pc'[u] = pc[u]
        BY <1>1, TaskTypes
      <4> QED
        BY <1>1, <2>2, <3>1, <4>1, Settled DEF Advances
    <3>2. CASE t \notin Jobs
      <4>1. \A u \in Jobs : pc'[u] = "idle" <=> pc[u] = "idle"
        BY <1>1, <3>2, TaskTypes
      <4> QED
        BY <2>2, <3>2, <4>1, CycleLeft DEF Settle
    <3> QED
      BY <3>1, <3>2
  <2> QED
    BY <2>1, <2>2 DEF Advances
<1> QED
  BY <1>1, <1>2, <1>3 DEF Kept, Advances

\* Storing nothing, and storing one value for one address.
LEMMA StoresLeft ==
  ASSUME Kept, UNCHANGED <<storeVars, up, floor>>
  PROVE  /\ StoresTyped' /\ StoresRecorded'
         /\ \A a \in Addresses : stored[a] \subseteq stored'[a] /\ lost[a] \subseteq lost'[a]
BY DEF Kept, StoresTyped, StoresRecorded, storeVars

LEMMA CacheSet ==
  ASSUME Kept, NEW a \in Addresses, NEW v \in Versions,
         v # 0 => v \in stored[a] \cup lost[a],
         cache' = [cache EXCEPT ![a] = v] \/ cache' = cache,
         floor' \in [Addresses -> Versions],
         UNCHANGED <<chain, latest, stored, lost, up>>
  PROVE  /\ StoresTyped' /\ StoresRecorded'
         /\ \A b \in Addresses : stored[b] \subseteq stored'[b] /\ lost[b] \subseteq lost'[b]
<1>1. cache' \in [Addresses -> Versions]
  BY DEF Kept, StoresTyped
<1>2. \A b \in Addresses : cache'[b] = cache[b] \/ (b = a /\ cache'[b] = v)
  BY DEF Kept, StoresTyped
<1>3. StoresRecorded'
  BY <1>2 DEF Kept, StoresRecorded
<1> QED
  BY <1>1, <1>3 DEF Kept, StoresTyped

LEMMA AnswerMoves ==
  ASSUME NEW t \in Tasks, NEW v \in Versions, NEW s \in Sources,
         Answer(t, v, s), UNCHANGED cycleVars
  PROVE  \/ MoveTo(t, "invalidate", v, s)
         \/ /\ MoveTo(t, "idle", 0, "none")
            /\ \E ok \in BOOLEAN : Settle(t, ok)
<1>1. CASE t \in Jobs
  BY <1>1 DEF Answer
<1>2. CASE t \notin Jobs
  <2>1. Settle(t, TRUE)
    BY <1>2 DEF Settle
  <2> QED
    BY <1>2, <2>1 DEF Answer
<1> QED
  BY <1>1, <1>2

-----------------------------------------------------------------------------
(***************************************************************************)
(* The steps of a call.                                                    *)
(***************************************************************************)

\* What is known of a call before its step.
LEMMA Before ==
  ASSUME Kept, NEW t \in Tasks
  PROVE  /\ t.address \in Addresses /\ 0 \in Versions
         /\ got[t] \in Versions /\ from[t] \in Sources
         /\ chain[t.address] \in Versions /\ cache[t.address] \in Versions
         /\ latest[t.address] \in Versions
         /\ cache[t.address] # 0
              => cache[t.address] \in stored[t.address] \cup lost[t.address]
         /\ latest[t.address] # 0
              => latest[t.address] \in stored[t.address] \cup lost[t.address]
         /\ pc[t] \in {"persist", "store", "invalidate"} => got[t] # 0
         /\ pc[t] \in {"store", "invalidate"}
              => got[t] \in stored[t.address] \cup lost[t.address]
BY TaskTypes, VersionsAssumption
   DEF Kept, StoresTyped, TasksTyped, StoresRecorded, TasksRecorded, Versions

LEMMA ReadCacheKept ==
  ASSUME Kept, NEW t \in Tasks, ReadCache(t)
  PROVE  Kept'
<1>1. /\ pc[t] = "readCache" /\ UNCHANGED <<storeVars, up, floor>>
      /\ UNCHANGED cycleVars
  BY DEF ReadCache
<1>2. /\ StoresTyped' /\ StoresRecorded'
      /\ \A a \in Addresses : stored[a] \subseteq stored'[a] /\ lost[a] \subseteq lost'[a]
  BY <1>1, StoresLeft
<1>3. CASE MoveTo(t, "fetch", 0, "none")
  <2>1. Advances(t, "fetch", 0, "none")
    BY <1>1, <1>2, <1>3 DEF Advances
  <2> QED
    BY <2>1, Before, AdvancesKept DEF Points, Sources
<1>4. CASE cache[t.address] # 0 /\ Answer(t, cache[t.address], "cache")
  <2> DEFINE v == cache[t.address]
  <2>0. v \in Versions /\ v # 0 /\ v \in stored[t.address] \cup lost[t.address]
    BY <1>4, Before
  <2>1. v \in stored'[t.address] \cup lost'[t.address]
    BY <2>0, <1>1 DEF storeVars
  <2>2. CASE MoveTo(t, "invalidate", v, "cache")
    <3>1. Advances(t, "invalidate", v, "cache")
      BY <1>1, <1>2, <2>0, <2>1, <2>2 DEF Advances
    <3> QED
      BY <2>0, <3>1, AdvancesKept DEF Points, Sources
  <2>3. CASE /\ MoveTo(t, "idle", 0, "none")
             /\ \E ok \in BOOLEAN : Settle(t, ok)
    <3>1. Advances(t, "idle", 0, "none")
      BY <1>1, <1>2, <2>3 DEF Advances
    <3> QED
      BY <3>1, Before, AdvancesKept DEF Points, Sources
  <2> HIDE DEF v
  <2>4. Answer(t, v, "cache")
    BY <1>4 DEF v
  <2> QED
    BY <1>1, <2>0, <2>2, <2>3, <2>4, AnswerMoves DEF Sources
<1> QED
  BY <1>3, <1>4 DEF ReadCache

LEMMA FetchOnChainKept ==
  ASSUME Kept, NEW t \in Tasks, FetchOnChain(t)
  PROVE  Kept'
<1>1. /\ pc[t] = "fetch" /\ UNCHANGED <<storeVars, up, floor>>
      /\ UNCHANGED cycleVars
  BY DEF FetchOnChain
<1>2. /\ StoresTyped' /\ StoresRecorded'
      /\ \A a \in Addresses : stored[a] \subseteq stored'[a] /\ lost[a] \subseteq lost'[a]
  BY <1>1, StoresLeft
<1>3. CASE MoveTo(t, "readDB", 0, "none")
  <2>1. Advances(t, "readDB", 0, "none")
    BY <1>1, <1>2, <1>3 DEF Advances
  <2> QED
    BY <2>1, Before, AdvancesKept DEF Points, Sources
<1>4. CASE chain[t.address] # 0 /\ MoveTo(t, "persist", chain[t.address], "chain")
  <2>1. Advances(t, "persist", chain[t.address], "chain")
    BY <1>1, <1>2, <1>4 DEF Advances
  <2> QED
    BY <2>1, Before, AdvancesKept DEF Points, Sources
<1> QED
  BY <1>3, <1>4 DEF FetchOnChain

LEMMA PersistSnapshotKept ==
  ASSUME Kept, NEW t \in Tasks, PersistSnapshot(t)
  PROVE  Kept'
<1> DEFINE a == t.address
<1>0. /\ pc[t] = "persist" /\ UNCHANGED <<chain, cache, up, floor>>
      /\ UNCHANGED cycleVars /\ MoveTo(t, "store", got[t], from[t])
  BY DEF PersistSnapshot
<1>1. /\ a \in Addresses /\ got[t] \in Versions \ {0} /\ from[t] \in Sources
  BY <1>0, Before
<1>2. /\ stored \in [Addresses -> SUBSET (Versions \ {0})]
      /\ lost \in [Addresses -> SUBSET (Versions \ {0})]
      /\ latest \in [Addresses -> Versions]
  BY DEF Kept, StoresTyped
<1> HIDE DEF a
<1>3. /\ stored' \in [Addresses -> SUBSET (Versions \ {0})]
      /\ lost' \in [Addresses -> SUBSET (Versions \ {0})]
      /\ latest' \in [Addresses -> Versions]
      /\ got[t] \in stored'[a] \cup lost'[a]
      /\ \A b \in Addresses :
           /\ stored[b] \subseteq stored'[b] /\ lost[b] \subseteq lost'[b]
           /\ latest'[b] = latest[b] \/ latest'[b] \in stored'[b]
  <2>1. CASE "postgres" \in up
    <3>1. /\ latest' = [latest EXCEPT ![a] = got[t]]
          /\ stored' = [stored EXCEPT ![a] = @ \cup {got[t]}]
          /\ lost' = lost
      BY <2>1 DEF PersistSnapshot, a
    <3>2. stored[a] \cup {got[t]} \in SUBSET (Versions \ {0})
      BY <1>1, <1>2
    <3>3. /\ stored' \in [Addresses -> SUBSET (Versions \ {0})]
          /\ latest' \in [Addresses -> Versions]
      BY <1>1, <1>2, <3>1, <3>2
    <3>4. /\ got[t] \in stored'[a] /\ latest'[a] = got[t]
          /\ \A b \in Addresses : stored[b] \subseteq stored'[b]
          /\ \A b \in Addresses : b # a => latest'[b] = latest[b]
      BY <1>1, <1>2, <3>1
    <3> QED
      BY <1>2, <3>1, <3>3, <3>4
  <2>2. CASE "postgres" \notin up
    <3>1. /\ lost' = [lost EXCEPT ![a] = @ \cup {got[t]}]
          /\ stored' = stored /\ latest' = latest
      BY <2>2 DEF PersistSnapshot, a
    <3>2. lost[a] \cup {got[t]} \in SUBSET (Versions \ {0})
      BY <1>1, <1>2
    <3>3. lost' \in [Addresses -> SUBSET (Versions \ {0})]
      BY <1>1, <1>2, <3>1, <3>2
    <3>4. /\ got[t] \in lost'[a]
          /\ \A b \in Addresses : lost[b] \subseteq lost'[b]
      BY <1>1, <1>2, <3>1
    <3> QED
      BY <1>2, <3>1, <3>3, <3>4
  <2> QED
    BY <2>1, <2>2
<1>4. StoresTyped'
  BY <1>0, <1>3 DEF Kept, StoresTyped
<1>5. StoresRecorded'
  <2> SUFFICES ASSUME NEW b \in Addresses
               PROVE  /\ cache'[b] # 0 => cache'[b] \in stored'[b] \cup lost'[b]
                      /\ latest'[b] # 0 => latest'[b] \in stored'[b]
    BY DEF StoresRecorded
  <2>1. /\ cache[b] # 0 => cache[b] \in stored[b] \cup lost[b]
        /\ latest[b] # 0 => latest[b] \in stored[b]
    BY DEF Kept, StoresRecorded
  <2> QED
    BY <1>0, <1>3, <2>1
<1>6. Advances(t, "store", got[t], from[t])
  BY <1>0, <1>1, <1>3, <1>4, <1>5 DEF Advances, a
<1> QED
  BY <1>1, <1>6, AdvancesKept DEF Points

LEMMA ReadDBKept ==
  ASSUME Kept, NEW t \in Tasks, ReadDB(t)
  PROVE  Kept'
<1>1. pc[t] = "readDB" /\ UNCHANGED <<storeVars, up, floor>>
  BY DEF ReadDB
<1>2. /\ StoresTyped' /\ StoresRecorded'
      /\ \A a \in Addresses : stored[a] \subseteq stored'[a] /\ lost[a] \subseteq lost'[a]
  BY <1>1, StoresLeft
<1>3. CASE /\ latest[t.address] # 0
           /\ MoveTo(t, "store", latest[t.address], "db") /\ UNCHANGED cycleVars
  <2>1. latest[t.address] \in stored'[t.address] \cup lost'[t.address]
    BY <1>1, <1>3, Before DEF storeVars
  <2>2. Advances(t, "store", latest[t.address], "db")
    BY <1>1, <1>2, <1>3, <2>1 DEF Advances
  <2> QED
    BY <2>2, Before, AdvancesKept DEF Points, Sources
<1>4. CASE MoveTo(t, "idle", 0, "none") /\ Settle(t, FALSE)
  <2>1. \E ok \in BOOLEAN : Settle(t, ok)
    BY <1>4
  <2>2. Advances(t, "idle", 0, "none")
    BY <1>1, <1>2, <1>4, <2>1 DEF Advances
  <2> QED
    BY <2>2, Before, AdvancesKept DEF Points, Sources
<1> QED
  BY <1>3, <1>4 DEF ReadDB

LEMMA SetCacheKept ==
  ASSUME Kept, NEW t \in Tasks, SetCache(t)
  PROVE  Kept'
<1>1. /\ pc[t] = "store" /\ UNCHANGED <<chain, latest, stored, lost, up, floor>>
      /\ UNCHANGED cycleVars /\ Answer(t, got[t], from[t])
  BY DEF SetCache
<1>2. /\ got[t] \in Versions /\ got[t] # 0 /\ from[t] \in Sources
      /\ got[t] \in stored[t.address] \cup lost[t.address]
      /\ t.address \in Addresses
  BY <1>1, Before
<1>3. cache' = [cache EXCEPT ![t.address] = got[t]] \/ cache' = cache
  <2>1. PICK answers \in RedisAnswers(t) :
          cache' = [cache EXCEPT ![t.address] = IF answers THEN got[t] ELSE @]
    BY DEF SetCache
  <2>2. CASE answers
    BY <2>1, <2>2
  <2>3. CASE ~answers
    BY <2>1, <2>3 DEF Kept, StoresTyped
  <2> QED
    BY <2>2, <2>3
<1>4. floor' \in [Addresses -> Versions]
  BY <1>1 DEF Kept, StoresTyped
<1>5. /\ StoresTyped' /\ StoresRecorded'
      /\ \A a \in Addresses : stored[a] \subseteq stored'[a] /\ lost[a] \subseteq lost'[a]
  BY <1>1, <1>2, <1>3, <1>4, CacheSet
<1>6. CASE MoveTo(t, "invalidate", got[t], from[t])
  <2>1. Advances(t, "invalidate", got[t], from[t])
    BY <1>1, <1>2, <1>5, <1>6 DEF Advances
  <2> QED
    BY <1>2, <2>1, AdvancesKept DEF Points
<1>7. CASE /\ MoveTo(t, "idle", 0, "none")
           /\ \E ok \in BOOLEAN : Settle(t, ok)
  <2>1. Advances(t, "idle", 0, "none")
    BY <1>1, <1>5, <1>7 DEF Advances
  <2> QED
    BY <2>1, Before, AdvancesKept DEF Points, Sources
<1> QED
  BY <1>1, <1>2, <1>6, <1>7, AnswerMoves

LEMMA InvalidateCacheKept ==
  ASSUME Kept, NEW t \in Tasks, InvalidateCache(t)
  PROVE  Kept'
<1>1. /\ pc[t] = "invalidate" /\ UNCHANGED <<chain, latest, stored, lost, up>>
      /\ MoveTo(t, "idle", 0, "none")
  BY DEF InvalidateCache
<1>2. t.address \in Addresses /\ 0 \in Versions /\ got[t] \in Versions
  BY Before
<1>3. /\ cache' = [cache EXCEPT ![t.address] = 0] \/ cache' = cache
      /\ floor' \in [Addresses -> Versions]
      /\ \E ok \in BOOLEAN : Settle(t, ok)
  <2>0. floor \in [Addresses -> Versions]
    BY DEF Kept, StoresTyped
  <2>1. CASE /\ cache' = [cache EXCEPT ![t.address] = 0]
             /\ floor' = [floor EXCEPT ![t.address] =
                            IF from[t] = "chain" THEN got[t] ELSE @]
             /\ Settle(t, TRUE)
    BY <1>2, <2>0, <2>1
  <2>2. CASE /\ UNCHANGED <<cache, floor>>
             /\ \E ok \in BOOLEAN : Settle(t, ok)
    BY <2>0, <2>2
  <2> QED
    BY <2>1, <2>2 DEF InvalidateCache
<1>4. /\ StoresTyped' /\ StoresRecorded'
      /\ \A a \in Addresses : stored[a] \subseteq stored'[a] /\ lost[a] \subseteq lost'[a]
  BY <1>1, <1>2, <1>3, CacheSet
<1>5. Advances(t, "idle", 0, "none")
  BY <1>1, <1>3, <1>4 DEF Advances
<1> QED
  BY <1>2, <1>5, AdvancesKept DEF Points, Sources

\* A request starts with nothing.
LEMMA RequestKept ==
  ASSUME Kept, NEW t \in Tasks, Request(t)
  PROVE  Kept'
<1>1. /\ t \in Requests /\ pc[t] = "idle" /\ MoveTo(t, "readCache", 0, "none")
      /\ UNCHANGED <<storeVars, up, floor>> /\ UNCHANGED cycleVars
  BY DEF Request
<1>2. /\ TasksTyped' /\ pc'[t] = "readCache"
      /\ \A u \in Tasks : u # t => pc'[u] = pc[u] /\ got'[u] = got[u]
  BY <1>1, Moved, Before DEF Kept, Points, Sources
<1>3. t \notin Jobs
  BY <1>1, UpdaterAssumption DEF Requests, Jobs
<1>4. CycleTyped' /\ CycleAccounts'
  <2>1. \A u \in Jobs : pc'[u] = "idle" <=> pc[u] = "idle"
    BY <1>2, <1>3, TaskTypes
  <2> QED
    BY <1>1, <2>1, CycleLeft
<1>5. StoresTyped' /\ StoresRecorded'
  BY <1>1, StoresLeft
<1>6. TasksRecorded'
  BY <1>1, <1>2, TaskTypes DEF Kept, TasksRecorded, storeVars
<1> QED
  BY <1>2, <1>4, <1>5, <1>6 DEF Kept

-----------------------------------------------------------------------------
(***************************************************************************)
(* The environment and the worker.                                         *)
(***************************************************************************)

\* Steps that leave every call alone.
LEMMA CallsLeft ==
  ASSUME Kept, UNCHANGED <<taskVars, stored, lost>>
  PROVE  TasksTyped' /\ TasksRecorded'
BY TaskTypes DEF Kept, TasksTyped, TasksRecorded, taskVars

LEMMA EnvironmentKept ==
  ASSUME Kept,
         \/ \E a \in Addresses : Compute(a) \/ Expire(a)
         \/ \E s \in Services : Fail(s) \/ Recover(s)
  PROVE  Kept'
<1>1. UNCHANGED <<taskVars, stored, lost>> /\ UNCHANGED cycleVars
  BY DEF Compute, Expire, Fail, Recover, storeVars
<1>2. TasksTyped' /\ TasksRecorded'
  BY <1>1, CallsLeft
<1>3. CycleTyped' /\ CycleAccounts'
  BY <1>1, CycleLeft DEF taskVars
<1>4. StoresTyped' /\ StoresRecorded'
  <2>1. ASSUME NEW a \in Addresses, Compute(a)
        PROVE  StoresTyped' /\ StoresRecorded'
    <3>1. chain[a] + 1 \in Versions
      BY <2>1, VersionsAssumption DEF Compute, Kept, StoresTyped, Versions
    <3> QED
      BY <2>1, <3>1 DEF Compute, Kept, StoresTyped, StoresRecorded
  <2>2. ASSUME NEW a \in Addresses, Expire(a)
        PROVE  StoresTyped' /\ StoresRecorded'
    <3>1. 0 \in Versions
      BY VersionsAssumption DEF Versions
    <3> QED
      BY <2>2, <3>1 DEF Expire, Kept, StoresTyped, StoresRecorded
  <2>3. ASSUME NEW s \in Services, Fail(s) \/ Recover(s)
        PROVE  StoresTyped' /\ StoresRecorded'
    BY <2>3 DEF Fail, Recover, storeVars, Kept, StoresTyped, StoresRecorded
  <2> QED
    BY <2>1, <2>2, <2>3
<1> QED
  BY <1>2, <1>3, <1>4 DEF Kept

LEMMA StartCycleKept ==
  ASSUME Kept, StartCycle
  PROVE  Kept'
<1>1. /\ UNCHANGED <<storeVars, up, floor>> /\ UNCHANGED <<taskVars, stored, lost>>
      /\ phase = "armed" /\ phase' = "cycle" /\ remaining' = Addresses
      /\ updated' = 0 /\ errors' = 0 /\ batch' = batch /\ running' = running
  BY DEF StartCycle, storeVars
<1>2. StoresTyped' /\ StoresRecorded' /\ TasksTyped' /\ TasksRecorded'
  BY <1>1, StoresLeft, CallsLeft
<1>3. batch = {} /\ Cardinality(batch) = 0
  BY <1>1, FS_EmptySet DEF Kept, CycleAccounts
<1>4. CycleTyped'
  BY <1>1, Counts DEF Kept, CycleTyped
<1>5. 0 + 0 + Cardinality(batch) + Cardinality(Addresses) = Cardinality(Addresses)
  BY <1>3, Counts
<1>6. CycleAccounts'
  BY <1>1, <1>5 DEF Kept, CycleAccounts, taskVars
<1> QED
  BY <1>2, <1>4, <1>6 DEF Kept

LEMMA StartBatchKept ==
  ASSUME Kept, StartBatch
  PROVE  Kept'
<1>0. /\ UNCHANGED <<storeVars, up, floor>>
      /\ UNCHANGED <<got, from, running, phase, updated, errors>>
      /\ phase = "cycle" /\ batch = {}
  BY DEF StartBatch
<1>1. PICK b \in SUBSET remaining :
        /\ IF Cardinality(remaining) <= BatchSize THEN b = remaining
           ELSE Cardinality(b) = BatchSize
        /\ batch' = b
        /\ remaining' = remaining \ b
        /\ pc' = [t \in Tasks |->
                    IF t \in Jobs /\ t.address \in b THEN "readCache" ELSE pc[t]]
  BY DEF StartBatch
<1>2. /\ remaining \subseteq Addresses
      /\ CycleTyped /\ TasksTyped /\ TasksRecorded /\ CycleAccounts
  BY DEF Kept, CycleTyped
<1>3. StoresTyped' /\ StoresRecorded'
  BY <1>0, StoresLeft
<1>4. /\ TasksTyped'
      /\ \A t \in Tasks : pc'[t] = "readCache" \/ pc'[t] = pc[t]
  BY <1>0, <1>1, <1>2 DEF TasksTyped, Points
<1>5. TasksRecorded'
  BY <1>0, <1>2, <1>4 DEF TasksRecorded, storeVars
<1>6. CycleTyped'
  BY <1>0, <1>1, <1>2 DEF CycleTyped
<1>7. /\ Cardinality(b) + Cardinality(remaining \ b) = Cardinality(remaining)
      /\ Cardinality(b) \in Nat /\ Cardinality(remaining \ b) \in Nat
      /\ Cardinality(batch) = 0
  BY <1>0, <1>2, Counts, FS_EmptySet
<1>8. updated + errors + Cardinality(b) + Cardinality(remaining \ b)
        = Cardinality(Addresses)
  <2>1. updated + errors + Cardinality(batch) + Cardinality(remaining)
          = Cardinality(Addresses)
    BY <1>0, <1>2 DEF CycleAccounts
  <2>2. updated \in Nat /\ errors \in Nat /\ Cardinality(Addresses) \in Nat
    BY <1>2, Counts DEF CycleTyped
  <2> QED
    BY <1>7, <2>1, <2>2
<1>9. Cardinality(b) <= BatchSize
  BY <1>1, BatchAssumption
<1>10. \A t \in Jobs : pc'[t] # "idle" <=> t.address \in b
  BY <1>0, <1>1, <1>2, TaskTypes DEF CycleAccounts
<1>11. CycleAccounts'
  BY <1>0, <1>1, <1>8, <1>9, <1>10 DEF CycleAccounts
<1> QED
  BY <1>3, <1>4, <1>5, <1>6, <1>11 DEF Kept

\* The end of a cycle, and stop.
LEMMA PhaseKept ==
  ASSUME Kept, EndCycle \/ Stop
  PROVE  Kept'
<1>1. UNCHANGED <<storeVars, up, floor>> /\ UNCHANGED <<taskVars, stored, lost>>
  BY DEF EndCycle, Stop, storeVars
<1>2. StoresTyped' /\ StoresRecorded' /\ TasksTyped' /\ TasksRecorded'
  BY <1>1, StoresLeft, CallsLeft
<1>3. CycleTyped' /\ CycleAccounts'
  <2>1. CASE EndCycle
    BY <2>1 DEF EndCycle, Kept, CycleTyped, CycleAccounts, taskVars
  <2>2. CASE Stop
    BY <2>2 DEF Stop, Kept, CycleTyped, CycleAccounts, taskVars
  <2> QED
    BY <2>1, <2>2
<1> QED
  BY <1>2, <1>3 DEF Kept

LEMMA NextKept == Kept /\ [Next]_vars => Kept'
<1> SUFFICES ASSUME Kept, [Next]_vars PROVE Kept'
  OBVIOUS
<1>1. ASSUME NEW t \in Tasks, Request(t) \/ Advance(t) PROVE Kept'
  BY <1>1, RequestKept, ReadCacheKept, FetchOnChainKept, PersistSnapshotKept,
     ReadDBKept, SetCacheKept, InvalidateCacheKept DEF Advance
<1>2. CASE Work \/ Stop
  BY <1>2, StartCycleKept, StartBatchKept, PhaseKept DEF Work
<1>3. CASE UNCHANGED vars
  <2>1. StoresTyped' /\ StoresRecorded'
    BY <1>3, StoresLeft DEF vars
  <2>2. TasksTyped' /\ TasksRecorded'
    BY <1>3, CallsLeft DEF vars, storeVars
  <2>3. CycleTyped' /\ CycleAccounts'
    BY <1>3, CycleLeft DEF vars, taskVars
  <2> QED
    BY <2>1, <2>2, <2>3 DEF Kept
<1> QED
  BY <1>1, <1>2, <1>3, EnvironmentKept DEF Next

-----------------------------------------------------------------------------
(***************************************************************************)
(* The theorems.                                                           *)
(***************************************************************************)

LEMMA AlwaysKept == Spec => []Kept
BY InitKept, NextKept, PTL DEF Spec

\* Every variable has its type.
THEOREM TypeCorrect == Spec => []TypeOK
BY AlwaysKept, KeptIsTyped, PTL

\* However calls, failures, expiry and the worker's jobs interleave, a score
\* that is cached or about to be has a snapshot or lost it to Postgres.
THEOREM PublishedRecorded == Spec => []PublishedIsRecorded
<1>1. Kept => PublishedIsRecorded
  BY DEF Kept, StoresRecorded, TasksRecorded, PublishedIsRecorded
<1> QED
  BY <1>1, AlwaysKept, PTL

\* A cycle of the worker accounts for every identity once, for any number of
\* identities, size of a batch, failures and moment of stop.
THEOREM CycleComplete == Spec => []CycleAccounts
<1>1. Kept => CycleAccounts
  BY DEF Kept
<1> QED
  BY <1>1, AlwaysKept, PTL

=============================================================================
