--------------------------- MODULE LendingProofs ---------------------------
(***************************************************************************)
(* Theorems about Lending, for any number of concurrent requests and any   *)
(* scores and credential types.                                            *)
(***************************************************************************)
EXTENDS Lending, SequenceTheorems, TLAPS

-----------------------------------------------------------------------------
(***************************************************************************)
(* Lists of bounded length.                                                *)
(***************************************************************************)

LEMMA Bounded ==
  ASSUME NEW S, NEW n \in Nat
  PROVE  \A q : q \in SeqOf(S, n) <=> q \in Seq(S) /\ Len(q) <= n
<1> TAKE q
<1>1. ASSUME q \in SeqOf(S, n) PROVE q \in Seq(S) /\ Len(q) <= n
  <2>1. PICK m \in 0..n : q \in [1..m -> S]
    BY <1>1 DEF SeqOf
  <2>2. q \in Seq(S)
    BY <2>1, SeqDef
  <2>3. Len(q) = m
    BY <2>1, <2>2, LenProperties
  <2> QED
    BY <2>2, <2>3
<1>2. ASSUME q \in Seq(S), Len(q) <= n PROVE q \in SeqOf(S, n)
  BY <1>2, LenProperties DEF SeqOf
<1> QED
  BY <1>1, <1>2

\* The first entries of a list are a list of the same values.
LEMMA FirstEntries ==
  ASSUME NEW S, NEW q \in Seq(S), NEW n \in Nat
  PROVE  LET first == SubSeq(q, 1, IF Len(q) < n THEN Len(q) ELSE n)
         IN first \in Seq(S) /\ Len(first) <= n
<1> DEFINE m == IF Len(q) < n THEN Len(q) ELSE n
<1>1. m \in Nat /\ m <= Len(q) /\ m <= n
  BY LenProperties
<1>2. \A i \in 1..m : q[i] \in S
  BY <1>1, LenProperties, ElementOfSeq
<1> HIDE DEF m
<1>3. SubSeq(q, 1, m) \in Seq(S) /\ Len(SubSeq(q, 1, m)) <= n
  BY <1>1, <1>2, SubSeqProperties
<1> QED
  BY <1>3 DEF m

-----------------------------------------------------------------------------
(***************************************************************************)
(* The inductive invariant: every score on its way to a client is one that *)
(* the contract has held, and what is found of the credentials is in the   *)
(* ghosts of the request.                                                  *)
(***************************************************************************)

StoresTyped ==
  /\ chainScore \in Scores \cup {None} /\ cache \in Scores \cup {None}
  /\ computed \subseteq Scores
  /\ snapshots \in Seq(Scores) /\ Len(snapshots) <= MaxSnapshots
  /\ chainTypes \subseteq Types
  /\ rows \in [Types -> RowStates]
  /\ up \subseteq Services

RequestsTyped ==
  /\ asked \in [Clients -> [kind : Kinds \cup {"idle"}, score : Required \cup {0},
                            types : SUBSET Types]]
  /\ answer \in [Clients -> {"none", "invalid", "approved", "denied", "report",
                             "score", "history", "failed"}]
  /\ seen \in [Clients -> SUBSET Types] /\ alive \in [Clients -> SUBSET Types]

PartsTyped ==
  /\ scorePart \in [Clients -> Running \cup {"done", "failed"}]
  /\ score \in [Clients -> Scores \cup {None}]
  /\ docPart \in [Clients -> {"chain", "db", "done", "failed"}]
  /\ docTypes \in [Clients -> SUBSET (Types \cup {Index})]
  /\ listPart \in [Clients -> {"db", "done", "failed"}]
  /\ list \in [Clients -> SeqOf(Scores, ReportLength)]

Typed == StoresTyped /\ RequestsTyped /\ PartsTyped

LEMMA TypedIsTypeOK == Typed <=> TypeOK
BY Bounded, LengthAssumption
   DEF Typed, StoresTyped, RequestsTyped, PartsTyped, TypeOK

StoresComputed ==
  /\ {chainScore, cache} \subseteq computed \cup {None}
  /\ ToSet(snapshots) \subseteq computed

ScoreComputed(c) ==
  /\ scorePart[c] \in {"persist", "store"} => score[c] \in computed
  /\ asked[c].kind \in {"verify", "report", "score"} /\ scorePart[c] = "done"
       => score[c] \in computed
  /\ ToSet(list[c]) \subseteq computed

TypesFound(c) ==
  /\ asked[c] # Idle => Present(rows) \subseteq seen[c] /\ Live(rows) \subseteq alive[c]
  /\ docPart[c] = "done" =>
       /\ asked[c].kind = "verify" => docTypes[c] \subseteq seen[c] \cup {Index}
       /\ asked[c].kind = "report" => docTypes[c] \subseteq alive[c]

Asked(c) ==
  /\ asked[c].kind = "verify" => asked[c].score \in 300..900
  /\ docPart[c] = "chain" => asked[c].kind = "verify"

Kept ==
  /\ Typed
  /\ StoresComputed
  /\ \A c \in Clients : ScoreComputed(c) /\ TypesFound(c) /\ Asked(c)

LEMMA InitKept == Init => Kept
<1> SUFFICES ASSUME Init PROVE Kept
  OBVIOUS
<1>1. /\ <<>> \in Seq(Scores) /\ Len(<<>>) = 0
      /\ <<>> \in SeqOf(Scores, ReportLength)
  <2>1. <<>> \in Seq(Scores) /\ Len(<<>>) = 0
    BY EmptySeq
  <2>2. ReportLength \in Nat /\ 0 <= ReportLength
    BY LengthAssumption
  <2> QED
    BY <2>1, <2>2, Bounded
<1>2. StoresTyped
  BY <1>1, LengthAssumption DEF Init, StoresTyped, RowStates
<1>3. RequestsTyped
  BY DEF Init, RequestsTyped, Idle
<1>4. PartsTyped
  BY <1>1 DEF Init, PartsTyped
<1>5. ToSet(<<>>) = {}
  BY DEF ToSet
<1>6. StoresComputed
  BY <1>5 DEF Init, StoresComputed
<1>7. \A c \in Clients : ScoreComputed(c) /\ TypesFound(c) /\ Asked(c)
  BY <1>5 DEF Init, ScoreComputed, TypesFound, Asked, Idle
<1> QED
  BY <1>2, <1>3, <1>4, <1>6, <1>7 DEF Kept, Typed

-----------------------------------------------------------------------------
(***************************************************************************)
(* The borrower and the services.                                          *)
(***************************************************************************)

LEMMA ComputeKept ==
  ASSUME Kept, NEW s \in Scores, Compute(s)
  PROVE  Kept'
<1> USE DEF Compute, storeVars, requestVars, partVars, ghostVars
<1>1. Typed'
  BY DEF Kept, Typed, StoresTyped, RequestsTyped, PartsTyped
<1>2. StoresComputed'
  BY DEF Kept, StoresComputed
<1>3. \A c \in Clients : ScoreComputed(c)' /\ TypesFound(c)' /\ Asked(c)'
  BY DEF Kept, ScoreComputed, TypesFound, Asked, Present, Live
<1> QED
  BY <1>1, <1>2, <1>3 DEF Kept

\* Steps that change neither requests nor scores.
LEMMA ElsewhereKept ==
  ASSUME Kept,
         UNCHANGED <<chainScore, computed, rows, snapshots, requestVars, ghostVars>>,
         chainTypes' \subseteq Types, up' \subseteq Services,
         cache' \in {cache, None}
  PROVE  Kept'
<1> USE DEF requestVars, partVars, ghostVars
<1>1. Typed'
  BY DEF Kept, Typed, StoresTyped, RequestsTyped, PartsTyped
<1>2. StoresComputed'
  BY DEF Kept, StoresComputed
<1>3. \A c \in Clients : ScoreComputed(c)' /\ TypesFound(c)' /\ Asked(c)'
  BY DEF Kept, ScoreComputed, TypesFound, Asked, Present, Live
<1> QED
  BY <1>1, <1>2, <1>3 DEF Kept

LEMMA ChangeRowKept ==
  ASSUME Kept, NEW t \in Types, ChangeRow(t)
  PROVE  Kept'
<1> USE DEF requestVars, partVars, storeVars
<1>1. UNCHANGED <<chainScore, computed, chainTypes, cache, snapshots, up,
                  asked, answer, scorePart, score, docPart, docTypes, listPart,
                  list>>
  BY DEF ChangeRow
<1>2. rows' \in [Types -> RowStates]
  <2>1. PICK state \in Successors(rows[t]) : rows' = [rows EXCEPT ![t] = state]
    BY DEF ChangeRow
  <2>2. state \in RowStates
    BY DEF Successors, RowStates
  <2> QED
    BY <2>1, <2>2 DEF Kept, Typed, StoresTyped
<1>3. Present(rows') \subseteq Types /\ Live(rows') \subseteq Types
  BY DEF Present, Live
<1>4. /\ seen' \in [Clients -> SUBSET Types] /\ alive' \in [Clients -> SUBSET Types]
      /\ \A c \in Clients : asked[c] # Idle =>
           /\ seen'[c] = seen[c] \cup Present(rows')
           /\ alive'[c] = alive[c] \cup Live(rows')
  BY <1>3 DEF ChangeRow, Kept, Typed, RequestsTyped
<1>5. Typed'
  BY <1>1, <1>2, <1>4 DEF Kept, Typed, StoresTyped, RequestsTyped, PartsTyped
<1>6. StoresComputed'
  BY <1>1 DEF Kept, StoresComputed
<1>7. ASSUME NEW c \in Clients
      PROVE  ScoreComputed(c)' /\ TypesFound(c)' /\ Asked(c)'
  <2>1. ScoreComputed(c)' /\ Asked(c)'
    BY <1>1 DEF Kept, ScoreComputed, Asked
  <2>2. asked[c].kind \in {"verify", "report"} => asked[c] # Idle
    BY DEF Idle
  <2>3. TypesFound(c)'
    BY <1>1, <1>4, <2>2 DEF Kept, TypesFound
  <2> QED
    BY <2>1, <2>3
<1> QED
  BY <1>5, <1>6, <1>7 DEF Kept

-----------------------------------------------------------------------------
(***************************************************************************)
(* The steps of a request.                                                 *)
(***************************************************************************)

\* A step of getScore: what it goes on with has been computed.
LEMMA ScoreStep ==
  ASSUME Kept, NEW c \in Clients, NEW from,
         NEW to \in Running \cup {"done", "failed"},
         NEW value \in Scores \cup {None}, Score(c, from, to, value),
         to \in {"persist", "store", "done"} => value \in computed,
         cache' \in Scores \cup {None}, cache' \in computed \cup {None},
         snapshots' \in Seq(Scores), Len(snapshots') <= MaxSnapshots,
         ToSet(snapshots') \subseteq computed
  PROVE  Kept'
<1> USE DEF Score, borrowerVars, ghostVars
<1>1. /\ scorePart' \in [Clients -> Running \cup {"done", "failed"}]
      /\ score' \in [Clients -> Scores \cup {None}]
      /\ scorePart'[c] = to /\ score'[c] = value
      /\ \A d \in Clients : d # c => /\ scorePart'[d] = scorePart[d]
                                     /\ score'[d] = score[d]
  BY DEF Kept, Typed, PartsTyped
<1>2. Typed'
  BY <1>1 DEF Kept, Typed, StoresTyped, RequestsTyped, PartsTyped
<1>3. StoresComputed'
  BY DEF Kept, StoresComputed
<1>4. ASSUME NEW d \in Clients
      PROVE  ScoreComputed(d)' /\ TypesFound(d)' /\ Asked(d)'
  <2>1. TypesFound(d)' /\ Asked(d)'
    BY DEF Kept, TypesFound, Asked, Present, Live
  <2>2. ScoreComputed(d)'
    <3>1. CASE d = c
      BY <1>1, <3>1 DEF Kept, ScoreComputed
    <3>2. CASE d # c
      BY <1>1, <3>2 DEF Kept, ScoreComputed
    <3> QED
      BY <3>1, <3>2
  <2> QED
    BY <2>1, <2>2
<1> QED
  BY <1>2, <1>3, <1>4 DEF Kept

\* A score that is held is in front of older ones.
LEMMA InFront ==
  ASSUME NEW S, NEW T, NEW s \in S, s \in T, NEW q \in Seq(S), ToSet(q) \subseteq T
  PROVE  /\ <<s>> \o q \in Seq(S) /\ Len(<<s>> \o q) = Len(q) + 1
         /\ ToSet(<<s>> \o q) \subseteq T
<1>1. <<s>> \in Seq(S) /\ Len(<<s>>) = 1 /\ <<s>>[1] = s
  OBVIOUS
<1>2. q \in Seq(T)
  <2>1. \A i \in 1..Len(q) : q[i] \in T
    BY LenProperties DEF ToSet
  <2>2. q \in [1..Len(q) -> T]
    BY <2>1, LenProperties
  <2> QED
    BY <2>2, LenProperties, SeqDef
<1>3. <<s>> \in Seq(T)
  OBVIOUS
<1>4. <<s>> \o q \in Seq(T)
  BY <1>2, <1>3, ConcatProperties
<1>5. <<s>> \o q \in Seq(S) /\ Len(<<s>> \o q) = 1 + Len(q)
  BY <1>1, ConcatProperties
<1> QED
  BY <1>4, <1>5, LenProperties, ElementOfSeq DEF ToSet

LEMMA GetScoreKept ==
  ASSUME Kept, NEW c \in Clients,
         \/ ReadCache(c) \/ FetchOnChain(c) \/ PersistSnapshot(c)
         \/ FetchFromDB(c) \/ SetCache(c)
  PROVE  Kept'
<1>0. /\ Typed /\ StoresTyped /\ StoresComputed /\ ScoreComputed(c)
      /\ score[c] \in Scores \cup {None} /\ None \notin Scores
  BY ScoresAssumption DEF Kept, Typed, PartsTyped, None
<1>1. /\ cache \in Scores \cup {None} /\ cache \in computed \cup {None}
      /\ chainScore \in computed \cup {None} /\ computed \subseteq Scores
      /\ snapshots \in Seq(Scores) /\ Len(snapshots) <= MaxSnapshots
      /\ ToSet(snapshots) \subseteq computed
  BY <1>0 DEF StoresTyped, StoresComputed
<1>2. CASE ReadCache(c)
  <2>1. UNCHANGED <<cache, snapshots>>
    BY <1>2 DEF ReadCache, storeVars
  <2>2. CASE cache # None /\ Score(c, "cache", "done", cache)
    BY <1>1, <2>1, <2>2, ScoreStep
  <2>3. CASE Score(c, "cache", "fetch", None)
    BY <1>1, <2>1, <2>3, ScoreStep DEF Running
  <2> QED
    BY <1>2, <2>2, <2>3 DEF ReadCache
<1>3. CASE FetchOnChain(c)
  <2>1. UNCHANGED <<cache, snapshots>>
    BY <1>3 DEF FetchOnChain, storeVars
  <2>2. CASE chainScore # None /\ Score(c, "fetch", "persist", chainScore)
    BY <1>1, <2>1, <2>2, ScoreStep DEF Running
  <2>3. CASE Score(c, "fetch", "db", None)
    BY <1>1, <2>1, <2>3, ScoreStep DEF Running
  <2> QED
    BY <1>3, <2>2, <2>3 DEF FetchOnChain
<1>4. CASE PersistSnapshot(c)
  <2>1. /\ Score(c, "persist", "store", score[c]) /\ UNCHANGED cache
        /\ scorePart[c] = "persist"
    BY <1>4 DEF PersistSnapshot, Score
  <2>2. score[c] \in computed
    BY <1>0, <2>1 DEF ScoreComputed
  <2>3. /\ snapshots' \in Seq(Scores) /\ Len(snapshots') <= MaxSnapshots
        /\ ToSet(snapshots') \subseteq computed
    <3>1. CASE Len(snapshots) < MaxSnapshots /\ snapshots' = <<score[c]>> \o snapshots
      BY <1>1, <2>2, <3>1, InFront, LenProperties, LengthAssumption
    <3>2. CASE snapshots' = snapshots
      BY <1>1, <3>2
    <3> QED
      BY <1>4, <3>1, <3>2 DEF PersistSnapshot
  <2> QED
    BY <1>1, <2>1, <2>2, <2>3, ScoreStep DEF Running
<1>5. CASE FetchFromDB(c)
  <2>1. UNCHANGED <<cache, snapshots>>
    BY <1>5 DEF FetchFromDB, storeVars
  <2>2. CASE snapshots # <<>> /\ Score(c, "db", "store", Head(snapshots))
    <3>1. Head(snapshots) \in Scores /\ Head(snapshots) \in ToSet(snapshots)
      <4>1. Len(snapshots) \in Nat \ {0} /\ DOMAIN snapshots = 1..Len(snapshots)
        BY <1>1, <2>2, EmptySeq, LenProperties
      <4> QED
        BY <1>1, <2>2, <4>1, HeadTailProperties DEF ToSet
    <3> QED
      BY <1>1, <2>1, <2>2, <3>1, ScoreStep DEF Running
  <2>3. CASE Score(c, "db", "failed", None)
    BY <1>1, <2>1, <2>3, ScoreStep DEF Running
  <2> QED
    BY <1>5, <2>2, <2>3 DEF FetchFromDB
<1>6. CASE SetCache(c)
  <2>1. /\ Score(c, "store", "done", score[c]) /\ UNCHANGED snapshots
        /\ scorePart[c] = "store" /\ cache' \in {score[c], cache}
    BY <1>6 DEF SetCache, Score
  <2>2. score[c] \in computed
    BY <1>0, <2>1 DEF ScoreComputed
  <2>3. cache' \in Scores \cup {None} /\ cache' \in computed \cup {None}
    BY <1>1, <2>1, <2>2
  <2> QED
    BY <1>0, <1>1, <2>1, <2>2, <2>3, ScoreStep
<1> QED
  BY <1>2, <1>3, <1>4, <1>5, <1>6

\* A step of the search for credentials: what it finds in the rows is in the
\* ghosts of the request.
LEMMA DocStep ==
  ASSUME Kept, NEW c \in Clients, NEW from,
         NEW to \in {"db", "done", "failed"},
         NEW types \in SUBSET (Types \cup {Index}), Doc(c, from, to, types),
         to = "done" => /\ asked[c].kind = "verify" => types \subseteq seen[c] \cup {Index}
                        /\ asked[c].kind = "report" => types \subseteq alive[c]
  PROVE  Kept'
<1> USE DEF Doc, borrowerVars, storeVars, ghostVars
<1>1. /\ docPart' \in [Clients -> {"chain", "db", "done", "failed"}]
      /\ docTypes' \in [Clients -> SUBSET (Types \cup {Index})]
      /\ docPart'[c] = to /\ docTypes'[c] = types
      /\ \A d \in Clients : d # c => /\ docPart'[d] = docPart[d]
                                     /\ docTypes'[d] = docTypes[d]
  BY DEF Kept, Typed, PartsTyped
<1>2. Typed'
  BY <1>1 DEF Kept, Typed, StoresTyped, RequestsTyped, PartsTyped
<1>3. StoresComputed'
  BY DEF Kept, StoresComputed
<1>4. ASSUME NEW d \in Clients
      PROVE  ScoreComputed(d)' /\ TypesFound(d)' /\ Asked(d)'
  <2>1. ScoreComputed(d)'
    BY DEF Kept, ScoreComputed
  <2>2. TypesFound(d)' /\ Asked(d)'
    <3>1. CASE d = c
      BY <1>1, <3>1 DEF Kept, TypesFound, Asked, Present, Live
    <3>2. CASE d # c
      BY <1>1, <3>2 DEF Kept, TypesFound, Asked, Present, Live
    <3> QED
      BY <3>1, <3>2
  <2> QED
    BY <2>1, <2>2
<1> QED
  BY <1>2, <1>3, <1>4 DEF Kept

LEMMA ResolveKept ==
  ASSUME Kept, NEW c \in Clients,
         ResolveOnChain(c) \/ ResolveFromDB(c) \/ ResolveNobody(c)
  PROVE  Kept'
<1>1. CASE ResolveOnChain(c)
  <2>1. CASE Doc(c, "chain", "db", {})
    BY <2>1, DocStep
  <2>2. CASE Doc(c, "chain", "done", IF chainTypes = {} THEN {} ELSE {Index})
    <3>1. asked[c].kind = "verify"
      BY <2>2 DEF Kept, Asked, Doc
    <3> QED
      BY <2>2, <3>1, DocStep
  <2> QED
    BY <1>1, <2>1, <2>2 DEF ResolveOnChain
<1>2. CASE ResolveFromDB(c)
  <2>1. CASE Doc(c, "db", "failed", {})
    BY <2>1, DocStep
  <2>2. CASE Doc(c, "db", "done", FindRows(c))
    <3>1. FindRows(c) \subseteq Types
      BY DEF FindRows, Present
    <3>2. asked[c].kind = "verify" => FindRows(c) \subseteq seen[c] \cup {Index}
      BY DEF Kept, TypesFound, FindRows, Idle
    <3>3. asked[c].kind = "report" => FindRows(c) \subseteq alive[c]
      <4>1. asked[c].kind = "report" => FindRows(c) \subseteq Live(rows)
        BY DEF FindRows, Live
      <4> QED
        BY <4>1 DEF Kept, TypesFound, Idle
    <3> QED
      BY <2>2, <3>1, <3>2, <3>3, DocStep
  <2> QED
    BY <1>2, <2>1, <2>2 DEF ResolveFromDB
<1>3. CASE ResolveNobody(c)
  BY <1>3, DocStep DEF ResolveNobody
<1> QED
  BY <1>1, <1>2, <1>3

LEMMA GetScoreHistoryKept ==
  ASSUME Kept, NEW c \in Clients, GetScoreHistory(c)
  PROVE  Kept'
<1> USE DEF GetScoreHistory, borrowerVars, storeVars, ghostVars
<1> DEFINE first == SubSeq(snapshots, 1, IF Len(snapshots) < ReportLength
                                         THEN Len(snapshots) ELSE ReportLength)
<1>0. /\ snapshots \in Seq(Scores) /\ ToSet(snapshots) \subseteq computed
      /\ ReportLength \in Nat
  BY LengthAssumption DEF Kept, Typed, StoresTyped, StoresComputed
<1>1. snapshots \in Seq(computed)
  <2>1. \A i \in 1..Len(snapshots) : snapshots[i] \in computed
    BY <1>0, LenProperties DEF ToSet
  <2>2. snapshots \in [1..Len(snapshots) -> computed]
    BY <1>0, <2>1, LenProperties
  <2> QED
    BY <1>0, <2>2, LenProperties, SeqDef
<1>2. first \in Seq(Scores) /\ first \in Seq(computed) /\ Len(first) <= ReportLength
  BY <1>0, <1>1, FirstEntries
<1>3. first \in SeqOf(Scores, ReportLength) /\ ToSet(first) \subseteq computed
  BY <1>0, <1>2, Bounded, LenProperties, ElementOfSeq DEF ToSet
<1>4. <<>> \in SeqOf(Scores, ReportLength) /\ ToSet(<<>>) = {}
  <2>1. <<>> \in Seq(Scores) /\ Len(<<>>) = 0 /\ 0 <= ReportLength
    BY <1>0, EmptySeq
  <2>2. <<>> \in SeqOf(Scores, ReportLength)
    BY <1>0, <2>1, Bounded
  <2> QED
    BY <2>2 DEF ToSet
<1> HIDE DEF first
<1>5. PICK new \in {first, <<>>} : list' = [list EXCEPT ![c] = new]
  BY DEF first
<1>6. new \in SeqOf(Scores, ReportLength) /\ ToSet(new) \subseteq computed
  BY <1>3, <1>4
<1>7. list' \in [Clients -> SeqOf(Scores, ReportLength)] /\ list'[c] = new
  BY <1>5, <1>6 DEF Kept, Typed, PartsTyped
<1>8. \A d \in Clients : d # c => list'[d] = list[d]
  BY <1>5 DEF Kept, Typed, PartsTyped
<1>9. Typed'
  BY <1>7 DEF Kept, Typed, StoresTyped, RequestsTyped, PartsTyped
<1>10. StoresComputed'
  BY DEF Kept, StoresComputed
<1>11. ASSUME NEW d \in Clients
       PROVE  ScoreComputed(d)' /\ TypesFound(d)' /\ Asked(d)'
  <2>1. TypesFound(d)' /\ Asked(d)'
    BY DEF Kept, TypesFound, Asked, Present, Live
  <2>2. ToSet(list'[d]) \subseteq computed
    BY <1>6, <1>7, <1>8 DEF Kept, ScoreComputed
  <2> QED
    BY <2>1, <2>2 DEF Kept, ScoreComputed
<1> QED
  BY <1>9, <1>10, <1>11 DEF Kept

\* An answer ends the request.  What a part finds later is nobody's.
LEMMA EndKept ==
  ASSUME Kept, NEW c \in Clients,
         NEW what \in {"approved", "denied", "report", "score", "history", "failed"},
         End(c, what), docPart[c] # "chain"
  PROVE  Kept'
<1> USE DEF End, Answered, borrowerVars, storeVars
<1>0. /\ Typed /\ StoresTyped /\ RequestsTyped /\ PartsTyped
      /\ <<>> \in SeqOf(Scores, ReportLength) /\ ToSet(<<>>) = {}
      /\ Idle.kind = "idle"
      /\ Idle \in [kind : Kinds \cup {"idle"}, score : Required \cup {0},
                   types : SUBSET Types]
  <2>1. <<>> \in Seq(Scores) /\ Len(<<>>) = 0 /\ ReportLength \in Nat
        /\ 0 <= ReportLength
    BY EmptySeq, LengthAssumption
  <2>2. <<>> \in SeqOf(Scores, ReportLength)
    BY <2>1, Bounded
  <2> QED
    BY <2>2 DEF Kept, Typed, ToSet, Idle
<1>1. /\ asked' = [asked EXCEPT ![c] = Idle]
      /\ answer' = [answer EXCEPT ![c] = what]
      /\ seen' = [seen EXCEPT ![c] = {}] /\ alive' = [alive EXCEPT ![c] = {}]
      /\ docTypes' = [docTypes EXCEPT ![c] = {}]
      /\ list' = [list EXCEPT ![c] = <<>>]
      /\ UNCHANGED <<scorePart, docPart, listPart, chainScore, computed, cache,
                     snapshots, chainTypes, rows, up>>
  OBVIOUS
<1>2. PICK new \in {None, score[c]} : score' = [score EXCEPT ![c] = new]
  OBVIOUS
<1>3. scorePart[c] # "done" => score'[c] = score[c]
  BY <1>0 DEF PartsTyped
<1>4. RequestsTyped'
  BY <1>0, <1>1 DEF RequestsTyped
<1>5. PartsTyped'
  BY <1>0, <1>1, <1>2 DEF PartsTyped
<1>6. StoresTyped' /\ StoresComputed'
  BY <1>0, <1>1 DEF Kept, StoresTyped, StoresComputed
<1>7. /\ asked'[c] = Idle /\ list'[c] = <<>>
      /\ \A d \in Clients : d # c =>
           /\ asked'[d] = asked[d] /\ score'[d] = score[d] /\ list'[d] = list[d]
           /\ docTypes'[d] = docTypes[d]
           /\ seen'[d] = seen[d] /\ alive'[d] = alive[d]
  BY <1>0, <1>1, <1>2 DEF RequestsTyped, PartsTyped
<1>8. ASSUME NEW d \in Clients
      PROVE  ScoreComputed(d)' /\ TypesFound(d)' /\ Asked(d)'
  <2>1. CASE d = c
    <3>1. ScoreComputed(c)'
      BY <1>0, <1>1, <1>3, <1>7 DEF Kept, ScoreComputed
    <3>2. TypesFound(c)' /\ Asked(c)'
      BY <1>0, <1>1, <1>7 DEF TypesFound, Asked
    <3> QED
      BY <2>1, <3>1, <3>2
  <2>2. CASE d # c
    BY <1>1, <1>7, <2>2 DEF Kept, ScoreComputed, TypesFound, Asked, Present, Live
  <2> QED
    BY <2>1, <2>2
<1> QED
  BY <1>4, <1>5, <1>6, <1>8 DEF Kept, Typed

LEMMA AnswerKept ==
  ASSUME Kept, NEW c \in Clients, AnswerVerify(c) \/ AnswerReport(c)
  PROVE  Kept'
<1>1. CASE AnswerVerify(c)
  BY <1>1, EndKept DEF AnswerVerify, Over
<1>2. CASE AnswerReport(c)
  <2>1. docPart[c] # "chain"
    BY <1>2 DEF AnswerReport, Kept, Asked
  <2> QED
    BY <1>2, <2>1, EndKept DEF AnswerReport
<1> QED
  BY <1>1, <1>2

LEMMA BeginKept ==
  ASSUME Kept, NEW c \in Clients, NEW kind \in Kinds, NEW required \in Required,
         NEW types \in SUBSET Types, Begin(c, kind, required, types)
  PROVE  Kept'
<1> USE DEF Begin, Answered, borrowerVars, storeVars
<1>0. /\ Typed /\ StoresTyped /\ RequestsTyped /\ PartsTyped
      /\ <<>> \in SeqOf(Scores, ReportLength) /\ ToSet(<<>>) = {}
      /\ Present(rows) \subseteq Types /\ Live(rows) \subseteq Types
  <2>1. <<>> \in Seq(Scores) /\ Len(<<>>) = 0 /\ ReportLength \in Nat
        /\ 0 <= ReportLength
    BY EmptySeq, LengthAssumption
  <2>2. <<>> \in SeqOf(Scores, ReportLength)
    BY <2>1, Bounded
  <2> QED
    BY <2>2 DEF Kept, Typed, ToSet, Present, Live
<1>1. UNCHANGED <<chainScore, computed, cache, snapshots, chainTypes, rows, up>>
  OBVIOUS
<1>2. StoresTyped' /\ StoresComputed'
  BY <1>0, <1>1 DEF Kept, StoresTyped, StoresComputed
<1>3. CASE kind = "verify" /\ ~ValidScore(required)
  <2>1. /\ answer' = [answer EXCEPT ![c] = "invalid"]
        /\ UNCHANGED <<asked, scorePart, score, docPart, docTypes, listPart,
                       list, seen, alive>>
    BY <1>3 DEF partVars, ghostVars
  <2>2. RequestsTyped' /\ PartsTyped'
    BY <1>0, <2>1 DEF RequestsTyped, PartsTyped
  <2>3. \A d \in Clients : ScoreComputed(d)' /\ TypesFound(d)' /\ Asked(d)'
    BY <1>1, <2>1 DEF Kept, ScoreComputed, TypesFound, Asked, Present, Live
  <2> QED
    BY <1>2, <2>2, <2>3 DEF Kept, Typed
<1>4. CASE ~(kind = "verify" /\ ~ValidScore(required))
  <2> DEFINE request == [kind |-> kind, score |-> required, types |-> types]
             begun == IF kind = "history" THEN "done" ELSE "cache"
             search == CASE kind = "verify" -> "chain"
                         [] kind = "report" -> "db"
                         [] OTHER -> "done"
             listed == IF kind \in {"report", "history"} THEN "db" ELSE "done"
  <2>1. /\ asked' = [asked EXCEPT ![c] = request]
        /\ scorePart' = [scorePart EXCEPT ![c] = begun]
        /\ docPart' = [docPart EXCEPT ![c] = search]
        /\ listPart' = [listPart EXCEPT ![c] = listed]
        /\ score' = [score EXCEPT ![c] = None]
        /\ docTypes' = [docTypes EXCEPT ![c] = {}]
        /\ list' = [list EXCEPT ![c] = <<>>]
        /\ answer' = [answer EXCEPT ![c] = "none"]
        /\ seen' = [seen EXCEPT ![c] = Present(rows)]
        /\ alive' = [alive EXCEPT ![c] = Live(rows)]
    BY <1>4
  <2>2. /\ request \in [kind : Kinds \cup {"idle"}, score : Required \cup {0},
                        types : SUBSET Types]
        /\ request.kind = kind /\ request.score = required
        /\ begun \in {"done", "cache"}
        /\ kind \in {"verify", "report", "score"} => begun = "cache"
        /\ search \in {"chain", "db", "done"}
        /\ kind \in {"verify", "report"} => search # "done"
        /\ search = "chain" => kind = "verify"
        /\ listed \in {"db", "done"}
    BY DEF Kinds
  <2> HIDE DEF request, begun, search, listed
  <2>3. RequestsTyped'
    BY <1>0, <2>1, <2>2 DEF RequestsTyped
  <2>4. PartsTyped'
    BY <1>0, <2>1, <2>2 DEF PartsTyped, Running
  <2>5. /\ asked'[c] = request /\ scorePart'[c] = begun /\ docPart'[c] = search
        /\ docTypes'[c] = {} /\ list'[c] = <<>>
        /\ seen'[c] = Present(rows) /\ alive'[c] = Live(rows)
    BY <1>0, <2>1 DEF RequestsTyped, PartsTyped
  <2>6. \A d \in Clients : d # c =>
          /\ asked'[d] = asked[d] /\ scorePart'[d] = scorePart[d]
          /\ score'[d] = score[d] /\ list'[d] = list[d]
          /\ docPart'[d] = docPart[d] /\ docTypes'[d] = docTypes[d]
          /\ seen'[d] = seen[d] /\ alive'[d] = alive[d]
    BY <1>0, <2>1 DEF RequestsTyped, PartsTyped
  <2>7. ASSUME NEW d \in Clients
        PROVE  ScoreComputed(d)' /\ TypesFound(d)' /\ Asked(d)'
    <3>1. CASE d = c
      <4>1. ScoreComputed(c)'
        BY <1>0, <2>2, <2>5 DEF ScoreComputed
      <4>2. TypesFound(c)'
        BY <1>1, <2>2, <2>5 DEF TypesFound, Present, Live
      <4>3. Asked(c)'
        BY <1>4, <2>2, <2>5 DEF Asked, ValidScore
      <4> QED
        BY <3>1, <4>1, <4>2, <4>3
    <3>2. CASE d # c
      <4>1. ScoreComputed(d) /\ TypesFound(d) /\ Asked(d)
        BY DEF Kept
      <4>2. ScoreComputed(d)'
        BY <1>1, <2>6, <3>2, <4>1 DEF ScoreComputed
      <4>3. TypesFound(d)'
        BY <1>1, <2>6, <3>2, <4>1 DEF TypesFound, Present, Live
      <4>4. Asked(d)'
        BY <2>6, <3>2, <4>1 DEF Asked
      <4> QED
        BY <4>2, <4>3, <4>4
    <3> QED
      BY <3>1, <3>2
  <2> QED
    BY <1>2, <2>3, <2>4, <2>7 DEF Kept, Typed
<1> QED
  BY <1>3, <1>4

LEMMA StepKept ==
  ASSUME Kept, NEW c \in Clients, Step(c)
  PROVE  Kept'
BY GetScoreKept, ResolveKept, GetScoreHistoryKept, AnswerKept
   DEF Step, CacheStep, OtherStep

LEMMA NextKept == Kept /\ [Next]_vars => Kept'
<1> SUFFICES ASSUME Kept, [Next]_vars PROVE Kept'
  OBVIOUS
<1>1. ASSUME NEW s \in Scores, Compute(s) PROVE Kept'
  BY <1>1, ComputeKept
<1>2. ASSUME NEW t \in Types, ChangeDocument(t) PROVE Kept'
  <2>1. chainTypes' \subseteq Types
    BY <1>2 DEF ChangeDocument, Kept, Typed, StoresTyped
  <2>2. up' \subseteq Services
    BY <1>2 DEF ChangeDocument, Kept, Typed, StoresTyped
  <2> QED
    BY <1>2, <2>1, <2>2, ElsewhereKept DEF ChangeDocument, storeVars
<1>3. ASSUME NEW t \in Types, ChangeRow(t) PROVE Kept'
  BY <1>3, ChangeRowKept
<1>4. ASSUME NEW service \in Services, Switch(service) PROVE Kept'
  <2>1. chainTypes' \subseteq Types /\ up' \subseteq Services
    BY <1>4 DEF Switch, borrowerVars, Kept, Typed, StoresTyped
  <2> QED
    BY <1>4, <2>1, ElsewhereKept DEF Switch, storeVars, borrowerVars
<1>5. CASE Expire
  <2>1. chainTypes' \subseteq Types /\ up' \subseteq Services
    BY <1>5 DEF Expire, borrowerVars, Kept, Typed, StoresTyped
  <2> QED
    BY <1>5, <2>1, ElsewhereKept DEF Expire, borrowerVars
<1>6. ASSUME NEW c \in Clients, NEW kind \in Kinds, NEW required \in Required,
             NEW types \in SUBSET Types, Begin(c, kind, required, types)
      PROVE  Kept'
  BY <1>6, BeginKept
<1>7. ASSUME NEW c \in Clients, Step(c) PROVE Kept'
  BY <1>7, StepKept
<1>8. CASE UNCHANGED vars
  <2>1. chainTypes' \subseteq Types /\ up' \subseteq Services
    BY <1>8 DEF vars, borrowerVars, Kept, Typed, StoresTyped
  <2> QED
    BY <1>8, <2>1, ElsewhereKept DEF vars, borrowerVars, storeVars
<1> QED
  BY <1>1, <1>2, <1>3, <1>4, <1>5, <1>6, <1>7, <1>8 DEF Next

-----------------------------------------------------------------------------
(***************************************************************************)
(* The theorems.                                                           *)
(***************************************************************************)

LEMMA AlwaysKept == Spec => []Kept
BY InitKept, NextKept, PTL DEF Spec

\* Every variable has its type.
THEOREM TypeCorrect == Spec => []TypeOK
<1>1. Kept => TypeOK
  BY TypedIsTypeOK DEF Kept
<1> QED
  BY <1>1, AlwaysKept, PTL

\* Only the actions that answer end a request.
LEMMA Answering ==
  ASSUME Kept, [Next]_vars, NEW c \in Clients, asked[c] # Idle, asked'[c] = Idle
  PROVE  AnswerVerify(c) \/ AnswerReport(c)
<1>0. asked \in [Clients -> [kind : Kinds \cup {"idle"}, score : Required \cup {0},
                             types : SUBSET Types]]
  BY DEF Kept, Typed, RequestsTyped
<1>1. CASE asked' = asked
  BY <1>1
<1>2. ASSUME NEW d \in Clients, NEW kind \in Kinds, NEW required \in Required,
             NEW types \in SUBSET Types, Begin(d, kind, required, types)
      PROVE  FALSE
  <2>1. asked[d] = Idle
    BY <1>2 DEF Begin
  <2>2. asked'[c] = asked[c]
    BY <1>0, <1>2, <2>1 DEF Begin
  <2> QED
    BY <2>2
<1>3. ASSUME NEW d \in Clients, AnswerVerify(d) \/ AnswerReport(d)
      PROVE  d = c
  <2>1. asked' = [asked EXCEPT ![d] = Idle]
    BY <1>3 DEF AnswerVerify, AnswerReport, End
  <2> QED
    BY <1>0, <2>1
<1>4. ASSUME NEW d \in Clients, Step(d)
      PROVE  \/ AnswerVerify(d) \/ AnswerReport(d)
             \/ asked' = asked
  BY <1>4 DEF Step, CacheStep, OtherStep, ReadCache, FetchOnChain,
              PersistSnapshot, FetchFromDB, SetCache, ResolveOnChain,
              ResolveFromDB, ResolveNobody, GetScoreHistory, Score, Doc
<1>5. ASSUME \/ \E s \in Scores : Compute(s)
             \/ \E t \in Types : ChangeDocument(t) \/ ChangeRow(t)
             \/ \E service \in Services : Switch(service)
             \/ Expire
             \/ UNCHANGED vars
      PROVE  asked' = asked
  BY <1>5 DEF Compute, ChangeDocument, ChangeRow, Switch, Expire, vars, requestVars
<1> QED
  BY <1>1, <1>2, <1>3, <1>4, <1>5 DEF Next

\* Whatever changes or fails while the parts of a request run, an approval
\* rests on a score the contract has held and on credentials that were valid
\* during the request, and a report names nothing else.
THEOREM AnswersBacked == Spec => AnswersAreBacked
<1>1. Kept /\ [Next]_vars =>
        [\A c \in Clients : ApprovalIsBacked(c) /\ ReportIsBacked(c)]_vars
  <2> SUFFICES ASSUME Kept, [Next]_vars, NEW c \in Clients,
                      asked[c] # Idle, asked'[c] = Idle
               PROVE  /\ answer'[c] = "approved" =>
                           /\ score[c] \in computed /\ score[c] >= asked[c].score
                           /\ asked[c].types \subseteq seen[c]
                      /\ answer'[c] = "report" =>
                           /\ {score[c]} \cup ToSet(list[c]) \subseteq computed
                           /\ docTypes[c] \subseteq alive[c]
    BY DEF ApprovalIsBacked, ReportIsBacked, Answers
  <2>0. /\ answer \in [Clients -> {"none", "invalid", "approved", "denied",
                                   "report", "score", "history", "failed"}]
        /\ asked[c].types \subseteq Types
        /\ ScoreComputed(c) /\ TypesFound(c)
    BY DEF Kept, Typed, RequestsTyped
  <2>1. CASE AnswerVerify(c)
    <3>1. /\ asked[c].kind = "verify"
          /\ answer'[c] = "approved" => ScoreApproved(c) /\ CredentialsVerified(c)
          /\ answer'[c] # "report"
      BY <2>0, <2>1 DEF AnswerVerify, End, Answered
    <3>2. ScoreApproved(c) => score[c] \in computed /\ score[c] >= asked[c].score
      BY <2>0, <3>1 DEF ScoreApproved, ScoreComputed
    <3>3. CredentialsVerified(c) => asked[c].types \subseteq seen[c]
      BY <2>0, <3>1, TypesAssumption DEF CredentialsVerified, TypesFound
    <3> QED
      BY <3>1, <3>2, <3>3
  <2>2. CASE AnswerReport(c)
    <3>1. answer'[c] # "approved"
      BY <2>0, <2>2 DEF AnswerReport, End, Answered
    <3>2. answer'[c] = "report" =>
            /\ asked[c].kind = "report" /\ scorePart[c] = "done"
            /\ docPart[c] = "done"
      BY <2>0, <2>2 DEF AnswerReport, End, Answered, Over
    <3> QED
      BY <2>0, <3>1, <3>2 DEF ScoreComputed, TypesFound
  <2> QED
    BY <2>1, <2>2, Answering
<1> QED
  BY <1>1, AlwaysKept, PTL DEF Spec, AnswersAreBacked

=============================================================================
