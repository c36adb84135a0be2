---------------------------- MODULE PortalProofs ----------------------------
(***************************************************************************)
(* Theorems about Portal, for any accounts and number of acts.             *)
(***************************************************************************)
EXTENDS Portal, TLAPS

-----------------------------------------------------------------------------
(***************************************************************************)
(* The inductive invariant.                                                *)
(***************************************************************************)

Single == Writes \cup {"verify"}

\* the calls a page makes; it hears no others
PageOps ==
  CASE page = "dashboard" -> {"resolve", "score", "revoke"}
    [] page = "create" -> {"create"}
    [] page = "manage" -> {"resolve", "add", "revoke"}
    [] page = "score" -> {"score", "history"}
    [] OTHER -> {"verify"}

\* What is true of a call: who it is about, what its form waits for, and what
\* its answer proves of the server.
Sound(c) ==
  /\ c.heard => c.op \in PageOps
  /\ ~c.heard => c.op \in Writes /\ c.stage = "sent"
  /\ c.op \in Writes => c.of \in Accounts
  /\ c.heard /\ c.op \in Writes \cup {"resolve"} => c.of = address["page"]
  /\ c.heard /\ c.op \in Single => ~c.overtaken
  /\ c.heard /\ c.op = "create" => did.loading /\ ~form.created
  /\ c.heard /\ c.op = "add" => form.adding
  /\ c.heard /\ c.op = "verify" => lender.loading
  /\ c.stage = "done" => c.op \in Stateful
  /\ c.ok => c.op \in Stateful /\ c.of \in Accounts
  /\ c.ok /\ c.op \in Writes => c.of \in dids
  /\ c.ok /\ c.op = "add" => c.creds <= creds[c.of]

\* Calls of a kind are told apart by their number, those of a form by nothing.
Distinct(S) ==
  \A c, d \in S :
    c.op = d.op /\ (c.no = d.no \/ (c.op \in Single /\ c.heard /\ d.heard)) => c = d

Forms ==
  /\ late \cap Single = {}
  /\ lender.error => lender.result = None
  /\ form.created =>
       page = "create" /\ did.doc.of = address["page"] /\ address["page"] \in dids
  /\ query # None => page = "score"
  /\ address["page"] # None => ~checking["page"]
  /\ acknowledged > 0 =>
       /\ page = "manage" /\ address["page"] # None
       /\ acknowledged <= creds[address["page"]]

\* The last call of its kind, to whose answer no later one has come.
Last(S, c) == ~c.overtaken /\ \A d \in S : d.op = c.op => d.no <= c.no

Settled(S, op) == \A c \in S : c.op = op => c.overtaken

\* What is shown is right, or will be put right by the answer to the last call.
ScoreFollows(op, shown) ==
  \/ \E c \in calls : c.op = op /\ Last(calls, c) /\ c.of = EffectiveAddress
  \/ Settled(calls, op) /\ (credit.error \/ shown = EffectiveAddress \/ op \in late)

ScoresFollow ==
  page = "score" /\ EffectiveAddress # None =>
    ScoreFollows("score", credit.score) /\ ScoreFollows("history", credit.history)

\* the answer or the document has what was added, or is the contract's
Lists(d) == d.creds >= acknowledged \/ (d.chain /\ d.of \in OnChain)

ListFollows ==
  acknowledged > 0 =>
    \/ \E c \in calls :
         /\ c.op = "resolve" /\ Last(calls, c)
         /\ c.stage = "sent" \/ ~c.ok \/ Lists(c)
    \/ /\ Settled(calls, "resolve")
       /\ did.error \/ Lists(did.doc) \/ "resolve" \in late

Consistent ==
  /\ TypeOK
  /\ \A c \in calls : Sound(c)
  /\ Distinct(calls) /\ Forms
  /\ ScoresFollow /\ ListFollows

-----------------------------------------------------------------------------
(***************************************************************************)
(* What becomes of the calls under way.                                    *)
(***************************************************************************)

\* Some calls are forgotten.
LEMMA FewerCalls ==
  ASSUME NEW S, NEW T \in SUBSET S
  PROVE  /\ Distinct(S) => Distinct(T)
         /\ \A c \in T : Last(S, c) => Last(T, c)
         /\ \A op : Settled(S, op) => Settled(T, op)
BY DEF Distinct, Last, Settled

\* No form would have a second call under way.
Free(S, ops) == \A d \in S : d.op \in ops \cap Single => ~d.heard

\* calls' is S and new calls, each the last of its kind
Sent(S, ops, text) ==
  /\ calls' \subseteq Call /\ Distinct(calls') /\ S \subseteq calls'
  /\ \A d \in calls' : d \in S \/ (/\ d.op \in ops /\ d.of = text
                                   /\ d.stage = "sent" /\ ~d.ok
                                   /\ d.heard /\ ~d.overtaken)
  /\ \A op \in ops : \E c \in calls' :
       c.op = op /\ c.of = text /\ c.stage = "sent" /\ Last(calls', c)
  /\ \A c \in S : c.op \notin ops /\ Last(S, c) => Last(calls', c)
  /\ \A op : op \notin ops /\ Settled(S, op) => Settled(calls', op)

LEMMA SendFacts ==
  ASSUME NEW S, S \subseteq Call, Distinct(S), NEW ops, ops \subseteq Ops,
         NEW text \in Texts, Free(S, ops), Send(S, ops, text)
  PROVE  Sent(S, ops, text)
<1>1. PICK n \in {1} \cup {c.no + 1 : c \in S} :
        /\ \A c \in S : c.no < n
        /\ calls' = S \cup {NewCall(op, text, n) : op \in ops}
  BY DEF Send
<1>2. \A c \in S : c.no \in Nat
  BY DEF Call
<1>3. n \in Nat
  BY <1>1, <1>2
<1>4. \A op \in ops :
        /\ NewCall(op, text, n) \in Call
        /\ NewCall(op, text, n).op = op /\ NewCall(op, text, n).of = text
        /\ NewCall(op, text, n).no = n /\ NewCall(op, text, n).stage = "sent"
        /\ NewCall(op, text, n).ok = FALSE /\ NewCall(op, text, n).heard = TRUE
        /\ NewCall(op, text, n).overtaken = FALSE
  <2> TAKE op \in ops
  <2>1. op \in Ops
    OBVIOUS
  <2> QED
    BY <1>3, <2>1, PortalBounds DEF NewCall, Call
<1>5. \A d \in calls' : d \in S \/ \E op \in ops : d = NewCall(op, text, n)
  BY <1>1
<1>6. calls' \subseteq Call /\ S \subseteq calls'
  BY <1>1, <1>4
<1>7. Distinct(calls')
  <2> SUFFICES ASSUME NEW c \in calls', NEW d \in calls', c.op = d.op,
                      c.no = d.no \/ (c.op \in Single /\ c.heard /\ d.heard)
               PROVE  c = d
    BY DEF Distinct
  <2>1. CASE c \in S /\ d \in S
    BY <2>1 DEF Distinct
  <2>2. ASSUME NEW op \in ops, d = NewCall(op, text, n), c \in S
        PROVE  FALSE
    <3>1. d.op = op /\ d.no = n /\ c.no < n /\ c.no \in Nat
      BY <1>1, <1>2, <1>4, <2>2
    <3> QED
      BY <1>3, <2>2, <3>1 DEF Free
  <2>3. ASSUME NEW op \in ops, c = NewCall(op, text, n), d \in S
        PROVE  FALSE
    <3>1. c.op = op /\ c.no = n /\ d.no < n /\ d.no \in Nat
      BY <1>1, <1>2, <1>4, <2>3
    <3> QED
      BY <1>3, <2>3, <3>1 DEF Free
  <2>4. ASSUME NEW op \in ops, NEW oq \in ops, c = NewCall(op, text, n),
               d = NewCall(oq, text, n)
        PROVE  c = d
    BY <1>4, <2>4
  <2> QED
    BY <1>5, <2>1, <2>2, <2>3, <2>4
<1>8. \A d \in calls' : d \in S \/ (/\ d.op \in ops /\ d.of = text
                                    /\ d.stage = "sent" /\ ~d.ok
                                    /\ d.heard /\ ~d.overtaken)
  BY <1>4, <1>5
<1>9. ASSUME NEW op \in ops
      PROVE  \E c \in calls' :
               c.op = op /\ c.of = text /\ c.stage = "sent" /\ Last(calls', c)
  <2>1. ASSUME NEW d \in calls' PROVE d.no <= n
    BY <1>1, <1>2, <1>3, <1>4, <1>5, <2>1
  <2>2. Last(calls', NewCall(op, text, n))
    BY <1>4, <2>1 DEF Last
  <2> QED
    BY <1>1, <1>4, <2>2
<1>10. \A c \in S : c.op \notin ops /\ Last(S, c) => Last(calls', c)
  BY <1>8 DEF Last
<1>11. \A op : op \notin ops /\ Settled(S, op) => Settled(calls', op)
  BY <1>8 DEF Settled
<1> QED
  BY <1>6, <1>7, <1>8, <1>9, <1>10, <1>11 DEF Sent

\* d is call b, except that it may have been overtaken
Same(d, b) ==
  /\ d.op = b.op /\ d.of = b.of /\ d.no = b.no /\ d.stage = b.stage
  /\ d.ok = b.ok /\ d.creds = b.creds /\ d.chain = b.chain /\ d.heard = b.heard
  /\ b.overtaken => d.overtaken

\* A call is answered: the earlier ones of its kind are overtaken.
Answered(c) ==
  /\ Without(c) \subseteq Call /\ Distinct(Without(c))
  /\ \A d \in Without(c) : \E b \in calls \ {c} :
       Same(d, b) /\ (d.overtaken => b.overtaken \/ b.op = c.op)
  /\ \A r \in calls : r # c /\ Last(calls, r) =>
       r \in Without(c) /\ Last(Without(c), r)
  /\ Last(calls, c) => Settled(Without(c), c.op)
  /\ \A op : Settled(calls, op) => Settled(Without(c), op)

LEMMA WithoutFacts ==
  ASSUME calls \subseteq Call, Distinct(calls), NEW c \in calls
  PROVE  Answered(c)
<1> DEFINE image(b) == IF b.op = c.op /\ b.no < c.no
                       THEN [b EXCEPT !.overtaken = TRUE] ELSE b
<1>1. \A d : d \in Without(c) <=> \E b \in calls \ {c} : d = image(b)
  BY DEF Without
<1>2. ASSUME NEW b \in calls
      PROVE  /\ image(b) \in Call /\ Same(image(b), b)
             /\ image(b).overtaken => b.overtaken \/ b.op = c.op
             /\ b.op = c.op /\ b.no < c.no => image(b).overtaken
             /\ ~(b.op = c.op /\ b.no < c.no) => image(b) = b
  <2>1. b \in Call
    OBVIOUS
  <2>2. CASE b.op = c.op /\ b.no < c.no
    <3>1. image(b) = [b EXCEPT !.overtaken = TRUE]
      BY <2>2
    <3> HIDE DEF image
    <3> QED
      BY <2>1, <2>2, <3>1 DEF Call, Same
  <2>3. CASE ~(b.op = c.op /\ b.no < c.no)
    BY <2>1, <2>3 DEF Same
  <2> QED
    BY <2>2, <2>3
<1> HIDE DEF image
<1>3. \A b \in calls : b.no \in Nat
  BY DEF Call
<1>4. Distinct(Without(c))
  <2> SUFFICES ASSUME NEW d \in Without(c), NEW q \in Without(c), d.op = q.op,
                      d.no = q.no \/ (d.op \in Single /\ d.heard /\ q.heard)
               PROVE  d = q
    BY DEF Distinct
  <2>1. PICK b \in calls \ {c} : d = image(b)
    BY <1>1
  <2>2. PICK a \in calls \ {c} : q = image(a)
    BY <1>1
  <2>3. a = b
    BY <1>2, <2>1, <2>2 DEF Same, Distinct
  <2> QED
    BY <2>1, <2>2, <2>3
<1>5. ASSUME NEW r \in calls, r # c, Last(calls, r)
      PROVE  r \in Without(c) /\ Last(Without(c), r)
  <2>1. ~(r.op = c.op /\ r.no < c.no)
    BY <1>3, <1>5 DEF Last
  <2>2. r \in Without(c)
    BY <1>1, <1>2, <1>5, <2>1
  <2>3. ASSUME NEW d \in Without(c), d.op = r.op PROVE d.no <= r.no
    BY <1>1, <1>2, <1>5, <2>3 DEF Same, Last
  <2> QED
    BY <1>5, <2>2, <2>3 DEF Last
<1>6. ASSUME Last(calls, c) PROVE Settled(Without(c), c.op)
  <2> SUFFICES ASSUME NEW d \in Without(c), d.op = c.op
               PROVE  d.overtaken
    BY DEF Settled
  <2>1. PICK b \in calls \ {c} : d = image(b)
    BY <1>1
  <2>2. b.op = c.op
    BY <1>2, <2>1 DEF Same
  <2>3. b.no <= c.no /\ b.no # c.no
    BY <1>6, <2>1, <2>2 DEF Last, Distinct
  <2>4. b.no < c.no
    BY <1>3, <2>3
  <2> QED
    BY <1>2, <2>1, <2>2, <2>4
<1>7. \A op : Settled(calls, op) => Settled(Without(c), op)
  BY <1>1, <1>2 DEF Settled, Same
<1> QED
  BY <1>1, <1>2, <1>4, <1>5, <1>6, <1>7 DEF Answered

\* calls' has what the server has made of c
Handled(c, ok, n, chain) ==
  /\ calls' \subseteq Call /\ Distinct(calls')
  /\ \A d \in calls' :
       \/ d \in calls
       \/ /\ c.heard /\ d.heard /\ d.op = c.op /\ d.of = c.of
          /\ d.overtaken = c.overtaken
          /\ d.stage = "done" /\ d.ok = ok /\ d.creds = n /\ d.chain = chain
  /\ \A r \in calls : r # c /\ Last(calls, r) => r \in calls' /\ Last(calls', r)
  /\ c.heard /\ Last(calls, c) => \E r \in calls' :
       /\ r.op = c.op /\ r.of = c.of /\ r.ok = ok /\ r.creds = n /\ r.chain = chain
       /\ Last(calls', r)
  /\ \A op : Settled(calls, op) => Settled(calls', op)

LEMMA DoneFacts ==
  ASSUME calls \subseteq Call, Distinct(calls), NEW c \in calls, NEW ok \in BOOLEAN,
         NEW n \in 0..MaxCreds, NEW chain \in BOOLEAN, Done(c, ok, n, chain)
  PROVE  Handled(c, ok, n, chain)
<1> DEFINE new == [c EXCEPT !.stage = "done", !.ok = ok, !.creds = n, !.chain = chain]
<1>1. /\ \A d \in calls' : d \in calls \ {c} \/ (c.heard /\ d = new)
      /\ calls \ {c} \subseteq calls' /\ (c.heard => new \in calls')
  BY DEF Done
<1>2. /\ new \in Call /\ new.op = c.op /\ new.of = c.of /\ new.no = c.no
      /\ new.heard = c.heard /\ new.overtaken = c.overtaken
      /\ new.stage = "done" /\ new.ok = ok /\ new.creds = n /\ new.chain = chain
  BY DEF Call
<1> HIDE DEF new
<1>3. calls' \subseteq Call
  BY <1>1, <1>2
<1>4. Distinct(calls')
  <2> SUFFICES ASSUME NEW d \in calls', NEW q \in calls', d.op = q.op,
                      d.no = q.no \/ (d.op \in Single /\ d.heard /\ q.heard)
               PROVE  d = q
    BY DEF Distinct
  <2>1. CASE d \in calls \ {c} /\ q \in calls \ {c}
    BY <2>1 DEF Distinct
  <2>2. CASE d = new /\ q \in calls \ {c} /\ c.heard
    BY <1>2, <2>2 DEF Distinct
  <2>3. CASE q = new /\ d \in calls \ {c} /\ c.heard
    BY <1>2, <2>3 DEF Distinct
  <2> QED
    BY <1>1, <2>1, <2>2, <2>3
<1>5. \A r \in calls : r # c /\ Last(calls, r) => r \in calls' /\ Last(calls', r)
  BY <1>1, <1>2 DEF Last
<1>6. c.heard /\ Last(calls, c) => Last(calls', new)
  <2>1. c.no \in Nat
    BY DEF Call
  <2> QED
    BY <1>1, <1>2, <2>1 DEF Last
<1>7. \A op : Settled(calls, op) => Settled(calls', op)
  BY <1>1, <1>2 DEF Settled
<1> QED
  BY <1>1, <1>2, <1>3, <1>4, <1>5, <1>6, <1>7 DEF Handled


-----------------------------------------------------------------------------
(***************************************************************************)
(* What a step leaves true.                                                *)
(***************************************************************************)

\* The account the page's wallet has, and the text it shows the score of.
LEMMA Addresses ==
  ASSUME TypeOK, Forms
  PROVE  /\ address["page"] \in Accounts \cup {None}
         /\ EffectiveAddress \in Texts \cup {None}
         /\ page # "score" => EffectiveAddress = address["page"]
BY InstancesAssumption, NoneAssumption
   DEF TypeOK, WalletTypeOK, Forms, EffectiveAddress, Effective, Texts

\* A call that is not touched stays sound while its page stays and the server
\* forgets nothing.
LEMMA SoundKept ==
  ASSUME NEW c \in Call, Sound(c), page' = page,
         c.heard /\ c.op \in Writes \cup {"resolve"} =>
           address'["page"] = address["page"],
         c.heard /\ c.op = "create" => did'.loading /\ ~form'.created,
         c.heard /\ c.op = "add" => form'.adding,
         c.heard /\ c.op = "verify" => lender'.loading,
         dids \subseteq dids', \A a \in Accounts : creds[a] <= creds'[a],
         creds \in [Accounts -> 0..MaxCreds], creds' \in [Accounts -> 0..MaxCreds]
  PROVE  Sound(c)'
<1>1. c.ok /\ c.op = "add" => c.creds <= creds'[c.of]
  <2> SUFFICES ASSUME c.ok, c.op = "add" PROVE c.creds <= creds'[c.of]
    OBVIOUS
  <2>1. c.of \in Accounts /\ c.creds <= creds[c.of]
    BY DEF Sound, Writes
  <2>2. c.creds \in 0..MaxCreds
    BY DEF Call
  <2>3. creds[c.of] \in 0..MaxCreds /\ creds'[c.of] \in 0..MaxCreds
    BY <2>1
  <2>4. creds[c.of] <= creds'[c.of]
    BY <2>1
  <2> QED
    BY <2>1, <2>2, <2>3, <2>4, PortalBounds
<1> QED
  BY <1>1 DEF Sound, PageOps

\* The last call of a kind is still the last, and so is that it was answered.
Carried(op) ==
  /\ \A r \in calls : r.op = op /\ Last(calls, r) => r \in calls' /\ Last(calls', r)
  /\ Settled(calls, op) => Settled(calls', op)

LEMMA ScoresKept ==
  ASSUME ScoresFollow, page' = page, EffectiveAddress' = EffectiveAddress,
         credit' = credit, late' = late, Carried("score"), Carried("history")
  PROVE  ScoresFollow'
<1> SUFFICES ASSUME page = "score", EffectiveAddress # None
             PROVE  ScoreFollows("score", credit.score)'
                    /\ ScoreFollows("history", credit.history)'
  BY DEF ScoresFollow
<1>1. ScoreFollows("score", credit.score) /\ ScoreFollows("history", credit.history)
  BY DEF ScoresFollow
<1>2. ScoreFollows("score", credit.score)'
  BY <1>1 DEF ScoreFollows, Carried
<1>3. ScoreFollows("history", credit.history)'
  BY <1>1 DEF ScoreFollows, Carried
<1> QED
  BY <1>2, <1>3

LEMMA ListKept ==
  ASSUME ListFollows, acknowledged' = acknowledged, did'.doc = did.doc,
         did'.error = did.error, "resolve" \in late => "resolve" \in late',
         Carried("resolve")
  PROVE  ListFollows'
BY DEF ListFollows, Lists, Carried

-----------------------------------------------------------------------------
(***************************************************************************)
(* The first state, and the steps of the wallet and of the reader.         *)
(***************************************************************************)

LEMMA InitConsistent == Init => Consistent
<1> SUFFICES ASSUME Init PROVE Consistent
  OBVIOUS
<1> USE DEF Init, WalletInit
<1>1. TypeOK
  BY PortalBounds, NoneAssumption
     DEF TypeOK, WalletTypeOK, FreshDid, FreshCredit, FreshForm, FreshLender, NoDocument
<1>2. (\A c \in calls : Sound(c)) /\ Distinct(calls)
  BY DEF Distinct
<1>3. Forms
  BY InstancesAssumption DEF Forms, FreshForm, FreshLender
<1>4. ScoresFollow
  BY InstancesAssumption DEF ScoresFollow, EffectiveAddress, Effective
<1>5. ListFollows
  BY DEF ListFollows
<1> QED
  BY <1>1, <1>2, <1>3, <1>4, <1>5 DEF Consistent

\* A step of the wallets that leaves the page's own alone.
LEMMA WalletStep ==
  ASSUME Consistent, WalletTypeOK', address'["page"] = address["page"],
         checking'["page"] = checking["page"],
         UNCHANGED <<pageVars, callVars, serverVars>>
  PROVE  Consistent'
<1> USE DEF pageVars, callVars, serverVars
<1>1. TypeOK'
  BY DEF Consistent, TypeOK
<1>2. ASSUME NEW c \in calls' PROVE Sound(c)'
  BY <1>2 DEF Consistent, Sound, PageOps
<1>3. Distinct(calls)'
  BY DEF Consistent, Distinct
<1>4. Forms'
  BY DEF Consistent, Forms
<1>5. EffectiveAddress' = EffectiveAddress
  BY DEF EffectiveAddress
<1>6. Carried("score") /\ Carried("history") /\ Carried("resolve")
  BY DEF Carried
<1>7. ScoresFollow'
  BY <1>5, <1>6, ScoresKept DEF Consistent
<1>8. ListFollows'
  BY <1>6, ListKept DEF Consistent
<1> QED
  BY <1>1, <1>2, <1>3, <1>4, <1>7, <1>8 DEF Consistent

LEMMA OpenKeeps ==
  ASSUME Consistent, NEW p \in Pages, Open(p)
  PROVE  Consistent'
<1> USE DEF Open, Remount, serverVars
<1>1. /\ address' = [i \in Instances |-> IF i = "navbar" THEN address[i] ELSE None]
      /\ checking' = [i \in Instances |-> IF i = "navbar" THEN checking[i] ELSE TRUE]
      /\ connecting' = [i \in Instances |-> IF i = "navbar" THEN connecting[i] ELSE FALSE]
      /\ account' = account
  BY DEF Kept
<1>2. address'["page"] = None
  BY <1>1, InstancesAssumption
<1>3. WalletTypeOK'
  <2>1. WalletTypeOK
    BY DEF Consistent, TypeOK
  <2>2. address' \in [Instances -> Accounts \cup {None}]
    BY <1>1, <2>1 DEF WalletTypeOK
  <2>3. checking' \in [Instances -> BOOLEAN] /\ connecting' \in [Instances -> BOOLEAN]
    BY <1>1, <2>1 DEF WalletTypeOK
  <2> QED
    BY <1>1, <2>1, <2>2, <2>3 DEF WalletTypeOK
<1>4. \A d \in calls' : \E c \in calls :
        /\ c.op \in Writes /\ c.stage = "sent"
        /\ d = [c EXCEPT !.heard = FALSE]
  BY DEF Unheard
<1>5. ASSUME NEW d \in calls'
      PROVE  \E c \in calls :
               /\ d \in Call /\ ~d.heard /\ d.op \in Writes /\ d.stage = "sent"
               /\ d.op = c.op /\ d.of = c.of /\ d.no = c.no /\ d.ok = c.ok
               /\ d.creds = c.creds /\ d.overtaken = c.overtaken
               /\ d = [c EXCEPT !.heard = FALSE]
  <2>1. PICK c \in calls : /\ c.op \in Writes /\ c.stage = "sent"
                           /\ d = [c EXCEPT !.heard = FALSE]
    BY <1>4
  <2>2. c \in Call
    BY DEF Consistent, TypeOK
  <2> QED
    BY <2>1, <2>2 DEF Call
<1>6. TypeOK'
  <2>1. calls' \subseteq Call
    BY <1>5
  <2>2. /\ page' \in Pages /\ query' = None /\ did' = FreshDid /\ credit' = FreshCredit
        /\ form' = FreshForm /\ lender' = FreshLender
        /\ late' = {} /\ acknowledged' = 0 /\ dids' = dids /\ creds' = creds
    OBVIOUS
  <2>3. acts' \in 0..MaxActs
    BY PortalBounds DEF Consistent, TypeOK, Act
  <2>4. 0 \in 0..MaxCreds
    BY PortalBounds
  <2>5. dids \subseteq Accounts /\ creds \in [Accounts -> 0..MaxCreds]
    BY DEF Consistent, TypeOK
  <2> HIDE DEF Open, Remount
  <2> QED
    BY <1>3, <2>1, <2>2, <2>3, <2>4, <2>5
       DEF TypeOK, FreshDid, FreshCredit, FreshForm, FreshLender, NoDocument
<1>7. ASSUME NEW d \in calls' PROVE Sound(d)'
  <2>1. PICK c \in calls :
          /\ d \in Call /\ ~d.heard /\ d.op \in Writes /\ d.stage = "sent"
          /\ d.op = c.op /\ d.of = c.of /\ d.no = c.no /\ d.ok = c.ok
          /\ d.creds = c.creds /\ d.overtaken = c.overtaken
    BY <1>5
  <2>2. Sound(c)
    BY DEF Consistent
  <2> QED
    BY <2>1, <2>2 DEF Sound
<1>8. Distinct(calls)'
  <2> SUFFICES ASSUME NEW d \in calls', NEW e \in calls', d.op = e.op,
                      d.no = e.no \/ (d.op \in Single /\ d.heard /\ e.heard)
               PROVE  d = e
    BY DEF Distinct
  <2>1. PICK c \in calls : /\ ~d.heard /\ d.op = c.op /\ d.no = c.no
                           /\ d = [c EXCEPT !.heard = FALSE]
    BY <1>5
  <2>2. PICK b \in calls : /\ ~e.heard /\ e.op = b.op /\ e.no = b.no
                           /\ e = [b EXCEPT !.heard = FALSE]
    BY <1>5
  <2>3. c = b
    BY <2>1, <2>2 DEF Consistent, Distinct
  <2> QED
    BY <2>1, <2>2, <2>3
<1>9. Forms'
  BY <1>2 DEF Forms, FreshForm, FreshLender
<1>10. ScoresFollow'
  BY <1>2 DEF ScoresFollow, EffectiveAddress, Effective
<1>11. ListFollows'
  BY DEF ListFollows
<1> QED
  BY <1>6, <1>7, <1>8, <1>9, <1>10, <1>11 DEF Consistent

-----------------------------------------------------------------------------
(***************************************************************************)
(* The text and the wallet: what is shown is asked for again.              *)
(***************************************************************************)

LEMMA ReadOpsFacts ==
  /\ ReadOps \subseteq Ops /\ ReadOps \cap Single = {} /\ ReadOps \subseteq PageOps
  /\ "resolve" \in ReadOps => page \in {"dashboard", "manage"}
  /\ page = "manage" => "resolve" \in ReadOps
  /\ page = "score" => "score" \in ReadOps /\ "history" \in ReadOps
BY DEF ReadOps, Ops, Single, Writes, PageOps

\* A step that may change the address of the page's effects, while no document
\* and no acknowledgement rests on the one of before.
LEMMA RefreshKeeps ==
  ASSUME Consistent, WalletTypeOK', acts' \in 0..MaxActs, query' \in Texts \cup {None},
         UNCHANGED <<page, form, lender, late, acknowledged, serverVars>>,
         query' # None => page = "score",
         address'["page"] # None => ~checking'["page"],
         address["page"] # None => address'["page"] = address["page"],
         ~form.created, ~(acknowledged > 0),
         NEW new, new = EffectiveAddress', AfterChange(new)
  PROVE  Consistent'
<1> USE DEF serverVars
<1>1. /\ TypeOK /\ (\A c \in calls : Sound(c)) /\ Distinct(calls) /\ Forms
      /\ ScoresFollow
  BY DEF Consistent
<1>2. /\ new \in Texts \cup {None}
      /\ page # "score" => new = address'["page"]
  <2>1. address'["page"] \in Accounts \cup {None}
    BY InstancesAssumption DEF WalletTypeOK
  <2> QED
    BY <2>1 DEF EffectiveAddress, Effective, Texts
<1>3. Forms'
  BY <1>1 DEF Forms
<1>4. ListFollows'
  BY DEF ListFollows
<1>5. ASSUME did' \in [doc : Document \cup {NoDocument}, loading : BOOLEAN,
                       error : BOOLEAN],
             credit' \in [score : Accounts \cup {None}, history : Accounts \cup {None},
                          loading : BOOLEAN, error : BOOLEAN],
             calls' \subseteq Call
      PROVE  TypeOK'
  BY <1>1, <1>5 DEF TypeOK
<1>6. ASSUME NEW c \in calls, did.loading => did'.loading
      PROVE  Sound(c)'
  <2>1. c \in Call /\ Sound(c)
    BY <1>1 DEF TypeOK
  <2>2. c.heard /\ c.op \in Writes \cup {"resolve"} => address'["page"] = address["page"]
    <3>1. c.of # None
      BY <2>1, PartialAssumption, NoneAssumption DEF Call, Texts
    <3> QED
      BY <2>1, <3>1 DEF Sound
  <2>3. /\ c.heard /\ c.op = "create" => did'.loading /\ ~form'.created
        /\ c.heard /\ c.op = "add" => form'.adding
        /\ c.heard /\ c.op = "verify" => lender'.loading
    BY <1>6, <2>1 DEF Sound
  <2>4. creds \in [Accounts -> 0..MaxCreds]
    BY <1>1 DEF TypeOK
  <2>5. /\ page' = page /\ dids \subseteq dids' /\ creds' = creds
        /\ \A a \in Accounts : creds[a] <= creds'[a]
    BY <2>4, PortalBounds
  <2> QED
    BY <2>1, <2>2, <2>3, <2>4, <2>5, SoundKept
<1>7. CASE new # EffectiveAddress /\ new # None
  <2>1. Refresh(new)
    BY <1>7 DEF AfterChange
  <2>2. /\ Send(WithoutButtons(calls), ReadOps, new)
        /\ did' = did \/ did' = Loading(did)
        /\ credit' = credit \/ credit' = Loading(credit)
    BY <2>1 DEF Refresh
  <2>3. new \in Texts
    BY <1>2, <1>7
  <2>4. WithoutButtons(calls) \in SUBSET calls
    BY DEF WithoutButtons
  <2>5. WithoutButtons(calls) \subseteq Call /\ Distinct(WithoutButtons(calls))
    BY <1>1, <2>4, FewerCalls DEF TypeOK
  <2>6. ReadOps \subseteq Ops /\ Free(WithoutButtons(calls), ReadOps)
    BY ReadOpsFacts DEF Free
  <2>7. Sent(WithoutButtons(calls), ReadOps, new)
    BY <2>2, <2>3, <2>5, <2>6, SendFacts
  <2>8. TypeOK'
    <3>1. did' \in [doc : Document \cup {NoDocument}, loading : BOOLEAN, error : BOOLEAN]
      BY <1>1, <2>2 DEF TypeOK, Loading
    <3>2. credit' \in [score : Accounts \cup {None}, history : Accounts \cup {None},
                      loading : BOOLEAN, error : BOOLEAN]
      BY <1>1, <2>2 DEF TypeOK, Loading
    <3> QED
      BY <1>5, <2>7, <3>1, <3>2 DEF Sent
  <2>9. ASSUME NEW c \in calls' PROVE Sound(c)'
    <3>1. CASE c \in calls
      <4>1. did.loading => did'.loading
        BY <1>1, <2>2 DEF TypeOK, Loading
      <4> QED
        BY <1>6, <3>1, <4>1
    <3>2. CASE /\ c.op \in ReadOps /\ c.of = new /\ c.stage = "sent" /\ ~c.ok
               /\ c.heard /\ ~c.overtaken
      <4>1. c.op \in PageOps /\ c.op \notin Single
            /\ (c.op = "resolve" => c.of = address'["page"])
        BY <1>2, <3>2, ReadOpsFacts
      <4>2. c.op \notin Writes /\ c.op \notin {"create", "add", "verify"}
        BY <4>1 DEF Single, Writes
      <4>3. PageOps' = PageOps
        BY DEF PageOps
      <4> QED
        BY <3>2, <4>1, <4>2, <4>3 DEF Sound
    <3> QED
      BY <2>4, <2>7, <3>1, <3>2 DEF Sent
  <2>10. ScoresFollow'
    <3> SUFFICES ASSUME page = "score"
                 PROVE  ScoreFollows("score", credit.score)'
                        /\ ScoreFollows("history", credit.history)'
      BY DEF ScoresFollow
    <3>1. "score" \in ReadOps /\ "history" \in ReadOps
      BY ReadOpsFacts
    <3> QED
      BY <2>7, <3>1 DEF ScoreFollows, Sent
  <2>11. Distinct(calls)'
    BY <2>7 DEF Distinct, Sent
  <2> QED
    BY <1>3, <1>4, <2>8, <2>9, <2>10, <2>11 DEF Consistent
<1>8. CASE new = EffectiveAddress \/ new = None
  <2>1. UNCHANGED <<calls, did, credit>>
    BY <1>8 DEF AfterChange, NoRefresh
  <2>2. TypeOK'
    BY <1>1, <1>5, <2>1 DEF TypeOK
  <2>3. ASSUME NEW c \in calls' PROVE Sound(c)'
    BY <1>6, <2>1
  <2>4. Distinct(calls)'
    BY <1>1, <2>1 DEF Distinct
  <2>5. Carried("score") /\ Carried("history")
    <3>1. calls' = calls
      BY <2>1
    <3> QED
      BY <3>1 DEF Carried
  <2>6. ASSUME new = None PROVE ScoresFollow'
    BY <2>6 DEF ScoresFollow
  <2>7. ASSUME new = EffectiveAddress PROVE ScoresFollow'
    BY <1>1, <2>1, <2>5, <2>7, ScoresKept
  <2>8. ScoresFollow'
    BY <1>8, <2>6, <2>7
  <2> QED
    BY <1>3, <1>4, <2>2, <2>3, <2>4, <2>8 DEF Consistent
<1> QED
  BY <1>7, <1>8

LEMMA TypeKeeps ==
  ASSUME Consistent, NEW text \in Texts \cup {None}, Type(text)
  PROVE  Consistent'
<1> DEFINE new == Effective(text, address["page"])
<1>1. TypeOK /\ Forms
  BY DEF Consistent
<1>2. WalletTypeOK' /\ UNCHANGED walletVars
  BY <1>1 DEF Type, TypeOK, WalletTypeOK, walletVars
<1>3. acts' \in 0..MaxActs
  BY <1>1, PortalBounds DEF Type, Act, TypeOK
<1>4. /\ page = "score" /\ query' = text /\ AfterChange(new)
      /\ UNCHANGED <<address, checking, page, form, lender, late, acknowledged, serverVars>>
  BY DEF Type, walletVars
<1>5. new = EffectiveAddress'
  BY <1>4 DEF EffectiveAddress
<1>6. ~form.created /\ ~(acknowledged > 0)
      /\ (address'["page"] # None => ~checking'["page"])
  BY <1>1, <1>4 DEF Forms
<1> HIDE DEF new
<1> QED
  BY <1>2, <1>3, <1>4, <1>5, <1>6, RefreshKeeps

LEMMA CheckWalletKeeps ==
  ASSUME Consistent, NEW i \in Instances, CheckWallet(i)
  PROVE  Consistent'
<1>1. TypeOK /\ Forms
  BY DEF Consistent
<1>2. /\ checking[i] /\ checking' = [checking EXCEPT ![i] = FALSE]
      /\ address' \in {address, [address EXCEPT ![i] = account]}
      /\ UNCHANGED <<account, connecting>>
  BY DEF CheckWallet, Check
<1>3. WalletTypeOK'
  BY <1>1, <1>2 DEF TypeOK, WalletTypeOK
<1>4. UNCHANGED <<acts, page, query, form, lender, late, acknowledged, serverVars>>
  BY DEF CheckWallet
<1>5. CASE i # "page"
  <2>1. UNCHANGED <<calls, did, credit>>
    BY <1>5 DEF CheckWallet, NoRefresh
  <2>2. address'["page"] = address["page"] /\ checking'["page"] = checking["page"]
    BY <1>1, <1>2, <1>5, InstancesAssumption DEF TypeOK, WalletTypeOK
  <2> QED
    BY <1>3, <1>4, <2>1, <2>2, WalletStep DEF pageVars, callVars, serverVars
<1>6. CASE i = "page"
  <2> DEFINE new == Effective(query, address'["page"])
  <2>1. AfterChange(new)
    BY <1>6 DEF CheckWallet
  <2>2. new = EffectiveAddress'
    BY <1>4 DEF EffectiveAddress
  <2>3. address["page"] = None
    BY <1>1, <1>2, <1>6 DEF Forms
  <2>4. ~checking'["page"]
    BY <1>1, <1>2, <1>6, InstancesAssumption DEF TypeOK, WalletTypeOK
  <2>5. ~form.created /\ ~(acknowledged > 0)
    BY <1>1, <2>3, NoneAssumption DEF Forms, TypeOK
  <2>6. acts' \in 0..MaxActs /\ query' \in Texts \cup {None}
        /\ (query' # None => page = "score")
    BY <1>1, <1>4 DEF TypeOK, Forms
  <2> HIDE DEF new
  <2> QED
    BY <1>3, <1>4, <2>1, <2>2, <2>3, <2>4, <2>5, <2>6, RefreshKeeps
<1> QED
  BY <1>5, <1>6

LEMMA UseWalletKeeps ==
  ASSUME Consistent, UseWallet
  PROVE  Consistent'
<1>1. TypeOK
  BY DEF Consistent
<1>2. UNCHANGED <<pageVars, callVars, serverVars>>
  BY DEF UseWallet
<1>3. ASSUME NEW i \in Buttons, Connect(i) \/ Disconnect(i) \/ ConnectAnswered(i)
      PROVE  WalletTypeOK' /\ address'["page"] = address["page"]
             /\ checking'["page"] = checking["page"]
  <2>1. i \in Instances /\ i # "page"
    BY DEF Buttons
  <2>2. WalletTypeOK
    BY <1>1 DEF TypeOK
  <2>3. ASSUME Connect(i)
        PROVE  WalletTypeOK' /\ address' = address /\ checking' = checking
    BY <2>1, <2>2, <2>3 DEF WalletTypeOK, Connect
  <2>4. ASSUME Disconnect(i)
        PROVE  WalletTypeOK' /\ address'["page"] = address["page"]
               /\ checking' = checking
    BY <2>1, <2>2, <2>4, InstancesAssumption DEF WalletTypeOK, Disconnect
  <2>5. ASSUME ConnectAnswered(i)
        PROVE  WalletTypeOK' /\ address'["page"] = address["page"]
               /\ checking' = checking
    BY <2>1, <2>2, <2>5, InstancesAssumption DEF WalletTypeOK, ConnectAnswered
  <2> QED
    BY <1>3, <2>3, <2>4, <2>5
<1>4. ASSUME NEW a \in Accounts, SwitchAccount(a)
      PROVE  WalletTypeOK' /\ address'["page"] = address["page"]
             /\ checking'["page"] = checking["page"]
  BY <1>1, <1>4 DEF TypeOK, WalletTypeOK, SwitchAccount
<1>5. WalletTypeOK' /\ address'["page"] = address["page"]
      /\ checking'["page"] = checking["page"]
  BY <1>3, <1>4 DEF UseWallet
<1> QED
  BY <1>2, <1>5, WalletStep

-----------------------------------------------------------------------------
(***************************************************************************)
(* The forms.                                                              *)
(***************************************************************************)

\* What a form sends, and how its page waits for it.
LEMMA SubmitKeeps ==
  ASSUME Consistent, NEW op \in PageOps \ {"resolve"}, NEW text \in Texts,
         Send(calls, {op}, text), Act,
         UNCHANGED <<walletVars, page, query, credit, late, acknowledged, serverVars>>,
         op \in Writes => text = address["page"] /\ address["page"] # None,
         op \notin {"score", "history"},
         IF op = "create" THEN ~form.created /\ ~did.loading /\ did' = Loading(did)
         ELSE did' = did,
         IF op = "add" THEN ~form.adding /\ form' = [form EXCEPT !.adding = TRUE]
         ELSE form' = form,
         IF op = "verify" THEN ~lender.loading /\ lender' = Loading(lender)
         ELSE lender' = lender
  PROVE  Consistent'
<1>1. /\ TypeOK /\ (\A c \in calls : Sound(c)) /\ Distinct(calls) /\ Forms
      /\ ScoresFollow /\ ListFollows /\ calls \subseteq Call
  BY DEF Consistent, TypeOK
<1>2. UNCHANGED <<account, address, checking, connecting, dids, creds>>
  BY DEF walletVars, serverVars
<1>3. /\ did' \in [doc : Document \cup {NoDocument}, loading : BOOLEAN, error : BOOLEAN]
      /\ did'.doc = did.doc /\ (did.loading \/ op = "create" => did'.loading)
  BY <1>1 DEF TypeOK, Loading
<1>4. /\ form' \in [created : BOOLEAN, adding : BOOLEAN]
      /\ form'.created = form.created /\ (form.adding \/ op = "add" => form'.adding)
  BY <1>1 DEF TypeOK
<1>5. /\ lender' \in [result : Accounts \cup {None}, loading : BOOLEAN, error : BOOLEAN]
      /\ lender'.result = lender.result /\ (lender'.error => lender.error)
      /\ (lender.loading \/ op = "verify" => lender'.loading)
  BY <1>1 DEF TypeOK, Loading
<1>6. Sent(calls, {op}, text)
  <2>1. {op} \subseteq Ops
    BY DEF PageOps, Ops
  <2>2. Free(calls, {op})
    <3> SUFFICES ASSUME NEW d \in calls, d.op = op, op \in Single, d.heard
                 PROVE  FALSE
      BY DEF Free
    <3> QED
      BY <1>1 DEF Sound, Single, Writes
  <2> QED
    BY <1>1, <2>1, <2>2, SendFacts
<1>7. TypeOK'
  <2>1. acts' \in 0..MaxActs
    BY <1>1, PortalBounds DEF Act, TypeOK
  <2>2. calls' \subseteq Call
    BY <1>6 DEF Sent
  <2>3. WalletTypeOK'
    BY <1>1, <1>2 DEF TypeOK, WalletTypeOK
  <2> QED
    BY <1>1, <1>2, <1>3, <1>4, <1>5, <2>1, <2>2, <2>3 DEF TypeOK
<1>8. ASSUME NEW c \in calls' PROVE Sound(c)'
  <2>1. CASE c \in calls
    <3>1. c \in Call /\ Sound(c)
      BY <1>1, <2>1
    <3>2. /\ c.heard /\ c.op = "create" => did'.loading /\ ~form'.created
          /\ c.heard /\ c.op = "add" => form'.adding
          /\ c.heard /\ c.op = "verify" => lender'.loading
      BY <1>3, <1>4, <1>5, <3>1 DEF Sound
    <3>3. creds \in [Accounts -> 0..MaxCreds] /\ creds' = creds
          /\ \A a \in Accounts : creds[a] <= creds'[a]
      BY <1>1, <1>2, PortalBounds DEF TypeOK
    <3> QED
      BY <1>2, <3>1, <3>2, <3>3, SoundKept
  <2>2. CASE /\ c.op = op /\ c.of = text /\ c.stage = "sent" /\ ~c.ok
             /\ c.heard /\ ~c.overtaken
    <3>1. address["page"] \in Accounts \cup {None}
      BY <1>1, Addresses
    <3>2. c.op \in Writes => c.of \in Accounts
      BY <2>2, <3>1
    <3>3. PageOps' = PageOps
      BY DEF PageOps
    <3> QED
      BY <1>2, <1>3, <1>4, <1>5, <2>2, <3>2, <3>3 DEF Sound
  <2> QED
    BY <1>6, <2>1, <2>2 DEF Sent
<1>9. Distinct(calls)'
  BY <1>6 DEF Distinct, Sent
<1>10. Forms'
  BY <1>1, <1>2, <1>3, <1>4, <1>5 DEF Forms
<1>11. ASSUME NEW oq, oq # op PROVE Carried(oq)
  <2>1. \A r \in calls : r.op = oq /\ Last(calls, r) => r \in calls' /\ Last(calls', r)
    BY <1>6, <1>11 DEF Sent
  <2>2. Settled(calls, oq) => Settled(calls', oq)
    BY <1>6, <1>11 DEF Sent
  <2> QED
    BY <2>1, <2>2 DEF Carried
<1>12. ScoresFollow'
  <2>1. Carried("score") /\ Carried("history")
    BY <1>11
  <2>2. EffectiveAddress' = EffectiveAddress
    BY <1>2 DEF EffectiveAddress
  <2> QED
    BY <1>1, <2>1, <2>2, ScoresKept
<1>13. ListFollows'
  <2>1. CASE op = "create"
    <3>1. page = "create"
      BY <2>1 DEF PageOps
    <3> QED
      BY <1>1, <3>1 DEF Forms, ListFollows
  <2>2. CASE op # "create"
    <3>1. Carried("resolve")
      BY <1>11
    <3> QED
      BY <1>1, <2>2, <3>1, ListKept
  <2> QED
    BY <2>1, <2>2
<1> QED
  BY <1>7, <1>8, <1>9, <1>10, <1>12, <1>13 DEF Consistent

LEMMA FormsKeep ==
  ASSUME Consistent,
         CreateDID \/ AddCredential \/ Revoke \/ \E text \in Texts : Verify(text)
  PROVE  Consistent'
<1>1. address["page"] \in Accounts \cup {None}
  BY Addresses DEF Consistent
<1>2. ASSUME address["page"] # None PROVE address["page"] \in Texts
  BY <1>1, <1>2 DEF Texts
<1>3. CASE CreateDID
  <2>1. "create" \in PageOps \ {"resolve"} /\ address["page"] \in Texts
    BY <1>2, <1>3 DEF CreateDID, PageOps
  <2>2. /\ Send(calls, {"create"}, address["page"]) /\ Act /\ address["page"] # None
        /\ ~form.created /\ ~did.loading /\ did' = Loading(did)
        /\ form' = form /\ lender' = lender
        /\ UNCHANGED <<walletVars, page, query, credit, late, acknowledged, serverVars>>
    BY <1>3 DEF CreateDID
  <2> QED
    BY <2>1, <2>2, SubmitKeeps
<1>4. CASE AddCredential
  <2>1. "add" \in PageOps \ {"resolve"} /\ address["page"] \in Texts
    BY <1>2, <1>4 DEF AddCredential, PageOps
  <2>2. /\ Send(calls, {"add"}, address["page"]) /\ Act /\ address["page"] # None
        /\ ~form.adding /\ form' = [form EXCEPT !.adding = TRUE]
        /\ did' = did /\ lender' = lender
        /\ UNCHANGED <<walletVars, page, query, credit, late, acknowledged, serverVars>>
    BY <1>4 DEF AddCredential
  <2> QED
    BY <2>1, <2>2, SubmitKeeps
<1>5. CASE Revoke
  <2>1. "revoke" \in PageOps \ {"resolve"} /\ address["page"] \in Texts
    BY <1>2, <1>5 DEF Revoke, PageOps
  <2>2. /\ Send(calls, {"revoke"}, address["page"]) /\ Act
        /\ form' = form /\ did' = did /\ lender' = lender
        /\ UNCHANGED <<walletVars, page, query, credit, late, acknowledged, serverVars>>
    BY <1>5 DEF Revoke
  <2>3. "revoke" \notin Writes
    BY DEF Writes
  <2> QED
    BY <2>1, <2>2, <2>3, SubmitKeeps
<1>6. ASSUME NEW text \in Texts, Verify(text) PROVE Consistent'
  <2>1. "verify" \in PageOps \ {"resolve"}
    BY <1>6 DEF Verify, PageOps
  <2>2. /\ Send(calls, {"verify"}, text) /\ Act
        /\ ~lender.loading /\ lender' = Loading(lender) /\ form' = form /\ did' = did
        /\ UNCHANGED <<walletVars, page, query, credit, late, acknowledged, serverVars>>
    BY <1>6 DEF Verify
  <2>3. "verify" \notin Writes
    BY DEF Writes
  <2> QED
    BY <2>1, <2>2, <2>3, SubmitKeeps
<1> QED
  BY <1>3, <1>4, <1>5, <1>6

-----------------------------------------------------------------------------
(***************************************************************************)
(* The server.                                                             *)
(***************************************************************************)

\* A call is done, and the server has forgotten nothing.
LEMMA DoneKeeps ==
  ASSUME Consistent, NEW c \in calls, NEW ok \in BOOLEAN, NEW n \in 0..MaxCreds,
         NEW chain \in BOOLEAN, Done(c, ok, n, chain), c.op \in Stateful,
         UNCHANGED <<walletVars, pageVars, acts, late, acknowledged>>,
         dids \subseteq dids', dids' \subseteq Accounts,
         creds' \in [Accounts -> 0..MaxCreds], \A a \in Accounts : creds[a] <= creds'[a],
         ok => c.of \in Accounts, ok /\ c.op \in Writes => c.of \in dids',
         ok /\ c.op \in {"resolve", "add"} =>
           n = creds'[c.of] \/ (c.op = "resolve" /\ chain /\ c.of \in OnChain)
  PROVE  Consistent'
<1>1. /\ TypeOK /\ (\A d \in calls : Sound(d)) /\ Distinct(calls) /\ Forms
      /\ ScoresFollow /\ ListFollows /\ calls \subseteq Call /\ c \in Call
  BY DEF Consistent, TypeOK
<1>2. UNCHANGED <<account, address, checking, connecting, page, query, did, credit,
                  form, lender>>
  BY DEF walletVars, pageVars
<1>3. ok => creds'[c.of] \in 0..MaxCreds
  OBVIOUS
<1>5. Handled(c, ok, n, chain)
  BY <1>1, DoneFacts
<1>6. TypeOK'
  <2>1. calls' \subseteq Call
    BY <1>5 DEF Handled
  <2>2. WalletTypeOK'
    BY <1>1, <1>2 DEF TypeOK, WalletTypeOK
  <2> QED
    BY <1>1, <1>2, <2>1, <2>2 DEF TypeOK
<1>7. creds \in [Accounts -> 0..MaxCreds]
  BY <1>1 DEF TypeOK
<1>8. ASSUME NEW d \in calls' PROVE Sound(d)'
  <2>1. CASE d \in calls
    <3>1. d \in Call /\ Sound(d)
      BY <1>1, <2>1
    <3>2. /\ d.heard /\ d.op = "create" => did'.loading /\ ~form'.created
          /\ d.heard /\ d.op = "add" => form'.adding
          /\ d.heard /\ d.op = "verify" => lender'.loading
      BY <1>2, <3>1 DEF Sound
    <3> QED
      BY <1>2, <1>7, <3>1, <3>2, SoundKept
  <2>2. CASE /\ c.heard /\ d.heard /\ d.op = c.op /\ d.of = c.of
             /\ d.overtaken = c.overtaken
             /\ d.stage = "done" /\ d.ok = ok /\ d.creds = n /\ d.chain = chain
    <3>1. Sound(c)
      BY <1>1
    <3>2. d.ok /\ d.op = "add" => d.creds <= creds'[d.of]
      <4> SUFFICES ASSUME ok, c.op = "add" PROVE n <= creds'[c.of]
        BY <2>2
      <4>1. n = creds'[c.of]
        OBVIOUS
      <4> QED
        BY <1>3, <4>1, PortalBounds
    <3>3. PageOps' = PageOps
      BY <1>2 DEF PageOps
    <3> QED
      BY <1>2, <2>2, <3>1, <3>2, <3>3 DEF Sound
  <2> QED
    BY <1>5, <2>1, <2>2 DEF Handled
<1>9. Distinct(calls)'
  BY <1>5 DEF Distinct, Handled
<1>10. Forms'
  <2>1. acknowledged > 0 => acknowledged <= creds'[address["page"]]
    <3> SUFFICES ASSUME acknowledged > 0 PROVE acknowledged <= creds'[address["page"]]
      OBVIOUS
    <3>1. address["page"] \in Accounts /\ acknowledged <= creds[address["page"]]
      BY <1>1, Addresses DEF Forms
    <3>2. /\ creds[address["page"]] \in 0..MaxCreds /\ creds'[address["page"]] \in 0..MaxCreds
          /\ creds[address["page"]] <= creds'[address["page"]] /\ acknowledged \in 0..MaxCreds
      BY <1>1, <1>7, <3>1 DEF TypeOK
    <3> QED
      BY <3>1, <3>2, PortalBounds
  <2> QED
    BY <1>1, <1>2, <2>1 DEF Forms
<1>11. ASSUME NEW op, op # c.op PROVE Carried(op)
  <2>1. \A r \in calls : r.op = op /\ Last(calls, r) => r \in calls' /\ Last(calls', r)
    BY <1>5, <1>11 DEF Handled
  <2>2. Settled(calls, op) => Settled(calls', op)
    BY <1>5 DEF Handled
  <2> QED
    BY <2>1, <2>2 DEF Carried
<1>12. ScoresFollow'
  <2>1. Carried("score") /\ Carried("history")
    BY <1>11 DEF Stateful
  <2>2. EffectiveAddress' = EffectiveAddress
    BY <1>2 DEF EffectiveAddress
  <2> QED
    BY <1>1, <1>2, <2>1, <2>2, ScoresKept
<1>13. ListFollows'
  <2>1. CASE c.op # "resolve"
    <3>1. Carried("resolve")
      BY <1>11, <2>1
    <3> QED
      BY <1>1, <1>2, <3>1, ListKept
  <2>2. CASE c.op = "resolve"
    <3> SUFFICES ASSUME acknowledged > 0 PROVE ListFollows'
      BY DEF ListFollows
    <3>1. c.heard /\ c.of = address["page"]
      BY <1>1, <2>2 DEF Sound, Writes
    <3>2. ok => n >= acknowledged \/ (chain /\ c.of \in OnChain)
      <4>1. acknowledged <= creds'[address["page"]]
        BY <1>2, <1>10 DEF Forms
      <4>2. acknowledged \in 0..MaxCreds
        BY <1>1 DEF TypeOK
      <4> QED
        BY <1>3, <2>2, <3>1, <4>1, <4>2, PortalBounds
    <3>3. CASE Last(calls, c)
      <4>1. PICK r \in calls' :
              /\ r.op = c.op /\ r.of = c.of /\ r.ok = ok /\ r.creds = n
              /\ r.chain = chain /\ Last(calls', r)
        BY <1>5, <3>1, <3>3 DEF Handled
      <4> QED
        BY <1>2, <2>2, <3>2, <4>1 DEF ListFollows, Lists
    <3>4. CASE ~Last(calls, c)
      <4>1. \A r \in calls : Last(calls, r) => r \in calls' /\ Last(calls', r)
        BY <1>5, <3>4 DEF Handled
      <4>2. Settled(calls, "resolve") => Settled(calls', "resolve")
        BY <1>5 DEF Handled
      <4>3. Carried("resolve")
        BY <4>1, <4>2 DEF Carried
      <4> QED
        BY <1>1, <1>2, <4>3, ListKept
    <3> QED
      BY <3>3, <3>4
  <2> QED
    BY <2>1, <2>2
<1> QED
  BY <1>6, <1>8, <1>9, <1>10, <1>12, <1>13 DEF Consistent

LEMMA HandleKeeps ==
  ASSUME Consistent, NEW c \in calls, Handle(c)
  PROVE  Consistent'
<1>1. /\ c.stage = "sent" /\ c.op \in Stateful
      /\ UNCHANGED <<walletVars, pageVars, acts, late, acknowledged>>
  BY DEF Handle
<1>2. /\ dids \subseteq Accounts /\ creds \in [Accounts -> 0..MaxCreds]
      /\ c.op \in Writes => c.of \in Accounts
  BY DEF Consistent, TypeOK, Sound
<1>3. (\A a \in Accounts : creds[a] <= creds[a]) /\ 0 \in 0..MaxCreds
  BY <1>2, PortalBounds
<1>4. ASSUME Failed(c), creds' = creds, dids \subseteq dids', dids' \subseteq Accounts
      PROVE  Consistent'
  BY <1>1, <1>2, <1>3, <1>4, DoneKeeps DEF Failed
<1>5. ASSUME Documented(c), creds' = creds, dids \subseteq dids', dids' \subseteq Accounts,
             c.op = "create" => c.of \in dids', c.op # "add"
      PROVE  Consistent'
  <2>1. ASSUME c.of \in OnChain, NEW n \in 0..MaxCreds, Done(c, TRUE, n, TRUE)
        PROVE  Consistent'
    <3>1. c.of \in Accounts
      BY <2>1, OnChainAssumption
    <3>2. c.op \in Writes => c.of \in dids'
      BY <1>5 DEF Writes
    <3> QED
      BY <1>1, <1>2, <1>3, <1>5, <2>1, <3>1, <3>2, DoneKeeps
  <2>2. CASE c.of \in dids' /\ Done(c, TRUE, creds'[c.of], FALSE)
    <3>1. c.of \in Accounts /\ creds'[c.of] \in 0..MaxCreds
      BY <1>2, <1>5, <2>2
    <3> QED
      BY <1>1, <1>2, <1>3, <1>5, <2>2, <3>1, DoneKeeps
  <2> QED
    BY <1>5, <2>1, <2>2 DEF Documented
<1>6. CASE Fails(c)
  <2>1. /\ Failed(c) /\ creds' = creds
        /\ dids' \in {dids, IF c.op = "add" THEN dids \cup {c.of} ELSE dids}
    BY <1>6 DEF Fails
  <2> QED
    BY <1>2, <1>4, <2>1 DEF Writes
<1>7. CASE Resolves(c)
  BY <1>2, <1>5, <1>7 DEF Resolves, serverVars
<1>8. CASE Creates(c)
  BY <1>2, <1>4, <1>5, <1>8 DEF Creates, Writes
<1>9. CASE Adds(c)
  <2>1. c.op = "add" /\ (Done(c, TRUE, creds'[c.of], FALSE) \/ Done(c, FALSE, 0, FALSE))
    BY <1>9 DEF Adds, Failed
  <2>2. dids \subseteq dids' /\ dids' \subseteq Accounts /\ c.of \in dids'
        /\ c.of \in Accounts
    BY <1>2, <1>9 DEF Adds, Writes
  <2>3. creds[c.of] < MaxCreds /\ creds' = [creds EXCEPT ![c.of] = @ + 1]
    BY <1>9 DEF Adds
  <2>4. creds' \in [Accounts -> 0..MaxCreds]
    BY <1>2, <2>2, <2>3, PortalBounds
  <2>5. \A a \in Accounts : creds[a] <= creds'[a]
    BY <1>2, <2>2, <2>3, PortalBounds
  <2>6. creds'[c.of] \in 0..MaxCreds
    BY <2>2, <2>4
  <2> QED
    BY <1>1, <1>3, <2>1, <2>2, <2>4, <2>5, <2>6, DoneKeeps
<1> QED
  BY <1>6, <1>7, <1>8, <1>9 DEF Handle

-----------------------------------------------------------------------------
(***************************************************************************)
(* Answers.                                                                *)
(***************************************************************************)

\* What can be said of a call that is answered, and of those that remain.
LEMMA AnsweredFacts ==
  ASSUME Consistent, NEW c \in calls, c.stage = "done" \/ c.op \notin Stateful
  PROVE  /\ c \in Call /\ Sound(c) /\ c.heard /\ c.op \in PageOps
         /\ Answered(c)
         /\ \A d \in Without(c) :
              /\ d \in Call /\ Sound(d)
              /\ d.heard /\ d.op \in Single => d.op # c.op
<1>1. (\A d \in calls : Sound(d)) /\ Distinct(calls) /\ calls \subseteq Call
  BY DEF Consistent, TypeOK
<1>2. c.heard /\ c.op \in PageOps
  BY <1>1 DEF Sound, Stateful, Writes
<1>3. Answered(c)
  BY <1>1, WithoutFacts
<1>4. ASSUME NEW d \in Without(c)
      PROVE  Sound(d) /\ (d.heard /\ d.op \in Single => d.op # c.op)
  <2>1. PICK b \in calls \ {c} :
          Same(d, b) /\ (d.overtaken => b.overtaken \/ b.op = c.op)
    BY <1>3 DEF Answered
  <2>2. Sound(b)
    BY <1>1
  <2>3. b.heard /\ b.op \in Single => b.op # c.op
    BY <1>1, <1>2 DEF Distinct
  <2>4. d.heard /\ d.op \in Single => d.op # c.op /\ ~d.overtaken
    BY <2>1, <2>2, <2>3 DEF Same, Sound
  <2>5. Sound(d)
    BY <2>1, <2>2, <2>4 DEF Same, Sound
  <2> QED
    BY <2>4, <2>5
<1>5. Without(c) \subseteq Call
  BY <1>3 DEF Answered
<1> QED
  BY <1>1, <1>2, <1>3, <1>4, <1>5

LEMMA LateFacts ==
  ASSUME Consistent, NEW c \in calls, Sound(c), c.heard, c \in Call,
         late' = IF c.overtaken THEN late \cup {c.op} ELSE late \ {c.op}
  PROVE  /\ late' \subseteq Ops /\ late' \cap Single = {}
         /\ c.overtaken => c.op \in late'
         /\ \A op \in late : op # c.op => op \in late'
BY DEF Consistent, TypeOK, Forms, Sound, Call

\* A call stays sound when another is answered.
LEMMA OthersSound ==
  ASSUME Consistent, NEW c \in calls, c.stage = "done" \/ c.op \notin Stateful,
         NEW d \in Without(c),
         UNCHANGED <<walletVars, page, serverVars>>,
         c.op \in {"resolve", "create"} \/ (did.loading => did'.loading),
         c.op = "create" \/ form'.created = form.created,
         c.op = "add" \/ form'.adding = form.adding,
         c.op = "verify" \/ lender'.loading = lender.loading
  PROVE  Sound(d)'
<1> USE DEF walletVars, serverVars
<1>1. /\ c.heard /\ c.op \in PageOps /\ d \in Call /\ Sound(d)
      /\ d.heard /\ d.op \in Single => d.op # c.op
  BY AnsweredFacts
<1>2. d.heard /\ d.op = "create" => did'.loading /\ ~form'.created
  <2> SUFFICES ASSUME d.heard, d.op = "create" PROVE did'.loading /\ ~form'.created
    OBVIOUS
  <2>1. c.op # "create"
    BY <1>1 DEF Single, Writes
  <2>2. page = "create" /\ did.loading /\ ~form.created
    BY <1>1 DEF Sound, PageOps
  <2>3. FALSE
    BY <1>1, <2>1, <2>2 DEF PageOps
  <2> QED
    BY <2>3
<1>3. d.heard /\ d.op = "add" => form'.adding
  BY <1>1 DEF Single, Writes, Sound
<1>4. d.heard /\ d.op = "verify" => lender'.loading
  BY <1>1 DEF Single, Sound
<1>5. creds \in [Accounts -> 0..MaxCreds]
  BY DEF Consistent, TypeOK
<1>6. /\ page' = page /\ dids \subseteq dids' /\ address' = address /\ creds' = creds
      /\ \A a \in Accounts : creds[a] <= creds'[a]
  BY <1>5, PortalBounds
<1> QED
  BY <1>1, <1>2, <1>3, <1>4, <1>5, <1>6, SoundKept

\* The other kinds of calls are carried along.
LEMMA OthersCarried ==
  ASSUME NEW c \in calls, Answered(c), calls' = Without(c), NEW op, op # c.op
  PROVE  Carried(op)
<1>1. \A r \in calls : r.op = op /\ Last(calls, r) => r \in calls' /\ Last(calls', r)
  BY DEF Answered
<1>2. Settled(calls, op) => Settled(calls', op)
  BY DEF Answered
<1> QED
  BY <1>1, <1>2 DEF Carried

\* The answer to the last call settles its kind, that to another was overtaken
\* or leaves the last call.
LEMMA AnswerSettles ==
  ASSUME NEW c \in calls, Answered(c), calls' = Without(c),
         c.overtaken => c.op \in late'
  PROVE  /\ Settled(calls, c.op) => Settled(calls', c.op) /\ c.op \in late'
         /\ \A r \in calls : r.op = c.op /\ Last(calls, r) =>
              \/ r = c /\ Settled(calls', c.op)
              \/ r \in calls' /\ Last(calls', r)
<1>1. Settled(calls, c.op) => Settled(calls', c.op) /\ c.op \in late'
  BY DEF Answered, Settled
<1>2. ASSUME NEW r \in calls, r.op = c.op, Last(calls, r)
      PROVE  \/ r = c /\ Settled(calls', c.op)
             \/ r \in calls' /\ Last(calls', r)
  BY <1>2 DEF Answered
<1> QED
  BY <1>1, <1>2

LEMMA AnswerCreditKeeps ==
  ASSUME Consistent, NEW c \in calls, NEW ok \in Outcomes(c), AnswerCredit(c, ok),
         late' = IF c.overtaken THEN late \cup {c.op} ELSE late \ {c.op},
         UNCHANGED <<walletVars, acts, page, query, serverVars>>
  PROVE  Consistent'
<1> USE DEF walletVars, serverVars
<1>1. TypeOK /\ Forms /\ ScoresFollow /\ ListFollows
  BY DEF Consistent
<1>2. c.op \in {"score", "history"} /\ calls' = Without(c)
      /\ UNCHANGED <<did, form, lender, acknowledged>>
  BY DEF AnswerCredit
<1>3. /\ c \in Call /\ Sound(c) /\ c.heard /\ c.op \in PageOps /\ Answered(c)
      /\ c.op \notin Stateful
  BY <1>2, AnsweredFacts DEF Stateful
<1>4. /\ late' \subseteq Ops /\ late' \cap Single = {}
      /\ c.overtaken => c.op \in late'
      /\ \A op \in late : op # c.op => op \in late'
  BY <1>3, LateFacts
<1>5. ok \in BOOLEAN /\ (ok => c.of \in Accounts)
  BY <1>2, <1>3 DEF Outcomes, Call, Texts, Stateful
<1>6. credit' = [score   |-> IF c.op = "score" /\ ok THEN c.of ELSE credit.score,
                 history |-> IF c.op = "history" /\ ok THEN c.of ELSE credit.history,
                 loading |-> FALSE, error |-> credit.error \/ ~ok]
  BY DEF AnswerCredit
<1>7. /\ credit'.score = IF c.op = "score" /\ ok THEN c.of ELSE credit.score
      /\ credit'.history = IF c.op = "history" /\ ok THEN c.of ELSE credit.history
      /\ credit.error \/ ~ok => credit'.error
  BY <1>6
<1>8. TypeOK'
  <2>1. credit' \in [score : Accounts \cup {None}, history : Accounts \cup {None},
                     loading : BOOLEAN, error : BOOLEAN]
    BY <1>1, <1>5, <1>6 DEF TypeOK
  <2>2. calls' \subseteq Call
    BY <1>2, <1>3 DEF Answered
  <2>3. WalletTypeOK'
    BY <1>1 DEF TypeOK, WalletTypeOK
  <2> QED
    BY <1>1, <1>2, <1>4, <2>1, <2>2, <2>3 DEF TypeOK
<1>9. ASSUME NEW d \in calls' PROVE Sound(d)'
  BY <1>2, <1>3, OthersSound
<1>10. Distinct(calls)'
  BY <1>2, <1>3 DEF Answered, Distinct
<1>11. Forms'
  BY <1>1, <1>2, <1>4 DEF Forms
<1>12. ListFollows'
  <2>1. ~(acknowledged > 0)
    BY <1>1, <1>2, <1>3 DEF Forms, PageOps
  <2> QED
    BY <1>2, <2>1 DEF ListFollows
<1>13. ScoresFollow'
  <2> SUFFICES ASSUME page = "score", EffectiveAddress # None
               PROVE  ScoreFollows("score", credit.score)'
                      /\ ScoreFollows("history", credit.history)'
    BY DEF ScoresFollow, EffectiveAddress
  <2>1. EffectiveAddress' = EffectiveAddress
    BY DEF EffectiveAddress
  <2>2. ScoreFollows("score", credit.score) /\ ScoreFollows("history", credit.history)
    BY <1>1 DEF ScoresFollow
  <2>3. ASSUME NEW op, NEW shown, op # c.op, ScoreFollows(op, shown)
        PROVE  \/ \E r \in calls' : r.op = op /\ Last(calls', r) /\ r.of = EffectiveAddress
               \/ Settled(calls', op) /\ (\/ credit'.error \/ shown = EffectiveAddress
                                          \/ op \in late')
    <3>1. Carried(op)
      BY <1>2, <1>3, <2>3, OthersCarried
    <3> QED
      BY <1>4, <1>7, <2>3, <3>1 DEF ScoreFollows, Carried
  <2>4. ASSUME NEW shown, ScoreFollows(c.op, shown)
        PROVE  \/ \E r \in calls' : r.op = c.op /\ Last(calls', r) /\ r.of = EffectiveAddress
               \/ Settled(calls', c.op) /\ (\/ credit'.error \/ (c.of = EffectiveAddress /\ ok)
                                            \/ c.op \in late')
    <3>1. /\ Settled(calls, c.op) => Settled(calls', c.op) /\ c.op \in late'
          /\ \A r \in calls : r.op = c.op /\ Last(calls, r) =>
               \/ r = c /\ Settled(calls', c.op)
               \/ r \in calls' /\ Last(calls', r)
      BY <1>2, <1>3, <1>4, AnswerSettles
    <3>2. CASE Settled(calls, c.op)
      BY <3>1, <3>2
    <3>3. ASSUME NEW r \in calls, r.op = c.op, Last(calls, r), r.of = EffectiveAddress
          PROVE  \/ \E q \in calls' : /\ q.op = c.op /\ Last(calls', q)
                                      /\ q.of = EffectiveAddress
                 \/ Settled(calls', c.op) /\ (credit'.error \/ (c.of = EffectiveAddress /\ ok))
      <4>1. CASE r = c /\ Settled(calls', c.op)
        <5>1. c.of = EffectiveAddress
          BY <3>3, <4>1
        <5>2. ~ok => credit'.error
          BY <1>7
        <5> QED
          BY <1>5, <4>1, <5>1, <5>2
      <4>2. CASE r \in calls' /\ Last(calls', r)
        BY <3>3, <4>2
      <4> QED
        BY <3>1, <3>3, <4>1, <4>2
    <3> QED
      BY <2>4, <3>2, <3>3 DEF ScoreFollows
  <2>5. CASE c.op = "score"
    <3>1. ScoreFollows("score", credit.score)'
      BY <1>7, <2>1, <2>2, <2>4, <2>5 DEF ScoreFollows
    <3>2. ScoreFollows("history", credit.history)'
      BY <1>7, <2>1, <2>2, <2>3, <2>5 DEF ScoreFollows
    <3> QED
      BY <3>1, <3>2
  <2>6. CASE c.op = "history"
    <3>1. ScoreFollows("score", credit.score)'
      BY <1>7, <2>1, <2>2, <2>3, <2>6 DEF ScoreFollows
    <3>2. ScoreFollows("history", credit.history)'
      BY <1>7, <2>1, <2>2, <2>4, <2>6 DEF ScoreFollows
    <3> QED
      BY <3>1, <3>2
  <2> QED
    BY <1>2, <2>5, <2>6
<1> QED
  BY <1>8, <1>9, <1>10, <1>11, <1>12, <1>13 DEF Consistent

\* The server has decided what it answers to a call that depends on its state.
LEMMA StatefulOutcome ==
  ASSUME Consistent, NEW c \in calls, c.op \in Stateful, c.heard
  PROVE  Outcomes(c) = {c.ok} /\ c.ok \in BOOLEAN
<1>1. c \in Call /\ Sound(c) /\ address["page"] \in Accounts \cup {None}
  BY Addresses DEF Consistent, TypeOK
<1>2. c.of # Partial
  BY <1>1, PartialAssumption DEF Sound, Stateful, Writes
<1>3. c.op # "revoke"
  BY DEF Stateful
<1> QED
  BY <1>1, <1>2, <1>3 DEF Outcomes, Call

\* An answer of the pages other than the score page: what is left to show.
LEMMA OtherAnswerKeeps ==
  ASSUME Consistent, NEW c \in calls, c.stage = "done" \/ c.op \notin Stateful,
         c.op \notin {"score", "history"},
         late' = IF c.overtaken THEN late \cup {c.op} ELSE late \ {c.op},
         UNCHANGED <<walletVars, acts, page, query, credit, serverVars>>,
         did' \in [doc : Document \cup {NoDocument}, loading : BOOLEAN, error : BOOLEAN],
         form' \in [created : BOOLEAN, adding : BOOLEAN],
         lender' \in [result : Accounts \cup {None}, loading : BOOLEAN, error : BOOLEAN],
         acknowledged' \in 0..MaxCreds,
         calls' \subseteq Call, Distinct(calls'), \A d \in calls' : Sound(d)',
         form'.created => page = "create" /\ did'.doc.of = address["page"]
                          /\ address["page"] \in dids,
         lender'.error => lender'.result = None,
         acknowledged' > 0 => page = "manage" /\ address["page"] # None
                              /\ acknowledged' <= creds[address["page"]],
         ListFollows'
  PROVE  Consistent'
<1> USE DEF walletVars, serverVars
<1>1. TypeOK /\ Forms
  BY DEF Consistent
<1>2. c \in Call /\ Sound(c) /\ c.heard /\ c.op \in PageOps
  BY AnsweredFacts
<1>3. late' \subseteq Ops /\ late' \cap Single = {}
  BY <1>2, LateFacts
<1>4. WalletTypeOK'
  BY <1>1 DEF TypeOK, WalletTypeOK
<1>5. TypeOK'
  BY <1>1, <1>3, <1>4 DEF TypeOK
<1>6. Forms'
  BY <1>1, <1>3 DEF Forms
<1>7. ScoresFollow'
  BY <1>2 DEF PageOps, ScoresFollow
<1>8. Distinct(calls)'
  BY DEF Distinct
<1> QED
  BY <1>5, <1>6, <1>7, <1>8 DEF Consistent

LEMMA AnswerDIDKeeps ==
  ASSUME Consistent, NEW c \in calls, c.stage = "done", NEW ok \in Outcomes(c),
         AnswerDID(c, ok),
         late' = IF c.overtaken THEN late \cup {c.op} ELSE late \ {c.op},
         UNCHANGED <<walletVars, acts, page, query, serverVars>>
  PROVE  Consistent'
<1>1. TypeOK /\ Forms /\ ListFollows
  BY DEF Consistent
<1>2. c.op \in {"resolve", "create"} /\ calls' = Without(c)
      /\ UNCHANGED <<credit, lender, acknowledged>>
  BY DEF AnswerDID
<1>3. c \in Call /\ Sound(c) /\ c.heard /\ c.op \in PageOps /\ Answered(c)
  BY AnsweredFacts
<1>4. /\ c.overtaken => c.op \in late'
      /\ \A op \in late : op # c.op => op \in late'
  BY <1>3, LateFacts
<1>5. ok = c.ok /\ ok \in BOOLEAN
  BY <1>2, <1>3, StatefulOutcome DEF Stateful
<1>6. /\ ok => c.of \in Accounts
      /\ ok /\ c.op = "create" => c.of \in dids
  BY <1>3, <1>5 DEF Sound, Writes
<1>7. c.creds \in 0..MaxCreds /\ c.chain \in BOOLEAN /\ c.of = address["page"]
  BY <1>2, <1>3 DEF Call, Sound, Writes
<1>8. did' = [doc |-> IF ok THEN [of |-> c.of, creds |-> c.creds, chain |-> c.chain]
                     ELSE did.doc,
              loading |-> FALSE, error |-> did.error \/ ~ok]
      /\ form' = [form EXCEPT !.created = @ \/ (c.op = "create" /\ ok)]
  BY DEF AnswerDID
<1>9. /\ ok => /\ did'.doc.of = c.of /\ did'.doc.creds = c.creds
               /\ did'.doc.chain = c.chain
      /\ ~ok => did'.doc = did.doc /\ did'.error
      /\ did.error => did'.error
      /\ form'.created => form.created \/ (c.op = "create" /\ ok)
      /\ form'.adding = form.adding
      /\ c.op # "create" => form'.created = form.created
  BY <1>1, <1>5, <1>8 DEF TypeOK
<1>10. did' \in [doc : Document \cup {NoDocument}, loading : BOOLEAN, error : BOOLEAN]
  <2>1. did.doc \in Document \cup {NoDocument} /\ did.error \in BOOLEAN
    BY <1>1 DEF TypeOK
  <2>2. ok => [of |-> c.of, creds |-> c.creds, chain |-> c.chain] \in Document
    BY <1>6, <1>7 DEF Document
  <2>3. (IF ok THEN [of |-> c.of, creds |-> c.creds, chain |-> c.chain] ELSE did.doc)
          \in Document \cup {NoDocument}
    BY <2>1, <2>2
  <2> QED
    BY <1>5, <1>8, <2>1, <2>3
<1>11. form' \in [created : BOOLEAN, adding : BOOLEAN]
  BY <1>1, <1>5, <1>8 DEF TypeOK
<1>12. form'.created => page = "create" /\ did'.doc.of = address["page"]
                        /\ address["page"] \in dids
  <2>1. CASE c.op = "create"
    <3>1. page = "create" /\ ~form.created
      BY <1>3, <2>1 DEF Sound, PageOps
    <3> QED
      BY <1>6, <1>7, <1>9, <3>1
  <2>2. CASE c.op = "resolve"
    <3>1. page # "create"
      BY <1>3, <2>2 DEF PageOps
    <3> QED
      BY <1>1, <1>9, <2>2, <3>1 DEF Forms
  <2> QED
    BY <1>2, <2>1, <2>2
<1>13. ASSUME NEW d \in calls' PROVE Sound(d)'
  BY <1>2, <1>9, OthersSound
<1>14. ListFollows'
  <2> SUFFICES ASSUME acknowledged > 0 PROVE ListFollows'
    BY <1>2 DEF ListFollows
  <2>1. c.op = "resolve"
    BY <1>1, <1>2, <1>3 DEF Forms, PageOps
  <2>2. /\ Settled(calls, c.op) => Settled(calls', c.op) /\ c.op \in late'
        /\ \A r \in calls : r.op = c.op /\ Last(calls, r) =>
             \/ r = c /\ Settled(calls', c.op)
             \/ r \in calls' /\ Last(calls', r)
    BY <1>2, <1>3, <1>4, AnswerSettles
  <2>3. CASE Settled(calls, "resolve")
    BY <1>2, <2>1, <2>2, <2>3 DEF ListFollows, Lists
  <2>4. ASSUME NEW r \in calls, r.op = "resolve", Last(calls, r),
               r.stage = "sent" \/ ~r.ok \/ Lists(r)
        PROVE  ListFollows'
    <3>1. CASE r \in calls' /\ Last(calls', r)
      BY <1>2, <2>4, <3>1 DEF ListFollows, Lists
    <3>2. CASE r = c /\ Settled(calls', c.op)
      <4>1. ~ok => did'.error
        BY <1>9
      <4>2. ok => Lists(did.doc)'
        BY <1>2, <1>5, <1>9, <2>4, <3>2 DEF Lists
      <4> QED
        BY <1>2, <1>5, <2>1, <3>2, <4>1, <4>2 DEF ListFollows
    <3> QED
      BY <2>1, <2>2, <2>4, <3>1, <3>2
  <2> QED
    BY <1>1, <2>3, <2>4 DEF ListFollows
<1>15. /\ lender' \in [result : Accounts \cup {None}, loading : BOOLEAN, error : BOOLEAN]
       /\ acknowledged' \in 0..MaxCreds /\ (lender'.error => lender'.result = None)
       /\ acknowledged' > 0 => page = "manage" /\ address["page"] # None
                               /\ acknowledged' <= creds[address["page"]]
  BY <1>1, <1>2 DEF TypeOK, Forms
<1>16. calls' \subseteq Call /\ Distinct(calls')
  BY <1>2, <1>3 DEF Answered
<1>17. UNCHANGED <<walletVars, acts, page, query, credit, serverVars>>
       /\ c.op \notin {"score", "history"}
  BY <1>2
<1> QED
  BY <1>10, <1>11, <1>12, <1>13, <1>14, <1>15, <1>16, <1>17, OtherAnswerKeeps

LEMMA AnswerAddKeeps ==
  ASSUME Consistent, NEW c \in calls, c.stage = "done", NEW ok \in Outcomes(c),
         AnswerAdd(c, ok),
         late' = IF c.overtaken THEN late \cup {c.op} ELSE late \ {c.op},
         UNCHANGED <<walletVars, acts, page, query, serverVars>>
  PROVE  Consistent'
<1>1. TypeOK /\ Forms /\ ListFollows /\ calls \subseteq Call
  BY DEF Consistent, TypeOK
<1>2. c.op = "add" /\ UNCHANGED <<credit, lender>>
      /\ form' = [form EXCEPT !.adding = FALSE]
  BY DEF AnswerAdd
<1>3. /\ c \in Call /\ Sound(c) /\ c.heard /\ c.op \in PageOps /\ Answered(c)
      /\ \A d \in Without(c) : d \in Call
  BY AnsweredFacts
<1>4. /\ c.overtaken => c.op \in late'
      /\ \A op \in late : op # c.op => op \in late'
  BY <1>3, LateFacts
<1>5. ok = c.ok /\ ok \in BOOLEAN
  BY <1>2, <1>3, StatefulOutcome DEF Stateful
<1>6. /\ page = "manage" /\ c.of = address["page"] /\ c.of \in Accounts
      /\ c.creds \in 0..MaxCreds
  BY <1>2, <1>3 DEF PageOps, Sound, Writes, Call
<1>7. address["page"] # None /\ address["page"] \in Texts
  BY <1>6, NoneAssumption DEF Texts
<1>8. /\ form' \in [created : BOOLEAN, adding : BOOLEAN] /\ form'.created = form.created
      /\ lender' \in [result : Accounts \cup {None}, loading : BOOLEAN, error : BOOLEAN]
      /\ lender'.error => lender'.result = None
      /\ ~form'.created
  BY <1>1, <1>2, <1>6 DEF TypeOK, Forms
<1>9. UNCHANGED <<walletVars, acts, page, query, credit, serverVars>>
      /\ c.op \notin {"score", "history"}
  BY <1>2
<1>10. CASE ~ok
  <2>1. calls' = Without(c) /\ UNCHANGED <<did, acknowledged>>
    BY <1>10 DEF AnswerAdd
  <2>2. calls' \subseteq Call /\ Distinct(calls')
    BY <1>3, <2>1 DEF Answered
  <2>3. ASSUME NEW d \in calls' PROVE Sound(d)'
    BY <1>2, <1>8, <2>1, OthersSound
  <2>4. Carried("resolve")
    BY <1>2, <1>3, <2>1, OthersCarried
  <2>5. ListFollows'
    BY <1>1, <1>2, <1>4, <2>1, <2>4, ListKept
  <2>6. /\ acknowledged' \in 0..MaxCreds
        /\ acknowledged' > 0 => page = "manage" /\ address["page"] # None
                                /\ acknowledged' <= creds[address["page"]]
        /\ did' \in [doc : Document \cup {NoDocument}, loading : BOOLEAN, error : BOOLEAN]
    BY <1>1, <2>1 DEF TypeOK, Forms
  <2> QED
    BY <1>8, <1>9, <2>2, <2>3, <2>5, <2>6, OtherAnswerKeeps
<1>11. CASE ok
  <2>1. /\ Send(WithoutButtons(Without(c)), ReadOps, address["page"])
        /\ did' = Loading(did) /\ acknowledged' = c.creds
    BY <1>11 DEF AnswerAdd
  <2>2. Distinct(Without(c)) /\ Without(c) \subseteq Call
    BY <1>3 DEF Answered
  <2>3. WithoutButtons(Without(c)) \in SUBSET Without(c)
    BY DEF WithoutButtons
  <2>4. WithoutButtons(Without(c)) \subseteq Call /\ Distinct(WithoutButtons(Without(c)))
    BY <2>2, <2>3, FewerCalls
  <2>5. ReadOps \subseteq Ops /\ Free(WithoutButtons(Without(c)), ReadOps)
    BY ReadOpsFacts DEF Free
  <2>6. Sent(WithoutButtons(Without(c)), ReadOps, address["page"])
    BY <1>7, <2>1, <2>4, <2>5, SendFacts
  <2>7. calls' \subseteq Call /\ Distinct(calls')
    BY <2>6 DEF Sent
  <2>8. /\ did' \in [doc : Document \cup {NoDocument}, loading : BOOLEAN, error : BOOLEAN]
        /\ did.loading => did'.loading
    BY <1>1, <2>1 DEF TypeOK, Loading
  <2>9. ASSUME NEW d \in calls' PROVE Sound(d)'
    <3>1. CASE d \in Without(c)
      BY <1>2, <1>8, <2>8, <3>1, OthersSound
    <3>2. CASE /\ d.op \in ReadOps /\ d.of = address["page"] /\ d.stage = "sent" /\ ~d.ok
               /\ d.heard /\ ~d.overtaken
      <4>1. d.op \in PageOps /\ d.op \notin Single
        BY <3>2, ReadOpsFacts
      <4>2. d.op \notin Writes /\ d.op \notin {"create", "add", "verify"}
        BY <4>1 DEF Single, Writes
      <4>3. PageOps' = PageOps /\ address' = address
        BY DEF PageOps, walletVars
      <4> QED
        BY <3>2, <4>1, <4>2, <4>3 DEF Sound
    <3> QED
      BY <2>3, <2>6, <3>1, <3>2 DEF Sent
  <2>10. ListFollows'
    <3>1. "resolve" \in ReadOps
      BY <1>6, ReadOpsFacts
    <3>2. \E d \in calls' : d.op = "resolve" /\ d.stage = "sent" /\ Last(calls', d)
      BY <2>6, <3>1 DEF Sent
    <3> QED
      BY <3>2 DEF ListFollows
  <2>11. /\ acknowledged' \in 0..MaxCreds
         /\ acknowledged' > 0 => page = "manage" /\ address["page"] # None
                                 /\ acknowledged' <= creds[address["page"]]
    BY <1>2, <1>3, <1>5, <1>6, <1>7, <1>11, <2>1 DEF Sound
  <2> QED
    BY <1>8, <1>9, <2>7, <2>8, <2>9, <2>10, <2>11, OtherAnswerKeeps
<1> QED
  BY <1>5, <1>10, <1>11

LEMMA AnswerRevokeKeeps ==
  ASSUME Consistent, NEW c \in calls, NEW ok \in Outcomes(c), AnswerRevoke(c, ok),
         late' = IF c.overtaken THEN late \cup {c.op} ELSE late \ {c.op},
         UNCHANGED <<walletVars, acts, page, query, serverVars>>
  PROVE  Consistent'
<1>1. TypeOK /\ Forms /\ ListFollows
  BY DEF Consistent
<1>2. c.op = "revoke" /\ calls' = Without(c)
      /\ UNCHANGED <<did, credit, form, lender, acknowledged>>
  BY DEF AnswerRevoke
<1>3. /\ c \in Call /\ Sound(c) /\ c.heard /\ c.op \in PageOps /\ Answered(c)
      /\ c.op \notin Stateful
  BY <1>2, AnsweredFacts DEF Stateful
<1>4. \A op \in late : op # c.op => op \in late'
  BY <1>3, LateFacts
<1>5. calls' \subseteq Call /\ Distinct(calls')
  BY <1>2, <1>3 DEF Answered
<1>6. ASSUME NEW d \in calls' PROVE Sound(d)'
  BY <1>2, <1>3, OthersSound
<1>7. Carried("resolve")
  BY <1>2, <1>3, OthersCarried
<1>8. ListFollows'
  BY <1>1, <1>2, <1>4, <1>7, ListKept
<1>9. /\ did' \in [doc : Document \cup {NoDocument}, loading : BOOLEAN, error : BOOLEAN]
      /\ form' \in [created : BOOLEAN, adding : BOOLEAN]
      /\ lender' \in [result : Accounts \cup {None}, loading : BOOLEAN, error : BOOLEAN]
      /\ acknowledged' \in 0..MaxCreds
  BY <1>1, <1>2 DEF TypeOK
<1>10. /\ form'.created => page = "create" /\ did'.doc.of = address["page"]
                           /\ address["page"] \in dids
       /\ lender'.error => lender'.result = None
       /\ acknowledged' > 0 => page = "manage" /\ address["page"] # None
                               /\ acknowledged' <= creds[address["page"]]
  BY <1>1, <1>2 DEF Forms
<1>11. UNCHANGED <<walletVars, acts, page, query, credit, serverVars>>
       /\ c.op \notin {"score", "history"}
  BY <1>2
<1> QED
  BY <1>3, <1>5, <1>6, <1>8, <1>9, <1>10, <1>11, OtherAnswerKeeps

LEMMA AnswerVerifyKeeps ==
  ASSUME Consistent, NEW c \in calls, NEW ok \in Outcomes(c), AnswerVerify(c, ok),
         late' = IF c.overtaken THEN late \cup {c.op} ELSE late \ {c.op},
         UNCHANGED <<walletVars, acts, page, query, serverVars>>
  PROVE  Consistent'
<1>1. TypeOK /\ Forms
  BY DEF Consistent
<1>2. c.op = "verify" /\ calls' = Without(c)
      /\ UNCHANGED <<did, credit, form, acknowledged>>
  BY DEF AnswerVerify
<1>3. /\ c \in Call /\ Sound(c) /\ c.heard /\ c.op \in PageOps /\ Answered(c)
      /\ c.op \notin Stateful
  BY <1>2, AnsweredFacts DEF Stateful
<1>4. ok \in BOOLEAN /\ (ok => c.of \in Accounts)
  BY <1>2, <1>3 DEF Outcomes, Call, Texts
<1>5. /\ lender' \in [result : Accounts \cup {None}, loading : BOOLEAN, error : BOOLEAN]
      /\ lender'.error => lender'.result = None
  BY <1>4 DEF AnswerVerify
<1>6. calls' \subseteq Call /\ Distinct(calls')
  BY <1>2, <1>3 DEF Answered
<1>7. ASSUME NEW d \in calls' PROVE Sound(d)'
  BY <1>2, <1>3, OthersSound
<1>8. ~(acknowledged' > 0)
  BY <1>1, <1>2, <1>3 DEF Forms, PageOps
<1>9. ListFollows'
  BY <1>8 DEF ListFollows
<1>10. /\ did' \in [doc : Document \cup {NoDocument}, loading : BOOLEAN, error : BOOLEAN]
       /\ form' \in [created : BOOLEAN, adding : BOOLEAN] /\ acknowledged' \in 0..MaxCreds
  BY <1>1, <1>2 DEF TypeOK
<1>11. form'.created => page = "create" /\ did'.doc.of = address["page"]
                        /\ address["page"] \in dids
  BY <1>1, <1>2 DEF Forms
<1>12. UNCHANGED <<walletVars, acts, page, query, credit, serverVars>>
       /\ c.op \notin {"score", "history"}
  BY <1>2
<1> QED
  BY <1>3, <1>5, <1>6, <1>7, <1>8, <1>9, <1>10, <1>11, <1>12, OtherAnswerKeeps

LEMMA AnswerKeeps ==
  ASSUME Consistent, NEW c \in calls, Answer(c)
  PROVE  Consistent'
<1>1. PICK ok \in Outcomes(c) :
        \/ AnswerDID(c, ok) \/ AnswerCredit(c, ok) \/ AnswerAdd(c, ok)
        \/ AnswerRevoke(c, ok) \/ AnswerVerify(c, ok)
  BY DEF Answer
<1>2. /\ c.stage = "done" \/ c.op \notin Stateful
      /\ late' = IF c.overtaken THEN late \cup {c.op} ELSE late \ {c.op}
      /\ UNCHANGED <<walletVars, acts, page, query, serverVars>>
  BY DEF Answer
<1>3. CASE AnswerDID(c, ok)
  <2>1. c.stage = "done"
    BY <1>2, <1>3 DEF AnswerDID, Stateful
  <2> QED
    BY <1>2, <1>3, <2>1, AnswerDIDKeeps
<1>4. CASE AnswerCredit(c, ok)
  BY <1>2, <1>4, AnswerCreditKeeps
<1>5. CASE AnswerAdd(c, ok)
  <2>1. c.stage = "done"
    BY <1>2, <1>5 DEF AnswerAdd, Stateful
  <2> QED
    BY <1>2, <1>5, <2>1, AnswerAddKeeps
<1>6. CASE AnswerRevoke(c, ok)
  BY <1>2, <1>6, AnswerRevokeKeeps
<1>7. CASE AnswerVerify(c, ok)
  BY <1>2, <1>7, AnswerVerifyKeeps
<1> QED
  BY <1>1, <1>3, <1>4, <1>5, <1>6, <1>7

-----------------------------------------------------------------------------
(***************************************************************************)
(* Theorems.                                                               *)
(***************************************************************************)

\* Every state a browser, its wallet and the server can get to is consistent.
LEMMA AlwaysConsistent == Spec => []Consistent
<1>1. Consistent /\ [Next]_vars => Consistent'
  <2> SUFFICES ASSUME Consistent, [Next]_vars PROVE Consistent'
    OBVIOUS
  <2>1. ASSUME NEW p \in Pages, Open(p) PROVE Consistent'
    BY <2>1, OpenKeeps
  <2>2. ASSUME NEW text \in Texts \cup {None}, Type(text) PROVE Consistent'
    BY <2>2, TypeKeeps
  <2>3. ASSUME NEW i \in Instances, CheckWallet(i) PROVE Consistent'
    BY <2>3, CheckWalletKeeps
  <2>4. CASE UseWallet
    BY <2>4, UseWalletKeeps
  <2>5. CASE CreateDID \/ AddCredential \/ Revoke \/ \E text \in Texts : Verify(text)
    BY <2>5, FormsKeep
  <2>6. ASSUME NEW c \in calls, Handle(c) PROVE Consistent'
    BY <2>6, HandleKeeps
  <2>7. ASSUME NEW c \in calls, Answer(c) PROVE Consistent'
    BY <2>7, AnswerKeeps
  <2>8. CASE UNCHANGED vars
    <3>1. UNCHANGED <<walletVars, pageVars, callVars, serverVars>>
      BY <2>8 DEF vars
    <3>2. WalletTypeOK' /\ address' = address /\ checking' = checking
      BY <3>1 DEF Consistent, TypeOK, WalletTypeOK, walletVars
    <3> QED
      BY <3>1, <3>2, WalletStep
  <2> QED
    BY <2>1, <2>2, <2>3, <2>4, <2>5, <2>6, <2>7, <2>8 DEF Next
<1> QED
  BY <1>1, InitConsistent, PTL DEF Spec

\* Every variable of the wallet, the pages, the calls under way and the server
\* keeps its type.
THEOREM PortalTypeCorrect == Spec => []TypeOK
<1>1. Consistent => TypeOK
  BY DEF Consistent
<1> QED
  BY <1>1, AlwaysConsistent, PTL

\* However many texts are typed and calls are under way: once all have been
\* answered, the score page (score/page.tsx, useCreditScore.ts) shows the
\* score and the history of the address that is asked for, or an error, unless
\* the last answer was overtaken.
THEOREM AskedScoreIsShown == Spec => []ScoreIsOfAddress
<1>1. Consistent => ScoreIsOfAddress
  <2> SUFFICES ASSUME Consistent, page = "score", AtRest, EffectiveAddress # None,
                      ~credit.error
               PROVE  /\ credit.score = EffectiveAddress \/ "score" \in late
                      /\ credit.history = EffectiveAddress \/ "history" \in late
    BY DEF ScoreIsOfAddress
  <2>1. ScoreFollows("score", credit.score) /\ ScoreFollows("history", credit.history)
    BY DEF Consistent, ScoresFollow
  <2>2. \A c \in calls : c.op \notin {"score", "history"}
    BY DEF Consistent, Sound, AtRest, Writes
  <2> QED
    BY <2>1, <2>2 DEF ScoreFollows
<1> QED
  BY <1>1, AlwaysConsistent, PTL

\* A credential the manage page was told of is on its list once all calls have
\* been answered (manage/page.tsx, onAdded), unless the last resolution failed
\* or was overtaken, or the list is the contract's (did-resolver.ts, resolve),
\* which is so for an account with a DID there only.
THEOREM AdditionsAreListed == Spec => []AddedIsListed
<1>1. Consistent => AddedIsListed
  <2> SUFFICES ASSUME Consistent, page = "manage", AtRest, ~did.error,
                      "resolve" \notin late
               PROVE  Lists(did.doc)
    BY DEF AddedIsListed, Lists
  <2>1. \A c \in calls : c.op # "resolve"
    BY DEF Consistent, Sound, AtRest, Writes
  <2>2. CASE acknowledged > 0
    BY <2>1, <2>2 DEF Consistent, ListFollows
  <2>3. CASE ~(acknowledged > 0)
    <3>1. acknowledged \in 0..MaxCreds /\ did.doc.creds \in 0..MaxCreds
      BY PortalBounds DEF Consistent, TypeOK, Document, NoDocument
    <3> QED
      BY <2>3, <3>1, PortalBounds DEF Lists
  <2> QED
    BY <2>2, <2>3
<1> QED
  BY <1>1, AlwaysConsistent, PTL

\* The create page says so only of an identity that exists (create/page.tsx,
\* handleCreate).
THEOREM CreatedDIDExists == Spec => []CreatedIsReal
<1>1. Consistent => CreatedIsReal
  BY DEF Consistent, Forms, CreatedIsReal
<1> QED
  BY <1>1, AlwaysConsistent, PTL

\* No form of the pages ever has two submissions under way it listens to, and
\* none is answered out of order.
THEOREM FormsAreSingle == Spec => []OneOutcome
<1>1. Consistent => OneOutcome
  BY DEF Consistent, Distinct, Forms, OneOutcome, Single
<1> QED
  BY <1>1, AlwaysConsistent, PTL

=============================================================================
