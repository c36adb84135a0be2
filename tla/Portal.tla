------------------------------- MODULE Portal -------------------------------
(***************************************************************************)
(* The pages of the frontend (src/frontend/src/app) with the hooks useDID  *)
(* and useCreditScore, the forms that send through lib/api.ts, and as much *)
(* of the API as their answers depend on.                                  *)
(*                                                                         *)
(* A call is sent, takes effect on the server and is answered in separate  *)
(* steps, and calls overtake one another; what the server decides without  *)
(* the state kept here is decided with the answer. Nothing cancels a call: *)
(* a page that is left stops listening, what it has sent still takes       *)
(* effect. An effect of React runs with the change of what it depends on.  *)
(* The rest of the API is IdentityApi, ScoreService, Lending and Gateway.  *)
(***************************************************************************)
EXTENDS Wallet, FiniteSets

CONSTANTS
  Partial,   \* a text that is no address, such as half of one
  OnChain,   \* the accounts that have a DID in the identity contract
  Pages,     \* the pages that are visited
  MaxActs,   \* bound: what the user types, opens and submits
  MaxCreds   \* bound: credentials of an account

ASSUME PartialAssumption == Partial \notin Accounts \cup {None}
ASSUME OnChainAssumption == OnChain \subseteq Accounts
ASSUME PortalBounds == {MaxActs, MaxCreds} \subseteq Nat
ASSUME PagesAssumption ==
  Pages \subseteq {"dashboard", "create", "manage", "score", "lender"}

Texts == Accounts \cup {Partial}
Ops == {"resolve", "create", "add", "revoke", "score", "history", "verify"}
Writes == {"create", "add"}
\* the calls whose answer depends on the part of the server kept here
Stateful == {"resolve", "create", "add"}

\* A DID document as the pages show it, chain if it is the contract's, and the
\* answer to a call.  Calls are numbered in the order they are sent.
Document == [of : Accounts, creds : 0..MaxCreds, chain : BOOLEAN]
NoDocument == [of |-> None, creds |-> 0, chain |-> FALSE]
Call == [op : Ops, of : Texts, no : Nat, stage : {"sent", "done"}, ok : BOOLEAN,
         creds : 0..MaxCreds, chain : BOOLEAN, heard : BOOLEAN, overtaken : BOOLEAN]

VARIABLES
  page,         \* the page that is open
  query,        \* score page: the text typed in; None if it is empty
  did,          \* useDID: the document, loading and error
  credit,       \* useCreditScore: whose score and history, loading and error
  form,         \* the create page's created, and the busy forms and buttons
  lender,       \* the lender page: whom the result is about, loading and error
  calls,        \* calls under way
  acts,         \* what the user has done so far
  dids, creds,  \* the server: accounts with an Identity row, their credentials
  late,         \* ghost: operations whose last answer was overtaken by that
                \* to a later call
  acknowledged  \* ghost: credentials the page has been told it added to

pageVars == <<page, query, did, credit, form, lender>>
serverVars == <<dids, creds>>
callVars == <<calls, acts, late, acknowledged>>
vars == <<walletVars, pageVars, callVars, serverVars>>

TypeOK ==
  /\ WalletTypeOK
  /\ page \in Pages
  /\ query \in Texts \cup {None}
  /\ did \in [doc : Document \cup {NoDocument}, loading : BOOLEAN, error : BOOLEAN]
  /\ credit \in [score : Accounts \cup {None}, history : Accounts \cup {None},
                 loading : BOOLEAN, error : BOOLEAN]
  /\ form \in [created : BOOLEAN, adding : BOOLEAN]
  /\ lender \in [result : Accounts \cup {None}, loading : BOOLEAN, error : BOOLEAN]
  /\ calls \subseteq Call /\ acts \in 0..MaxActs
  /\ dids \subseteq Accounts /\ creds \in [Accounts -> 0..MaxCreds]
  /\ late \subseteq Ops
  /\ acknowledged \in 0..MaxCreds

FreshDid == [doc |-> NoDocument, loading |-> FALSE, error |-> FALSE]
FreshCredit == [score |-> None, history |-> None, loading |-> FALSE, error |-> FALSE]
FreshForm == [created |-> FALSE, adding |-> FALSE]
FreshLender == [result |-> None, loading |-> FALSE, error |-> FALSE]

Init ==
  /\ WalletInit
  /\ page \in Pages /\ query = None
  /\ did = FreshDid /\ credit = FreshCredit /\ form = FreshForm /\ lender = FreshLender
  /\ calls = {} /\ acts = 0
  /\ dids = {} /\ creds = [a \in Accounts |-> 0]
  /\ late = {} /\ acknowledged = 0

-----------------------------------------------------------------------------
\* Definitions named X_Y are faulty variants of X, used to see that a property
\* notices the fault; nothing else refers to them.

(***************************************************************************)
(* Sending.                                                                *)
(***************************************************************************)

NewCall(op, text, n) ==
  [op |-> op, of |-> text, no |-> n, stage |-> "sent", ok |-> FALSE, creds |-> 0,
   chain |-> FALSE, heard |-> TRUE, overtaken |-> FALSE]

\* one call of each kind, which come after the pending ones
Send(pending, ops, text) ==
  \E n \in {1} \cup {c.no + 1 : c \in pending} :
    /\ \A c \in pending : c.no < n
    /\ calls' = pending \cup {NewCall(op, text, n) : op \in ops}

Act == acts < MaxActs /\ acts' = acts + 1

\* A hook that sends is loading, and forgets the error of before.
Loading(hook) == [hook EXCEPT !.loading = TRUE, !.error = FALSE]

\* While the hook is loading the list of credentials is off the page, and with
\* it the state of its buttons.
WithoutButtons(pending) == {c \in pending : c.op # "revoke"}

\* the effect of the dashboard, the manage page or the score page for address
\* "text"; the others have none
ReadOps ==
  CASE page = "dashboard" -> {"resolve", "score"}
    [] page = "manage" -> {"resolve"}
    [] page = "score" -> {"score", "history"}
    [] OTHER -> {}

Refresh(text) ==
  /\ Send(WithoutButtons(calls), ReadOps, text)
  /\ did' = IF page \in {"dashboard", "manage"} THEN Loading(did) ELSE did
  /\ credit' = IF page \in {"dashboard", "score"} THEN Loading(credit) ELSE credit

NoRefresh == UNCHANGED <<calls, did, credit>>

\* queryAddress || address || ''
Effective(typed, found) == IF typed # None THEN typed ELSE found
EffectiveAddress == Effective(query, address["page"])

\* An effect runs if its address changes to one that is not empty.
AfterChange(new) ==
  IF new # EffectiveAddress /\ new # None THEN Refresh(new) ELSE NoRefresh

-----------------------------------------------------------------------------
(***************************************************************************)
(* The user.                                                               *)
(***************************************************************************)

\* Calls that only read are forgotten with the page; the others are not heard.
Unheard(c) == [c EXCEPT !.heard = FALSE]

Open(p) ==
  /\ Act
  /\ p # page
  /\ page' = p
  /\ Remount
  /\ query' = None
  /\ did' = FreshDid /\ credit' = FreshCredit /\ form' = FreshForm /\ lender' = FreshLender
  /\ calls' = {Unheard(c) : c \in {d \in calls : d.op \in Writes /\ d.stage = "sent"}}
  /\ late' = {} /\ acknowledged' = 0
  /\ UNCHANGED serverVars

Type_KeepsScore(text) ==
  /\ Act
  /\ page = "score" /\ text # query
  /\ query' = text
  /\ IF credit.score = None THEN AfterChange(Effective(text, address["page"])) ELSE NoRefresh
  /\ UNCHANGED <<walletVars, page, form, lender, late, acknowledged, serverVars>>

Type(text) ==
  /\ Act
  /\ page = "score" /\ text # query
  /\ query' = text
  /\ AfterChange(Effective(text, address["page"]))
  /\ UNCHANGED <<walletVars, page, form, lender, late, acknowledged, serverVars>>

\* The page's wallet gets an address by its first check, and by nothing else.
CheckWallet(i) ==
  /\ Check(i)
  /\ IF i = "page" THEN AfterChange(Effective(query, address'["page"])) ELSE NoRefresh
  /\ UNCHANGED <<acts, page, query, form, lender, late, acknowledged, serverVars>>

\* The button on the page is there as long as the page has no address.
ButtonShown(i) ==
  i = "button" => /\ page # "lender" /\ address["page"] = None
                  /\ page = "score" => query = None

UseWallet ==
  /\ \/ \E i \in Buttons : ButtonShown(i) /\ (Connect(i) \/ Disconnect(i))
     \/ \E i \in Buttons : ConnectAnswered(i)
     \/ \E a \in Accounts : SwitchAccount(a)
  /\ UNCHANGED <<pageVars, callVars, serverVars>>

\* handleCreate; the button is disabled while the hook is loading
CreateDID ==
  /\ Act
  /\ page = "create" /\ address["page"] # None
  /\ ~form.created /\ ~did.loading
  /\ Send(calls, {"create"}, address["page"])
  /\ did' = Loading(did)
  /\ UNCHANGED <<walletVars, page, query, credit, form, lender, late,
                 acknowledged, serverVars>>

AddCredential ==
  /\ Act
  /\ page = "manage" /\ address["page"] # None
  /\ ~form.adding
  /\ Send(calls, {"add"}, address["page"])
  /\ form' = [form EXCEPT !.adding = TRUE]
  /\ UNCHANGED <<walletVars, page, query, did, credit, lender, late,
                 acknowledged, serverVars>>

\* Each credential of the list has a button, which is disabled while its own
\* revocation is under way.
Revoke ==
  /\ Act
  /\ page \in {"manage", "dashboard"} /\ address["page"] # None
  /\ ~did.loading
  /\ Cardinality({c \in calls : c.op = "revoke"}) < did.doc.creds
  /\ Send(calls, {"revoke"}, address["page"])
  /\ UNCHANGED <<walletVars, page, query, did, credit, form, lender, late,
                 acknowledged, serverVars>>

\* handleVerify; the result of before stays until the answer
Verify(text) ==
  /\ Act
  /\ page = "lender" /\ ~lender.loading
  /\ Send(calls, {"verify"}, text)
  /\ lender' = Loading(lender)
  /\ UNCHANGED <<walletVars, page, query, did, credit, form, late,
                 acknowledged, serverVars>>

-----------------------------------------------------------------------------
(***************************************************************************)
(* The server.                                                             *)
(***************************************************************************)

Done(c, ok, n, chain) ==
  calls' = (calls \ {c}) \cup
    IF c.heard
    THEN {[c EXCEPT !.stage = "done", !.ok = ok, !.creds = n, !.chain = chain]}
    ELSE {}

Failed(c) == Done(c, FALSE, 0, FALSE)

\* The resolver asks the contract first, and the rows if the contract has no DID
\* or does not answer.  What the contract lists is its own: the API adds
\* credentials to the rows alone.
Documented(c) ==
  \/ c.of \in OnChain /\ \E n \in 0..MaxCreds : Done(c, TRUE, n, TRUE)
  \/ c.of \in dids' /\ Done(c, TRUE, creds'[c.of], FALSE)

\* Anything can fail, also between the Identity row and the credential.
Fails(c) ==
  /\ dids' \in {dids, IF c.op = "add" THEN dids \cup {c.of} ELSE dids}
  /\ UNCHANGED creds
  /\ Failed(c)

Resolves(c) ==
  /\ c.op = "resolve"
  /\ UNCHANGED serverVars
  /\ Documented(c)

\* The row is written once; what it is resolved to after that may be lost.
Creates(c) ==
  /\ c.op = "create"
  /\ c.of \notin dids
  /\ dids' = dids \cup {c.of} /\ UNCHANGED creds
  /\ Documented(c) \/ Failed(c)

Adds(c) ==
  /\ c.op = "add"
  /\ creds[c.of] < MaxCreds
  /\ creds' = [creds EXCEPT ![c.of] = @ + 1]
  /\ dids' = dids \cup {c.of}
  /\ Done(c, TRUE, creds'[c.of], FALSE) \/ Failed(c)

Handle(c) ==
  /\ c.stage = "sent" /\ c.op \in Stateful
  /\ Fails(c) \/ Resolves(c) \/ Creates(c) \/ Adds(c)
  /\ UNCHANGED <<walletVars, pageVars, acts, late, acknowledged>>

-----------------------------------------------------------------------------
(***************************************************************************)
(* Answers.                                                                *)
(***************************************************************************)

\* the calls without call c; those sent before it for the same are overtaken
Without(c) ==
  {IF d.op = c.op /\ d.no < c.no THEN [d EXCEPT !.overtaken = TRUE] ELSE d :
     d \in calls \ {c}}

\* The server refuses a text that is no address, and a revocation always:
\* lib/api.ts sends no token.
Outcomes(c) ==
  CASE c.op \in Stateful -> {c.ok}
    [] c.op = "revoke" \/ c.of = Partial -> {FALSE}
    [] OTHER -> BOOLEAN

AnswerDID_SwallowsError(c, ok) ==
  /\ c.op \in {"resolve", "create"}
  /\ did' = [doc |-> IF ok THEN [of |-> c.of, creds |-> c.creds, chain |-> c.chain] ELSE did.doc,
             loading |-> FALSE, error |-> did.error \/ ~ok]
  /\ form' = [form EXCEPT !.created = @ \/ c.op = "create"]
  /\ calls' = Without(c)
  /\ UNCHANGED <<credit, lender, acknowledged>>

\* useDID: the document of before stays if the call fails
AnswerDID(c, ok) ==
  /\ c.op \in {"resolve", "create"}
  /\ did' = [doc |-> IF ok THEN [of |-> c.of, creds |-> c.creds, chain |-> c.chain] ELSE did.doc,
             loading |-> FALSE, error |-> did.error \/ ~ok]
  /\ form' = [form EXCEPT !.created = @ \/ (c.op = "create" /\ ok)]
  /\ calls' = Without(c)
  /\ UNCHANGED <<credit, lender, acknowledged>>

AnswerCredit_OnlySuccess(c, ok) ==
  /\ c.op \in {"score", "history"}
  /\ credit' = IF ~ok THEN credit ELSE
       [score   |-> IF c.op = "score" THEN c.of ELSE credit.score,
        history |-> IF c.op = "history" THEN c.of ELSE credit.history,
        loading |-> FALSE, error |-> credit.error]
  /\ calls' = Without(c)
  /\ UNCHANGED <<did, form, lender, acknowledged>>

\* useCreditScore: score and history share loading and error
AnswerCredit(c, ok) ==
  /\ c.op \in {"score", "history"}
  /\ credit' = [score   |-> IF c.op = "score" /\ ok THEN c.of ELSE credit.score,
                history |-> IF c.op = "history" /\ ok THEN c.of ELSE credit.history,
                loading |-> FALSE, error |-> credit.error \/ ~ok]
  /\ calls' = Without(c)
  /\ UNCHANGED <<did, form, lender, acknowledged>>

AnswerAdd_NoRefresh(c, ok) ==
  /\ c.op = "add"
  /\ form' = [form EXCEPT !.adding = FALSE]
  /\ calls' = Without(c)
  /\ acknowledged' = IF ok THEN c.creds ELSE acknowledged
  /\ UNCHANGED <<did, credit, lender>>

\* onAdded resolves the document again.
AnswerAdd(c, ok) ==
  /\ c.op = "add"
  /\ form' = [form EXCEPT !.adding = FALSE]
  /\ IF ok
     THEN /\ Send(WithoutButtons(Without(c)), ReadOps, address["page"])
          /\ did' = Loading(did)
          /\ acknowledged' = c.creds
     ELSE calls' = Without(c) /\ UNCHANGED <<did, acknowledged>>
  /\ UNCHANGED <<credit, lender>>

\* Refused, and nothing is shown.
AnswerRevoke(c, ok) ==
  /\ c.op = "revoke"
  /\ calls' = Without(c)
  /\ UNCHANGED <<did, credit, form, lender, acknowledged>>

AnswerVerify_KeepsResult(c, ok) ==
  /\ c.op = "verify"
  /\ lender' = [result |-> IF ok THEN c.of ELSE lender.result,
                loading |-> FALSE, error |-> ~ok]
  /\ calls' = Without(c)
  /\ UNCHANGED <<did, credit, form, acknowledged>>

AnswerVerify(c, ok) ==
  /\ c.op = "verify"
  /\ lender' = [result |-> IF ok THEN c.of ELSE None,
                loading |-> FALSE, error |-> ~ok]
  /\ calls' = Without(c)
  /\ UNCHANGED <<did, credit, form, acknowledged>>

Answer(c) ==
  /\ c.stage = "done" \/ c.op \notin Stateful
  /\ \E ok \in Outcomes(c) :
       \/ AnswerDID(c, ok) \/ AnswerCredit(c, ok) \/ AnswerAdd(c, ok)
       \/ AnswerRevoke(c, ok) \/ AnswerVerify(c, ok)
  /\ late' = IF c.overtaken THEN late \cup {c.op} ELSE late \ {c.op}
  /\ UNCHANGED <<walletVars, acts, page, query, serverVars>>

Next ==
  \/ \E p \in Pages : Open(p)
  \/ \E text \in Texts \cup {None} : Type(text)
  \/ \E i \in Instances : CheckWallet(i)
  \/ UseWallet
  \/ CreateDID \/ AddCredential \/ Revoke
  \/ \E text \in Texts : Verify(text)
  \/ \E c \in calls : Handle(c) \/ Answer(c)

\* A call is answered or fails; what the user and the extension do is theirs.
Fairness == WF_vars(\E c \in calls : Handle(c) \/ Answer(c))

Spec == Init /\ [][Next]_vars
FairSpec == Spec /\ Fairness

-----------------------------------------------------------------------------
(***************************************************************************)
(* Safety.                                                                 *)
(***************************************************************************)

\* no call is under way that the page listens to
AtRest == \A c \in calls : ~c.heard

\* When every call has been answered, the score page shows the score and the
\* history of the address that is asked for, or an error, however the text was
\* changed and the wallet found meanwhile; unless an answer was overtaken.
ScoreIsOfAddress ==
  page = "score" /\ AtRest /\ EffectiveAddress # None /\ ~credit.error =>
    /\ credit.score = EffectiveAddress \/ "score" \in late
    /\ credit.history = EffectiveAddress \/ "history" \in late

\* When every call has been answered, the list of the manage page has every
\* credential whose addition the page was told of, unless the last resolution
\* failed or the list is the contract's own, of an account that has a DID there.
AddedIsListed ==
  page = "manage" /\ AtRest /\ ~did.error /\ "resolve" \notin late =>
    \/ did.doc.creds >= acknowledged
    \/ did.doc.chain /\ did.doc.of \in OnChain

\* The page says that the identity was created only if it has been, for the
\* account of the page's wallet, even if the wallet's account is switched, the
\* request fails half way or the page is left and opened again.
CreatedIsReal ==
  form.created => did.doc.of = address["page"] /\ did.doc.of \in dids

\* A form has one submission under way at most, however its page and its hook
\* come to be loading, so no answer to an earlier one can replace a later
\* outcome; and the lender page shows a result or an error, not both.
OneOutcome ==
  /\ \A op \in Writes \cup {"verify"} :
       /\ op \notin late
       /\ \A c, d \in calls : c.op = op /\ c.heard /\ d.op = op /\ d.heard => c = d
  /\ lender.error => lender.result = None

-----------------------------------------------------------------------------
(***************************************************************************)
(* Liveness.                                                               *)
(***************************************************************************)

\* No page loads for ever: what a failed call and a page that is left set in
\* motion comes to an end.
LoadingEnds ==
  /\ did.loading ~> ~did.loading
  /\ credit.loading ~> ~credit.loading
  /\ lender.loading ~> ~lender.loading
  /\ form.adding ~> ~form.adding

-----------------------------------------------------------------------------
(***************************************************************************)
(* Claims of the documentation the code does not keep.                     *)
(***************************************************************************)

\* score/page.tsx:31 shows "your on-chain credit score".  A late answer to an
\* earlier call replaces it by that of another address.
LastAskedIsShown ==
  page = "score" /\ AtRest /\ EffectiveAddress # None /\ ~credit.error =>
    credit.score = EffectiveAddress

\* manage/page.tsx:39 offers to "Add, view, and revoke verifiable credentials".
\* Of an account with a DID on chain the contract's credentials are shown, which
\* those that are added are not among.
AdditionsAreShown ==
  page = "manage" /\ AtRest /\ ~did.error /\ "resolve" \notin late =>
    did.doc.creds >= acknowledged

\* manage/page.tsx:29 asks to connect a wallet "to manage credentials".  The
\* button connects a wallet of its own, and the page never hears of it.
ConnectingOpensPage ==
  [][\A i \in Buttons : connecting[i] /\ address[i] = None /\ address'[i] # None
       => address'["page"] # None]_vars

=============================================================================
