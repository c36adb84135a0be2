-------------------------- MODULE CredentialLedger --------------------------
(***************************************************************************)
(* What the identity contract promises about credentials, with no word on  *)
(* how trust is decided or how a document is stored.  A holder's           *)
(* credentials form a list in the order they were issued.  An account is   *)
(* trusted for a set of credential types that may change at any time; only *)
(* an account trusted for the type at that moment adds a credential, only  *)
(* the account that issued a credential takes it away again, and nothing   *)
(* else about anybody's list ever changes.                                 *)
(***************************************************************************)
EXTENDS Naturals, Sequences

CONSTANTS Holders, Accounts, Types, Hashes, Times, Capacity

Entry == [id : Hashes, issuer : Accounts, type : Types, issued_at : Times]

VARIABLES
  trusted,    \* the pairs <<issuer, type>> that may issue now
  opened,     \* the holders with an identity
  holdings,   \* the credentials of every holder, oldest first
  actor       \* the account that authorised the last change

ledgerVars == <<trusted, opened, holdings, actor>>

Init ==
  /\ trusted \in SUBSET (Accounts \X Types)
  /\ opened = {}
  /\ holdings = [h \in Holders |-> <<>>]
  /\ actor \in Accounts

\* Trust and the acting account change by means this level leaves open.
Govern ==
  /\ trusted' \in SUBSET (Accounts \X Types)
  /\ actor' \in Accounts
  /\ UNCHANGED <<opened, holdings>>

Open(h) ==
  /\ h \notin opened
  /\ opened' = opened \cup {h}
  /\ actor' = h
  /\ UNCHANGED <<trusted, holdings>>

Issue(h, e) ==
  /\ h \in opened
  /\ <<e.issuer, e.type>> \in trusted
  /\ Len(holdings[h]) < Capacity
  /\ holdings' = [holdings EXCEPT ![h] = Append(@, e)]
  /\ actor' = e.issuer
  /\ UNCHANGED <<trusted, opened>>

Withdraw(h, k) ==
  /\ holdings' = [holdings EXCEPT ![h] =
                    SubSeq(@, 1, k - 1) \o SubSeq(@, k + 1, Len(@))]
  /\ actor' = holdings[h][k].issuer
  /\ UNCHANGED <<trusted, opened>>

Next ==
  \/ Govern
  \/ \E h \in Holders :
       \/ Open(h)
       \/ \E e \in Entry : Issue(h, e)
       \/ \E k \in DOMAIN holdings[h] : Withdraw(h, k)

Spec == Init /\ [][Next]_ledgerVars

=============================================================================
