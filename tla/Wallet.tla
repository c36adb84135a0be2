------------------------------- MODULE Wallet -------------------------------
(***************************************************************************)
(* The wallet of the frontend: useStellarWallet (src/frontend/src/hooks),  *)
(* the two calls of lib/stellar.ts it makes, and WalletConnectButton.      *)
(*                                                                         *)
(* The hook keeps its state in the component that uses it, so a page, the  *)
(* button on it and the button of the navbar each have a wallet of their   *)
(* own.  They share the Freighter extension, which is external: it has an  *)
(* account that its user may switch, and it may refuse to tell.            *)
(***************************************************************************)
EXTENDS Naturals

CONSTANTS
  Accounts,  \* accounts of the extension
  None,      \* no address: not connected
  Instances  \* where the hook is used

ASSUME NoneAssumption == None \notin Accounts
ASSUME InstancesAssumption ==
  "page" \in Instances /\ Instances \subseteq {"page", "button", "navbar"}

\* only the buttons can connect and disconnect
Buttons == Instances \ {"page"}

VARIABLES
  account,    \* the extension's current account
  address,    \* per instance: the address; connected if it is not None
  checking,   \* per instance: the check of the first render is under way
  connecting  \* per instance: connect is under way

walletVars == <<account, address, checking, connecting>>

WalletTypeOK ==
  /\ account \in Accounts
  /\ address \in [Instances -> Accounts \cup {None}]
  /\ checking \in [Instances -> BOOLEAN]
  /\ connecting \in [Instances -> BOOLEAN]

WalletInit ==
  /\ account \in Accounts
  /\ address = [i \in Instances |-> None]
  /\ checking = [i \in Instances |-> TRUE]
  /\ connecting = [i \in Instances |-> FALSE]

\* The check of the first render: isConnected and then getPublicKey, which
\* keep nothing in between.  Refused, or not installed, it changes nothing.
Check(i) ==
  /\ checking[i]
  /\ checking' = [checking EXCEPT ![i] = FALSE]
  /\ address' \in {address, [address EXCEPT ![i] = account]}
  /\ UNCHANGED <<account, connecting>>

Connect(i) ==
  /\ i \in Buttons
  /\ address[i] = None /\ ~connecting[i]
  /\ connecting' = [connecting EXCEPT ![i] = TRUE]
  /\ UNCHANGED <<account, address, checking>>

ConnectAnswered(i) ==
  /\ connecting[i]
  /\ connecting' = [connecting EXCEPT ![i] = FALSE]
  /\ address' \in {address, [address EXCEPT ![i] = account]}
  /\ UNCHANGED <<account, checking>>

\* What is under way is not cancelled.
Disconnect(i) ==
  /\ i \in Buttons
  /\ address[i] # None
  /\ address' = [address EXCEPT ![i] = None]
  /\ UNCHANGED <<account, checking, connecting>>

\* The extension does not tell the site.
SwitchAccount(a) ==
  /\ a # account
  /\ account' = a
  /\ UNCHANGED <<address, checking, connecting>>

\* Another page has hooks of its own, in their first state; the navbar stays.
Kept(f, fresh) == [i \in Instances |-> IF i = "navbar" THEN f[i] ELSE fresh]

Remount ==
  /\ address' = Kept(address, None)
  /\ checking' = Kept(checking, TRUE)
  /\ connecting' = Kept(connecting, FALSE)
  /\ UNCHANGED account

=============================================================================
