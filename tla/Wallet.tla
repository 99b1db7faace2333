-------------------------------- MODULE Wallet --------------------------------
(***************************************************************************)
(* The wallet panel (frontend: wallet-panel.tsx, stellar.ts) and the       *)
(* Freighter extension: the panel looks the account up when it is mounted, *)
(* asks for access, and sends an approval of the contract as a spender,    *)
(* one call at a time to the extension or the network.  The user may       *)
(* select another account or network in the extension between any two of   *)
(* them.  A transaction the network has taken is applied or dropped later; *)
(* nothing in the page waits for it.                                       *)
(***************************************************************************)
EXTENDS Integers

CONSTANTS Homes,     \* the accounts of the extension
          FirstHome, \* the one selected when the page is opened
          Absent,    \* no value
          MaxEvents  \* bound: clicks and failed calls

VARIABLES
  selected, onNetwork, granted,  \* the extension: account, the app's network?,
                                 \* whether the page has access
  address, busy, notice,         \* the panel; notice: message and error
  lookup, connection, approval,  \* its tasks
  taken, allowed, dropped,       \* the network: the approvals it has
  events,    \* clicks and failed calls so far
  chosen     \* history: accounts selected since the approval was clicked

panel      == <<address, busy, notice>>
tasks      == <<lookup, connection, approval>>
extension  == <<selected, onNetwork, granted>>
network    == <<taken, allowed, dropped>>

NoTask == [stage |-> "idle"]

Nothing == [kind |-> "none"]

(* getAddress: nothing while the page has no access. *)
Selected == IF granted THEN selected ELSE Absent

Init ==
  /\ selected = FirstHome /\ onNetwork = TRUE /\ granted \in BOOLEAN
  /\ address = Absent /\ busy = FALSE /\ notice = Nothing
  /\ lookup = [stage |-> "asked", account |-> Selected] /\ connection = NoTask /\ approval = NoTask
  /\ taken = {} /\ allowed = {} /\ dropped = {} /\ chosen = {}

-----------------------------------------------------------------------------
(* The user in the extension. *)

Select(a) ==
  /\ a # selected /\ events < MaxEvents
  /\ events' = events + 1
  /\ selected' = a
  /\ chosen' = IF busy THEN chosen \cup {a} ELSE chosen
  /\ UNCHANGED <<onNetwork, granted, panel, tasks, network>>

SwitchNetwork ==
  /\ events < MaxEvents
  /\ events' = events + 1
  /\ onNetwork' = ~onNetwork
  /\ UNCHANGED <<selected, granted, panel, tasks, network, chosen>>

-----------------------------------------------------------------------------
(* walletAddress() at mount, and connect(). *)

(* The lookup reads the extension some time between its start and its end. *)
LookedUp ==
  /\ lookup.stage = "asked"
  /\ address' \in {lookup.account, Selected}
  /\ lookup' = NoTask
  /\ UNCHANGED <<extension, busy, notice, connection, approval, network, chosen, events>>

ClickConnect ==
  /\ address = Absent /\ connection = NoTask /\ events < MaxEvents
  /\ events' = events + 1
  /\ notice' = IF notice.kind = "error" THEN Nothing ELSE notice
  /\ connection' = [stage |-> "asked"]
  /\ UNCHANGED <<extension, address, busy, lookup, approval, network, chosen>>

Grant ==
  /\ connection.stage = "asked"
  /\ granted' = TRUE
  /\ connection' = [stage |-> "granted", account |-> selected]
  /\ UNCHANGED <<selected, onNetwork, panel, lookup, approval, network, chosen, events>>

Connected ==
  /\ connection.stage = "granted"
  /\ address' = connection.account
  /\ connection' = NoTask
  /\ UNCHANGED <<extension, busy, notice, lookup, approval, network, chosen, events>>

(* The user declines, or the extension fails. *)
ConnectFailed ==
  /\ connection.stage = "asked"
  /\ notice' = [kind |-> "error"]
  /\ connection' = NoTask
  /\ UNCHANGED <<extension, address, busy, lookup, approval, network, chosen, events>>

-----------------------------------------------------------------------------
(* approveMax() and approveToken(). *)

ClickApprove ==
  /\ address # Absent /\ ~busy /\ events < MaxEvents
  /\ events' = events + 1
  /\ busy' = TRUE /\ notice' = Nothing
  /\ approval' = [stage |-> "checking"]
  /\ chosen' = {selected}
  /\ UNCHANGED <<extension, address, lookup, connection, network>>

(* The extension must be on the network of the app ... *)
CheckNetwork ==
  /\ approval.stage = "checking" /\ onNetwork
  /\ approval' = [stage |-> "reading"]
  /\ UNCHANGED <<extension, panel, lookup, connection, network, chosen, events>>

(* Mutant: the approval is made for the address the panel shows. *)
AccountShown == address

AccountToApprove == Selected

(* ... and names the account the transaction is made for and prepared      *)
(* with; no two approvals have seen the same number of events.             *)
ReadAccount ==
  /\ approval.stage = "reading" /\ Selected # Absent
  /\ approval' = [stage |-> "signing", tx |-> [from |-> AccountToApprove, id |-> events]]
  /\ UNCHANGED <<extension, panel, lookup, connection, network, chosen, events>>

(* The user signs, as that account, whichever is selected by now. *)
Sign ==
  /\ approval.stage = "signing"
  /\ approval' = [approval EXCEPT !.stage = "sending"]
  /\ UNCHANGED <<extension, panel, lookup, connection, network, chosen, events>>

(* The network's answer: PENDING or DUPLICATE if it has the transaction    *)
(* now; TRY_AGAIN_LATER or ERROR if it did not take it.                    *)
Submit(status) ==
  /\ approval.stage = "sending"
  /\ taken' = IF status = "PENDING" THEN taken \cup {approval.tx} ELSE taken
  /\ approval' = [stage |-> "sent", tx |-> approval.tx, status |-> status]
  /\ UNCHANGED <<extension, panel, lookup, connection, allowed, dropped, chosen, events>>

Ends(kind) ==
  /\ busy' = FALSE /\ approval' = NoTask
  /\ notice' = IF kind = "approved" THEN [kind |-> kind, tx |-> approval.tx]
               ELSE [kind |-> kind]

(* Anything but ERROR is taken for a success. *)
IsSent(status) == status # "ERROR"

Approved ==
  /\ approval.stage = "sent" /\ IsSent(approval.status)
  /\ Ends("approved")
  /\ UNCHANGED <<extension, address, lookup, connection, network, chosen, events>>

(* Freighter is on another network, gives no address, the user declines,   *)
(* the account cannot be read, the simulation fails, ...                   *)
Stopped ==
  \/ approval.stage = "checking" /\ ~onNetwork
  \/ approval.stage = "reading" /\ Selected = Absent
  \/ approval.stage = "signing"
  \/ approval.stage = "sent" /\ ~IsSent(approval.status)

ApproveFailed ==
  /\ Stopped
  /\ Ends("error")
  /\ UNCHANGED <<extension, address, lookup, connection, network, chosen, events>>

(* ... or a call throws, even after the network took the transaction.      *)
ApproveLost ==
  /\ approval.stage \in {"checking", "reading", "sending", "sent"} /\ events < MaxEvents
  /\ events' = events + 1
  /\ Ends("error")
  /\ UNCHANGED <<extension, address, lookup, connection, network, chosen>>

-----------------------------------------------------------------------------
(* The network applies what it took, or drops it: the time bounds of the   *)
(* transaction pass, or the token refuses it.                              *)

Apply(tx) ==
  /\ taken' = taken \ {tx} /\ allowed' = allowed \cup {tx}
  /\ UNCHANGED <<extension, panel, tasks, dropped, chosen, events>>

Drop(tx) ==
  /\ taken' = taken \ {tx} /\ dropped' = dropped \cup {tx}
  /\ UNCHANGED <<extension, panel, tasks, allowed, chosen, events>>

Statuses == {"PENDING", "TRY_AGAIN_LATER", "ERROR"}

ApprovalGoesOn ==
  \/ CheckNetwork \/ ReadAccount \/ Sign \/ (\E status \in Statuses : Submit(status))
  \/ Approved \/ ApproveFailed

Next ==
  \/ LookedUp
  \/ ClickConnect \/ Grant \/ Connected \/ ConnectFailed
  \/ ClickApprove \/ ApprovalGoesOn \/ ApproveLost
  \/ \E a \in Homes : Select(a)
  \/ \E tx \in taken : Apply(tx) \/ Drop(tx)
  \/ SwitchNetwork

=============================================================================
