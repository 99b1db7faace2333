-------------------------------- MODULE Console --------------------------------
(***************************************************************************)
(* The people at their browsers: the dashboard and its wallet panel, and   *)
(* an operator who changes the tariff, all over one backend and one        *)
(* contract.  A step is a step of one of them; the others do not move.     *)
(***************************************************************************)
EXTENDS Integers, Sequences, FiniteSets

CONSTANTS
  Registry, Deployments, Openings, Deltas, Loads,  \* see Dashboard
  Patches, Operators,                              \* see Tariff
  Homes, FirstHome,                                \* see Wallet
  Absent, Broken,
  MaxEvents, \* bound: what people do, and what fails but a PATCH, together
  MaxChanges \* bound: what others do to the contract

ASSUME ConsoleAssumption ==
  /\ MaxEvents \in Nat /\ MaxChanges \in Nat
  /\ {"view", "after"} \subseteq Loads
  /\ Registry \in Seq(Nat) /\ Deployments \subseteq SUBSET Nat
  /\ Patches \subseteq [price : Nat \cup {Absent}, fee_bps : Int \cup {Absent}]
  /\ FirstHome \in Homes

VARIABLES
  tariff, patch, late, set,
  known, nonce, net, load, settle, overview, loading, error, settling, report,
  changes, shown, since, after, early, overtaken,
  selected, onNetwork, granted, address, busy, notice, lookup, connection, approval,
  taken, allowed, dropped, chosen,
  events

P == INSTANCE Tariff
D == INSTANCE Dashboard
W == INSTANCE Wallet

tariffVars == <<tariff, patch, late, set>>
dashVars   == <<known, nonce, net, load, settle, overview, loading, error, settling,
                report, changes, shown>>
walletVars == <<selected, onNetwork, granted, address, busy, notice, lookup, connection,
                approval, taken, allowed, dropped, chosen>>
pageHist   == <<since, after, early, overtaken>>
vars       == <<tariffVars, dashVars, pageHist, walletVars, events>>

(* The figures a reader of the contract can get at the moment. *)
Now == [tariff |-> tariff, nonce |-> nonce, net |-> net]

Init ==
  /\ P!Init /\ D!Init /\ W!Init
  /\ events = 0
  /\ since = [l \in Loads |-> IF l = "view" THEN {Now} ELSE {}]
  /\ after = {} /\ early = {} /\ overtaken = FALSE

(* What has held since a load began, and since the settlement of this page *)
(* landed, as long as it is reported; which loads had begun before that;   *)
(* and whether the page shows the answer of one of those.                  *)
Lands == settle.stage # "settled" /\ settle'.stage = "settled"

Shows(l) == load[l].stage = "answered" /\ load'[l].stage = "idle"

Remember ==
  /\ since' = [l \in Loads |-> IF load'[l].stage \in {"idle", "failed", "cut"} THEN {}
                               ELSE since[l] \cup {Now'}]
  /\ after' = IF settle'.stage = "settled" \/ report' # Absent THEN after \cup {Now'} ELSE {}
  /\ early' = {l \in Loads : load'[l].stage # "idle" /\ (Lands \/ l \in early)}
  /\ overtaken' = \/ \E l \in early : Shows(l)
                  \/ overtaken /\ ~Lands /\ \A l \in Loads : ~Shows(l)

(* The wallet panel is rendered with the overview. *)
Mounted == overview \notin {Absent, Broken}

OfTariff(step) == step /\ UNCHANGED <<dashVars, walletVars>> /\ Remember

OfDashboard(step) == step /\ UNCHANGED <<tariffVars, walletVars>> /\ Remember

OfWallet(step) == Mounted /\ step /\ UNCHANGED <<tariffVars, dashVars>> /\ Remember

Next == OfTariff(P!Next) \/ OfDashboard(D!Next) \/ OfWallet(W!Next)

(* As long as something is awaited, some answer arrives: from the backend, *)
(* from the user in the extension, or from the network that decides on     *)
(* what it took.  Tasks and answers are finite, so no stronger fairness,   *)
(* one for each of them, is needed.                                        *)
GoesOn ==
  \/ OfDashboard((\E l \in Loads : D!Server(l) \/ D!Arrives(l)) \/ D!SettleGoesOn)
  \/ OfWallet(W!ApprovalGoesOn \/ \E tx \in taken : W!Apply(tx) \/ W!Drop(tx))

Fairness == WF_vars(GoesOn)

Spec == Init /\ [][Next]_vars /\ Fairness

=============================================================================
