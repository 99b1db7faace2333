----------------------------- MODULE ConsoleProps -----------------------------
(***************************************************************************)
(* What the people at their browsers may rely on.                          *)
(***************************************************************************)
EXTENDS Console

InFlight(l) == load[l].stage # "idle"

(* No flag of the page outlives its task: a "Loading" has a load to wait   *)
(* for, settle is disabled exactly while a settlement or the load after it *)
(* runs, and approve while an approval does (dashboard.tsx:51-80,          *)
(* wallet-panel.tsx:37-54).                                                *)
TypeOK ==
  /\ tariff \in [price : Nat, fee_bps : 0 .. 10000]
  /\ events \in 0 .. MaxEvents
  /\ loading => \E l \in Loads : InFlight(l)
  /\ settling = (settle.stage # "idle")
  /\ InFlight("after") = (settle.stage = "loading")
  /\ busy = (approval.stage # "idle")
  /\ late \subseteq [field : {"price", "fee_bps"}, body : Patches, request : 0 .. MaxEvents]

(* The figures of an overview, as a reader can compare them. *)
TrueIn(view, states) ==
  /\ \E s \in states : view.config = s.tariff
  /\ \A i \in DOMAIN view.meters :
       LET card == view.meters[i]
       IN  /\ \E s \in states : card.nonce = s.nonce[card.id]
           /\ \E s \in states : card.net_wh = s.net[card.id]

(* No figure on the page was made up: each was true at some moment between *)
(* the request and the answer it came with, however loads overlap and      *)
(* whatever is submitted, settled or repriced while the backend reads on,  *)
(* meter by meter (relayer.ts:70-87, dashboard.tsx:51-61).  It is less     *)
(* than a snapshot: two figures may be of two moments.                     *)
FiguresWereTrue == overview \notin {Absent, Broken} => TrueIn(overview, shown)

(* While "Settling..." lasts, the report of a settlement stands beside the *)
(* figures from before it.  Afterwards every figure beside it was true     *)
(* some time since that settlement landed: the page does not go on showing *)
(* as open the energy it reports as wheeled.  Except where it says so, by  *)
(* an error or by "Loading", and except that the answer of an earlier load *)
(* may come last (dashboard.tsx:51-80).                                    *)
FreshWithReport ==
  report # Absent /\ ~settling /\ ~loading /\ error = "none" /\ ~overtaken
    => overview = Broken \/ TrueIn(overview, after)

(* Of one PATCH the fee lands only after its own price: a price that was   *)
(* refused or lost takes its fee with it, also when its transaction lands  *)
(* late, when another request overlaps, and when the same body is sent     *)
(* again.  It does not say that the two stay in force together: another    *)
(* request, or one given up on, may replace either (routes.ts:110-119).    *)
FeeAfterPrice ==
  \A x \in set :
    x.field = "fee_bps" /\ x.body.price # Absent => [x EXCEPT !.field = "price"] \in set

(* An approval is made for an account that was selected in the extension   *)
(* after the click, not for the one the panel still shows                  *)
(* (stellar.ts:95-123, wallet-panel.tsx:20-22).                            *)
ApprovesSelected ==
  approval.stage \in {"signing", "sending", "sent"} => approval.tx.from \in chosen

(* The page does not stay busy, whatever fails, unless an answer that was  *)
(* cut off took it down (dashboard.tsx:51-80, wallet-panel.tsx:37-54).     *)
ButtonsReturn == []<>(overview = Broken \/ ~(loading \/ settling \/ busy))

(* "Homes only need to approve once" (wallet-panel.tsx:5): what the panel  *)
(* announces with "Approved max allowance (tx ...)" (wallet-panel.tsx:48)  *)
(* is a transaction the network has taken, whatever becomes of it there    *)
(* (stellar.ts:128-133).                                                   *)
AnnouncedWasSent ==
  notice.kind = "approved" => notice.tx \in taken \cup allowed \cup dropped

=============================================================================
