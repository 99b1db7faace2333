------------------------------ MODULE SettleRun ------------------------------
(***************************************************************************)
(* One invocation of `settle::run`, an iteration of each of its loops at a *)
(* time (contracts/gridpulse/src/settle.rs).  Nothing else runs during an  *)
(* invocation, so what it reads is frozen in w, and what it writes reaches *)
(* the ledger (net, bal, allow, payments, report) only when it returns Ok: *)
(* an error result, an arithmetic overflow (the release profile keeps      *)
(* overflow-checks on) and a failing token call all revert it.             *)
(*                                                                         *)
(* Indices count from 1 where the code counts from 0.  paid, matched and   *)
(* netted hold the successive values of the accumulators total_paid,       *)
(* matched_total and total_net; charged, received and to_admin record who  *)
(* bore and who got the amounts moved so far.  Both are for the proofs.    *)
(***************************************************************************)
EXTENDS Settlement

CONSTANTS MeterIds,   \* the meter ids a caller may list
          Accounts,   \* the token accounts
          Windows,    \* the windows a run may be called in
          Wallets     \* the balances and allowances it may find

OwnerType == UNION {[R -> Accounts] : R \in SUBSET MeterIds}

WindowType ==
  [ids : Seq(MeterIds), owner : OwnerType, net : [MeterIds -> Int],
   price : Nat, fee_bps : 0 .. BPS]

(* Positions are only ever written for registered meters.                  *)
ASSUME WindowsAssumption ==
  Windows \subseteq {x \in WindowType : \A m \in MeterIds \ DOMAIN x.owner : x.net[m] = 0}

ASSUME WalletsAssumption ==
  Wallets \subseteq [bal : [Accounts -> Nat], allow : [Accounts -> Nat]]

ASSUME AdminAssumption == Admin \in Accounts /\ I128Max \in Nat

VARIABLES
  w, net, bal, allow, payments, report,       \* the call, and the ledger
  pc, k,                                      \* the loop, and its index
  prods, cons, total_surplus, total_deficit,  \* step 1 of the code
  cons_pay, paid, matched, prod_net, netted,  \* step 2
  ci, pi, pay_left, net_left, purse, events,  \* step 3
  charged, received, to_admin                 \* history of step 3

ledger    == <<net, bal, allow, payments, report>>
positions == <<prods, cons, total_surplus, total_deficit>>
money     == <<cons_pay, paid, matched, prod_net, netted>>
swap      == <<ci, pi, pay_left, net_left, purse, events, charged, received, to_admin>>
vars      == <<w, ledger, pc, k, positions, money, swap>>

Failures == {"MeterNotFound", "NothingToSettle", "trap"}

NoReport == [traded_wh |-> 0, producers |-> 0, consumers |-> 0, paid_out |-> 0, fee |-> 0]

Latest(s) == IF s = <<>> THEN 0 ELSE s[Len(s)]

-----------------------------------------------------------------------------
(* The amounts the loops compute. *)

Traded == Lower(total_surplus, total_deficit)

Drawn(i) == Share(cons[i].wh, Traded, total_deficit)

Due(i) == (Drawn(i) * w.price) \div WhPerKwh

TotalPaid == Latest(paid)

Pool == TotalPaid - (TotalPaid * w.fee_bps) \div BPS

Matched(j) == Share(prods[j].wh, Traded, total_surplus)

MatchedTotal == Latest(matched)

(* Mutant: the pool is split over the traded energy. *)
PayoutOfTraded(j) == (Pool * Matched(j)) \div Traded

(* Mutant: a payout is rounded up. *)
PayoutRoundedUp(j) ==
  IF MatchedTotal > 0 THEN (Pool * Matched(j) + MatchedTotal - 1) \div MatchedTotal ELSE 0

Payout(j) == IF MatchedTotal > 0 THEN (Pool * Matched(j)) \div MatchedTotal ELSE 0

TotalNet == Latest(netted)

Amount == Lower(pay_left, net_left)

(* The i128 results the next iteration has to hold. *)
Results ==
  CASE pc = "classify" /\ k \in DOMAIN w.ids ->
         {(IF w.net[w.ids[k]] > 0 THEN total_surplus ELSE total_deficit)
            + Size(w.net[w.ids[k]])}
    [] pc = "pay" /\ k \in DOMAIN cons ->
         {cons[k].wh * Traded, Drawn(k) * w.price, TotalPaid + Due(k)}
    [] pc = "pay" /\ k \notin DOMAIN cons -> {TotalPaid * w.fee_bps}
    [] pc = "match" /\ k \in DOMAIN prods ->
         {prods[k].wh * Traded, MatchedTotal + Matched(k)}
    [] pc = "net" /\ k \in DOMAIN prods ->
         {IF MatchedTotal > 0 THEN Pool * Matched(k) ELSE 0, TotalNet + Payout(k)}
    [] OTHER -> {}

(* Mutant: a build without overflow checks. *)
Unchecked == TRUE

InRange == \A x \in Results : x <= I128Max

-----------------------------------------------------------------------------
Init ==
  /\ w \in Windows
  /\ \E wallet \in Wallets : bal = wallet.bal /\ allow = wallet.allow
  /\ net = w.net /\ payments = <<>> /\ report = NoReport
  /\ pc = "classify" /\ k = 1
  /\ prods = <<>> /\ cons = <<>> /\ total_surplus = 0 /\ total_deficit = 0
  /\ cons_pay = <<>> /\ paid = <<>> /\ matched = <<>> /\ prod_net = <<>> /\ netted = <<>>
  /\ ci = 1 /\ pi = 1 /\ pay_left = 0 /\ net_left = 0
  /\ purse = [ok |-> TRUE, bal |-> bal, allow |-> allow] /\ events = <<>>
  /\ charged = <<>> /\ received = <<>> /\ to_admin = 0

(* Step 1: sort the listed meters into producers and consumers. *)
Classify ==
  /\ pc = "classify" /\ k \in DOMAIN w.ids /\ w.ids[k] \in DOMAIN w.owner
  /\ InRange
  /\ LET wh    == w.net[w.ids[k]]
         party == [owner |-> w.owner[w.ids[k]], wh |-> Size(wh)]
     IN  /\ prods' = IF wh > 0 THEN Append(prods, party) ELSE prods
         /\ cons' = IF wh < 0 THEN Append(cons, party) ELSE cons
         /\ total_surplus' = IF wh > 0 THEN total_surplus + wh ELSE total_surplus
         /\ total_deficit' = IF wh < 0 THEN total_deficit - wh ELSE total_deficit
  /\ k' = k + 1
  /\ UNCHANGED <<w, ledger, pc, money, swap>>

UnknownMeter ==
  /\ pc = "classify" /\ k \in DOMAIN w.ids /\ w.ids[k] \notin DOMAIN w.owner
  /\ pc' = "MeterNotFound"
  /\ UNCHANGED <<w, ledger, k, positions, money, swap>>

EndClassify ==
  /\ pc = "classify" /\ k \notin DOMAIN w.ids
  /\ pc' = IF prods = <<>> \/ cons = <<>> THEN "NothingToSettle" ELSE "pay"
  /\ k' = 1
  /\ UNCHANGED <<w, ledger, positions, money, swap>>

(* Step 2: what every consumer pays, and what every producer nets. *)
Pay ==
  /\ pc = "pay" /\ k \in DOMAIN cons
  /\ InRange
  /\ cons_pay' = Append(cons_pay, Due(k))
  /\ paid' = Append(paid, TotalPaid + Due(k))
  /\ k' = k + 1
  /\ UNCHANGED <<w, ledger, pc, positions, matched, prod_net, netted, swap>>

EndPay ==
  /\ pc = "pay" /\ k \notin DOMAIN cons
  /\ InRange
  /\ pc' = "match" /\ k' = 1
  /\ UNCHANGED <<w, ledger, positions, money, swap>>

Match ==
  /\ pc = "match" /\ k \in DOMAIN prods
  /\ InRange
  /\ matched' = Append(matched, MatchedTotal + Matched(k))
  /\ k' = k + 1
  /\ UNCHANGED <<w, ledger, pc, positions, cons_pay, paid, prod_net, netted, swap>>

EndMatch ==
  /\ pc = "match" /\ k \notin DOMAIN prods
  /\ pc' = "net" /\ k' = 1
  /\ UNCHANGED <<w, ledger, positions, money, swap>>

Net ==
  /\ pc = "net" /\ k \in DOMAIN prods
  /\ InRange
  /\ prod_net' = Append(prod_net, Payout(k))
  /\ netted' = Append(netted, TotalNet + Payout(k))
  /\ k' = k + 1
  /\ UNCHANGED <<w, ledger, pc, positions, cons_pay, paid, matched, swap>>

EndNet ==
  /\ pc = "net" /\ k \notin DOMAIN prods
  /\ pc' = "swap"
  /\ pay_left' = cons_pay[1] /\ net_left' = prod_net[1]
  /\ charged' = [i \in DOMAIN cons |-> 0]
  /\ received' = [j \in DOMAIN prods |-> 0]
  /\ UNCHANGED <<w, ledger, k, positions, money, ci, pi, purse, events, to_admin>>

-----------------------------------------------------------------------------
(* Step 3: the swap.  A positive amount is one token transfer and one      *)
(* Payment event; a zero amount is neither.                                *)
Leg(to, amount) == [from |-> cons[ci].owner, to |-> to, amount |-> amount]

(* Mutant: a zero amount is published as a payment too. *)
TransferAnyAmount(to, amount) ==
  /\ CanMove(purse, Leg(to, amount))
  /\ purse' = TransferFrom(purse, Leg(to, amount))
  /\ events' = Append(events, Leg(to, amount))
  /\ charged' = [charged EXCEPT ![ci] = @ + amount]

Transfer(to, amount) ==
  /\ amount > 0 => CanMove(purse, Leg(to, amount))
  /\ purse' = IF amount > 0 THEN TransferFrom(purse, Leg(to, amount)) ELSE purse
  /\ events' = IF amount > 0 THEN Append(events, Leg(to, amount)) ELSE events
  /\ charged' = [charged EXCEPT ![ci] = @ + amount]

(* Mutant: a pointer only moves past a party that had something to move.   *)
AdvanceIfMoved(i, left) == IF left = Amount /\ Amount > 0 THEN i + 1 ELSE i

(* The pointer moves on when its party has nothing left, and what the next *)
(* one has is loaded.                                                      *)
Advance(i, left) == IF left = Amount THEN i + 1 ELSE i

(* Mutant: the next party's amount is not loaded. *)
KeepLeft(left, due, i) == left - Amount

Reload(left, due, i) ==
  IF left = Amount /\ i + 1 \in DOMAIN due THEN due[i + 1] ELSE left - Amount

SwapStep ==
  /\ pc = "swap" /\ ci \in DOMAIN cons /\ pi \in DOMAIN prods
  /\ Transfer(prods[pi].owner, Amount)
  /\ received' = [received EXCEPT ![pi] = @ + Amount]
  /\ ci' = Advance(ci, pay_left) /\ pay_left' = Reload(pay_left, cons_pay, ci)
  /\ pi' = Advance(pi, net_left) /\ net_left' = Reload(net_left, prod_net, pi)
  /\ UNCHANGED <<w, ledger, pc, k, positions, money, to_admin>>

EndSwap ==
  /\ pc = "swap" /\ (ci \notin DOMAIN cons \/ pi \notin DOMAIN prods)
  /\ pc' = "remainder"
  /\ UNCHANGED <<w, ledger, k, positions, money, swap>>

(* What is left of the consumer the loop stopped at, to the admin. *)
Remainder ==
  /\ pc = "remainder" /\ ci \in DOMAIN cons /\ pay_left > 0
  /\ Transfer(Admin, pay_left)
  /\ to_admin' = to_admin + pay_left
  /\ ci' = ci + 1
  /\ pc' = "rest"
  /\ UNCHANGED <<w, ledger, k, positions, money, pi, pay_left, net_left, received>>

NoRemainder ==
  /\ pc = "remainder" /\ ~(ci \in DOMAIN cons /\ pay_left > 0)
  /\ pc' = "rest"
  /\ UNCHANGED <<w, ledger, k, positions, money, swap>>

(* The consumers after it owe the admin everything. *)
Rest ==
  /\ pc = "rest" /\ ci \in DOMAIN cons
  /\ Transfer(Admin, cons_pay[ci])
  /\ to_admin' = to_admin + cons_pay[ci]
  /\ ci' = ci + 1
  /\ UNCHANGED <<w, ledger, pc, k, positions, money, pi, pay_left, net_left, received>>

Cleared == [m \in MeterIds |-> IF m \in ToSet(w.ids) THEN 0 ELSE net[m]]

(* Step 4: clear the listed positions and return the report. *)
Return ==
  /\ pc = "rest" /\ ci \notin DOMAIN cons
  /\ net' = Cleared
  /\ bal' = purse.bal /\ allow' = purse.allow /\ payments' = events
  /\ report' = [traded_wh |-> Traded, producers |-> Len(prods), consumers |-> Len(cons),
                paid_out |-> TotalNet, fee |-> TotalPaid - TotalNet]
  /\ pc' = "done"
  /\ UNCHANGED <<w, k, positions, money, swap>>

(* An i128 overflow, or a transfer the token refuses: the host reverts.    *)
(* A listed id that is not registered returns before its sum is touched.   *)
Refused ==
  \/ /\ pc = "swap" /\ ci \in DOMAIN cons /\ pi \in DOMAIN prods
     /\ Amount > 0 /\ ~CanMove(purse, Leg(prods[pi].owner, Amount))
  \/ /\ pc = "remainder" /\ ci \in DOMAIN cons
     /\ pay_left > 0 /\ ~CanMove(purse, Leg(Admin, pay_left))
  \/ /\ pc = "rest" /\ ci \in DOMAIN cons
     /\ cons_pay[ci] > 0 /\ ~CanMove(purse, Leg(Admin, cons_pay[ci]))

Trap ==
  /\ Refused \/ ~InRange
  /\ pc' = "trap"
  /\ UNCHANGED <<w, ledger, k, positions, money, swap>>

Next ==
  \/ Classify \/ UnknownMeter \/ EndClassify
  \/ Pay \/ EndPay \/ Match \/ EndMatch \/ Net \/ EndNet
  \/ SwapStep \/ EndSwap \/ Remainder \/ NoRemainder \/ Rest \/ Return
  \/ Trap

(* The host runs an invocation to its end. *)
Spec == Init /\ [][Next]_vars /\ WF_vars(Next)

=============================================================================
