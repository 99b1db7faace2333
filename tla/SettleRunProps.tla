---------------------------- MODULE SettleRunProps ----------------------------
(***************************************************************************)
(* What `settle::run` must guarantee.                                      *)
(***************************************************************************)
EXTENDS SettleRun

Atomic == INSTANCE AtomicSettle WITH
            outcome <- IF pc \in Failures \cup {"done"} THEN pc ELSE "pending"

Terminal == Failures \cup {"done"}

PartyType == [owner : Accounts, wh : Nat \ {0}]

LegType == [from : Accounts, to : Accounts, amount : Nat \ {0}]

Purses == [ok : {TRUE}, bal : [Accounts -> Nat], allow : [Accounts -> Nat]]

(* The amounts of a run are natural numbers and its parties accounts: no   *)
(* subtraction of the swap goes below zero, no balance is overdrawn.       *)
TypeOK ==
  /\ w \in WindowType
  /\ net \in [MeterIds -> Int] /\ bal \in [Accounts -> Nat] /\ allow \in [Accounts -> Nat]
  /\ payments \in Seq(LegType)
  /\ report \in [traded_wh : Nat, producers : Nat, consumers : Nat, paid_out : Nat, fee : Nat]
  /\ pc \in {"classify", "pay", "match", "net", "swap", "remainder", "rest"} \cup Terminal
  /\ k \in Nat \ {0}
  /\ prods \in Seq(PartyType) /\ cons \in Seq(PartyType)
  /\ total_surplus \in Nat /\ total_deficit \in Nat
  /\ cons_pay \in Seq(Nat) /\ paid \in Seq(Nat) /\ matched \in Seq(Nat)
  /\ prod_net \in Seq(Nat) /\ netted \in Seq(Nat)
  /\ ci \in Nat \ {0} /\ pi \in Nat \ {0} /\ pay_left \in Nat /\ net_left \in Nat
  /\ purse \in Purses /\ events \in Seq(LegType)
  /\ charged \in Seq(Nat) /\ received \in Seq(Nat) /\ to_admin \in Nat

(* Where the loops stand: how far each sequence has grown. *)
Loops ==
  /\ cons # <<>> => total_deficit > 0
  /\ prods # <<>> => total_surplus > 0
  /\ pc = "classify" => cons_pay = <<>>
  /\ pc \in {"classify", "pay"} => matched = <<>>
  /\ pc \in {"classify", "pay", "match"} => prod_net = <<>>
  /\ pc \in {"classify", "pay", "match", "net"} => ci = 1 /\ pi = 1 /\ to_admin = 0
  /\ pc = "pay" => Len(cons_pay) = k - 1 /\ k <= Len(cons) + 1
  /\ pc = "match" => Len(matched) = k - 1 /\ k <= Len(prods) + 1
  /\ pc = "net" => Len(prod_net) = k - 1 /\ k <= Len(prods) + 1
  /\ pc \in {"pay", "match", "net", "swap", "remainder", "rest", "done"} =>
       cons # <<>> /\ prods # <<>>
  /\ pc \in {"match", "net", "swap", "remainder", "rest", "done"} =>
       Len(cons_pay) = Len(cons)
  /\ pc \in {"net", "swap", "remainder", "rest", "done"} => Len(matched) = Len(prods)
  /\ pc \in {"swap", "remainder", "rest", "done"} =>
       /\ Len(prod_net) = Len(prods)
       /\ Len(charged) = Len(cons) /\ Len(received) = Len(prods)
       /\ ci <= Len(cons) + 1 /\ pi <= Len(prods) + 1

(* What an accumulator held before its i-th iteration. *)
Before(s, i) == IF i = 1 THEN 0 ELSE s[i - 1]

(* sums are the values an accumulator takes as it adds the amounts.        *)
Accumulates(sums, amounts) ==
  \A i \in DOMAIN sums : sums[i] = Before(sums, i) + amounts[i]

MatchedWh == [j \in DOMAIN prods |-> Matched(j)]

Sums ==
  /\ Len(paid) = Len(cons_pay) /\ Accumulates(paid, cons_pay)
  /\ Accumulates(matched, MatchedWh)
  /\ Len(netted) = Len(prod_net) /\ Accumulates(netted, prod_net)
  /\ \A j1, j2 \in DOMAIN netted : j1 <= j2 => netted[j1] <= netted[j2]

(* The producers' nets never outgrow their part of the pool. *)
PoolHolds ==
  /\ \A j \in DOMAIN netted : netted[j] * MatchedTotal <= Pool * matched[j]
  /\ MatchedTotal = 0 => \A j \in DOMAIN netted : netted[j] = 0

(* What has been moved so far on one side of the swap, when pointer i has  *)
(* moved past the parties before it.                                       *)
MovedBy(sums, done, i) == Before(sums, i) + (IF i \in DOMAIN done THEN done[i] ELSE 0)

(* One side of the swap: parties before the pointer are served in full,    *)
(* those behind it not at all, the one it points to has `left` to go.      *)
Served(done, due, i, left) ==
  /\ \A h \in DOMAIN due : (h < i => done[h] = due[h]) /\ (h > i => done[h] = 0)
  /\ i \in DOMAIN due => done[i] + left = due[i] /\ (left = 0 => done[i] = 0)

Books ==
  /\ pc = "swap" =>
       /\ Served(charged, cons_pay, ci, pay_left)
       /\ Served(received, prod_net, pi, net_left)
       /\ MovedBy(paid, charged, ci) = MovedBy(netted, received, pi)
       /\ to_admin = 0
  /\ pc = "remainder" =>
       /\ Served(charged, cons_pay, ci, pay_left)
       /\ received = prod_net
       /\ MovedBy(paid, charged, ci) = TotalNet + to_admin
  /\ pc = "rest" =>
       /\ \A h \in DOMAIN cons_pay :
            charged[h] = IF h < ci THEN cons_pay[h] ELSE 0
       /\ received = prod_net
       /\ Before(paid, ci) = TotalNet + to_admin
  /\ pc = "done" =>
       /\ charged = cons_pay /\ received = prod_net
       /\ to_admin = TotalPaid - TotalNet
       /\ report.fee = TotalPaid - TotalNet
       /\ report.paid_out = TotalNet /\ report.producers = Len(prods)

(* The inductive invariant of the run. *)
IInv == TypeOK /\ Loops /\ Sums /\ PoolHolds /\ Books

(* Every obligation is the price of the energy drawn. *)
Priced == \A i \in DOMAIN cons_pay : cons_pay[i] = Due(i)

-----------------------------------------------------------------------------
(* The swap is exact.  When a settlement succeeds, every consumer has been *)
(* charged its obligation to the unit, by producers and admin together,    *)
(* every producer has received its net payout to the unit, and the admin   *)
(* has received the fee the report states.  settle.rs:109-175 pairs the    *)
(* two lists with two pointers, skips zero amounts and finishes the last   *)
(* consumer in a separate branch: a pointer that moves once too often or   *)
(* too seldom leaves someone unpaid or charged twice.                      *)
ExactSwap ==
  pc = "done" =>
    /\ charged = cons_pay
    /\ received = prod_net
    /\ to_admin = report.fee

(* No consumer pays more than the tariff for its own deficit, and the      *)
(* producers never net more than the pool that is left once the fee is     *)
(* off, so the admin never gets less than fee_bps of what was paid         *)
(* (settle.rs:71-106: rounding always falls to the admin).                 *)
RoundedFairly ==
  pc = "done" =>
    /\ \A i \in DOMAIN cons : cons_pay[i] * WhPerKwh <= cons[i].wh * w.price
    /\ report.paid_out <= Pool
    /\ report.fee >= (TotalPaid * w.fee_bps) \div BPS

(* Together the consumers pay at most the tariff for the traded energy: no *)
(* watt-hour is billed that no producer delivered (settle.rs:62-79).       *)
TradedAtTariff == pc = "done" => TotalPaid * WhPerKwh <= report.traded_wh * w.price

(* Rounding is dust: when some producer has a matched watt-hour, the       *)
(* admin's share exceeds the base fee by less than one unit per producer   *)
(* (settle.rs:91-106).                                                     *)
DustOnly ==
  pc = "done" /\ MatchedTotal > 0 => Pool - report.paid_out < report.producers

(* Every invocation ends: each turn of the swap loop moves a pointer,      *)
(* whatever amounts are zero (settle.rs:117-148).                          *)
Terminates == <>(pc \in Terminal)

(* A caller sees one atomic step with the closed-form amounts: the same    *)
(* balances, allowances, events, report and cleared positions, or an       *)
(* untouched ledger.                                                       *)
RunIsAtomic == Atomic!Spec

(* "the operator fee is `fee_bps` of consumer payments; producers split    *)
(* the remainder pro-rata to their matched surplus" (settle.rs:14-15): up  *)
(* to a unit of rounding each, the producers get the whole pool.           *)
ProducersGetThePool ==
  pc = "done" => Pool - report.paid_out < report.producers

=============================================================================
