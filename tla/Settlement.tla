----------------------------- MODULE Settlement -----------------------------
(***************************************************************************)
(* The money of one settlement, in closed form: what `settle::run`         *)
(* (contracts/gridpulse/src/settle.rs) works out from the positions of the *)
(* listed meters, the clearing price and the operator fee, and the token   *)
(* transfers it then asks for.  Module SettleRun models the same function  *)
(* loop by loop; this one is what its loops are compared with, and what    *)
(* the contract-level module GridPulse uses as one atomic step.            *)
(*                                                                         *)
(* A window is a record w: w.ids is the list passed to `settle`, w.owner   *)
(* maps every registered meter to the account of its owner, w.net maps     *)
(* every meter id to its net watt-hours, w.price and w.fee_bps come from   *)
(* Config.  A purse is a record [ok, bal, allow] of the token as the       *)
(* settlement contract sees it: balances, the allowances the accounts      *)
(* gave the contract, and whether every transfer so far went through.      *)
(***************************************************************************)
EXTENDS Integers, Sequences, FiniteSets, SequencesExt

CONSTANTS Admin,       \* Config.admin: the account that collects the fee
          I128Max      \* the largest amount an i128 of the build can hold

BPS == 10000

WhPerKwh == 1000

(* Mutant: the longer side of the market is traded. *)
Higher(a, b) == IF a > b THEN a ELSE b

Lower(a, b) == IF a < b THEN a ELSE b

Size(x) == IF x < 0 THEN -x ELSE x

(* The accumulators of the loops: the sum of the first i amounts of s, and *)
(* those of the first i elements of s that are in T, in their order, each  *)
(* as often as it occurs.                                                  *)
Upto(s, i) ==
  LET sum[j \in 0 .. Len(s)] == IF j = 0 THEN 0 ELSE sum[j - 1] + s[j]
  IN  sum[i]

Tally(s) == Upto(s, Len(s))

Among(s, T, i) ==
  LET found[j \in 0 .. Len(s)] ==
        IF j = 0 THEN <<>>
        ELSE IF s[j] \in T THEN Append(found[j - 1], s[j]) ELSE found[j - 1]
  IN  found[i]

(* The listed meters in surplus and in deficit. *)
InSurplus(w) == {m \in DOMAIN w.net : w.net[m] > 0}

InDeficit(w) == {m \in DOMAIN w.net : w.net[m] < 0}

Exporters(w) == Among(w.ids, InSurplus(w), Len(w.ids))

Importers(w) == Among(w.ids, InDeficit(w), Len(w.ids))

TwoSided(w) == Exporters(w) # <<>> /\ Importers(w) # <<>>

(* Mutant: a share is rounded up. *)
ShareRoundedUp(wh, traded, total) == (wh * traded + total - 1) \div total

(* The share of `traded` that falls to wh out of `total`, rounded down.    *)
Share(wh, traded, total) == (wh * traded) \div total

(* All the amounts of a two-sided window: what every consumer pays and     *)
(* every producer nets, by index.                                          *)
Clearing(w) ==
  LET wh(s)   == [i \in DOMAIN s |-> Size(w.net[s[i]])]
      prod_wh == wh(Exporters(w))
      cons_wh == wh(Importers(w))
      traded  == Lower(Tally(prod_wh), Tally(cons_wh))
      drawn   == [i \in DOMAIN cons_wh |-> Share(cons_wh[i], traded, Tally(cons_wh))]
      pay     == [i \in DOMAIN cons_wh |-> (drawn[i] * w.price) \div WhPerKwh]
      paid    == Tally(pay)
      pool    == paid - (paid * w.fee_bps) \div BPS
      matched == [j \in DOMAIN prod_wh |-> Share(prod_wh[j], traded, Tally(prod_wh))]
      net     == [j \in DOMAIN prod_wh |->
                    IF Tally(matched) > 0
                      THEN (pool * matched[j]) \div Tally(matched) ELSE 0]
  IN  [prod_wh |-> prod_wh, cons_wh |-> cons_wh, traded_wh |-> traded,
       drawn |-> drawn, pay |-> pay, total_paid |-> paid, pool |-> pool,
       matched |-> matched, net |-> net, total_net |-> Tally(net)]

(* No i128 operation of the computation of c overflows: sums of            *)
(* nonnegative amounts fit when their total does, and every product is     *)
(* listed.                                                                 *)
Fits(w, c) ==
  LET most(s) == {s[i] : i \in DOMAIN s}
  IN  \A x \in {Tally(c.prod_wh), Tally(c.cons_wh), c.total_paid, c.total_paid * w.fee_bps}
               \cup {wh * c.traded_wh : wh \in most(c.prod_wh) \cup most(c.cons_wh)}
               \cup {m * w.price : m \in most(c.drawn)}
               \cup {c.pool * m : m \in most(c.matched)} : x <= I128Max

(* The transfers of the swap.  Lay the consumers' payments end to end from *)
(* 0 to total_paid, and the producers' nets end to end from 0 to           *)
(* total_net: every stretch between two neighbouring end points is one     *)
(* transfer, from the consumer whose payment covers it to the producer     *)
(* whose net covers it, and to the admin beyond total_net.                 *)
Cuts(pay, net) == {0} \cup {Upto(pay, i) : i \in DOMAIN pay} \cup {Upto(net, j) : j \in DOMAIN net}

Below(cuts, x) == {y \in cuts : y < x}

Cut(cuts, n) == CHOOSE x \in cuts : Cardinality(Below(cuts, x)) = n

Covering(s, x) == CHOOSE i \in DOMAIN s : Upto(s, i - 1) < x /\ x <= Upto(s, i)

Legs(w, c) ==
  LET cuts == Cuts(c.pay, c.net)
  IN  [n \in 1 .. Cardinality(cuts) - 1 |->
        LET till == Cut(cuts, n)
        IN  [from   |-> w.owner[Importers(w)[Covering(c.pay, till)]],
             to     |-> IF till <= c.total_net
                          THEN w.owner[Exporters(w)[Covering(c.net, till)]] ELSE Admin,
             amount |-> till - Cut(cuts, n - 1)]]

(* The token's transfer_from with the contract as spender: it needs the    *)
(* allowance and the balance, and a failed one traps the invocation.       *)
CanMove(purse, leg) ==
  /\ purse.allow[leg.from] >= leg.amount
  /\ purse.bal[leg.from] >= leg.amount

TransferFrom(purse, leg) ==
  IF purse.ok /\ CanMove(purse, leg)
    THEN [ok    |-> TRUE,
          allow |-> [purse.allow EXCEPT ![leg.from] = @ - leg.amount],
          bal   |-> [[purse.bal EXCEPT ![leg.from] = @ - leg.amount]
                       EXCEPT ![leg.to] = @ + leg.amount]]
    ELSE [ok |-> FALSE, allow |-> purse.allow, bal |-> purse.bal]

(* The purse after the first n legs. *)
Transferred(purse, legs, n) ==
  LET after[j \in 0 .. Len(legs)] ==
        IF j = 0 THEN purse ELSE TransferFrom(after[j - 1], legs[j])
  IN  after[n]

Swap(purse, w, c) == Transferred(purse, Legs(w, c), Len(Legs(w, c)))

=============================================================================
