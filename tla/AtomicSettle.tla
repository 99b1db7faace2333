----------------------------- MODULE AtomicSettle -----------------------------
(***************************************************************************)
(* What a caller of `settle` may rely on: the call is one step.  Either it *)
(* fails and the ledger is as it was, or every consumer has paid its share *)
(* of the traded energy, every producer has its part of the pool, the      *)
(* admin has the rest, and the listed positions are gone.                  *)
(***************************************************************************)
EXTENDS Settlement

CONSTANTS MeterIds, Windows, Wallets

VARIABLES w, net, bal, allow, payments, report, outcome

vars == <<w, net, bal, allow, payments, report, outcome>>

NoReport == [traded_wh |-> 0, producers |-> 0, consumers |-> 0, paid_out |-> 0, fee |-> 0]

Init ==
  /\ w \in Windows /\ net = w.net
  /\ \E wallet \in Wallets : bal = wallet.bal /\ allow = wallet.allow
  /\ payments = <<>> /\ report = NoReport
  /\ outcome = "pending"

Registered == ToSet(w.ids) \subseteq DOMAIN w.owner

Swapped(c) == Swap([ok |-> TRUE, bal |-> bal, allow |-> allow], w, c)

Settle ==
  /\ outcome = "pending" /\ outcome' = "done"
  /\ Registered /\ TwoSided(w)
  /\ net' = [m \in MeterIds |-> IF m \in ToSet(w.ids) THEN 0 ELSE net[m]]
  /\ \E c \in {Clearing(w)} :
       /\ Fits(w, c)
       /\ \E purse \in {Swapped(c)} :
            purse.ok /\ bal' = purse.bal /\ allow' = purse.allow
       /\ payments' = Legs(w, c)
       /\ report' = [traded_wh |-> c.traded_wh,
                     producers |-> Len(c.prod_wh), consumers |-> Len(c.cons_wh),
                     paid_out |-> c.total_net, fee |-> c.total_paid - c.total_net]
  /\ UNCHANGED w

(* The sums are taken before the sides are looked at, and up to the first  *)
(* unknown id, so an overflow of theirs may come first.                    *)
Sums ==
  LET most(s) == Tally([i \in DOMAIN s |-> Size(w.net[s[i]])])
  IN  {most(Exporters(w)), most(Importers(w))}

Fail(why) ==
  /\ outcome = "pending" /\ outcome' = why
  /\ UNCHANGED <<w, net, bal, allow, payments, report>>

MeterNotFound == Fail("MeterNotFound") /\ ~Registered

NothingToSettle == Fail("NothingToSettle") /\ Registered /\ ~TwoSided(w)

Trap ==
  /\ Fail("trap")
  /\ \/ \E x \in Sums : x > I128Max
     \/ /\ Registered /\ TwoSided(w)
        /\ \E c \in {Clearing(w)} : ~Fits(w, c) \/ ~Swapped(c).ok

Next == Settle \/ MeterNotFound \/ NothingToSettle \/ Trap

Spec == Init /\ [][Next]_vars

=============================================================================
