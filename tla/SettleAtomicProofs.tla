-------------------------- MODULE SettleAtomicProofs --------------------------
(***************************************************************************)
(* `settle::run`, loop by loop, implements the one step of AtomicSettle:   *)
(* for every window and every wallet, a run that returns has left exactly  *)
(* the balances, allowances, events and report of the closed form, and one *)
(* that fails fails where the closed form says it may and changes nothing. *)
(***************************************************************************)
EXTENDS SettleRunProofs

Active == {"classify", "pay", "match", "net", "swap", "remainder", "rest"}

Swapping == {"swap", "remainder", "rest"}

(* How far the list has been sorted. *)
Seen == IF pc = "classify" THEN k - 1 ELSE Len(w.ids)

(* The parties found so far are the first of the closed form, and so are   *)
(* the sums.                                                               *)
SideOf(parties, sum, found, sizes) ==
  /\ Len(parties) <= Len(found)
  /\ \A i \in DOMAIN parties :
       parties[i].owner = w.owner[found[i]] /\ parties[i].wh = sizes[i]
  /\ sum = Upto(sizes, Len(parties)) /\ sum <= I128Max

Sorted ==
  pc \in Active =>
    /\ Seen \in 0 .. Len(w.ids)
    /\ \A i \in 1 .. Seen : w.ids[i] \in DOMAIN w.owner
    /\ Len(prods) = Len(Among(w.ids, InSurplus(w), Seen))
    /\ Len(cons) = Len(Among(w.ids, InDeficit(w), Seen))
    /\ SideOf(prods, total_surplus, Exporters(w), Clearing(w).prod_wh)
    /\ SideOf(cons, total_deficit, Importers(w), Clearing(w).cons_wh)

(* The amounts computed so far are those of the closed form, and all of    *)
(* them fit.                                                               *)
Computed ==
  LET c == Clearing(w)
  IN  /\ \A i \in DOMAIN cons_pay :
           /\ cons_pay[i] = c.pay[i] /\ paid[i] = Upto(c.pay, i)
           /\ paid[i] <= I128Max
           /\ c.cons_wh[i] * c.traded_wh <= I128Max
           /\ c.drawn[i] * w.price <= I128Max
      /\ \A j \in DOMAIN matched :
           /\ matched[j] = Upto(c.matched, j)
           /\ c.prod_wh[j] * c.traded_wh <= I128Max
      /\ \A j \in DOMAIN prod_net :
           /\ prod_net[j] = c.net[j] /\ netted[j] = Upto(c.net, j)
           /\ Tally(c.matched) > 0 => c.pool * c.matched[j] <= I128Max
      /\ pc \in Active \ {"classify", "pay"} => c.total_paid * w.fee_bps <= I128Max

(* Where the swap stands on the line from 0 to total_paid. *)
Moved == MovedBy(paid, charged, ci)

Start == [ok |-> TRUE, bal |-> bal, allow |-> allow]

(* At the cut m, purse p and events e are those of the legs before it.     *)
LaidTo(m, p, e) ==
  LET legs == Legs(w, Clearing(w))
  IN  /\ m \in CutsOf(w) /\ Len(e) = Cardinality(Below(CutsOf(w), m))
      /\ \A i \in 1 .. Len(e) : e[i] = legs[i]
      /\ p = Transferred(Start, legs, Len(e))

(* The swap stands at a cut, and has made the transfers that lead to it.   *)
Laid ==
  /\ pc \in Active \ Swapping => events = <<>> /\ purse = Start
  /\ pc \in Swapping => LaidTo(Moved, purse, events)

AInv == IInv /\ Sorted /\ Computed /\ Laid

-----------------------------------------------------------------------------
(* What the run has computed, in terms of the closed form. *)

LEMMA SoundWindow ==
  ASSUME TypeOK
  PROVE  Sound(w, MeterIds)
<1>1. w \in WindowType
  BY DEF TypeOK
<1>2. w.ids \in Seq(MeterIds) /\ w.net \in [MeterIds -> Int]
  BY <1>1 DEF WindowType
<1>3. w.price \in Nat /\ w.fee_bps \in Nat /\ w.fee_bps <= BPS
  BY <1>1, WindowFields
<1> QED
  BY <1>2, <1>3 DEF Sound

LEMMA RunningTotals ==
  ASSUME NEW s \in Seq(Nat), NEW sums \in Seq(Nat), Len(sums) <= Len(s),
         \A i \in DOMAIN sums : sums[i] = Upto(s, i)
  PROVE  /\ Latest(sums) = Upto(s, Len(sums))
         /\ \A i \in 1 .. Len(sums) + 1 : Before(sums, i) = Upto(s, i - 1)
<1>1. Upto(s, 0) = 0
  BY UptoFacts
<1>2. Latest(sums) = Upto(s, Len(sums))
  <2>1. CASE sums = <<>>
    BY <1>1, <2>1 DEF Latest
  <2>2. CASE sums # <<>>
    <3>1. Len(sums) \in DOMAIN sums
      BY <2>2
    <3> QED
      BY <2>2, <3>1 DEF Latest
  <2> QED
    BY <2>1, <2>2
<1>3. ASSUME NEW i \in 1 .. Len(sums) + 1 PROVE Before(sums, i) = Upto(s, i - 1)
  <2>1. CASE i = 1
    BY <1>1, <2>1 DEF Before
  <2>2. CASE i # 1
    <3>1. i - 1 \in DOMAIN sums
      BY <2>2
    <3> QED
      BY <2>2, <3>1 DEF Before
  <2> QED
    BY <2>1, <2>2
<1> QED
  BY <1>2, <1>3

(* The types of the closed form. *)
LEMMA ClosedTypes ==
  ASSUME AInv
  PROVE  LET c == Clearing(w)
         IN  /\ c.prod_wh \in Seq(Nat) /\ Len(c.prod_wh) = Len(Exporters(w))
             /\ c.cons_wh \in Seq(Nat) /\ Len(c.cons_wh) = Len(Importers(w))
             /\ Exporters(w) \in Seq(MeterIds) /\ Importers(w) \in Seq(MeterIds)
             /\ c.traded_wh \in Nat
             /\ c.drawn \in Seq(Nat) /\ Len(c.drawn) = Len(Importers(w))
             /\ c.pay \in Seq(Nat) /\ Len(c.pay) = Len(Importers(w))
             /\ c.total_paid \in Nat /\ c.total_paid = Tally(c.pay)
             /\ c.pool \in Nat /\ c.pool <= c.total_paid
             /\ c.matched \in Seq(Nat) /\ Len(c.matched) = Len(Exporters(w))
             /\ c.net \in Seq(Nat) /\ Len(c.net) = Len(Exporters(w))
             /\ c.total_net \in Nat /\ c.total_net = Tally(c.net)
             /\ c.total_net <= c.pool
             /\ Tally(c.matched) <= c.traded_wh
<1>1. Sound(w, MeterIds)
  BY SoundWindow DEF AInv, IInv
<1>2. Exporters(w) \in Seq(MeterIds) /\ Importers(w) \in Seq(MeterIds)
  BY <1>1, SidesFacts
<1>3. /\ Clearing(w).total_paid = Tally(Clearing(w).pay)
      /\ Clearing(w).total_net = Tally(Clearing(w).net)
  BY ClearingFields
<1>4. /\ Clearing(w).total_net <= Clearing(w).pool
      /\ Tally(Clearing(w).matched) <= Clearing(w).traded_wh
  BY <1>1, ClearingTotals
<1> QED
  BY <1>1, <1>2, <1>3, <1>4, ClearingTypes

(* Once the list is sorted. *)
LEMMA ClosedSides ==
  ASSUME AInv, pc \in Active, Seen = Len(w.ids)
  PROVE  LET c == Clearing(w)
         IN  /\ Len(prods) = Len(Exporters(w)) /\ Len(cons) = Len(Importers(w))
             /\ DOMAIN prods = 1 .. Len(Exporters(w)) /\ DOMAIN cons = 1 .. Len(Importers(w))
             /\ total_surplus = Tally(c.prod_wh) /\ total_deficit = Tally(c.cons_wh)
             /\ total_surplus <= I128Max /\ total_deficit <= I128Max
             /\ Traded = c.traded_wh
             /\ \A i \in DOMAIN cons :
                  /\ cons[i].wh = c.cons_wh[i] /\ cons[i].owner = w.owner[Importers(w)[i]]
                  /\ Drawn(i) = c.drawn[i] /\ Due(i) = c.pay[i]
             /\ \A j \in DOMAIN prods :
                  /\ prods[j].wh = c.prod_wh[j] /\ prods[j].owner = w.owner[Exporters(w)[j]]
                  /\ Matched(j) = c.matched[j]
<1> DEFINE c == Clearing(w)
<1>1. /\ c.prod_wh \in Seq(Nat) /\ Len(c.prod_wh) = Len(Exporters(w))
      /\ c.cons_wh \in Seq(Nat) /\ Len(c.cons_wh) = Len(Importers(w))
  BY ClosedTypes
<1>2. /\ c.traded_wh = Lower(Tally(c.prod_wh), Tally(c.cons_wh))
      /\ \A i \in DOMAIN c.cons_wh :
           /\ c.drawn[i] = Share(c.cons_wh[i], c.traded_wh, Tally(c.cons_wh))
           /\ c.pay[i] = (c.drawn[i] * w.price) \div WhPerKwh
      /\ \A j \in DOMAIN c.prod_wh :
           c.matched[j] = Share(c.prod_wh[j], c.traded_wh, Tally(c.prod_wh))
  BY ClearingFields
<1> HIDE DEF c
<1>3. /\ Len(prods) = Len(Exporters(w)) /\ Len(cons) = Len(Importers(w))
      /\ SideOf(prods, total_surplus, Exporters(w), c.prod_wh)
      /\ SideOf(cons, total_deficit, Importers(w), c.cons_wh)
  BY DEF AInv, Sorted, Exporters, Importers, c
<1>4. prods \in Seq(PartyType) /\ cons \in Seq(PartyType)
  BY DEF AInv, IInv, TypeOK
<1>5. /\ DOMAIN prods = 1 .. Len(Exporters(w)) /\ DOMAIN cons = 1 .. Len(Importers(w))
      /\ DOMAIN prods = DOMAIN c.prod_wh /\ DOMAIN cons = DOMAIN c.cons_wh
  BY <1>1, <1>3, <1>4
<1>6. total_surplus = Tally(c.prod_wh) /\ total_deficit = Tally(c.cons_wh)
  BY <1>1, <1>3 DEF SideOf, Tally
<1>7. Traded = c.traded_wh
  BY <1>2, <1>6 DEF Traded
<1>8. ASSUME NEW i \in DOMAIN cons
      PROVE  /\ cons[i].wh = c.cons_wh[i] /\ cons[i].owner = w.owner[Importers(w)[i]]
             /\ Drawn(i) = c.drawn[i] /\ Due(i) = c.pay[i]
  <2>1. cons[i].wh = c.cons_wh[i] /\ cons[i].owner = w.owner[Importers(w)[i]]
    BY <1>3 DEF SideOf
  <2>2. Drawn(i) = c.drawn[i]
    BY <1>2, <1>5, <1>6, <1>7, <2>1 DEF Drawn
  <2>3. Due(i) = c.pay[i]
    BY <1>2, <1>5, <2>2 DEF Due
  <2> QED
    BY <2>1, <2>2, <2>3
<1>9. ASSUME NEW j \in DOMAIN prods
      PROVE  /\ prods[j].wh = c.prod_wh[j] /\ prods[j].owner = w.owner[Exporters(w)[j]]
             /\ Matched(j) = c.matched[j]
  <2>1. prods[j].wh = c.prod_wh[j] /\ prods[j].owner = w.owner[Exporters(w)[j]]
    BY <1>3 DEF SideOf
  <2>2. Matched(j) = c.matched[j]
    BY <1>2, <1>5, <1>6, <1>7, <2>1 DEF Matched
  <2> QED
    BY <2>1, <2>2
<1>10. total_surplus <= I128Max /\ total_deficit <= I128Max
  BY <1>3 DEF SideOf
<1> QED
  BY <1>3, <1>5, <1>6, <1>7, <1>8, <1>9, <1>10 DEF c

LEMMA SeenAll ==
  ASSUME AInv, pc \in Active \ {"classify"}
  PROVE  pc \in Active /\ Seen = Len(w.ids)
  BY DEF Seen

(* While the consumers' payments are added up, and after. *)
LEMMA ClosedPaid ==
  ASSUME AInv, pc \in Active \ {"classify"}
  PROVE  LET c == Clearing(w)
         IN  /\ cons_pay \in Seq(Nat) /\ paid \in Seq(Nat)
             /\ Len(paid) = Len(cons_pay) /\ Len(cons_pay) <= Len(c.pay)
             /\ TotalPaid = Upto(c.pay, Len(cons_pay))
             /\ \A i \in 1 .. Len(cons_pay) + 1 : Before(paid, i) = Upto(c.pay, i - 1)
<1> DEFINE pay == Clearing(w).pay
<1>1. pay \in Seq(Nat) /\ Len(pay) = Len(cons)
  BY SeenAll, ClosedTypes, ClosedSides
<1>2. cons_pay \in Seq(Nat) /\ paid \in Seq(Nat) /\ Len(paid) = Len(cons_pay) /\ k \in Nat
  BY Sequences DEF AInv
<1>3. Len(cons_pay) <= Len(cons)
  <2>1. CASE pc = "pay"
    <3>1. Len(cons_pay) = k - 1 /\ k <= Len(cons) + 1
      BY <2>1 DEF AInv, IInv, Loops
    <3> QED
      BY <1>1, <1>2, <3>1
  <2>2. CASE pc \in Active \ {"classify", "pay"}
    <3>1. Len(cons_pay) = Len(cons)
      BY <2>2 DEF AInv, IInv, Loops, Active
    <3> QED
      BY <1>1, <3>1
  <2> QED
    BY <2>1, <2>2
<1>4. \A i \in DOMAIN paid : paid[i] = Upto(pay, i)
  <2>1. DOMAIN paid = DOMAIN cons_pay
    BY <1>2
  <2> QED
    BY <2>1 DEF AInv, Computed
<1> HIDE DEF pay
<1>5. /\ Latest(paid) = Upto(pay, Len(paid))
      /\ \A i \in 1 .. Len(paid) + 1 : Before(paid, i) = Upto(pay, i - 1)
  BY <1>1, <1>2, <1>3, <1>4, RunningTotals
<1> QED
  BY <1>1, <1>2, <1>3, <1>5 DEF TotalPaid, pay

LEMMA ClosedPool ==
  ASSUME AInv, pc \in Active \ {"classify", "pay"}
  PROVE  LET c == Clearing(w)
         IN  cons_pay = c.pay /\ TotalPaid = c.total_paid /\ Pool = c.pool
<1> DEFINE c == Clearing(w)
<1>1. c.pay \in Seq(Nat) /\ Len(c.pay) = Len(cons) /\ c.total_paid = Tally(c.pay)
  BY SeenAll, ClosedTypes, ClosedSides
<1>2. cons_pay \in Seq(Nat) /\ TotalPaid = Upto(c.pay, Len(cons_pay))
  BY ClosedPaid
<1>3. Len(cons_pay) = Len(cons)
  BY DEF AInv, IInv, Loops, Active
<1>4. \A i \in DOMAIN cons_pay : cons_pay[i] = c.pay[i]
  BY DEF AInv, Computed
<1>5. c.pool = c.total_paid - (c.total_paid * w.fee_bps) \div BPS
  BY ClearingFields
<1> HIDE DEF c
<1>6. cons_pay = c.pay
  BY <1>1, <1>2, <1>3, <1>4, SameSequence
<1>7. TotalPaid = c.total_paid
  BY <1>1, <1>2, <1>3 DEF Tally
<1>8. Pool = c.pool
  BY <1>5, <1>7 DEF Pool
<1> QED
  BY <1>6, <1>7, <1>8 DEF c

LEMMA ClosedMatched ==
  ASSUME AInv, pc \in Active \ {"classify", "pay"}
  PROVE  LET c == Clearing(w)
         IN  /\ matched \in Seq(Nat) /\ Len(matched) <= Len(c.matched)
             /\ MatchedTotal = Upto(c.matched, Len(matched))
             /\ pc # "match" => MatchedTotal = Tally(c.matched) /\ Len(matched) = Len(prods)
<1> DEFINE s == Clearing(w).matched
<1>1. s \in Seq(Nat) /\ Len(s) = Len(prods)
  BY SeenAll, ClosedTypes, ClosedSides
<1>2. matched \in Seq(Nat) /\ k \in Nat
  BY Sequences DEF AInv
<1>3. Len(matched) <= Len(prods) /\ (pc # "match" => Len(matched) = Len(prods))
  <2>1. CASE pc = "match"
    <3>1. Len(matched) = k - 1 /\ k <= Len(prods) + 1
      BY <2>1 DEF AInv, IInv, Loops
    <3> QED
      BY <1>1, <1>2, <2>1, <3>1
  <2>2. CASE pc # "match"
    <3>1. Len(matched) = Len(prods)
      BY <2>2 DEF AInv, IInv, Loops, Active
    <3> QED
      BY <1>1, <3>1
  <2> QED
    BY <2>1, <2>2
<1>4. \A j \in DOMAIN matched : matched[j] = Upto(s, j)
  BY DEF AInv, Computed
<1> HIDE DEF s
<1>5. Latest(matched) = Upto(s, Len(matched))
  BY <1>1, <1>2, <1>3, <1>4, RunningTotals
<1> QED
  BY <1>1, <1>2, <1>3, <1>5 DEF MatchedTotal, Tally, s

LEMMA ClosedNet ==
  ASSUME AInv, pc \in Swapping \cup {"net"}
  PROVE  LET c == Clearing(w)
         IN  /\ \A j \in DOMAIN prods : Payout(j) = c.net[j]
             /\ prod_net \in Seq(Nat) /\ netted \in Seq(Nat) /\ Len(netted) = Len(prod_net)
             /\ Len(netted) <= Len(c.net)
             /\ TotalNet = Upto(c.net, Len(netted))
             /\ \A j \in 1 .. Len(netted) + 1 : Before(netted, j) = Upto(c.net, j - 1)
             /\ pc \in Swapping =>
                  Len(netted) = Len(prods) /\ prod_net = c.net /\ TotalNet = c.total_net
<1> DEFINE c == Clearing(w)
<1>0. pc \in Active \ {"classify", "pay"} /\ pc # "match"
  BY DEF Active, Swapping
<1>1. /\ c.net \in Seq(Nat) /\ Len(c.net) = Len(prods) /\ c.total_net = Tally(c.net)
      /\ c.prod_wh \in Seq(Nat) /\ Len(c.prod_wh) = Len(prods)
  BY <1>0, SeenAll, ClosedTypes, ClosedSides
<1>2. /\ prod_net \in Seq(Nat) /\ netted \in Seq(Nat) /\ Len(netted) = Len(prod_net) /\ k \in Nat
      /\ prods \in Seq(PartyType)
  BY Sequences DEF AInv
<1>3. \A j \in DOMAIN prods : Payout(j) = c.net[j]
  <2>1. /\ MatchedTotal = Tally(c.matched) /\ Pool = c.pool
        /\ \A j \in DOMAIN prods : Matched(j) = c.matched[j]
    BY <1>0, SeenAll, ClosedPool, ClosedMatched, ClosedSides
  <2>2. \A j \in DOMAIN c.prod_wh :
           /\ Tally(c.matched) > 0 => c.net[j] = (c.pool * c.matched[j]) \div Tally(c.matched)
           /\ ~(Tally(c.matched) > 0) => c.net[j] = 0
    BY ClearingFields
  <2>3. DOMAIN c.prod_wh = DOMAIN prods
    BY <1>1, <1>2
  <2> HIDE DEF c
  <2> QED
    BY <2>1, <2>2, <2>3 DEF Payout
<1>4. Len(netted) <= Len(prods) /\ (pc \in Swapping => Len(netted) = Len(prods))
  <2>1. CASE pc = "net"
    <3>1. Len(prod_net) = k - 1 /\ k <= Len(prods) + 1
      BY <2>1 DEF AInv, IInv, Loops
    <3> QED
      BY <1>1, <1>2, <2>1, <3>1 DEF Swapping
  <2>2. CASE pc \in Swapping
    <3>1. Len(prod_net) = Len(prods)
      BY <2>2 DEF AInv, IInv, Loops, Swapping
    <3> QED
      BY <1>1, <1>2, <3>1
  <2> QED
    BY <2>1, <2>2
<1>5. /\ \A j \in DOMAIN prod_net : prod_net[j] = c.net[j]
      /\ \A j \in DOMAIN netted : netted[j] = Upto(c.net, j)
  <2>1. DOMAIN netted = DOMAIN prod_net
    BY <1>2
  <2> QED
    BY <2>1 DEF AInv, Computed
<1> HIDE DEF c
<1>6. /\ Latest(netted) = Upto(c.net, Len(netted))
      /\ \A j \in 1 .. Len(netted) + 1 : Before(netted, j) = Upto(c.net, j - 1)
  <2> DEFINE s == c.net
  <2>1. s \in Seq(Nat) /\ Len(netted) <= Len(s) /\ \A j \in DOMAIN netted : netted[j] = Upto(s, j)
    BY <1>1, <1>4, <1>5
  <2> HIDE DEF s
  <2>2. /\ Latest(netted) = Upto(s, Len(netted))
        /\ \A j \in 1 .. Len(netted) + 1 : Before(netted, j) = Upto(s, j - 1)
    BY <1>2, <2>1, RunningTotals
  <2> QED
    BY <2>2 DEF s
<1>7. ASSUME pc \in Swapping
      PROVE  Len(netted) = Len(prods) /\ prod_net = c.net /\ TotalNet = c.total_net
  <2>1. Len(prod_net) = Len(c.net)
    BY <1>1, <1>2, <1>4, <1>7
  <2>2. prod_net = c.net
    BY <1>1, <1>2, <1>5, <2>1, SameSequence
  <2>3. TotalNet = c.total_net
    BY <1>1, <1>2, <1>6, <2>1 DEF Tally, TotalNet
  <2> QED
    BY <1>4, <1>7, <2>2, <2>3
<1> QED
  BY <1>1, <1>2, <1>3, <1>4, <1>6, <1>7 DEF c, TotalNet


-----------------------------------------------------------------------------
(* The steps before the swap. *)

(* What stays true while nothing is sorted, computed or moved. *)
LEMMA SortedKept ==
  ASSUME AInv, pc \in Active \ {"classify"}, UNCHANGED <<w, positions>>,
         pc' # "classify"
  PROVE  Sorted'
<1>1. /\ w' = w /\ prods' = prods /\ cons' = cons
      /\ total_surplus' = total_surplus /\ total_deficit' = total_deficit
  BY DEF positions
<1>2. Seen = Len(w.ids) /\ Seen' = Len(w.ids)
  BY <1>1 DEF Seen
<1>3. /\ Seen \in 0 .. Len(w.ids)
      /\ \A i \in 1 .. Seen : w.ids[i] \in DOMAIN w.owner
      /\ Len(prods) = Len(Among(w.ids, InSurplus(w), Seen))
      /\ Len(cons) = Len(Among(w.ids, InDeficit(w), Seen))
      /\ SideOf(prods, total_surplus, Exporters(w), Clearing(w).prod_wh)
      /\ SideOf(cons, total_deficit, Importers(w), Clearing(w).cons_wh)
  BY DEF AInv, Sorted
<1>4. /\ SideOf(prods, total_surplus, Exporters(w), Clearing(w).prod_wh)'
      /\ SideOf(cons, total_deficit, Importers(w), Clearing(w).cons_wh)'
  BY <1>1, <1>3 DEF SideOf
<1> QED
  BY <1>1, <1>2, <1>3, <1>4 DEF Sorted

LEMMA ComputedKept ==
  ASSUME AInv, UNCHANGED <<w, money>>,
         pc' \in Active \ {"classify", "pay"} =>
           Clearing(w).total_paid * w.fee_bps <= I128Max
  PROVE  Computed'
<1>1. /\ w' = w /\ cons_pay' = cons_pay /\ paid' = paid /\ matched' = matched
      /\ prod_net' = prod_net /\ netted' = netted
  BY DEF money
<1> QED
  BY <1>1 DEF AInv, Computed

LEMMA LaidKept ==
  ASSUME AInv, pc \in Active \ Swapping, pc' \notin Swapping,
         UNCHANGED <<w, ledger, purse, events>>
  PROVE  Laid'
  BY DEF AInv, Laid, ledger, Start

LEMMA InitAtomic == Init => AInv
<1> SUFFICES ASSUME Init PROVE AInv
  OBVIOUS
<1> DEFINE c == Clearing(w)
<1>1. IInv
  BY InitIInv
<1>2. Sound(w, MeterIds)
  BY <1>1, SoundWindow DEF IInv
<1>3. w.ids \in Seq(MeterIds) /\ Len(w.ids) \in Nat
  BY <1>2 DEF Sound
<1>4. pc = "classify" /\ Seen = 0
  BY DEF Init, Seen
<1>5. /\ Among(w.ids, InSurplus(w), 0) = <<>> /\ Among(w.ids, InDeficit(w), 0) = <<>>
  BY <1>3, AmongTyped, Zenon
<1>6. /\ c.prod_wh \in Seq(Nat) /\ Len(c.prod_wh) = Len(Exporters(w))
      /\ c.cons_wh \in Seq(Nat) /\ Len(c.cons_wh) = Len(Importers(w))
  BY <1>2, ClearingTypes
<1> HIDE DEF c
<1>7. Upto(c.prod_wh, 0) = 0 /\ Upto(c.cons_wh, 0) = 0
  BY <1>6, UptoFacts
<1>8. /\ SideOf(prods, total_surplus, Exporters(w), c.prod_wh)
      /\ SideOf(cons, total_deficit, Importers(w), c.cons_wh)
  <2>1. I128Max \in Nat /\ Len(Exporters(w)) \in Nat /\ Len(Importers(w)) \in Nat
    BY <1>6, AdminAssumption
  <2> QED
    BY <1>7, <2>1 DEF SideOf, Init
<1>9. Sorted
  BY <1>3, <1>4, <1>5, <1>8 DEF Sorted, c, Init
<1>10. Computed
  BY <1>4 DEF Computed, Init
<1>11. Laid
  BY <1>4 DEF Laid, Init, Start, Swapping
<1> QED
  BY <1>1, <1>9, <1>10, <1>11 DEF AInv

LEMMA FoundNext ==
  ASSUME NEW s \in Seq(MeterIds), NEW n \in DOMAIN s, NEW T
  PROVE  /\ s[n] \in T => Among(s, T, n) = Append(Among(s, T, n - 1), s[n])
         /\ s[n] \notin T => Among(s, T, n) = Among(s, T, n - 1)
         /\ Among(s, T, n - 1) \in Seq(MeterIds \cap T)
         /\ Among(s, T, Len(s)) \in Seq(MeterIds \cap T)
<1>1. n \in 1 .. Len(s) /\ n - 1 \in 0 .. Len(s) /\ Len(s) \in 0 .. Len(s)
  OBVIOUS
<1>2. \A j \in 1 .. Len(s) :
        /\ s[j] \in T => Among(s, T, j) = Append(Among(s, T, j - 1), s[j])
        /\ s[j] \notin T => Among(s, T, j) = Among(s, T, j - 1)
  BY AmongStep, Zenon
<1>3. \A j \in 0 .. Len(s) : Among(s, T, j) \in Seq(MeterIds \cap T)
  BY AmongTyped, Zenon
<1> QED
  BY <1>1, <1>2, <1>3

(* A side finds its next party at the n-th meter of the list.              *)
NextFound(s, n, T, found, sizes, parties, sum) ==
  /\ s \in Seq(MeterIds) /\ n \in DOMAIN s /\ s[n] \in T
  /\ found = Among(s, T, Len(s))
  /\ sizes \in Seq(Nat) /\ Len(sizes) = Len(found)
  /\ \A i \in DOMAIN sizes : sizes[i] = Size(w.net[found[i]])
  /\ Len(parties) = Len(Among(s, T, n - 1))
  /\ SideOf(parties, sum, found, sizes)

LEMMA SumGrows ==
  ASSUME NEW s, NEW n, NEW T, NEW found, NEW sizes, NEW parties, NEW sum,
         NextFound(s, n, T, found, sizes, parties, sum)
  PROVE  LET m == Len(parties) + 1
         IN  /\ Len(Among(s, T, n)) = m /\ m <= Len(found) /\ m - 1 = Len(parties)
             /\ m \in DOMAIN sizes /\ m \in 1 .. Len(sizes)
             /\ found[m] = s[n] /\ sizes[m] = Size(w.net[s[n]])
             /\ sum + Size(w.net[s[n]]) = Upto(sizes, m)
<1> USE DEF NextFound
<1> DEFINE m == Len(parties) + 1
<1>1. n \in 1 .. Len(s) /\ n - 1 \in 0 .. Len(s) /\ n \in 0 .. Len(s) /\ Len(s) \in 0 .. Len(s)
      /\ n <= Len(s)
  OBVIOUS
<1>2. /\ Among(s, T, n) = Append(Among(s, T, n - 1), s[n])
      /\ Among(s, T, n - 1) \in Seq(MeterIds \cap T) /\ found \in Seq(MeterIds \cap T)
  BY <1>1, FoundNext
<1>3. s[n] \in MeterIds \cap T
  OBVIOUS
<1>4. Len(Among(s, T, n)) = m /\ Among(s, T, n)[m] = s[n] /\ m \in DOMAIN Among(s, T, n)
  BY <1>2, <1>3
<1>5. /\ Len(Among(s, T, n)) <= Len(found)
      /\ \A h \in DOMAIN Among(s, T, n) : found[h] = Among(s, T, n)[h]
  BY <1>1, AmongPrefix
<1>6. m <= Len(found) /\ found[m] = s[n]
  BY <1>4, <1>5
<1>7. m \in 1 .. Len(sizes) /\ m - 1 = Len(parties) /\ m \in DOMAIN sizes
  <2>1. Len(parties) \in Nat /\ Len(found) \in Nat
    BY <1>2
  <2> QED
    BY <1>6, <2>1
<1>8. Upto(sizes, m) = Upto(sizes, m - 1) + sizes[m]
  BY <1>7, UptoFacts
<1>9. sizes[m] = Size(w.net[s[n]])
  BY <1>6, <1>7
<1>10. sum + Size(w.net[s[n]]) = Upto(sizes, m)
  BY <1>7, <1>8, <1>9 DEF SideOf
<1> QED
  BY <1>4, <1>6, <1>7, <1>9, <1>10

NextParty(s, n, T, found, sizes, parties, sum, party, more) ==
  /\ NextFound(s, n, T, found, sizes, parties, sum)
  /\ parties \in Seq(PartyType)
  /\ party \in PartyType /\ party.owner = w.owner[s[n]] /\ party.wh = Size(w.net[s[n]])
  /\ more = sum + party.wh /\ more <= I128Max

LEMMA SideGrows ==
  ASSUME NEW s, NEW n, NEW T, NEW found, NEW sizes, NEW parties, NEW sum, NEW party, NEW more,
         NextParty(s, n, T, found, sizes, parties, sum, party, more)
  PROVE  /\ Len(Append(parties, party)) = Len(Among(s, T, n))
         /\ SideOf(Append(parties, party), more, found, sizes)
<1> DEFINE m == Len(parties) + 1
<1>1. /\ NextFound(s, n, T, found, sizes, parties, sum)
      /\ parties \in Seq(PartyType)
      /\ party \in PartyType /\ party.owner = w.owner[s[n]] /\ party.wh = Size(w.net[s[n]])
      /\ more = sum + party.wh /\ more <= I128Max
  BY DEF NextParty
<1>2. /\ Len(Among(s, T, n)) = m /\ m <= Len(found)
      /\ found[m] = s[n] /\ sizes[m] = party.wh /\ more = Upto(sizes, m)
  BY <1>1, SumGrows
<1>3. /\ Len(Append(parties, party)) = m
      /\ \A i \in DOMAIN parties : Append(parties, party)[i] = parties[i]
      /\ Append(parties, party)[m] = party
      /\ \A i \in DOMAIN Append(parties, party) : i \in DOMAIN parties \/ i = m
  BY <1>1, Appended
<1>4. SideOf(parties, sum, found, sizes)
  BY <1>1 DEF NextFound
<1>5. ASSUME NEW i \in DOMAIN Append(parties, party)
      PROVE  /\ Append(parties, party)[i].owner = w.owner[found[i]]
             /\ Append(parties, party)[i].wh = sizes[i]
  <2>1. CASE i \in DOMAIN parties
    BY <1>3, <1>4, <2>1 DEF SideOf
  <2>2. CASE i = m
    BY <1>1, <1>2, <1>3, <2>2
  <2> QED
    BY <1>3, <2>1, <2>2
<1> HIDE DEF m
<1>6. SideOf(Append(parties, party), more, found, sizes)
  BY <1>1, <1>2, <1>3, <1>5 DEF SideOf
<1> QED
  BY <1>2, <1>3, <1>6

LEMMA ClassifySorted ==
  ASSUME AInv, Classify
  PROVE  Sorted'
<1> DEFINE ids == w.ids
           wh == w.net[ids[k]]
           party == [owner |-> w.owner[ids[k]], wh |-> Size(wh)]
           c == Clearing(w)
           Ex == InSurplus(w)
           Im == InDeficit(w)
<1>1. Sound(w, MeterIds) /\ TypeOK
  BY SoundWindow DEF AInv, IInv
<1>2. /\ ids \in Seq(MeterIds) /\ k \in DOMAIN ids /\ ids[k] \in MeterIds
      /\ k \in 1 .. Len(ids) /\ Len(ids) \in Nat
      /\ w.net \in [MeterIds -> Int] /\ wh \in Int
  <2>1. ids \in Seq(MeterIds) /\ w.net \in [MeterIds -> Int] /\ k \in DOMAIN ids
    BY <1>1 DEF Sound, Classify
  <2>2. ids[k] \in MeterIds /\ k \in 1 .. Len(ids) /\ Len(ids) \in Nat
    BY <2>1, ElementIn
  <2> QED
    BY <2>1, <2>2
<1>3. /\ wh > 0 <=> ids[k] \in Ex
      /\ wh < 0 <=> ids[k] \in Im
  BY <1>2 DEF InSurplus, InDeficit
<1>4. /\ ids[k] \in DOMAIN w.owner /\ pc = "classify" /\ pc' = pc /\ w' = w /\ k' = k + 1
      /\ prods' = IF wh > 0 THEN Append(prods, party) ELSE prods
      /\ cons' = IF wh < 0 THEN Append(cons, party) ELSE cons
      /\ total_surplus' = IF wh > 0 THEN total_surplus + wh ELSE total_surplus
      /\ total_deficit' = IF wh < 0 THEN total_deficit - wh ELSE total_deficit
  BY DEF Classify
<1>5. (IF wh > 0 THEN total_surplus ELSE total_deficit) + Size(wh) <= I128Max
  <2>1. InRange /\ pc = "classify" /\ k \in DOMAIN w.ids
    BY DEF Classify
  <2>2. Results = {(IF wh > 0 THEN total_surplus ELSE total_deficit) + Size(wh)}
    BY <2>1 DEF Results
  <2> HIDE DEF wh
  <2> QED
    BY <2>1, <2>2 DEF InRange
<1>6. Seen = k - 1 /\ Seen' = k /\ k \in Nat \ {0}
  BY <1>2, <1>4 DEF Seen
<1>7. /\ Seen \in 0 .. Len(ids)
      /\ \A i \in 1 .. Seen : ids[i] \in DOMAIN w.owner
      /\ Len(prods) = Len(Among(ids, Ex, k - 1))
      /\ Len(cons) = Len(Among(ids, Im, k - 1))
      /\ SideOf(prods, total_surplus, Exporters(w), c.prod_wh)
      /\ SideOf(cons, total_deficit, Importers(w), c.cons_wh)
  BY <1>4, <1>6 DEF AInv, Sorted, Active
<1>8. /\ c.prod_wh \in Seq(Nat) /\ Len(c.prod_wh) = Len(Exporters(w))
      /\ c.cons_wh \in Seq(Nat) /\ Len(c.cons_wh) = Len(Importers(w))
      /\ \A j \in DOMAIN c.prod_wh : c.prod_wh[j] = Size(w.net[Exporters(w)[j]])
      /\ \A i \in DOMAIN c.cons_wh : c.cons_wh[i] = Size(w.net[Importers(w)[i]])
  BY <1>1, ClearingTypes
<1>9. /\ prods \in Seq(PartyType) /\ cons \in Seq(PartyType)
      /\ total_surplus \in Nat /\ total_deficit \in Nat
  BY <1>1 DEF TypeOK
<1>10. wh # 0 => party \in PartyType
  <2>1. ids[k] \in DOMAIN w.owner => w.owner[ids[k]] \in Accounts
    <3>1. w.owner \in OwnerType
      BY <1>1 DEF TypeOK, WindowType
    <3>2. PICK R \in SUBSET MeterIds : w.owner \in [R -> Accounts]
      BY <3>1 DEF OwnerType
    <3> QED
      BY <3>2
  <2>2. wh # 0 => Size(wh) \in Nat \ {0}
    BY <1>2 DEF Size
  <2> QED
    BY <1>4, <2>1, <2>2 DEF PartyType
<1>11. party.owner = w.owner[ids[k]] /\ party.wh = Size(wh)
  OBVIOUS
<1>12. Exporters(w) = Among(ids, Ex, Len(ids)) /\ Importers(w) = Among(ids, Im, Len(ids))
  BY DEF Exporters, Importers
<1> HIDE DEF party, c, Ex, Im, ids, wh
<1>13. /\ Len(prods') = Len(Among(ids, Ex, k))
       /\ SideOf(prods', total_surplus', Exporters(w), c.prod_wh)
  <2>1. CASE wh > 0
    <3>1. prods' = Append(prods, party) /\ total_surplus' = total_surplus + party.wh
          /\ total_surplus' <= I128Max /\ party \in PartyType /\ ids[k] \in Ex
      BY <1>2, <1>3, <1>4, <1>5, <1>10, <1>11, <2>1 DEF Size
    <3>2. /\ Len(Append(prods, party)) = Len(Among(ids, Ex, k))
          /\ SideOf(Append(prods, party), total_surplus', Exporters(w), c.prod_wh)
      <4> DEFINE found == Exporters(w)
                 sizes == c.prod_wh
                 more  == total_surplus'
      <4>1. /\ found = Among(ids, Ex, Len(ids))
            /\ sizes \in Seq(Nat) /\ Len(sizes) = Len(found)
            /\ \A i \in DOMAIN sizes : sizes[i] = Size(w.net[found[i]])
            /\ SideOf(prods, total_surplus, found, sizes)
        BY <1>7, <1>8, <1>12
      <4>2. more = total_surplus + party.wh /\ more <= I128Max
        BY <3>1
      <4>3. party.owner = w.owner[ids[k]] /\ party.wh = Size(w.net[ids[k]])
        BY <1>11 DEF wh
      <4> HIDE DEF found, sizes, more
      <4>4. /\ Len(Append(prods, party)) = Len(Among(ids, Ex, k))
            /\ SideOf(Append(prods, party), more, found, sizes)
        <5>1. /\ ids \in Seq(MeterIds) /\ k \in DOMAIN ids /\ ids[k] \in Ex
              /\ prods \in Seq(PartyType) /\ party \in PartyType
              /\ Len(prods) = Len(Among(ids, Ex, k - 1))
          BY <1>2, <1>7, <1>9, <3>1
        <5>2. NextParty(ids, k, Ex, found, sizes, prods, total_surplus, party, more)
          BY <4>1, <4>2, <4>3, <5>1 DEF NextParty, NextFound
        <5> QED
          BY <5>2, SideGrows
      <4> QED
        BY <4>4 DEF found, sizes, more
    <3> QED
      BY <3>1, <3>2
  <2>2. CASE ~(wh > 0)
    <3>1. ids[k] \notin Ex
      BY <1>3, <2>2
    <3>2. Among(ids, Ex, k) = Among(ids, Ex, k - 1)
      BY <1>2, <3>1, FoundNext
    <3> QED
      BY <1>4, <1>7, <2>2, <3>2
  <2> QED
    BY <2>1, <2>2
<1>14. /\ Len(cons') = Len(Among(ids, Im, k))
       /\ SideOf(cons', total_deficit', Importers(w), c.cons_wh)
  <2>1. CASE wh < 0
    <3>1. cons' = Append(cons, party) /\ total_deficit' = total_deficit + party.wh
          /\ total_deficit' <= I128Max /\ party \in PartyType /\ ids[k] \in Im
      <4>1. Size(wh) = -wh /\ ~(wh > 0) /\ wh # 0
        BY <1>2, <2>1 DEF Size
      <4>2. total_deficit' = total_deficit - wh /\ total_deficit + Size(wh) <= I128Max
        BY <1>4, <1>5, <2>1, <4>1
      <4>3. total_deficit - wh = total_deficit + Size(wh)
        BY <1>2, <1>9, <4>1
      <4> QED
        BY <1>3, <1>4, <1>10, <1>11, <2>1, <4>1, <4>2, <4>3
    <3>2. /\ Len(Append(cons, party)) = Len(Among(ids, Im, k))
          /\ SideOf(Append(cons, party), total_deficit', Importers(w), c.cons_wh)
      <4> DEFINE found == Importers(w)
                 sizes == c.cons_wh
                 more  == total_deficit'
      <4>1. /\ found = Among(ids, Im, Len(ids))
            /\ sizes \in Seq(Nat) /\ Len(sizes) = Len(found)
            /\ \A i \in DOMAIN sizes : sizes[i] = Size(w.net[found[i]])
            /\ SideOf(cons, total_deficit, found, sizes)
        BY <1>7, <1>8, <1>12
      <4>2. more = total_deficit + party.wh /\ more <= I128Max
        BY <3>1
      <4>3. party.owner = w.owner[ids[k]] /\ party.wh = Size(w.net[ids[k]])
        BY <1>11 DEF wh
      <4> HIDE DEF found, sizes, more
      <4>4. /\ Len(Append(cons, party)) = Len(Among(ids, Im, k))
            /\ SideOf(Append(cons, party), more, found, sizes)
        <5>1. /\ ids \in Seq(MeterIds) /\ k \in DOMAIN ids /\ ids[k] \in Im
              /\ cons \in Seq(PartyType) /\ party \in PartyType
              /\ Len(cons) = Len(Among(ids, Im, k - 1))
          BY <1>2, <1>7, <1>9, <3>1
        <5>2. NextParty(ids, k, Im, found, sizes, cons, total_deficit, party, more)
          BY <4>1, <4>2, <4>3, <5>1 DEF NextParty, NextFound
        <5> QED
          BY <5>2, SideGrows
      <4> QED
        BY <4>4 DEF found, sizes, more
    <3> QED
      BY <3>1, <3>2
  <2>2. CASE ~(wh < 0)
    <3>1. ids[k] \notin Im
      BY <1>3, <2>2
    <3>2. Among(ids, Im, k) = Among(ids, Im, k - 1)
      BY <1>2, <3>1, FoundNext
    <3> QED
      BY <1>4, <1>7, <2>2, <3>2
  <2> QED
    BY <2>1, <2>2
<1>15. \A i \in 1 .. k : ids[i] \in DOMAIN w.owner
  <2> SUFFICES ASSUME NEW i \in 1 .. k PROVE ids[i] \in DOMAIN w.owner
    OBVIOUS
  <2>1. CASE i = k
    BY <1>4, <2>1
  <2>2. CASE i # k
    <3>1. i \in 1 .. Seen
      BY <1>6, <2>2
    <3> QED
      BY <1>7, <3>1
  <2> QED
    BY <2>1, <2>2
<1>16. k \in 0 .. Len(ids)
  BY <1>2
<1>17. /\ SideOf(prods, total_surplus, Exporters(w), Clearing(w).prod_wh)'
       /\ SideOf(cons, total_deficit, Importers(w), Clearing(w).cons_wh)'
  BY <1>4, <1>13, <1>14 DEF SideOf, c
<1>18. /\ Len(prods') = Len(Among(w.ids, InSurplus(w), Seen'))
       /\ Len(cons') = Len(Among(w.ids, InDeficit(w), Seen'))
       /\ Seen' \in 0 .. Len(w.ids)
       /\ \A i \in 1 .. Seen' : w.ids[i] \in DOMAIN w.owner
  BY <1>6, <1>13, <1>14, <1>15, <1>16 DEF ids, Ex, Im
<1> QED
  BY <1>4, <1>17, <1>18 DEF Sorted

LEMMA ClassifyAtomic ==
  ASSUME AInv, Classify
  PROVE  AInv'
<1>1. pc = "classify" /\ pc' = pc /\ UNCHANGED <<w, ledger, money, swap>> /\ Next
  BY DEF Classify, Next
<1>2. Sorted'
  BY ClassifySorted
<1>3. Computed'
  BY <1>1, ComputedKept
<1>4. Laid'
  <2>1. pc \in Active \ Swapping /\ pc' \notin Swapping /\ UNCHANGED <<w, ledger, purse, events>>
    BY <1>1 DEF Active, Swapping, swap
  <2> QED
    BY <2>1, LaidKept
<1> QED
  BY <1>1, <1>2, <1>3, <1>4, NextIInv DEF AInv

(* A step that ends the run before the swap, or the steps that only begin  *)
(* the next loop.                                                          *)
LEMMA EndClassifyAtomic ==
  ASSUME AInv, EndClassify
  PROVE  AInv'
<1>1. /\ pc = "classify" /\ k \notin DOMAIN w.ids /\ pc' \in {"NothingToSettle", "pay"}
      /\ UNCHANGED <<w, ledger, positions, money, swap>> /\ Next
  BY DEF EndClassify, Next
<1>2. Sorted'
  <2>1. /\ w' = w /\ prods' = prods /\ cons' = cons
        /\ total_surplus' = total_surplus /\ total_deficit' = total_deficit
    BY <1>1 DEF positions
  <2>2. /\ Seen \in 0 .. Len(w.ids)
        /\ \A i \in 1 .. Seen : w.ids[i] \in DOMAIN w.owner
        /\ Len(prods) = Len(Among(w.ids, InSurplus(w), Seen))
        /\ Len(cons) = Len(Among(w.ids, InDeficit(w), Seen))
        /\ SideOf(prods, total_surplus, Exporters(w), Clearing(w).prod_wh)
        /\ SideOf(cons, total_deficit, Importers(w), Clearing(w).cons_wh)
    BY <1>1 DEF AInv, Sorted, Active
  <2>3. Seen = k - 1 /\ Seen' = Len(w.ids)
    BY <1>1, <2>1 DEF Seen
  <2>4. w.ids \in Seq(MeterIds) /\ k \in Nat
    BY SoundWindow DEF Sound, AInv, IInv, TypeOK
  <2>5. Seen' = Seen
    BY <1>1, <2>2, <2>3, <2>4
  <2>6. /\ SideOf(prods, total_surplus, Exporters(w), Clearing(w).prod_wh)'
        /\ SideOf(cons, total_deficit, Importers(w), Clearing(w).cons_wh)'
    BY <2>1, <2>2 DEF SideOf
  <2> QED
    BY <2>1, <2>2, <2>5, <2>6 DEF Sorted
<1>3. Computed'
  <2>1. pc' \notin Active \ {"classify", "pay"}
    BY <1>1 DEF Active
  <2> QED
    BY <1>1, <2>1, ComputedKept
<1>4. Laid'
  <2>1. pc \in Active \ Swapping /\ pc' \notin Swapping /\ UNCHANGED <<w, ledger, purse, events>>
    BY <1>1 DEF Active, Swapping, swap
  <2> QED
    BY <2>1, LaidKept
<1> QED
  BY <1>1, <1>2, <1>3, <1>4, NextIInv DEF AInv

(* A run that fails has written nothing. *)
LEMMA FailAtomic ==
  ASSUME AInv, UnknownMeter \/ Trap
  PROVE  AInv'
<1>1. pc' \notin Active /\ UNCHANGED <<w, money>> /\ Next
  BY DEF UnknownMeter, Trap, Next, Active
<1>2. Sorted' /\ Laid'
  BY <1>1 DEF Sorted, Laid, Active, Swapping
<1>3. Computed'
  BY <1>1, ComputedKept
<1> QED
  BY <1>1, <1>2, <1>3, NextIInv DEF AInv

LEMMA PayAtomic ==
  ASSUME AInv, Pay
  PROVE  AInv'
<1> DEFINE c == Clearing(w)
<1>1. /\ pc = "pay" /\ pc' = pc /\ k \in DOMAIN cons /\ InRange
      /\ cons_pay' = Append(cons_pay, Due(k)) /\ paid' = Append(paid, TotalPaid + Due(k))
      /\ UNCHANGED <<w, ledger, positions, matched, prod_net, netted, swap>> /\ Next
  BY DEF Pay, Next
<1>2. pc \in Active \ {"classify"}
  BY <1>1 DEF Active
<1>3. /\ Due(k) = c.pay[k] /\ Drawn(k) = c.drawn[k] /\ Traded = c.traded_wh
      /\ cons[k].wh = c.cons_wh[k] /\ Len(cons) = Len(c.pay) /\ c.pay \in Seq(Nat)
  BY <1>1, <1>2, SeenAll, ClosedSides, ClosedTypes
<1>4. /\ cons_pay \in Seq(Nat) /\ paid \in Seq(Nat) /\ Len(paid) = Len(cons_pay)
      /\ TotalPaid = Upto(c.pay, Len(cons_pay))
  BY <1>2, ClosedPaid
<1> HIDE DEF c
<1>5. Len(cons_pay) + 1 = k /\ Len(cons_pay) = k - 1 /\ k \in Nat \ {0} /\ k \in 1 .. Len(c.pay)
  <2>1. Len(cons_pay) = k - 1 /\ k \in Nat \ {0} /\ cons \in Seq(PartyType)
    BY <1>1 DEF AInv, IInv, Loops, TypeOK
  <2> QED
    BY <1>1, <1>3, <2>1
<1>6. Due(k) \in Nat /\ TotalPaid + Due(k) = Upto(c.pay, k) /\ TotalPaid + Due(k) \in Nat
  <2>1. /\ Upto(c.pay, k) = Upto(c.pay, k - 1) + c.pay[k] /\ Upto(c.pay, k) \in Nat
        /\ c.pay[k] \in Nat
    BY <1>3, <1>5, EndNat
  <2> QED
    BY <1>3, <1>4, <1>5, <2>1
<1>7. /\ cons[k].wh * Traded <= I128Max /\ Drawn(k) * w.price <= I128Max
      /\ TotalPaid + Due(k) <= I128Max
  <2>1. Results = {cons[k].wh * Traded, Drawn(k) * w.price, TotalPaid + Due(k)}
    BY <1>1 DEF Results
  <2> QED
    BY <1>1, <2>1 DEF InRange
<1>8. ASSUME NEW i \in DOMAIN cons_pay'
      PROVE  /\ cons_pay'[i] = c.pay[i] /\ paid'[i] = Upto(c.pay, i)
             /\ paid'[i] <= I128Max
             /\ c.cons_wh[i] * c.traded_wh <= I128Max
             /\ c.drawn[i] * w.price <= I128Max
  <2>1. DOMAIN paid = DOMAIN cons_pay
    BY <1>4
  <2>2. CASE i \in DOMAIN cons_pay
    <3>1. cons_pay'[i] = cons_pay[i] /\ paid'[i] = paid[i]
      BY <1>1, <1>4, <1>6, <2>1, <2>2, Appended
    <3> QED
      BY <2>2, <3>1 DEF AInv, Computed, c
  <2>3. CASE i \notin DOMAIN cons_pay
    <3>1. i = Len(cons_pay) + 1
      BY <1>1, <1>4, <1>6, <2>3, Appended
    <3>2. i = k /\ cons_pay'[k] = Due(k) /\ paid'[k] = TotalPaid + Due(k)
      BY <1>1, <1>4, <1>5, <1>6, <3>1, Appended
    <3> QED
      BY <1>3, <1>6, <1>7, <3>2
  <2> QED
    BY <2>2, <2>3
<1>9. Computed'
  <2>1. w' = w /\ matched' = matched /\ prod_net' = prod_net /\ netted' = netted
    BY <1>1
  <2> QED
    BY <1>1, <1>8, <2>1 DEF AInv, Computed, c
<1>10. Sorted'
  BY <1>1, <1>2, SortedKept
<1>11. Laid'
  BY <1>1, LaidKept DEF Active, Swapping, swap
<1> QED
  BY <1>1, <1>9, <1>10, <1>11, NextIInv DEF AInv

LEMMA EndPayAtomic ==
  ASSUME AInv, EndPay
  PROVE  AInv'
<1>1. /\ pc = "pay" /\ pc' = "match" /\ k \notin DOMAIN cons /\ InRange
      /\ UNCHANGED <<w, ledger, positions, money, swap>> /\ Next
  BY DEF EndPay, Next
<1>2. pc \in Active \ {"classify"}
  BY <1>1 DEF Active
<1>3. Clearing(w).total_paid * w.fee_bps <= I128Max
  <2>1. TotalPaid * w.fee_bps <= I128Max
    <3>1. Results = {TotalPaid * w.fee_bps}
      BY <1>1 DEF Results
    <3> QED
      BY <1>1, <3>1 DEF InRange
  <2>2. TotalPaid = Clearing(w).total_paid
    <3> DEFINE pay == Clearing(w).pay
    <3>1. TotalPaid = Upto(pay, Len(cons_pay)) /\ Clearing(w).total_paid = Tally(pay)
          /\ Len(cons) = Len(pay)
      BY <1>2, ClosedPaid, ClosedTypes, SeenAll, ClosedSides
    <3>2. Len(cons_pay) = Len(cons)
      <4>1. /\ Len(cons_pay) = k - 1 /\ k <= Len(cons) + 1 /\ k \in Nat \ {0}
            /\ cons \in Seq(PartyType)
        BY <1>1 DEF AInv, IInv, Loops, TypeOK
      <4> QED
        BY <1>1, <4>1
    <3> HIDE DEF pay
    <3> QED
      BY <3>1, <3>2 DEF Tally
  <2> QED
    BY <2>1, <2>2
<1>4. Computed'
  BY <1>1, <1>3, ComputedKept
<1>5. Sorted'
  BY <1>1, <1>2, SortedKept
<1>6. Laid'
  BY <1>1, LaidKept DEF Active, Swapping, swap
<1> QED
  BY <1>1, <1>4, <1>5, <1>6, NextIInv DEF AInv

LEMMA MatchAtomic ==
  ASSUME AInv, Match
  PROVE  AInv'
<1> DEFINE c == Clearing(w)
           s == c.matched
<1>1. /\ pc = "match" /\ pc' = pc /\ k \in DOMAIN prods /\ InRange
      /\ matched' = Append(matched, MatchedTotal + Matched(k))
      /\ UNCHANGED <<w, ledger, positions, cons_pay, paid, prod_net, netted, swap>> /\ Next
  BY DEF Match, Next
<1>2. pc \in Active \ {"classify", "pay"}
  BY <1>1 DEF Active
<1>3. /\ Matched(k) = s[k] /\ Traded = c.traded_wh
      /\ prods[k].wh = c.prod_wh[k] /\ Len(prods) = Len(s) /\ s \in Seq(Nat)
  BY <1>1, <1>2, SeenAll, ClosedSides, ClosedTypes
<1>4. matched \in Seq(Nat) /\ MatchedTotal = Upto(s, Len(matched))
  BY <1>2, ClosedMatched
<1> HIDE DEF c, s
<1>5. Len(matched) + 1 = k /\ Len(matched) = k - 1 /\ k \in Nat \ {0} /\ k \in 1 .. Len(s)
  <2>1. Len(matched) = k - 1 /\ k \in Nat \ {0} /\ prods \in Seq(PartyType)
    BY <1>1 DEF AInv, IInv, Loops, TypeOK
  <2> QED
    BY <1>1, <1>3, <2>1
<1>6. MatchedTotal + Matched(k) = Upto(s, k) /\ MatchedTotal + Matched(k) \in Nat
  <2>1. Upto(s, k) = Upto(s, k - 1) + s[k] /\ Upto(s, k) \in Nat /\ s[k] \in Nat
    BY <1>3, <1>5, EndNat
  <2> QED
    BY <1>3, <1>4, <1>5, <2>1
<1>7. prods[k].wh * Traded <= I128Max
  <2>1. Results = {prods[k].wh * Traded, MatchedTotal + Matched(k)}
    BY <1>1 DEF Results
  <2> QED
    BY <1>1, <2>1 DEF InRange
<1>8. ASSUME NEW j \in DOMAIN matched'
      PROVE  matched'[j] = Upto(s, j) /\ c.prod_wh[j] * c.traded_wh <= I128Max
  <2>1. CASE j \in DOMAIN matched
    <3>1. matched'[j] = matched[j]
      BY <1>1, <1>4, <1>6, <2>1, Appended
    <3> QED
      BY <2>1, <3>1 DEF AInv, Computed, c, s
  <2>2. CASE j \notin DOMAIN matched
    <3>1. j = Len(matched) + 1
      BY <1>1, <1>4, <1>6, <2>2, Appended
    <3>2. j = k /\ matched'[k] = MatchedTotal + Matched(k)
      BY <1>1, <1>4, <1>5, <1>6, <3>1, Appended
    <3> QED
      BY <1>3, <1>6, <1>7, <3>2
  <2> QED
    BY <2>1, <2>2
<1>9. Computed'
  <2>1. w' = w /\ cons_pay' = cons_pay /\ paid' = paid /\ prod_net' = prod_net /\ netted' = netted
    BY <1>1
  <2> QED
    BY <1>1, <1>8, <2>1 DEF AInv, Computed, c, s
<1>10. Sorted'
  BY <1>1, <1>2, SortedKept
<1>11. Laid'
  BY <1>1, LaidKept DEF Active, Swapping, swap
<1> QED
  BY <1>1, <1>9, <1>10, <1>11, NextIInv DEF AInv

LEMMA EndMatchAtomic ==
  ASSUME AInv, EndMatch
  PROVE  AInv'
<1>1. /\ pc = "match" /\ pc' = "net"
      /\ UNCHANGED <<w, ledger, positions, money, swap>> /\ Next
  BY DEF EndMatch, Next
<1>2. pc \in Active \ {"classify", "pay"}
  BY <1>1 DEF Active
<1>3. Clearing(w).total_paid * w.fee_bps <= I128Max
  BY <1>2 DEF AInv, Computed
<1>4. Computed'
  BY <1>1, <1>3, ComputedKept
<1>5. Sorted'
  BY <1>1, <1>2, SortedKept
<1>6. Laid'
  BY <1>1, LaidKept DEF Active, Swapping, swap
<1> QED
  BY <1>1, <1>4, <1>5, <1>6, NextIInv DEF AInv

LEMMA NetAtomic ==
  ASSUME AInv, Net
  PROVE  AInv'
<1> DEFINE c == Clearing(w)
           s == c.net
           total == Tally(c.matched)
<1>1. /\ pc = "net" /\ pc' = pc /\ k \in DOMAIN prods /\ InRange
      /\ prod_net' = Append(prod_net, Payout(k)) /\ netted' = Append(netted, TotalNet + Payout(k))
      /\ UNCHANGED <<w, ledger, positions, cons_pay, paid, matched, swap>> /\ Next
  BY DEF Net, Next
<1>2. pc \in Active \ {"classify", "pay"} /\ pc # "match" /\ pc \in Swapping \cup {"net"}
  BY <1>1 DEF Active
<1>3. /\ Payout(k) = s[k] /\ Matched(k) = c.matched[k] /\ Pool = c.pool /\ MatchedTotal = total
      /\ Len(prods) = Len(s) /\ s \in Seq(Nat)
  BY <1>1, <1>2, SeenAll, ClosedSides, ClosedTypes, ClosedNet, ClosedPool, ClosedMatched
<1>4. /\ prod_net \in Seq(Nat) /\ netted \in Seq(Nat) /\ Len(netted) = Len(prod_net)
      /\ TotalNet = Upto(s, Len(netted))
  BY <1>2, ClosedNet
<1> HIDE DEF c, s, total
<1>5. Len(prod_net) + 1 = k /\ Len(prod_net) = k - 1 /\ k \in Nat \ {0} /\ k \in 1 .. Len(s)
  <2>1. Len(prod_net) = k - 1 /\ k \in Nat \ {0} /\ prods \in Seq(PartyType)
    BY <1>1 DEF AInv, IInv, Loops, TypeOK
  <2> QED
    BY <1>1, <1>3, <2>1
<1>6. Payout(k) \in Nat /\ TotalNet + Payout(k) = Upto(s, k) /\ TotalNet + Payout(k) \in Nat
  <2>1. Upto(s, k) = Upto(s, k - 1) + s[k] /\ Upto(s, k) \in Nat /\ s[k] \in Nat
    BY <1>3, <1>5, EndNat
  <2> QED
    BY <1>3, <1>4, <1>5, <2>1
<1>7. total > 0 => c.pool * c.matched[k] <= I128Max
  <2>1. Results = {IF MatchedTotal > 0 THEN Pool * Matched(k) ELSE 0, TotalNet + Payout(k)}
    BY <1>1 DEF Results
  <2> QED
    BY <1>1, <1>3, <2>1 DEF InRange
<1>8. ASSUME NEW j \in DOMAIN prod_net'
      PROVE  /\ prod_net'[j] = s[j] /\ netted'[j] = Upto(s, j)
             /\ total > 0 => c.pool * c.matched[j] <= I128Max
  <2>1. DOMAIN netted = DOMAIN prod_net
    BY <1>4
  <2>2. CASE j \in DOMAIN prod_net
    <3>1. prod_net'[j] = prod_net[j] /\ netted'[j] = netted[j]
      BY <1>1, <1>4, <1>6, <2>1, <2>2, Appended
    <3> QED
      BY <2>2, <3>1 DEF AInv, Computed, c, s, total
  <2>3. CASE j \notin DOMAIN prod_net
    <3>1. j = Len(prod_net) + 1
      BY <1>1, <1>4, <1>6, <2>3, Appended
    <3>2. j = k /\ prod_net'[k] = Payout(k) /\ netted'[k] = TotalNet + Payout(k)
      BY <1>1, <1>4, <1>5, <1>6, <3>1, Appended
    <3> QED
      BY <1>3, <1>6, <1>7, <3>2
  <2> QED
    BY <2>2, <2>3
<1>9. Computed'
  <2>1. w' = w /\ cons_pay' = cons_pay /\ paid' = paid /\ matched' = matched
    BY <1>1
  <2> QED
    BY <1>1, <1>8, <2>1 DEF AInv, Computed, c, s, total
<1>10. Sorted'
  BY <1>1, <1>2, SortedKept
<1>11. Laid'
  BY <1>1, LaidKept DEF Active, Swapping, swap
<1> QED
  BY <1>1, <1>9, <1>10, <1>11, NextIInv DEF AInv

-----------------------------------------------------------------------------
(* The swap. *)

LEMMA LaidFirst ==
  ASSUME TypeOK
  PROVE  LaidTo(0, Start, <<>>)
<1> DEFINE legs == Legs(w, Clearing(w))
           C == CutsOf(w)
<1>1. Sound(w, MeterIds)
  BY SoundWindow
<1>2. 0 \in C /\ C \in SUBSET Nat /\ Len(legs) \in Nat
  BY <1>1, CutsOfFinite, LegsAre
<1> HIDE DEF legs, C
<1>3. Below(C, 0) = {}
  <2>1. \A y \in C : ~(y < 0)
    BY <1>2
  <2> QED
    BY <2>1 DEF Below
<1>4. Cardinality(Below(C, 0)) = 0
  BY <1>3, FS_EmptySet
<1>5. Transferred(Start, legs, 0) = Start
  <2>1. OneByOne(Start, legs)
    BY <1>2, TransferredFacts
  <2> QED
    BY <2>1 DEF OneByOne
<1> QED
  BY <1>2, <1>4, <1>5 DEF LaidTo, legs, C

LEMMA LaidNext ==
  ASSUME UNCHANGED <<w, ledger>>, pc' \in Swapping, LaidTo(Moved', purse', events')
  PROVE  Laid'
<1>1. w' = w /\ Start' = Start
  BY DEF ledger, Start
<1>2. LaidTo(Moved, purse, events)'
  BY <1>1 DEF LaidTo
<1>3. pc' \notin Active \ Swapping
  BY DEF Active
<1> QED
  BY <1>2, <1>3 DEF Laid

LEMMA EndNetAtomic ==
  ASSUME AInv, EndNet
  PROVE  AInv'
<1>1. /\ pc = "net" /\ pc' = "swap" /\ charged' = [i \in DOMAIN cons |-> 0]
      /\ UNCHANGED <<w, ledger, k, positions, money, ci, pi, purse, events, to_admin>> /\ Next
  BY DEF EndNet, Next
<1>2. pc \in Active \ {"classify", "pay"} /\ pc \in Active \ Swapping
  BY <1>1 DEF Active, Swapping
<1>3. Clearing(w).total_paid * w.fee_bps <= I128Max
  BY <1>2 DEF AInv, Computed
<1>4. Computed'
  BY <1>1, <1>3, ComputedKept
<1>5. Sorted'
  BY <1>1, <1>2, SortedKept
<1>6. Moved' = 0
  <2>1. ci = 1 /\ cons \in Seq(PartyType) /\ cons # <<>>
    BY <1>1 DEF AInv, IInv, Loops, TypeOK
  <2>2. ci' = 1 /\ 1 \in DOMAIN cons
    BY <1>1, <2>1
  <2>3. 1 \in DOMAIN charged' /\ charged'[1] = 0
    BY <1>1, <2>2
  <2> QED
    BY <2>2, <2>3 DEF Moved, MovedBy, Before
<1>7. LaidTo(Moved', purse', events')
  <2>1. purse' = Start /\ events' = <<>>
    BY <1>1, <1>2 DEF AInv, Laid
  <2> QED
    BY <1>6, <2>1, LaidFirst DEF AInv, IInv
<1>8. Laid'
  BY <1>1, <1>7, LaidNext DEF Swapping
<1> QED
  BY <1>1, <1>4, <1>5, <1>8, NextIInv DEF AInv

(* An end of s that is not passed is at x or before, or at y or after,     *)
(* when both lie on its i-th amount.                                       *)
LEMMA EndsBeside ==
  ASSUME NEW s \in Seq(Nat), NEW i \in DOMAIN s, NEW x \in Nat, NEW y \in Nat,
         Upto(s, i - 1) <= x, y <= Upto(s, i)
  PROVE  \A h \in DOMAIN s : Upto(s, h) <= x \/ y <= Upto(s, h)
<1> SUFFICES ASSUME NEW h \in DOMAIN s PROVE Upto(s, h) <= x \/ y <= Upto(s, h)
  OBVIOUS
<1>1. /\ h \in 1 .. Len(s) /\ h \in 0 .. Len(s) /\ i \in 0 .. Len(s) /\ i - 1 \in 0 .. Len(s)
      /\ i \in 1 .. Len(s)
  OBVIOUS
<1>2. Upto(s, h) \in Nat /\ Upto(s, i) \in Nat /\ Upto(s, i - 1) \in Nat
  BY EndNat
<1>3. CASE h < i
  <2>1. h <= i - 1
    BY <1>1, <1>3
  <2>2. Upto(s, h) <= Upto(s, i - 1)
    BY <1>1, <2>1, UptoMonotone
  <2> QED
    BY <1>2, <2>2
<1>4. CASE i <= h
  <2>1. Upto(s, i) <= Upto(s, h)
    BY <1>1, <1>4, UptoMonotone
  <2> QED
    BY <1>2, <2>1
<1> QED
  BY <1>1, <1>3, <1>4

LEMMA NoCutBetween ==
  ASSUME NEW pay \in Seq(Nat), NEW nets \in Seq(Nat), NEW x \in Nat, NEW y \in Nat,
         \A h \in DOMAIN pay : Upto(pay, h) <= x \/ y <= Upto(pay, h),
         \A h \in DOMAIN nets : Upto(nets, h) <= x \/ y <= Upto(nets, h)
  PROVE  \A z \in Cuts(pay, nets) : z <= x \/ y <= z
  BY DEF Cuts

(* The transfer of this amount leads to the next cut, from the consumer    *)
(* whose payment covers it to the producer whose net does, or the admin.   *)
Leads(to, amount) ==
  LET c == Clearing(w)
      y == Moved + amount
  IN  /\ y \in CutsOf(w)
      /\ \A z \in CutsOf(w) : z <= Moved \/ y <= z
      /\ Upto(c.pay, ci - 1) <= Moved /\ y <= Upto(c.pay, ci)
      /\ to = IF y <= c.total_net THEN w.owner[Exporters(w)[Covering(c.net, y)]] ELSE Admin

(* It is the next leg of the closed form. *)
LEMMA LegNext ==
  ASSUME AInv, pc \in Swapping, ci \in DOMAIN cons,
         NEW to, NEW amount \in Nat \ {0}, Leads(to, amount)
  PROVE  LET legs == Legs(w, Clearing(w))
             n    == Len(events)
         IN  /\ n \in Nat /\ n + 1 \in 1 .. Len(legs) /\ (n + 1) - 1 = n
             /\ Cardinality(Below(CutsOf(w), Moved + amount)) = n + 1
             /\ Leg(to, amount) = legs[n + 1]
<1> DEFINE c == Clearing(w)
           legs == Legs(w, c)
           C == CutsOf(w)
           n == Len(events)
           x == Moved
           y == Moved + amount
           leg == Leg(to, amount)
<1>1. Sound(w, MeterIds)
  BY SoundWindow DEF AInv, IInv
<1>2. x \in C /\ n = Cardinality(Below(C, x))
  BY DEF AInv, Laid, LaidTo
<1>3. C \in SUBSET Nat
  BY <1>1, CutsOfFinite
<1>4. x \in Nat
  BY <1>2, <1>3
<1>5. /\ y \in C /\ \A z \in C : z <= x \/ y <= z
      /\ Upto(c.pay, ci - 1) <= x /\ y <= Upto(c.pay, ci)
      /\ to = IF y <= c.total_net THEN w.owner[Exporters(w)[Covering(c.net, y)]] ELSE Admin
  BY DEF Leads
<1>6. x < y /\ y - x = amount /\ y \in Nat
  BY <1>4
<1>7. pc \in Active \ {"classify"}
  BY DEF Active, Swapping
<1>8. /\ c.pay \in Seq(Nat) /\ DOMAIN cons = DOMAIN c.pay
      /\ cons[ci].owner = w.owner[Importers(w)[ci]]
  BY <1>7, SeenAll, ClosedSides, ClosedTypes
<1> HIDE DEF n, x, y
<1>9. Covering(c.pay, y) = ci
  <2> DEFINE s == c.pay
  <2>1. /\ s \in Seq(Nat) /\ ci \in DOMAIN s
        /\ Upto(s, ci - 1) \in Nat /\ Upto(s, ci - 1) <= x /\ y <= Upto(s, ci)
    BY <1>5, <1>8, EndNat
  <2>2. Upto(s, ci - 1) < y
    BY <1>4, <1>6, <2>1
  <2> HIDE DEF s
  <2>3. Covering(s, y) = ci
    BY <1>6, <2>1, <2>2, CoveredBy
  <2> QED
    BY <2>3 DEF s
<1>10. /\ n \in Nat /\ n + 1 \in 1 .. Len(legs)
       /\ Cardinality(Below(C, y)) = n + 1
       /\ legs[n + 1] = [from   |-> w.owner[Importers(w)[Covering(c.pay, y)]],
                         to     |-> IF y <= c.total_net
                                      THEN w.owner[Exporters(w)[Covering(c.net, y)]] ELSE Admin,
                         amount |-> y - x]
  <2>1. x \in C /\ y \in C /\ x < y /\ (\A z \in C : z <= x \/ y <= z)
        /\ n = Cardinality(Below(C, x))
    BY <1>2, <1>5, <1>6
  <2> QED
    BY <1>1, <2>1, LegBetween
<1>11. leg = legs[n + 1]
  <2>1. leg = [from |-> cons[ci].owner, to |-> to, amount |-> amount]
    BY DEF Leg
  <2> HIDE DEF leg, legs, c
  <2> QED
    BY <1>5, <1>6, <1>8, <1>9, <1>10, <2>1
<1>12. (n + 1) - 1 = n
  BY <1>10
<1> HIDE DEF leg, legs, c, C
<1> QED
  BY <1>10, <1>11, <1>12 DEF leg, legs, c, C, n, y

LEMMA LegLaid ==
  ASSUME AInv, pc \in Swapping, ci \in DOMAIN cons,
         NEW to, NEW amount \in Nat, Transfer(to, amount), amount > 0 => Leads(to, amount)
  PROVE  LaidTo(Moved + amount, purse', events')
<1> DEFINE legs == Legs(w, Clearing(w))
           C == CutsOf(w)
           n == Len(events)
           y == Moved + amount
           leg == Leg(to, amount)
<1>1. Sound(w, MeterIds)
  BY SoundWindow DEF AInv, IInv
<1>2. /\ Moved \in C /\ LaidTo(Moved, purse, events)
      /\ \A i \in 1 .. n : events[i] = legs[i]
      /\ purse = Transferred(Start, legs, n)
  BY DEF AInv, Laid, LaidTo
<1>3. C \in SUBSET Nat /\ Len(legs) \in Nat
  BY <1>1, CutsOfFinite, LegsAre
<1>4. Moved \in Nat
  BY <1>2, <1>3
<1>5. CASE amount = 0
  <2>1. purse' = purse /\ events' = events
    BY <1>5 DEF Transfer
  <2>2. y = Moved
    BY <1>4, <1>5
  <2> QED
    BY <1>2, <2>1, <2>2
<1>6. CASE amount > 0
  <2>1. purse' = TransferFrom(purse, leg) /\ events' = Append(events, leg)
    BY <1>6 DEF Transfer
  <2>2. y \in C
    BY <1>6 DEF Leads
  <2>3. /\ n \in Nat /\ n + 1 \in 1 .. Len(legs) /\ (n + 1) - 1 = n
        /\ Cardinality(Below(C, y)) = n + 1 /\ leg = legs[n + 1]
    <3>1. amount \in Nat \ {0}
      BY <1>6
    <3> QED
      BY <1>6, <3>1, LegNext
  <2> HIDE DEF leg, legs, y, C
  <2>4. events \in Seq(LegType \cup {leg})
    <3>1. events \in Seq(LegType)
      BY DEF AInv, IInv, TypeOK
    <3> QED
      BY <3>1
  <2>5. /\ Len(events') = n + 1 /\ events'[n + 1] = leg
        /\ \A i \in 1 .. n : events'[i] = events[i]
    BY <2>1, <2>3, <2>4, Appended
  <2>6. \A i \in 1 .. n + 1 : events'[i] = legs[i]
    <3> SUFFICES ASSUME NEW i \in 1 .. n + 1 PROVE events'[i] = legs[i]
      OBVIOUS
    <3>1. i \in 1 .. n \/ i = n + 1
      BY <2>3
    <3> QED
      BY <1>2, <2>3, <2>5, <3>1
  <2>7. purse' = Transferred(Start, legs, n + 1)
    <3>1. \A j \in 1 .. Len(legs) :
            Transferred(Start, legs, j) = TransferFrom(Transferred(Start, legs, j - 1), legs[j])
      BY <1>3, TransferredStep, Zenon
    <3>2. Transferred(Start, legs, n + 1) = TransferFrom(Transferred(Start, legs, n), legs[n + 1])
      BY <2>3, <3>1
    <3> QED
      BY <1>2, <2>1, <2>3, <3>2
  <2>8. LaidTo(y, purse', events')
    BY <2>2, <2>3, <2>5, <2>6, <2>7 DEF LaidTo, legs, C
  <2> QED
    BY <2>8 DEF y
<1> QED
  BY <1>5, <1>6

(* Where the consumer and the producer of the next transfer stand.         *)
LEMMA ConsumerStands ==
  ASSUME AInv, pc \in Swapping, ci \in DOMAIN cons
  PROVE  LET pay == Clearing(w).pay
         IN  /\ pay \in Seq(Nat) /\ ci \in DOMAIN pay /\ ci \in DOMAIN charged
             /\ Upto(pay, ci - 1) \in Nat /\ Upto(pay, ci) \in Nat
             /\ Moved = Upto(pay, ci - 1) + charged[ci]
             /\ Upto(pay, ci) = Upto(pay, ci - 1) + cons_pay[ci]
             /\ Moved \in Nat /\ charged[ci] \in Nat /\ cons_pay[ci] \in Nat
             /\ CutsOf(w) = Cuts(pay, Clearing(w).net)
<1> DEFINE pay == Clearing(w).pay
<1>1. pc \in Active \ {"classify", "pay"} /\ pc \in {"swap", "remainder", "rest"}
  BY DEF Active, Swapping
<1>2. pay \in Seq(Nat) /\ cons_pay = pay
  BY <1>1, ClosedTypes, ClosedPool
<1>3. \A i \in 1 .. Len(cons_pay) + 1 : Before(paid, i) = Upto(pay, i - 1)
  BY <1>1, ClosedPaid
<1>4. CutsOf(w) = Cuts(pay, Clearing(w).net)
  BY DEF CutsOf
<1> HIDE DEF pay
<1>5. /\ Len(cons) \in Nat \ {0} /\ DOMAIN cons = 1 .. Len(cons)
      /\ DOMAIN cons_pay = 1 .. Len(cons) /\ DOMAIN charged = 1 .. Len(cons)
      /\ charged[ci] \in Nat
  BY <1>1, SwapFacts DEF AInv
<1>6. ci \in DOMAIN pay /\ ci \in DOMAIN charged /\ ci \in 1 .. Len(cons_pay) + 1
  BY <1>2, <1>5
<1>7. /\ Upto(pay, ci - 1) \in Nat /\ Upto(pay, ci) \in Nat /\ pay[ci] \in Nat
      /\ Upto(pay, ci) = Upto(pay, ci - 1) + pay[ci]
  BY <1>2, <1>6, EndNat
<1>8. Moved = Upto(pay, ci - 1) + charged[ci]
  BY <1>3, <1>6 DEF Moved, MovedBy
<1> QED
  BY <1>2, <1>4, <1>5, <1>6, <1>7, <1>8 DEF pay

(* The arithmetic of one side: what has been moved of a party, and what    *)
(* is left of it.                                                          *)
LEMMA SideStands ==
  ASSUME NEW from \in Nat, NEW till \in Nat, NEW done \in Nat, NEW due \in Nat, NEW left \in Nat,
         NEW at, at = from + done, till = from + due, done + left = due
  PROVE  at \in Nat /\ from <= at /\ till = at + left
  OBVIOUS

LEMMA SwapLeads ==
  ASSUME AInv, pc = "swap", ci \in DOMAIN cons, pi \in DOMAIN prods
  PROVE  /\ Amount \in Nat /\ Amount <= pay_left
         /\ Amount > 0 => Leads(prods[pi].owner, Amount)
<1> DEFINE c == Clearing(w)
           pay == c.pay
           net_ == c.net
           y == Moved + Amount
           to == prods[pi].owner
<1>1. pc = "swap" /\ ci \in DOMAIN cons /\ pi \in DOMAIN prods
  OBVIOUS
<1>2. pc \in Swapping /\ pc \in Active \ {"classify", "pay"}
  BY <1>1 DEF Swapping, Active
<1>3. /\ pay \in Seq(Nat) /\ ci \in DOMAIN pay /\ ci \in DOMAIN charged
      /\ Upto(pay, ci - 1) \in Nat /\ Upto(pay, ci) \in Nat
      /\ Moved = Upto(pay, ci - 1) + charged[ci]
      /\ Upto(pay, ci) = Upto(pay, ci - 1) + cons_pay[ci]
      /\ Moved \in Nat /\ charged[ci] \in Nat /\ cons_pay[ci] \in Nat
      /\ CutsOf(w) = Cuts(pay, net_)
  BY <1>1, <1>2, ConsumerStands
<1>4. /\ pay_left \in Nat /\ net_left \in Nat
      /\ Amount \in Nat /\ Amount <= pay_left /\ Amount <= net_left
      /\ Amount = pay_left \/ Amount = net_left
  <2>1. pay_left \in Nat /\ net_left \in Nat
    BY DEF AInv, IInv, TypeOK
  <2> QED
    BY <2>1 DEF Amount, Lower
<1>5. /\ Served(charged, cons_pay, ci, pay_left)
      /\ Served(received, prod_net, pi, net_left)
      /\ MovedBy(paid, charged, ci) = MovedBy(netted, received, pi)
  BY <1>1 DEF AInv, IInv, Books
<1>6. /\ DOMAIN cons_pay = DOMAIN cons /\ DOMAIN prod_net = DOMAIN prods
      /\ DOMAIN received = DOMAIN prods /\ DOMAIN prods = 1 .. Len(prods)
      /\ Len(prods) \in Nat
      /\ received[pi] \in Nat /\ prod_net[pi] \in Nat
  BY <1>1, SwapFacts, SwapProducers DEF AInv
<1>7. charged[ci] + pay_left = cons_pay[ci] /\ received[pi] + net_left = prod_net[pi]
  BY <1>1, <1>5, <1>6 DEF Served
<1>8. /\ net_ \in Seq(Nat) /\ prod_net = net_ /\ c.total_net = Tally(net_)
      /\ Len(netted) = Len(prods)
      /\ \A j \in 1 .. Len(netted) + 1 : Before(netted, j) = Upto(net_, j - 1)
      /\ prods[pi].owner = w.owner[Exporters(w)[pi]]
  BY <1>1, <1>2, SeenAll, ClosedTypes, ClosedNet, ClosedSides
<1> HIDE DEF c, pay, net_
<1>9. Upto(pay, ci - 1) <= Moved /\ Upto(pay, ci) = Moved + pay_left
  <2> DEFINE from == Upto(pay, ci - 1)  till == Upto(pay, ci)  at == Moved
             done == charged[ci]  due == cons_pay[ci]
  <2>1. /\ from \in Nat /\ till \in Nat /\ done \in Nat /\ due \in Nat /\ pay_left \in Nat
        /\ at = from + done /\ till = from + due /\ done + pay_left = due
    BY <1>3, <1>4, <1>7
  <2> HIDE DEF from, till, at, done, due
  <2>2. from <= at /\ till = at + pay_left
    BY <2>1, SideStands
  <2> QED
    BY <2>2 DEF from, till, at
<1>10. /\ pi \in DOMAIN net_ /\ Upto(net_, pi - 1) \in Nat /\ Upto(net_, pi) \in Nat
       /\ Upto(net_, pi - 1) <= Moved /\ Upto(net_, pi) = Moved + net_left
       /\ Upto(net_, pi) <= c.total_net
  <2>1. pi \in DOMAIN net_ /\ pi \in 1 .. Len(netted) + 1
    BY <1>1, <1>6, <1>8
  <2>2. /\ Upto(net_, pi - 1) \in Nat /\ Upto(net_, pi) \in Nat
        /\ Upto(net_, pi) = Upto(net_, pi - 1) + net_[pi] /\ Upto(net_, pi) <= Tally(net_)
    BY <1>8, <2>1, EndNat
  <2>3. Moved = Upto(net_, pi - 1) + received[pi]
    BY <1>1, <1>5, <1>6, <1>8, <2>1 DEF Moved, MovedBy
  <2>4. Upto(net_, pi) = Upto(net_, pi - 1) + prod_net[pi]
    BY <1>8, <2>2
  <2>5. Upto(net_, pi - 1) <= Moved /\ Upto(net_, pi) = Moved + net_left
    <3> DEFINE from == Upto(net_, pi - 1)  till == Upto(net_, pi)  at == Moved
               done == received[pi]  due == prod_net[pi]
    <3>1. /\ from \in Nat /\ till \in Nat /\ done \in Nat /\ due \in Nat /\ net_left \in Nat
          /\ at = from + done /\ till = from + due /\ done + net_left = due
      BY <1>4, <1>6, <1>7, <2>2, <2>3, <2>4
    <3> HIDE DEF from, till, at, done, due
    <3>2. from <= at /\ till = at + net_left
      BY <3>1, SideStands
    <3> QED
      BY <3>2 DEF from, till, at
  <2> QED
    BY <1>8, <2>1, <2>2, <2>5
<1>11. y \in Nat /\ y <= Upto(pay, ci) /\ y <= Upto(net_, pi) /\ y <= c.total_net
  <2>1. y \in Nat /\ y <= Upto(pay, ci) /\ y <= Upto(net_, pi)
    <3> DEFINE at == Moved  moved == Amount  a == Upto(pay, ci)  b == Upto(net_, pi)
    <3>1. /\ at \in Nat /\ moved \in Nat /\ pay_left \in Nat /\ net_left \in Nat
          /\ moved <= pay_left /\ moved <= net_left
          /\ a = at + pay_left /\ b = at + net_left /\ y = at + moved
      BY <1>3, <1>4, <1>9, <1>10
    <3> HIDE DEF at, moved, a, b, y
    <3>2. y \in Nat /\ y <= a /\ y <= b
      BY <3>1
    <3> QED
      BY <3>2 DEF a, b
  <2>2. c.total_net \in Nat
    BY <1>8, TallyNat
  <2> QED
    BY <1>10, <2>1, <2>2
<1>12. y \in Cuts(pay, net_)
  <2>1. y = Upto(pay, ci) \/ y = Upto(net_, pi)
    BY <1>4, <1>9, <1>10
  <2> QED
    BY <1>3, <1>10, <2>1 DEF Cuts
<1>13. \A z \in Cuts(pay, net_) : z <= Moved \/ y <= z
  <2> HIDE DEF y
  <2>1. \A h \in DOMAIN pay : Upto(pay, h) <= Moved \/ y <= Upto(pay, h)
    BY <1>3, <1>9, <1>11, EndsBeside
  <2>2. \A h \in DOMAIN net_ : Upto(net_, h) <= Moved \/ y <= Upto(net_, h)
    BY <1>3, <1>8, <1>10, <1>11, EndsBeside
  <2> QED
    BY <1>3, <1>8, <1>11, <2>1, <2>2, NoCutBetween
<1>14. Amount > 0 => to = IF y <= c.total_net THEN w.owner[Exporters(w)[Covering(net_, y)]] ELSE Admin
  <2> SUFFICES ASSUME Amount > 0
               PROVE  w.owner[Exporters(w)[pi]] = w.owner[Exporters(w)[Covering(net_, y)]]
    BY <1>8, <1>11
  <2>1. Upto(net_, pi - 1) < y
    BY <1>3, <1>4, <1>10
  <2> HIDE DEF y
  <2>2. Covering(net_, y) = pi
    BY <1>8, <1>10, <1>11, <2>1, CoveredBy
  <2> QED
    BY <2>2
<1>15. Amount > 0 => Leads(to, Amount)
  BY <1>3, <1>9, <1>11, <1>12, <1>13, <1>14 DEF Leads, c, pay, net_
<1> QED
  BY <1>4, <1>15

LEMMA SwapStepAtomic ==
  ASSUME AInv, SwapStep
  PROVE  AInv'
<1>1. /\ pc = "swap" /\ pc' = pc /\ ci \in DOMAIN cons /\ pi \in DOMAIN prods
      /\ Transfer(prods[pi].owner, Amount)
      /\ ci' = Advance(ci, pay_left)
      /\ UNCHANGED <<w, ledger, pc, k, positions, money, to_admin>> /\ Next
  BY DEF SwapStep, Next
<1>2. pc \in Swapping /\ pc \in Active \ {"classify", "pay"} /\ pc' \in Swapping
  BY <1>1 DEF Swapping, Active
<1>3. Amount \in Nat /\ Amount <= pay_left /\ (Amount > 0 => Leads(prods[pi].owner, Amount))
  BY <1>1, SwapLeads
<1>4. LaidTo(Moved + Amount, purse', events')
  BY <1>1, <1>2, <1>3, LegLaid
<1>5. Moved' = Moved + Amount
  <2>1. charged' = [charged EXCEPT ![ci] = @ + Amount]
    BY <1>1 DEF Transfer
  <2>2. Side(cons_pay, charged, paid, ci, pay_left)
    <3>1. /\ cons_pay \in Seq(Nat) /\ charged \in Seq(Nat) /\ paid \in Seq(Nat)
          /\ Len(paid) = Len(cons_pay)
      BY Sequences DEF AInv
    <3>2. Len(charged) = Len(cons) /\ Len(cons_pay) = Len(cons) /\ ci <= Len(cons) + 1
      BY <1>1 DEF AInv, IInv, Loops
    <3>3. ci \in Nat \ {0} /\ Accumulates(paid, cons_pay)
      BY DEF AInv, IInv, TypeOK, Sums
    <3>4. Served(charged, cons_pay, ci, pay_left) /\ pay_left \in Nat
      BY <1>1 DEF AInv, IInv, Books, TypeOK
    <3> QED
      BY <3>1, <3>2, <3>3, <3>4 DEF Side
  <2>3. ci \in DOMAIN cons_pay
    BY <1>1, SwapFacts DEF AInv
  <2>4. MovedBy(paid, [charged EXCEPT ![ci] = @ + Amount], Advance(ci, pay_left))
          = MovedBy(paid, charged, ci) + Amount
    BY <1>3, <2>2, <2>3, ServedStep
  <2>5. paid' = paid
    BY <1>1 DEF money
  <2> QED
    BY <1>1, <2>1, <2>4, <2>5 DEF Moved
<1>6. Laid'
  BY <1>1, <1>2, <1>4, <1>5, LaidNext
<1>7. Computed'
  BY <1>1, <1>2, ComputedKept DEF AInv, Computed
<1>8. Sorted'
  BY <1>1, <1>2, SortedKept
<1> QED
  BY <1>1, <1>6, <1>7, <1>8, NextIInv DEF AInv

(* What a consumer still owes when every producer is paid goes to the      *)
(* admin, up to its end.                                                   *)
LEMMA OwedLeads ==
  ASSUME AInv, pc \in {"remainder", "rest"}, ci \in DOMAIN cons, NEW owed \in Nat,
         charged[ci] + owed = cons_pay[ci],
         Before(paid, ci) + charged[ci] = TotalNet + to_admin
  PROVE  /\ Moved + owed = Upto(Clearing(w).pay, ci)
         /\ owed > 0 => Leads(Admin, owed)
<1> DEFINE c == Clearing(w)
           pay == c.pay
           net_ == c.net
           y == Moved + owed
<1>1. pc \in Swapping /\ pc \in Active \ {"classify", "pay"} /\ pc \in {"swap", "remainder", "rest"}
  BY DEF Swapping, Active
<1>2. /\ pay \in Seq(Nat) /\ ci \in DOMAIN pay /\ ci \in DOMAIN charged
      /\ Upto(pay, ci - 1) \in Nat /\ Upto(pay, ci) \in Nat
      /\ Moved = Upto(pay, ci - 1) + charged[ci]
      /\ Upto(pay, ci) = Upto(pay, ci - 1) + cons_pay[ci]
      /\ Moved \in Nat /\ charged[ci] \in Nat /\ cons_pay[ci] \in Nat
      /\ CutsOf(w) = Cuts(pay, net_)
  BY <1>1, ConsumerStands
<1>3. /\ net_ \in Seq(Nat) /\ c.total_net = Tally(net_) /\ TotalNet = c.total_net
      /\ c.total_net \in Nat
  BY <1>1, ClosedTypes, ClosedNet
<1>4. to_admin \in Nat
  BY DEF AInv, IInv, TypeOK
<1>5. Moved = TotalNet + to_admin
  BY <1>2 DEF Moved, MovedBy
<1> HIDE DEF c, pay, net_
<1>6. y = Upto(pay, ci) /\ y \in Nat /\ Upto(pay, ci - 1) <= Moved /\ c.total_net <= Moved
  <2>1. Upto(pay, ci - 1) <= Moved /\ Upto(pay, ci) = Moved + owed
    BY <1>2, SideStands
  <2>2. c.total_net <= Moved
    BY <1>3, <1>4, <1>5
  <2> QED
    BY <1>2, <2>1, <2>2
<1>7. y \in Cuts(pay, net_)
  BY <1>2, <1>6 DEF Cuts
<1>8. \A z \in Cuts(pay, net_) : z <= Moved \/ y <= z
  <2> HIDE DEF y
  <2>0. y <= Upto(pay, ci)
    BY <1>6
  <2>1. \A h \in DOMAIN pay : Upto(pay, h) <= Moved \/ y <= Upto(pay, h)
    BY <1>2, <1>6, <2>0, EndsBeside
  <2>2. \A h \in DOMAIN net_ : Upto(net_, h) <= Moved \/ y <= Upto(net_, h)
    <3> SUFFICES ASSUME NEW h \in DOMAIN net_ PROVE Upto(net_, h) <= Moved
      OBVIOUS
    <3>1. Upto(net_, h) <= Tally(net_) /\ Upto(net_, h) \in Nat
      BY <1>3, EndNat
    <3> QED
      BY <1>2, <1>3, <1>6, <3>1
  <2> QED
    BY <1>2, <1>3, <1>6, <2>1, <2>2, NoCutBetween
<1>9. owed > 0 => Admin = IF y <= c.total_net THEN w.owner[Exporters(w)[Covering(net_, y)]] ELSE Admin
  <2>1. owed > 0 => ~(y <= c.total_net)
    BY <1>2, <1>3, <1>6
  <2> QED
    BY <2>1
<1>10. owed > 0 => Leads(Admin, owed)
  BY <1>2, <1>6, <1>7, <1>8, <1>9 DEF Leads, c, pay, net_
<1> QED
  BY <1>6, <1>10 DEF c, pay

LEMMA OwedLaid ==
  ASSUME AInv, pc \in {"remainder", "rest"}, ci \in DOMAIN cons, NEW owed \in Nat,
         Transfer(Admin, owed), ci' = ci + 1, UNCHANGED <<w, ledger, positions, money>>,
         charged[ci] + owed = cons_pay[ci],
         Before(paid, ci) + charged[ci] = TotalNet + to_admin,
         \A h \in 1 .. Len(cons) : h > ci => charged[h] = 0,
         pc' \in Swapping
  PROVE  Laid'
<1> DEFINE pay == Clearing(w).pay
<1>1. pc \in Swapping /\ pc \in Active \ {"classify", "pay"} /\ pc \in {"swap", "remainder", "rest"}
  BY DEF Swapping, Active
<1>2. /\ Upto(pay, ci - 1) \in Nat /\ cons_pay[ci] \in Nat
      /\ Upto(pay, ci) = Upto(pay, ci - 1) + cons_pay[ci]
  BY <1>1, ConsumerStands
<1>3. Moved + owed = Upto(pay, ci) /\ (owed > 0 => Leads(Admin, owed))
  BY OwedLeads
<1>4. LaidTo(Moved + owed, purse', events')
  BY <1>1, <1>3, LegLaid
<1> HIDE DEF pay
<1>5. Moved' = Moved + owed
  <2>1. charged' = [charged EXCEPT ![ci] = @ + owed]
    BY DEF Transfer
  <2>2. paid' = paid
    BY DEF money
  <2>3. /\ Len(cons) \in Nat \ {0} /\ DOMAIN cons = 1 .. Len(cons)
        /\ DOMAIN charged = 1 .. Len(cons)
        /\ paid[ci] = Before(paid, ci) + cons_pay[ci] /\ paid[ci] \in Nat
    BY <1>1, SwapFacts DEF AInv
  <2>4. ci \in Nat /\ ci + 1 # 1 /\ (ci + 1) - 1 = ci
    BY <2>3
  <2>5. Before(paid, ci + 1) = paid[ci]
    BY <2>4 DEF Before
  <2>6. ci + 1 \in DOMAIN charged => charged'[ci + 1] = 0
    <3> SUFFICES ASSUME ci + 1 \in DOMAIN charged PROVE charged'[ci + 1] = 0
      OBVIOUS
    <3>1. ci + 1 # ci /\ ci + 1 > ci /\ ci + 1 \in 1 .. Len(cons)
      BY <2>3, <2>4
    <3>2. charged'[ci + 1] = charged[ci + 1]
      BY <2>1, <3>1
    <3> QED
      BY <3>1, <3>2
  <2>7. MovedBy(paid, charged', ci + 1) = paid[ci]
    <3>1. DOMAIN charged' = DOMAIN charged
      BY <2>1
    <3> QED
      BY <2>3, <2>5, <2>6, <3>1 DEF MovedBy
  <2>8. Before(paid, ci) = Upto(pay, ci - 1)
    <3>1. \A i \in 1 .. Len(cons_pay) + 1 : Before(paid, i) = Upto(pay, i - 1)
      BY <1>1, ClosedPaid DEF pay
    <3>2. Len(cons_pay) = Len(cons)
      BY <1>1 DEF AInv, IInv, Loops
    <3> QED
      BY <2>3, <3>1, <3>2
  <2>9. paid[ci] = Moved + owed
    BY <1>2, <1>3, <2>3, <2>8
  <2> QED
    BY <2>2, <2>7, <2>9 DEF Moved
<1> QED
  BY <1>4, <1>5, LaidNext

LEMMA RemainderAtomic ==
  ASSUME AInv, Remainder
  PROVE  AInv'
<1>1. /\ pc = "remainder" /\ pc' = "rest" /\ ci \in DOMAIN cons /\ pay_left > 0 /\ pay_left \in Nat
      /\ Transfer(Admin, pay_left) /\ ci' = ci + 1
      /\ UNCHANGED <<w, ledger, k, positions, money>> /\ Next
  BY DEF Remainder, Next, AInv, IInv, TypeOK
<1>2. pc \in Active \ {"classify", "pay"} /\ pc' \in Swapping
  BY <1>1 DEF Swapping, Active
<1>3. /\ Served(charged, cons_pay, ci, pay_left)
      /\ MovedBy(paid, charged, ci) = TotalNet + to_admin
  BY <1>1 DEF AInv, IInv, Books
<1>4. ci \in DOMAIN cons_pay /\ ci \in DOMAIN charged /\ DOMAIN cons_pay = 1 .. Len(cons)
  BY <1>1, SwapFacts DEF AInv
<1>5. /\ charged[ci] + pay_left = cons_pay[ci]
      /\ Before(paid, ci) + charged[ci] = TotalNet + to_admin
      /\ \A h \in 1 .. Len(cons) : h > ci => charged[h] = 0
  BY <1>3, <1>4 DEF Served, MovedBy
<1>6. Laid'
  BY <1>1, <1>2, <1>5, OwedLaid
<1>7. Computed'
  BY <1>1, <1>2, ComputedKept DEF AInv, Computed
<1>8. Sorted'
  BY <1>1, <1>2, SortedKept
<1> QED
  BY <1>1, <1>6, <1>7, <1>8, NextIInv DEF AInv

LEMMA RestAtomic ==
  ASSUME AInv, Rest
  PROVE  AInv'
<1>1. /\ pc = "rest" /\ pc' = pc /\ ci \in DOMAIN cons
      /\ Transfer(Admin, cons_pay[ci]) /\ ci' = ci + 1
      /\ UNCHANGED <<w, ledger, k, positions, money>> /\ Next
  BY DEF Rest, Next
<1>2. pc \in Active \ {"classify", "pay"} /\ pc' \in Swapping
  BY <1>1 DEF Swapping, Active
<1>3. /\ \A h \in DOMAIN cons_pay : charged[h] = IF h < ci THEN cons_pay[h] ELSE 0
      /\ Before(paid, ci) = TotalNet + to_admin
  BY <1>1 DEF AInv, IInv, Books
<1>4. /\ ci \in DOMAIN cons_pay /\ DOMAIN cons_pay = 1 .. Len(cons) /\ cons_pay[ci] \in Nat
      /\ Len(cons) \in Nat /\ TotalNet \in Nat
  BY <1>1, SwapFacts, SwapProducers DEF AInv
<1>5. charged[ci] = 0 /\ to_admin \in Nat
  <2>1. to_admin \in Nat
    BY DEF AInv, IInv, TypeOK
  <2>2. ~(ci < ci)
    BY <1>4
  <2> QED
    BY <1>3, <1>4, <2>1, <2>2
<1>6. /\ charged[ci] + cons_pay[ci] = cons_pay[ci]
      /\ Before(paid, ci) + charged[ci] = TotalNet + to_admin
      /\ \A h \in 1 .. Len(cons) : h > ci => charged[h] = 0
  BY <1>3, <1>4, <1>5
<1>7. Laid'
  BY <1>1, <1>2, <1>4, <1>6, OwedLaid
<1>8. Computed'
  BY <1>1, <1>2, ComputedKept DEF AInv, Computed
<1>9. Sorted'
  BY <1>1, <1>2, SortedKept
<1> QED
  BY <1>1, <1>7, <1>8, <1>9, NextIInv DEF AInv

LEMMA BetweenAtomic ==
  ASSUME AInv, EndSwap \/ NoRemainder
  PROVE  AInv'
<1>1. /\ pc \in Swapping /\ pc' \in Swapping /\ Next
      /\ UNCHANGED <<w, ledger, k, positions, money, swap>>
  BY DEF EndSwap, NoRemainder, Swapping, Next
<1>2. pc \in Active \ {"classify", "pay"} /\ pc' # "classify"
  BY <1>1 DEF Swapping, Active
<1>3. Laid'
  <2>1. Moved' = Moved /\ purse' = purse /\ events' = events
    BY <1>1 DEF Moved, MovedBy, Before, money, swap
  <2>2. LaidTo(Moved, purse, events)
    BY <1>1 DEF AInv, Laid
  <2> QED
    BY <1>1, <2>1, <2>2, LaidNext
<1>4. Computed'
  BY <1>1, <1>2, ComputedKept DEF AInv, Computed
<1>5. Sorted'
  BY <1>1, <1>2, SortedKept
<1> QED
  BY <1>1, <1>3, <1>4, <1>5, NextIInv DEF AInv

LEMMA ReturnAtomic ==
  ASSUME AInv, Return
  PROVE  AInv'
<1>1. /\ pc = "rest" /\ pc' = "done" /\ UNCHANGED <<w, positions, money>> /\ Next
  BY DEF Return, Next
<1>2. Sorted' /\ Laid'
  BY <1>1 DEF Sorted, Laid, Active, Swapping
<1>3. Computed'
  <2>1. pc' \notin Active
    BY <1>1 DEF Active
  <2> QED
    BY <1>1, <2>1, ComputedKept
<1> QED
  BY <1>1, <1>2, <1>3, NextIInv DEF AInv

LEMMA IdleAtomic ==
  ASSUME AInv, UNCHANGED vars
  PROVE  AInv'
<1>1. UNCHANGED <<w, ledger, pc, k, positions, money, swap>>
  BY DEF vars
<1>2. /\ w' = w /\ pc' = pc /\ k' = k /\ bal' = bal /\ allow' = allow
      /\ prods' = prods /\ cons' = cons
      /\ total_surplus' = total_surplus /\ total_deficit' = total_deficit
      /\ cons_pay' = cons_pay /\ paid' = paid /\ matched' = matched
      /\ prod_net' = prod_net /\ netted' = netted
      /\ ci' = ci /\ charged' = charged /\ purse' = purse /\ events' = events
  BY <1>1 DEF ledger, positions, money, swap
<1>3. Seen' = Seen /\ Moved' = Moved /\ Start' = Start
  BY <1>2 DEF Seen, Moved, MovedBy, Before, Start
<1>4. Sorted'
  BY <1>2, <1>3 DEF AInv, Sorted, SideOf
<1>5. Computed'
  BY <1>2 DEF AInv, Computed
<1>6. Laid'
  BY <1>2, <1>3 DEF AInv, Laid, LaidTo
<1> QED
  BY <1>4, <1>5, <1>6, NextIInv DEF AInv

LEMMA NextAInv == AInv /\ [Next]_vars => AInv'
<1> SUFFICES ASSUME AInv, [Next]_vars PROVE AInv'
  OBVIOUS
<1>1. CASE Classify
  BY <1>1, ClassifyAtomic
<1>2. CASE EndClassify
  BY <1>2, EndClassifyAtomic
<1>3. CASE UnknownMeter \/ Trap
  BY <1>3, FailAtomic
<1>4. CASE Pay
  BY <1>4, PayAtomic
<1>5. CASE EndPay
  BY <1>5, EndPayAtomic
<1>6. CASE Match
  BY <1>6, MatchAtomic
<1>7. CASE EndMatch
  BY <1>7, EndMatchAtomic
<1>8. CASE Net
  BY <1>8, NetAtomic
<1>9. CASE EndNet
  BY <1>9, EndNetAtomic
<1>10. CASE SwapStep
  BY <1>10, SwapStepAtomic
<1>11. CASE EndSwap \/ NoRemainder
  BY <1>11, BetweenAtomic
<1>12. CASE Remainder
  BY <1>12, RemainderAtomic
<1>13. CASE Rest
  BY <1>13, RestAtomic
<1>14. CASE Return
  BY <1>14, ReturnAtomic
<1>15. CASE UNCHANGED vars
  BY <1>15, IdleAtomic
<1> QED
  BY <1>1, <1>2, <1>3, <1>4, <1>5, <1>6, <1>7, <1>8, <1>9, <1>10, <1>11, <1>12, <1>13,
     <1>14, <1>15 DEF Next

-----------------------------------------------------------------------------
(* The closed form that the abstract specification uses is this one. *)
LEMMA SameUpto == \A s, i : Atomic!Upto(s, i) = Upto(s, i)
  BY DEF Atomic!Upto, Upto

LEMMA SameTally == \A s : Atomic!Tally(s) = Tally(s)
  BY SameUpto DEF Atomic!Tally, Tally

LEMMA SameSides ==
  \A x : Atomic!Exporters(x) = Exporters(x) /\ Atomic!Importers(x) = Importers(x)
  BY DEF Atomic!Exporters, Atomic!Importers, Atomic!Among, Atomic!InSurplus, Atomic!InDeficit,
         Exporters, Importers, Among, InSurplus, InDeficit

LEMMA SameTwoSided == \A x : Atomic!TwoSided(x) = TwoSided(x)
  BY SameSides DEF Atomic!TwoSided, TwoSided

LEMMA SameSize == \A x : Atomic!Size(x) = Size(x)
  BY DEF Atomic!Size, Size

LEMMA SameFits == \A x, c : Atomic!Fits(x, c) = Fits(x, c)
  BY DEF Atomic!Fits, Atomic!Tally, Atomic!Upto, Fits, Tally, Upto

LEMMA SameTransferred ==
  \A p, legs, n : Atomic!Transferred(p, legs, n) = Transferred(p, legs, n)
  BY DEF Atomic!Transferred, Atomic!TransferFrom, Atomic!CanMove,
         Transferred, TransferFrom, CanMove

LEMMA SameFunction ==
  ASSUME NEW D, NEW f, NEW g, f = [i \in D |-> f[i]], g = [i \in D |-> g[i]],
         \A i \in D : f[i] = g[i]
  PROVE  f = g
  OBVIOUS

LEMMA SameAmounts ==
  ASSUME NEW x
  PROVE  Atomic!Clearing(x) = Clearing(x)
<1> DEFINE ex == Exporters(x)
           im == Importers(x)
           prod_wh == [j \in DOMAIN ex |-> Size(x.net[ex[j]])]
           cons_wh == [i \in DOMAIN im |-> Size(x.net[im[i]])]
           traded  == Lower(Tally(prod_wh), Tally(cons_wh))
           drawn   == [i \in DOMAIN cons_wh |-> Share(cons_wh[i], traded, Tally(cons_wh))]
           pay     == [i \in DOMAIN cons_wh |-> (drawn[i] * x.price) \div WhPerKwh]
           pd      == Tally(pay)
           pool    == pd - (pd * x.fee_bps) \div BPS
           mt      == [j \in DOMAIN prod_wh |-> Share(prod_wh[j], traded, Tally(prod_wh))]
           nt      == [j \in DOMAIN prod_wh |->
                         IF Tally(mt) > 0 THEN (pool * mt[j]) \div Tally(mt) ELSE 0]
           aex == Atomic!Exporters(x)
           aim == Atomic!Importers(x)
           aprod_wh == [j \in DOMAIN aex |-> Atomic!Size(x.net[aex[j]])]
           acons_wh == [i \in DOMAIN aim |-> Atomic!Size(x.net[aim[i]])]
           atraded  == Atomic!Lower(Atomic!Tally(aprod_wh), Atomic!Tally(acons_wh))
           adrawn   == [i \in DOMAIN acons_wh |->
                          Atomic!Share(acons_wh[i], atraded, Atomic!Tally(acons_wh))]
           apay     == [i \in DOMAIN acons_wh |-> (adrawn[i] * x.price) \div Atomic!WhPerKwh]
           apd      == Atomic!Tally(apay)
           apool    == apd - (apd * x.fee_bps) \div Atomic!BPS
           amt      == [j \in DOMAIN aprod_wh |->
                          Atomic!Share(aprod_wh[j], atraded, Atomic!Tally(aprod_wh))]
           ant      == [j \in DOMAIN aprod_wh |->
                          IF Atomic!Tally(amt) > 0
                            THEN (apool * amt[j]) \div Atomic!Tally(amt) ELSE 0]
<1>1. Clearing(x) = [prod_wh |-> prod_wh, cons_wh |-> cons_wh, traded_wh |-> traded,
                     drawn |-> drawn, pay |-> pay, total_paid |-> pd, pool |-> pool,
                     matched |-> mt, net |-> nt, total_net |-> Tally(nt)]
  BY DEF Clearing
<1>2. Atomic!Clearing(x) =
        [prod_wh |-> aprod_wh, cons_wh |-> acons_wh, traded_wh |-> atraded,
         drawn |-> adrawn, pay |-> apay, total_paid |-> apd, pool |-> apool,
         matched |-> amt, net |-> ant, total_net |-> Atomic!Tally(ant)]
  BY DEF Atomic!Clearing
<1> HIDE DEF nt, ant
<1>3. /\ nt = [j \in DOMAIN prod_wh |->
                 IF Tally(mt) > 0 THEN (pool * mt[j]) \div Tally(mt) ELSE 0]
      /\ ant = [j \in DOMAIN aprod_wh |->
                  IF Atomic!Tally(amt) > 0
                    THEN (apool * amt[j]) \div Atomic!Tally(amt) ELSE 0]
  BY DEF nt, ant
<1> HIDE DEF mt, amt
<1>4. /\ mt = [j \in DOMAIN prod_wh |-> Share(prod_wh[j], traded, Tally(prod_wh))]
      /\ amt = [j \in DOMAIN aprod_wh |->
                  Atomic!Share(aprod_wh[j], atraded, Atomic!Tally(aprod_wh))]
  BY DEF mt, amt
<1> HIDE DEF pool, apool
<1>5. /\ pool = pd - (pd * x.fee_bps) \div BPS
      /\ apool = apd - (apd * x.fee_bps) \div Atomic!BPS
  BY DEF pool, apool
<1> HIDE DEF pd, apd
<1>6. pd = Tally(pay) /\ apd = Atomic!Tally(apay)
  BY DEF pd, apd
<1> HIDE DEF pay, apay
<1>7. /\ pay = [i \in DOMAIN cons_wh |-> (drawn[i] * x.price) \div WhPerKwh]
      /\ apay = [i \in DOMAIN acons_wh |-> (adrawn[i] * x.price) \div Atomic!WhPerKwh]
  BY DEF pay, apay
<1> HIDE DEF drawn, adrawn
<1>8. /\ drawn = [i \in DOMAIN cons_wh |-> Share(cons_wh[i], traded, Tally(cons_wh))]
      /\ adrawn = [i \in DOMAIN acons_wh |->
                     Atomic!Share(acons_wh[i], atraded, Atomic!Tally(acons_wh))]
  BY DEF drawn, adrawn
<1> HIDE DEF traded, atraded
<1>9. /\ traded = Lower(Tally(prod_wh), Tally(cons_wh))
      /\ atraded = Atomic!Lower(Atomic!Tally(aprod_wh), Atomic!Tally(acons_wh))
  BY DEF traded, atraded
<1> HIDE DEF prod_wh, cons_wh, aprod_wh, acons_wh
<1>10. /\ prod_wh = [j \in DOMAIN ex |-> Size(x.net[ex[j]])]
       /\ cons_wh = [i \in DOMAIN im |-> Size(x.net[im[i]])]
       /\ aprod_wh = [j \in DOMAIN aex |-> Atomic!Size(x.net[aex[j]])]
       /\ acons_wh = [i \in DOMAIN aim |-> Atomic!Size(x.net[aim[i]])]
  BY DEF prod_wh, cons_wh, aprod_wh, acons_wh
<1> HIDE DEF ex, im, aex, aim
<1>11. aex = ex /\ aim = im
  BY SameSides DEF ex, im, aex, aim
<1>12. aprod_wh = prod_wh
  <2>1. prod_wh = [j \in DOMAIN ex |-> prod_wh[j]] /\ aprod_wh = [j \in DOMAIN ex |-> aprod_wh[j]]
    BY <1>10, <1>11
  <2>2. \A j \in DOMAIN ex : aprod_wh[j] = prod_wh[j]
    BY <1>10, <1>11, SameSize
  <2> QED
    BY <2>1, <2>2, SameFunction
<1>13. acons_wh = cons_wh
  <2>1. cons_wh = [i \in DOMAIN im |-> cons_wh[i]] /\ acons_wh = [i \in DOMAIN im |-> acons_wh[i]]
    BY <1>10, <1>11
  <2>2. \A i \in DOMAIN im : acons_wh[i] = cons_wh[i]
    BY <1>10, <1>11, SameSize
  <2> QED
    BY <2>1, <2>2, SameFunction
<1>14. /\ Atomic!Tally(aprod_wh) = Tally(prod_wh) /\ Atomic!Tally(acons_wh) = Tally(cons_wh)
  BY <1>12, <1>13, SameTally
<1>15. atraded = traded
  BY <1>9, <1>14 DEF Atomic!Lower, Lower
<1>16. /\ \A i : Atomic!Share(acons_wh[i], atraded, Atomic!Tally(acons_wh))
                   = Share(cons_wh[i], traded, Tally(cons_wh))
       /\ \A j : Atomic!Share(aprod_wh[j], atraded, Atomic!Tally(aprod_wh))
                   = Share(prod_wh[j], traded, Tally(prod_wh))
  BY <1>12, <1>13, <1>14, <1>15 DEF Atomic!Share, Share
<1>17. adrawn = drawn
  <2>1. /\ drawn = [i \in DOMAIN cons_wh |-> drawn[i]]
        /\ adrawn = [i \in DOMAIN cons_wh |-> adrawn[i]]
    BY <1>8, <1>13
  <2>2. \A i \in DOMAIN cons_wh : adrawn[i] = drawn[i]
    BY <1>8, <1>13, <1>16
  <2> QED
    BY <2>1, <2>2, SameFunction
<1>18. apay = pay
  <2>1. /\ pay = [i \in DOMAIN cons_wh |-> pay[i]]
        /\ apay = [i \in DOMAIN cons_wh |-> apay[i]]
    BY <1>7, <1>13
  <2>2. \A i \in DOMAIN cons_wh : apay[i] = pay[i]
    BY <1>7, <1>13, <1>17 DEF Atomic!WhPerKwh, WhPerKwh
  <2> QED
    BY <2>1, <2>2, SameFunction
<1>19. apd = pd
  BY <1>6, <1>18, SameTally
<1>20. apool = pool
  BY <1>5, <1>19 DEF Atomic!BPS, BPS
<1>21. amt = mt
  <2>1. /\ mt = [j \in DOMAIN prod_wh |-> mt[j]]
        /\ amt = [j \in DOMAIN prod_wh |-> amt[j]]
    BY <1>4, <1>12
  <2>2. \A j \in DOMAIN prod_wh : amt[j] = mt[j]
    BY <1>4, <1>12, <1>16
  <2> QED
    BY <2>1, <2>2, SameFunction
<1>22. Atomic!Tally(amt) = Tally(mt)
  BY <1>21, SameTally
<1>23. ant = nt
  <2>1. /\ nt = [j \in DOMAIN prod_wh |-> nt[j]]
        /\ ant = [j \in DOMAIN prod_wh |-> ant[j]]
    BY <1>3, <1>12
  <2>2. \A j \in DOMAIN prod_wh : ant[j] = nt[j]
    BY <1>3, <1>12, <1>20, <1>21, <1>22
  <2> QED
    BY <2>1, <2>2, SameFunction
<1>24. Atomic!Tally(ant) = Tally(nt)
  BY <1>23, SameTally
<1> QED
  BY <1>1, <1>2, <1>12, <1>13, <1>15, <1>17, <1>18, <1>19, <1>20, <1>21, <1>23, <1>24

LEMMA SameLegs ==
  ASSUME NEW x, NEW c
  PROVE  Atomic!Legs(x, c) = Legs(x, c)
<1> DEFINE C == Cuts(c.pay, c.net)
           legs == Legs(x, c)
           alegs == Atomic!Legs(x, c)
<1>1. Atomic!Cuts(c.pay, c.net) = C
  BY DEF Atomic!Cuts, Cuts, Atomic!Upto, Upto
<1>2. \A n : Atomic!Cut(C, n) = Cut(C, n)
  BY DEF Atomic!Cut, Cut, Atomic!Below, Below, Atomic!Cardinality, Cardinality
<1>a. Atomic!Cardinality(C) = Cardinality(C)
  BY DEF Atomic!Cardinality, Cardinality
<1>3. \A s, y : Atomic!Covering(s, y) = Covering(s, y)
  BY DEF Atomic!Covering, Covering, Atomic!Upto, Upto
<1> HIDE DEF C
<1>4. legs = [n \in 1 .. Cardinality(C) - 1 |->
                [from   |-> x.owner[Importers(x)[Covering(c.pay, Cut(C, n))]],
                 to     |-> IF Cut(C, n) <= c.total_net
                              THEN x.owner[Exporters(x)[Covering(c.net, Cut(C, n))]] ELSE Admin,
                 amount |-> Cut(C, n) - Cut(C, n - 1)]]
  BY DEF Legs, C
<1>5. alegs = [n \in 1 .. Atomic!Cardinality(Atomic!Cuts(c.pay, c.net)) - 1 |->
         [from   |-> x.owner[Atomic!Importers(x)[
                       Atomic!Covering(c.pay, Atomic!Cut(Atomic!Cuts(c.pay, c.net), n))]],
          to     |-> IF Atomic!Cut(Atomic!Cuts(c.pay, c.net), n) <= c.total_net
                       THEN x.owner[Atomic!Exporters(x)[
                              Atomic!Covering(c.net, Atomic!Cut(Atomic!Cuts(c.pay, c.net), n))]]
                       ELSE Admin,
          amount |-> Atomic!Cut(Atomic!Cuts(c.pay, c.net), n)
                       - Atomic!Cut(Atomic!Cuts(c.pay, c.net), n - 1)]]
  BY DEF Atomic!Legs
<1> HIDE DEF legs, alegs
<1>6. /\ legs = [n \in 1 .. Cardinality(C) - 1 |-> legs[n]]
      /\ alegs = [n \in 1 .. Cardinality(C) - 1 |-> alegs[n]]
  BY <1>1, <1>a, <1>4, <1>5
<1>7. ASSUME NEW n \in 1 .. Cardinality(C) - 1
      PROVE  alegs[n] = legs[n]
  <2>1. Atomic!Cut(C, n) = Cut(C, n) /\ Atomic!Cut(C, n - 1) = Cut(C, n - 1)
    BY <1>2
  <2>2. /\ Atomic!Covering(c.pay, Cut(C, n)) = Covering(c.pay, Cut(C, n))
        /\ Atomic!Covering(c.net, Cut(C, n)) = Covering(c.net, Cut(C, n))
    BY <1>3
  <2>3. Atomic!Importers(x) = Importers(x) /\ Atomic!Exporters(x) = Exporters(x)
    BY SameSides
  <2>4. legs[n] = [from   |-> x.owner[Importers(x)[Covering(c.pay, Cut(C, n))]],
                   to     |-> IF Cut(C, n) <= c.total_net
                                THEN x.owner[Exporters(x)[Covering(c.net, Cut(C, n))]] ELSE Admin,
                   amount |-> Cut(C, n) - Cut(C, n - 1)]
    BY <1>4
  <2>5. alegs[n] = [from   |-> x.owner[Atomic!Importers(x)[Atomic!Covering(c.pay, Atomic!Cut(C, n))]],
                    to     |-> IF Atomic!Cut(C, n) <= c.total_net
                                 THEN x.owner[Atomic!Exporters(x)[Atomic!Covering(c.net, Atomic!Cut(C, n))]]
                                 ELSE Admin,
                    amount |-> Atomic!Cut(C, n) - Atomic!Cut(C, n - 1)]
    BY <1>1, <1>a, <1>5
  <2> QED
    BY <2>1, <2>2, <2>3, <2>4, <2>5
<1>8. alegs = legs
  BY <1>6, <1>7, SameFunction
<1> QED
  BY <1>8 DEF legs, alegs

-----------------------------------------------------------------------------
(* Every step of the run is the one step of the abstract specification, or *)
(* leaves what its caller sees as it was.                                  *)
Outcome == IF pc \in Failures \cup {"done"} THEN pc ELSE "pending"

LEMMA Pending ==
  ASSUME pc \in Active
  PROVE  Outcome = "pending"
  BY DEF Outcome, Active, Failures

LEMMA AllRegistered ==
  ASSUME AInv, pc \in Active \ {"classify"}
  PROVE  Atomic!Registered /\ Atomic!TwoSided(w)
<1>1. Seen = Len(w.ids) /\ \A i \in 1 .. Seen : w.ids[i] \in DOMAIN w.owner
  BY SeenAll DEF AInv, Sorted
<1>2. w.ids \in Seq(MeterIds)
  BY SoundWindow DEF Sound, AInv, IInv
<1>3. Atomic!Registered
  BY <1>1, <1>2 DEF Atomic!Registered, Atomic!ToSet
<1>4. prods # <<>> /\ cons # <<>>
  BY DEF AInv, IInv, Loops, Active
<1>5. Len(prods) = Len(Exporters(w)) /\ Len(cons) = Len(Importers(w))
  BY SeenAll, ClosedSides
<1>6. prods \in Seq(PartyType) /\ cons \in Seq(PartyType)
  BY DEF AInv, IInv, TypeOK
<1>7. Len(prods) # 0 /\ Len(cons) # 0 /\ Len(<<>>) = 0
  BY <1>4, <1>6
<1>8. TwoSided(w)
  BY <1>5, <1>7 DEF TwoSided
<1> QED
  BY <1>3, <1>8, SameTwoSided

LEMMA UnknownFails ==
  ASSUME AInv, UnknownMeter
  PROVE  ~Atomic!Registered
<1>1. k \in DOMAIN w.ids /\ w.ids[k] \notin DOMAIN w.owner
  BY DEF UnknownMeter
<1> QED
  BY <1>1 DEF Atomic!Registered, Atomic!ToSet

LEMMA OneSided ==
  ASSUME AInv, EndClassify, pc' = "NothingToSettle"
  PROVE  Atomic!Registered /\ ~Atomic!TwoSided(w)
<1>1. pc = "classify" /\ k \notin DOMAIN w.ids /\ (prods = <<>> \/ cons = <<>>)
  BY DEF EndClassify
<1>2. /\ Seen \in 0 .. Len(w.ids)
      /\ \A i \in 1 .. Seen : w.ids[i] \in DOMAIN w.owner
      /\ Len(prods) = Len(Among(w.ids, InSurplus(w), Seen))
      /\ Len(cons) = Len(Among(w.ids, InDeficit(w), Seen))
  BY <1>1 DEF AInv, Sorted, Active
<1>3. w.ids \in Seq(MeterIds) /\ k \in Nat \ {0} /\ Sound(w, MeterIds)
  BY SoundWindow DEF Sound, AInv, IInv, TypeOK
<1>4. Seen = Len(w.ids)
  <2>1. Seen = k - 1
    BY <1>1 DEF Seen
  <2> QED
    BY <1>1, <1>2, <1>3, <2>1
<1>5. Atomic!Registered
  BY <1>2, <1>3, <1>4 DEF Atomic!Registered, Atomic!ToSet
<1>6. /\ Len(prods) = Len(Exporters(w)) /\ Len(cons) = Len(Importers(w))
      /\ Exporters(w) \in Seq(MeterIds) /\ Importers(w) \in Seq(MeterIds)
  BY <1>2, <1>3, <1>4, SidesFacts DEF Exporters, Importers
<1>7. Exporters(w) = <<>> \/ Importers(w) = <<>>
  <2>1. Len(<<>>) = 0
    OBVIOUS
  <2>2. Len(Exporters(w)) = 0 \/ Len(Importers(w)) = 0
    BY <1>1, <1>6, <2>1
  <2> QED
    BY <1>6, <2>2, NoElements
<1>8. ~TwoSided(w)
  BY <1>7 DEF TwoSided
<1> QED
  BY <1>5, <1>8, SameTwoSided

(* The two sums of the abstract specification. *)
LEMMA SumsAre ==
  LET c == Clearing(w)
  IN  Tally(c.prod_wh) \in Atomic!Sums /\ Tally(c.cons_wh) \in Atomic!Sums
<1> DEFINE c == Clearing(w)
           a == [i \in DOMAIN Atomic!Exporters(w) |-> Atomic!Size(w.net[Atomic!Exporters(w)[i]])]
           b == [i \in DOMAIN Atomic!Importers(w) |-> Atomic!Size(w.net[Atomic!Importers(w)[i]])]
<1>1. /\ c.prod_wh = [j \in DOMAIN Exporters(w) |-> Size(w.net[Exporters(w)[j]])]
      /\ c.cons_wh = [i \in DOMAIN Importers(w) |-> Size(w.net[Importers(w)[i]])]
  BY ClearingFields
<1>2. Atomic!Sums = {Atomic!Tally(a), Atomic!Tally(b)}
  BY DEF Atomic!Sums
<1>3. /\ Atomic!Exporters(w) = Exporters(w) /\ Atomic!Importers(w) = Importers(w)
  BY SameSides
<1> HIDE DEF c
<1>4. a = c.prod_wh
  <2>1. \A j \in DOMAIN Exporters(w) : a[j] = c.prod_wh[j]
    BY <1>1, <1>3, SameSize
  <2>2. /\ a = [j \in DOMAIN Exporters(w) |-> a[j]]
        /\ c.prod_wh = [j \in DOMAIN Exporters(w) |-> c.prod_wh[j]]
    BY <1>1, <1>3
  <2> HIDE DEF a
  <2> QED
    BY <2>1, <2>2, SameFunction
<1>5. b = c.cons_wh
  <2>1. \A j \in DOMAIN Importers(w) : b[j] = c.cons_wh[j]
    BY <1>1, <1>3, SameSize
  <2>2. /\ b = [j \in DOMAIN Importers(w) |-> b[j]]
        /\ c.cons_wh = [j \in DOMAIN Importers(w) |-> c.cons_wh[j]]
    BY <1>1, <1>3
  <2> HIDE DEF b
  <2> QED
    BY <2>1, <2>2, SameFunction
<1> HIDE DEF a, b
<1> QED
  BY <1>2, <1>4, <1>5, SameTally DEF c

(* An overflow in the first loop: the sum it adds to will not fit. *)
LEMMA ClassifyOverflow ==
  ASSUME AInv, pc = "classify", ~InRange
  PROVE  \E x \in Atomic!Sums : x > I128Max
<1> DEFINE ids == w.ids
           wh == w.net[ids[k]]
           c == Clearing(w)
           Ex == InSurplus(w)
           Im == InDeficit(w)
           more == (IF wh > 0 THEN total_surplus ELSE total_deficit) + Size(wh)
<1>1. Sound(w, MeterIds) /\ TypeOK
  BY SoundWindow DEF AInv, IInv
<1>2. k \in DOMAIN ids /\ more > I128Max
  <2>1. PICK x \in Results : ~(x <= I128Max)
    BY DEF InRange
  <2>2. k \in DOMAIN ids /\ x = more
    BY <2>1 DEF Results
  <2>3. more \in Int /\ I128Max \in Nat
    <3>1. ids \in Seq(MeterIds) /\ w.net \in [MeterIds -> Int]
      BY <1>1 DEF Sound
    <3>2. ids[k] \in MeterIds
      BY <2>2, <3>1, ElementIn
    <3>3. total_surplus \in Nat /\ total_deficit \in Nat
      BY <1>1 DEF TypeOK
    <3> QED
      BY <3>1, <3>2, <3>3, AdminAssumption DEF Size
  <2> QED
    BY <2>1, <2>2, <2>3
<1>3. /\ ids \in Seq(MeterIds) /\ ids[k] \in MeterIds /\ wh \in Int
  <2>1. ids \in Seq(MeterIds) /\ w.net \in [MeterIds -> Int]
    BY <1>1 DEF Sound
  <2>2. ids[k] \in MeterIds
    BY <1>2, <2>1, ElementIn
  <2> QED
    BY <2>1, <2>2
<1>4. /\ wh > 0 <=> ids[k] \in Ex
      /\ wh < 0 <=> ids[k] \in Im
  <2>1. w.net \in [MeterIds -> Int]
    BY <1>1 DEF Sound
  <2> QED
    BY <1>3, <2>1 DEF InSurplus, InDeficit
<1>5. /\ Len(prods) = Len(Among(ids, Ex, k - 1))
      /\ Len(cons) = Len(Among(ids, Im, k - 1))
      /\ SideOf(prods, total_surplus, Exporters(w), c.prod_wh)
      /\ SideOf(cons, total_deficit, Importers(w), c.cons_wh)
  <2>1. Seen = k - 1
    BY DEF Seen
  <2> QED
    BY <2>1 DEF AInv, Sorted, Active
<1>6. /\ c.prod_wh \in Seq(Nat) /\ Len(c.prod_wh) = Len(Exporters(w))
      /\ c.cons_wh \in Seq(Nat) /\ Len(c.cons_wh) = Len(Importers(w))
      /\ \A j \in DOMAIN c.prod_wh : c.prod_wh[j] = Size(w.net[Exporters(w)[j]])
      /\ \A i \in DOMAIN c.cons_wh : c.cons_wh[i] = Size(w.net[Importers(w)[i]])
  BY <1>1, ClearingTypes
<1>7. Exporters(w) = Among(ids, Ex, Len(ids)) /\ Importers(w) = Among(ids, Im, Len(ids))
  BY DEF Exporters, Importers
<1>8. Tally(c.prod_wh) \in Atomic!Sums /\ Tally(c.cons_wh) \in Atomic!Sums
  BY SumsAre
<1>9. I128Max \in Nat /\ total_surplus \in Nat /\ total_deficit \in Nat
  BY <1>1, AdminAssumption DEF TypeOK
<1> HIDE DEF c, Ex, Im, ids
<1>10. CASE wh > 0
  <2>1. NextFound(ids, k, Ex, Exporters(w), c.prod_wh, prods, total_surplus)
    BY <1>2, <1>3, <1>4, <1>5, <1>6, <1>7, <1>10 DEF NextFound
  <2>2. /\ Len(prods) + 1 \in DOMAIN c.prod_wh
        /\ total_surplus + Size(w.net[ids[k]]) = Upto(c.prod_wh, Len(prods) + 1)
    BY <2>1, SumGrows
  <2>3. more = Upto(c.prod_wh, Len(prods) + 1)
    BY <1>10, <2>2
  <2>4. /\ Upto(c.prod_wh, Len(prods) + 1) <= Tally(c.prod_wh)
        /\ Upto(c.prod_wh, Len(prods) + 1) \in Nat /\ Tally(c.prod_wh) \in Nat
    BY <1>6, <2>2, EndNat, TallyNat
  <2> HIDE DEF more
  <2>5. Tally(c.prod_wh) > I128Max
    BY <1>2, <1>9, <2>3, <2>4
  <2> QED
    BY <1>8, <2>5
<1>11. CASE wh < 0
  <2>1. NextFound(ids, k, Im, Importers(w), c.cons_wh, cons, total_deficit)
    BY <1>2, <1>3, <1>4, <1>5, <1>6, <1>7, <1>11 DEF NextFound
  <2>2. /\ Len(cons) + 1 \in DOMAIN c.cons_wh
        /\ total_deficit + Size(w.net[ids[k]]) = Upto(c.cons_wh, Len(cons) + 1)
    BY <2>1, SumGrows
  <2>3. more = Upto(c.cons_wh, Len(cons) + 1)
    BY <1>3, <1>11, <2>2
  <2>4. /\ Upto(c.cons_wh, Len(cons) + 1) <= Tally(c.cons_wh)
        /\ Upto(c.cons_wh, Len(cons) + 1) \in Nat /\ Tally(c.cons_wh) \in Nat
    BY <1>6, <2>2, EndNat, TallyNat
  <2> HIDE DEF more
  <2>5. Tally(c.cons_wh) > I128Max
    BY <1>2, <1>9, <2>3, <2>4
  <2> QED
    BY <1>8, <2>5
<1>12. CASE wh = 0
  <2>1. more = total_deficit
    BY <1>9, <1>12 DEF Size
  <2>2. total_deficit <= I128Max
    BY <1>5 DEF SideOf
  <2> QED
    BY <1>2, <1>9, <2>1, <2>2
<1> QED
  BY <1>3, <1>10, <1>11, <1>12

(* What it takes to fit, part by part. *)
LEMMA FitsParts ==
  ASSUME NEW c
  PROVE  Fits(w, c) <=>
           /\ Tally(c.prod_wh) <= I128Max /\ Tally(c.cons_wh) <= I128Max
           /\ c.total_paid <= I128Max /\ c.total_paid * w.fee_bps <= I128Max
           /\ \A j \in DOMAIN c.prod_wh : c.prod_wh[j] * c.traded_wh <= I128Max
           /\ \A i \in DOMAIN c.cons_wh : c.cons_wh[i] * c.traded_wh <= I128Max
           /\ \A i \in DOMAIN c.drawn : c.drawn[i] * w.price <= I128Max
           /\ \A j \in DOMAIN c.matched : c.pool * c.matched[j] <= I128Max
  BY DEF Fits

(* What fits once the consumers' payments are computed. *)
LEMMA PaidFits ==
  ASSUME AInv, pc \in Active \ {"classify", "pay"}
  PROVE  LET c == Clearing(w)
         IN  /\ Tally(c.prod_wh) <= I128Max /\ Tally(c.cons_wh) <= I128Max
             /\ c.total_paid <= I128Max /\ c.total_paid * w.fee_bps <= I128Max
             /\ c.traded_wh <= I128Max /\ c.total_net <= I128Max
<1> DEFINE c == Clearing(w)
<1>1. pc \in Active /\ Seen = Len(w.ids)
  BY SeenAll
<1>2. Tally(c.prod_wh) <= I128Max /\ Tally(c.cons_wh) <= I128Max
  BY <1>1, ClosedSides
<1>3. /\ cons # <<>> /\ Len(cons_pay) = Len(cons) /\ cons \in Seq(PartyType)
      /\ cons_pay \in Seq(Nat) /\ paid \in Seq(Nat) /\ Len(paid) = Len(cons_pay)
  BY Sequences DEF AInv, IInv, Loops, Active
<1>4. Len(paid) \in DOMAIN paid /\ Len(paid) \in DOMAIN cons_pay /\ paid # <<>>
  BY <1>3
<1>5. paid[Len(paid)] <= I128Max /\ TotalPaid = paid[Len(paid)]
  BY <1>4 DEF AInv, Computed, TotalPaid, Latest
<1>6. TotalPaid = c.total_paid
  BY ClosedPool
<1>7. c.total_paid * w.fee_bps <= I128Max
  BY DEF AInv, Computed
<1>8. /\ c.prod_wh \in Seq(Nat) /\ c.cons_wh \in Seq(Nat) /\ c.traded_wh \in Nat
      /\ c.total_paid \in Nat /\ c.pool \in Nat /\ c.pool <= c.total_paid
      /\ c.total_net \in Nat /\ c.total_net <= c.pool
      /\ Traded = c.traded_wh /\ total_surplus = Tally(c.prod_wh)
  BY <1>1, ClosedTypes, ClosedSides
<1>9. I128Max \in Nat /\ total_surplus \in Nat /\ total_deficit \in Nat
  BY AdminAssumption DEF AInv, IInv, TypeOK
<1>10. c.traded_wh <= total_surplus
  BY <1>8, <1>9 DEF Traded, Lower
<1> HIDE DEF c
<1>11. c.traded_wh <= I128Max /\ c.total_net <= I128Max
  BY <1>2, <1>5, <1>6, <1>8, <1>9, <1>10
<1> QED
  BY <1>2, <1>5, <1>6, <1>7, <1>11 DEF c

LEMMA PayOverflow ==
  ASSUME AInv, pc = "pay", ~InRange
  PROVE  ~Fits(w, Clearing(w))
<1> DEFINE c == Clearing(w)
           pay == c.pay
<1>1. pc \in Active \ {"classify"}
  BY DEF Active
<1>2. /\ pay \in Seq(Nat) /\ Len(cons) = Len(pay) /\ c.total_paid = Tally(pay)
      /\ DOMAIN cons = DOMAIN c.cons_wh /\ DOMAIN cons = DOMAIN c.drawn
      /\ DOMAIN cons = DOMAIN pay /\ c.total_paid \in Nat
      /\ Traded = c.traded_wh
      /\ \A i \in DOMAIN cons :
           cons[i].wh = c.cons_wh[i] /\ Drawn(i) = c.drawn[i] /\ Due(i) = pay[i]
  BY <1>1, SeenAll, ClosedSides, ClosedTypes
<1>3. TotalPaid = Upto(pay, Len(cons_pay)) /\ Len(cons_pay) = k - 1
  BY <1>1, ClosedPaid DEF AInv, IInv, Loops
<1> HIDE DEF c, pay
<1>4. I128Max \in Nat /\ k \in Nat \ {0}
  BY AdminAssumption DEF AInv, IInv, TypeOK
<1>5. PICK x \in Results : ~(x <= I128Max)
  BY DEF InRange
<1>6. CASE k \in DOMAIN cons
  <2>1. x = cons[k].wh * Traded \/ x = Drawn(k) * w.price \/ x = TotalPaid + Due(k)
    BY <1>5, <1>6 DEF Results
  <2>2. CASE x = cons[k].wh * Traded
    <3>1. ~(c.cons_wh[k] * c.traded_wh <= I128Max) /\ k \in DOMAIN c.cons_wh
      BY <1>2, <1>5, <1>6, <2>2
    <3> QED
      BY <3>1, FitsParts DEF c
  <2>3. CASE x = Drawn(k) * w.price
    <3>1. ~(c.drawn[k] * w.price <= I128Max) /\ k \in DOMAIN c.drawn
      BY <1>2, <1>5, <1>6, <2>3
    <3> QED
      BY <3>1, FitsParts DEF c
  <2>4. CASE x = TotalPaid + Due(k)
    <3>1. k \in DOMAIN pay
      BY <1>2, <1>6
    <3>2. /\ Upto(pay, k) = Upto(pay, k - 1) + pay[k] /\ Upto(pay, k) \in Nat
          /\ Upto(pay, k) <= Tally(pay)
      BY <1>2, <3>1, EndNat
    <3>3. x = Upto(pay, k)
      BY <1>2, <1>3, <1>6, <2>4, <3>2
    <3>4. ~(c.total_paid <= I128Max)
      BY <1>2, <1>4, <1>5, <3>2, <3>3
    <3> QED
      BY <3>4, FitsParts DEF c
  <2> QED
    BY <2>1, <2>2, <2>3, <2>4
<1>7. CASE k \notin DOMAIN cons
  <2>1. x = TotalPaid * w.fee_bps
    BY <1>5, <1>7 DEF Results
  <2>2. Len(cons_pay) = Len(cons)
    <3>1. k <= Len(cons) + 1 /\ cons \in Seq(PartyType)
      BY DEF AInv, IInv, Loops, TypeOK
    <3> QED
      BY <1>3, <1>4, <1>7, <3>1
  <2>3. TotalPaid = c.total_paid
    BY <1>2, <1>3, <2>2 DEF Tally
  <2>4. ~(c.total_paid * w.fee_bps <= I128Max)
    BY <1>5, <2>1, <2>3
  <2> QED
    BY <2>4, FitsParts DEF c
<1> QED
  BY <1>6, <1>7

LEMMA MatchOverflow ==
  ASSUME AInv, pc = "match", ~InRange
  PROVE  ~Fits(w, Clearing(w))
<1> DEFINE c == Clearing(w)
           s == c.matched
<1>1. pc \in Active \ {"classify", "pay"}
  BY DEF Active
<1>2. /\ s \in Seq(Nat) /\ Len(prods) = Len(s) /\ DOMAIN prods = DOMAIN s
      /\ DOMAIN prods = DOMAIN c.prod_wh /\ Traded = c.traded_wh
      /\ \A j \in DOMAIN prods : prods[j].wh = c.prod_wh[j] /\ Matched(j) = s[j]
      /\ Tally(s) <= c.traded_wh /\ c.traded_wh \in Nat
  BY <1>1, SeenAll, ClosedSides, ClosedTypes
<1>3. MatchedTotal = Upto(s, Len(matched)) /\ Len(matched) = k - 1
  BY <1>1, ClosedMatched DEF AInv, IInv, Loops
<1>4. I128Max \in Nat /\ c.traded_wh <= I128Max
  BY <1>1, AdminAssumption, PaidFits
<1> HIDE DEF c, s
<1>5. PICK x \in Results : ~(x <= I128Max)
  BY DEF InRange
<1>6. k \in DOMAIN prods /\ (x = prods[k].wh * Traded \/ x = MatchedTotal + Matched(k))
  BY <1>5 DEF Results
<1>7. CASE x = prods[k].wh * Traded
  <2>1. ~(c.prod_wh[k] * c.traded_wh <= I128Max) /\ k \in DOMAIN c.prod_wh
    BY <1>2, <1>5, <1>6, <1>7
  <2> QED
    BY <2>1, FitsParts DEF c
<1>8. CASE x = MatchedTotal + Matched(k)
  <2>1. k \in DOMAIN s
    BY <1>2, <1>6
  <2>2. /\ Upto(s, k) = Upto(s, k - 1) + s[k] /\ Upto(s, k) \in Nat
        /\ Upto(s, k) <= Tally(s) /\ Tally(s) \in Nat
    BY <1>2, <2>1, EndNat, TallyNat
  <2>3. x = Upto(s, k)
    BY <1>2, <1>3, <1>6, <1>8, <2>2
  <2> QED
    BY <1>2, <1>4, <1>5, <2>2, <2>3
<1> QED
  BY <1>6, <1>7, <1>8

LEMMA NetOverflow ==
  ASSUME AInv, pc = "net", ~InRange
  PROVE  ~Fits(w, Clearing(w))
<1> DEFINE c == Clearing(w)
           s == c.net
<1>1. pc \in Active \ {"classify", "pay"} /\ pc \in Swapping \cup {"net"} /\ pc # "match"
  BY DEF Active
<1>2. /\ s \in Seq(Nat) /\ Len(prods) = Len(s) /\ DOMAIN prods = DOMAIN s
      /\ DOMAIN prods = DOMAIN c.matched /\ c.total_net = Tally(s)
      /\ \A j \in DOMAIN prods : Matched(j) = c.matched[j] /\ Payout(j) = s[j]
  BY <1>1, SeenAll, ClosedSides, ClosedTypes, ClosedNet
<1>3. /\ TotalNet = Upto(s, Len(netted)) /\ Len(prod_net) = k - 1 /\ Len(netted) = Len(prod_net)
      /\ Pool = c.pool
  BY <1>1, ClosedNet, ClosedPool DEF AInv, IInv, Loops
<1>4. I128Max \in Nat /\ c.total_net <= I128Max
  BY <1>1, AdminAssumption, PaidFits
<1> HIDE DEF c, s
<1>5. PICK x \in Results : ~(x <= I128Max)
  BY DEF InRange
<1>6. /\ k \in DOMAIN prods
      /\ (MatchedTotal > 0 /\ x = Pool * Matched(k)) \/ x = 0 \/ x = TotalNet + Payout(k)
  BY <1>5 DEF Results
<1>7. CASE x = Pool * Matched(k)
  <2>1. ~(c.pool * c.matched[k] <= I128Max) /\ k \in DOMAIN c.matched
    BY <1>2, <1>3, <1>5, <1>6, <1>7
  <2> QED
    BY <2>1, FitsParts DEF c
<1>8. CASE x = 0
  BY <1>4, <1>5, <1>8
<1>9. CASE x = TotalNet + Payout(k)
  <2>1. k \in DOMAIN s
    BY <1>2, <1>6
  <2>2. /\ Upto(s, k) = Upto(s, k - 1) + s[k] /\ Upto(s, k) \in Nat
        /\ Upto(s, k) <= Tally(s) /\ Tally(s) \in Nat
    BY <1>2, <2>1, EndNat, TallyNat
  <2>3. x = Upto(s, k)
    BY <1>2, <1>3, <1>6, <1>9, <2>2
  <2> QED
    BY <1>2, <1>4, <1>5, <2>2, <2>3
<1> QED
  BY <1>6, <1>7, <1>8, <1>9

(* A transfer the token refuses is one the closed form has, after the ones *)
(* that went through.                                                      *)
LEMMA RefusedLeg ==
  ASSUME AInv, pc \in Swapping, ci \in DOMAIN cons, NEW to, NEW amount \in Nat \ {0},
         Leads(to, amount), ~CanMove(purse, Leg(to, amount))
  PROVE  ~Swap(Start, w, Clearing(w)).ok
<1> DEFINE legs == Legs(w, Clearing(w))
           n == Len(events)
<1>1. purse = Transferred(Start, legs, n)
  BY DEF AInv, Laid, LaidTo
<1>2. /\ n \in Nat /\ n + 1 \in 1 .. Len(legs) /\ (n + 1) - 1 = n
      /\ Leg(to, amount) = legs[n + 1]
  BY LegNext
<1>3. Len(legs) \in Nat
  BY SoundWindow, LegsAre DEF AInv, IInv
<1>4. Swap(Start, w, Clearing(w)) = Transferred(Start, legs, Len(legs))
  BY DEF Swap
<1> HIDE DEF legs, n
<1>5. Transferred(Start, legs, n + 1) = TransferFrom(purse, legs[n + 1])
  <2>1. \A j \in 1 .. Len(legs) :
          Transferred(Start, legs, j) = TransferFrom(Transferred(Start, legs, j - 1), legs[j])
    BY <1>3, TransferredStep, Zenon
  <2> QED
    BY <1>1, <1>2, <2>1
<1>6. ~CanMove(purse, legs[n + 1])
  BY <1>2
<1>7. TransferFrom(purse, legs[n + 1]) = [ok |-> FALSE, allow |-> purse.allow, bal |-> purse.bal]
  BY <1>6 DEF TransferFrom
<1>8. ~Transferred(Start, legs, n + 1).ok
  BY <1>5, <1>7
<1>9. n + 1 \in 0 .. Len(legs)
  BY <1>2, <1>3
<1>10. ~Transferred(Start, legs, Len(legs)).ok
  BY <1>3, <1>8, <1>9, RefusedForGood
<1> QED
  BY <1>4, <1>10

LEMMA RefusedSwap ==
  ASSUME AInv, Refused
  PROVE  ~Swap(Start, w, Clearing(w)).ok /\ pc \in Swapping
<1>1. pc \in Swapping /\ ci \in DOMAIN cons
  BY DEF Refused, Swapping
<1>2. CASE pc = "swap"
  <2>1. pi \in DOMAIN prods /\ Amount > 0 /\ ~CanMove(purse, Leg(prods[pi].owner, Amount))
    BY <1>2 DEF Refused
  <2>2. Amount \in Nat \ {0} /\ Leads(prods[pi].owner, Amount)
    BY <1>1, <1>2, <2>1, SwapLeads
  <2> QED
    BY <1>1, <2>1, <2>2, RefusedLeg
<1>3. CASE pc = "remainder"
  <2>1. pay_left > 0 /\ ~CanMove(purse, Leg(Admin, pay_left)) /\ pay_left \in Nat
    BY <1>3 DEF Refused, AInv, IInv, TypeOK
  <2>2. /\ Served(charged, cons_pay, ci, pay_left)
        /\ MovedBy(paid, charged, ci) = TotalNet + to_admin
    BY <1>3 DEF AInv, IInv, Books
  <2>3. ci \in DOMAIN cons_pay /\ ci \in DOMAIN charged
    BY <1>1, <1>3, SwapFacts DEF AInv
  <2>4. /\ charged[ci] + pay_left = cons_pay[ci]
        /\ Before(paid, ci) + charged[ci] = TotalNet + to_admin
    BY <2>2, <2>3 DEF Served, MovedBy
  <2>5. Leads(Admin, pay_left)
    BY <1>1, <1>3, <2>1, <2>4, OwedLeads
  <2>6. pay_left \in Nat \ {0}
    BY <2>1
  <2> QED
    BY <1>1, <2>1, <2>5, <2>6, RefusedLeg
<1>4. CASE pc = "rest"
  <2>1. cons_pay[ci] > 0 /\ ~CanMove(purse, Leg(Admin, cons_pay[ci]))
    BY <1>4 DEF Refused
  <2>2. /\ \A h \in DOMAIN cons_pay : charged[h] = IF h < ci THEN cons_pay[h] ELSE 0
        /\ Before(paid, ci) = TotalNet + to_admin
    BY <1>4 DEF AInv, IInv, Books
  <2>3. /\ ci \in DOMAIN cons_pay /\ DOMAIN cons_pay = 1 .. Len(cons) /\ cons_pay[ci] \in Nat
        /\ TotalNet \in Nat /\ to_admin \in Nat
    BY <1>1, <1>4, SwapFacts, SwapProducers DEF AInv, IInv, TypeOK
  <2>4. charged[ci] = 0
    <3>1. ~(ci < ci)
      BY <2>3
    <3> QED
      BY <2>2, <2>3, <3>1
  <2>5. /\ charged[ci] + cons_pay[ci] = cons_pay[ci]
        /\ Before(paid, ci) + charged[ci] = TotalNet + to_admin
    BY <2>2, <2>3, <2>4
  <2>6. Leads(Admin, cons_pay[ci])
    BY <1>1, <1>4, <2>1, <2>3, <2>5, OwedLeads
  <2>7. cons_pay[ci] \in Nat \ {0}
    BY <2>1, <2>3
  <2> QED
    BY <1>1, <2>1, <2>6, <2>7, RefusedLeg
<1> QED
  BY <1>1, <1>2, <1>3, <1>4 DEF Swapping

LEMMA TrapIsAtomic ==
  ASSUME AInv, Trap
  PROVE  /\ pc \in Active
         /\ \/ \E x \in Atomic!Sums : x > I128Max
            \/ /\ Atomic!Registered /\ Atomic!TwoSided(w)
               /\ \E c \in {Atomic!Clearing(w)} : ~Atomic!Fits(w, c) \/ ~Atomic!Swapped(c).ok
<1>1. Refused \/ ~InRange
  BY DEF Trap
<1>2. Atomic!Clearing(w) = Clearing(w) /\ Atomic!Fits(w, Clearing(w)) = Fits(w, Clearing(w))
  BY SameAmounts, SameFits
<1>3. Atomic!Swapped(Clearing(w)) = Swap(Start, w, Clearing(w))
  <2>1. Atomic!Legs(w, Clearing(w)) = Legs(w, Clearing(w))
    BY SameLegs
  <2> QED
    BY <2>1, SameTransferred DEF Atomic!Swapped, Atomic!Swap, Swap, Start
<1>4. CASE Refused
  <2>1. ~Swap(Start, w, Clearing(w)).ok /\ pc \in Swapping
    BY <1>4, RefusedSwap
  <2>2. pc \in Active \ {"classify"}
    BY <2>1 DEF Active, Swapping
  <2>3. ~Atomic!Swapped(Atomic!Clearing(w)).ok
    BY <1>2, <1>3, <2>1
  <2> QED
    BY <2>2, <2>3, AllRegistered
<1>5. CASE ~InRange
  <2>1. Results # {}
    BY <1>5 DEF InRange
  <2>2. pc \in {"classify", "pay", "match", "net"}
    BY <2>1 DEF Results
  <2>3. CASE pc = "classify"
    BY <1>5, <2>3, ClassifyOverflow DEF Active
  <2>4. CASE pc \in {"pay", "match", "net"}
    <3>1. ~Fits(w, Clearing(w))
      BY <1>5, <2>4, PayOverflow, MatchOverflow, NetOverflow
    <3>2. ~Atomic!Fits(w, Atomic!Clearing(w))
      BY <1>2, <3>1
    <3>3. pc \in Active \ {"classify"}
      BY <2>4 DEF Active
    <3> QED
      BY <3>2, <3>3, AllRegistered
  <2> QED
    BY <2>2, <2>3, <2>4
<1> QED
  BY <1>1, <1>4, <1>5

(* At the end of the swap everything fitted, and every leg was made. *)
LEMMA AllFits ==
  ASSUME AInv, pc = "rest"
  PROVE  Fits(w, Clearing(w))
<1> DEFINE c == Clearing(w)
<1>1. pc \in Active \ {"classify", "pay"} /\ pc # "match" /\ pc \in Swapping
      /\ pc \in {"swap", "remainder", "rest"}
  BY DEF Active, Swapping
<1>2. /\ Tally(c.prod_wh) <= I128Max /\ Tally(c.cons_wh) <= I128Max
      /\ c.total_paid <= I128Max /\ c.total_paid * w.fee_bps <= I128Max
  BY <1>1, PaidFits
<1>3. /\ DOMAIN cons_pay = DOMAIN cons /\ DOMAIN cons = DOMAIN c.cons_wh
      /\ DOMAIN cons = DOMAIN c.drawn
      /\ DOMAIN matched = DOMAIN prods /\ DOMAIN prods = DOMAIN c.prod_wh
      /\ DOMAIN prods = DOMAIN c.matched /\ DOMAIN prod_net = DOMAIN prods
      /\ c.matched \in Seq(Nat) /\ c.pool \in Nat
  <2>1. /\ DOMAIN cons = 1 .. Len(Importers(w)) /\ DOMAIN prods = 1 .. Len(Exporters(w))
        /\ c.prod_wh \in Seq(Nat) /\ Len(c.prod_wh) = Len(Exporters(w))
        /\ c.cons_wh \in Seq(Nat) /\ Len(c.cons_wh) = Len(Importers(w))
        /\ c.drawn \in Seq(Nat) /\ Len(c.drawn) = Len(Importers(w))
        /\ c.matched \in Seq(Nat) /\ Len(c.matched) = Len(Exporters(w)) /\ c.pool \in Nat
    BY <1>1, SeenAll, ClosedSides, ClosedTypes
  <2>2. /\ DOMAIN cons = 1 .. Len(cons) /\ DOMAIN cons_pay = 1 .. Len(cons)
        /\ DOMAIN prods = 1 .. Len(prods) /\ DOMAIN prod_net = 1 .. Len(prods)
    BY <1>1, SwapFacts, SwapProducers DEF AInv
  <2>3. matched \in Seq(Nat) /\ Len(matched) = Len(prods)
    BY <1>1, ClosedMatched
  <2> HIDE DEF c
  <2> QED
    BY <2>1, <2>2, <2>3
<1>4. /\ \A i \in DOMAIN cons_pay :
           c.cons_wh[i] * c.traded_wh <= I128Max /\ c.drawn[i] * w.price <= I128Max
      /\ \A j \in DOMAIN matched : c.prod_wh[j] * c.traded_wh <= I128Max
      /\ \A j \in DOMAIN prod_net : Tally(c.matched) > 0 => c.pool * c.matched[j] <= I128Max
  BY DEF AInv, Computed
<1> HIDE DEF c
<1>5. ASSUME NEW j \in DOMAIN c.matched
      PROVE  c.pool * c.matched[j] <= I128Max
  <2>1. Tally(c.matched) \in Nat /\ c.matched[j] \in Nat /\ c.matched[j] <= Tally(c.matched)
    BY <1>3, TallyNat, ElementIn
  <2>2. CASE Tally(c.matched) > 0
    BY <1>3, <1>4, <2>2
  <2>3. CASE Tally(c.matched) = 0
    <3>1. c.matched[j] = 0
      BY <2>1, <2>3
    <3>2. c.pool * c.matched[j] = 0
      BY <1>3, <3>1
    <3>3. I128Max \in Nat
      BY AdminAssumption
    <3> QED
      BY <3>2, <3>3
  <2> QED
    BY <2>1, <2>2, <2>3
<1> QED
  BY <1>2, <1>3, <1>4, <1>5, FitsParts DEF c

LEMMA AllLaid ==
  ASSUME AInv, pc = "rest", ci \notin DOMAIN cons
  PROVE  LET legs == Legs(w, Clearing(w))
         IN  events = legs /\ purse = Swap(Start, w, Clearing(w))
<1> DEFINE c == Clearing(w)
           legs == Legs(w, c)
           C == CutsOf(w)
<1>1. pc \in Active \ {"classify", "pay"} /\ pc \in Swapping /\ pc \in {"swap", "remainder", "rest"}
  BY DEF Active, Swapping
<1>2. Sound(w, MeterIds)
  BY SoundWindow DEF AInv, IInv
<1>3. /\ Moved \in C /\ Len(events) = Cardinality(Below(C, Moved))
      /\ \A i \in 1 .. Len(events) : events[i] = legs[i]
      /\ purse = Transferred(Start, legs, Len(events))
  BY <1>1 DEF AInv, Laid, LaidTo
<1>4. /\ C \in SUBSET Nat /\ IsFiniteSet(C) /\ \A z \in C : z <= c.total_paid
  BY <1>2, CutsOfFinite
<1>5. /\ legs = [n \in 1 .. Cardinality(C) - 1 |-> LegTill(w, n)]
      /\ Len(legs) = Cardinality(C) - 1 /\ Cardinality(C) - 1 \in Nat
  BY <1>2, LegsAre
<1>6. Moved = c.total_paid
  <2>1. /\ Len(cons) \in Nat \ {0} /\ DOMAIN cons = 1 .. Len(cons)
        /\ DOMAIN cons_pay = 1 .. Len(cons) /\ DOMAIN charged = 1 .. Len(cons)
        /\ ci \in 1 .. Len(cons) + 1 /\ TotalPaid = paid[Len(cons)] /\ TotalPaid \in Nat
    BY <1>1, SwapFacts DEF AInv
  <2>2. ci = Len(cons) + 1 /\ ci # 1 /\ ci - 1 = Len(cons) /\ ci \notin DOMAIN charged
    BY <2>1
  <2>3. Before(paid, ci) = TotalPaid
    BY <2>1, <2>2 DEF Before
  <2>4. Moved = TotalPaid
    BY <2>1, <2>2, <2>3 DEF Moved, MovedBy
  <2> QED
    BY <1>1, <2>4, ClosedPool
<1> HIDE DEF c, legs, C
<1>7. Cardinality(Below(C, Moved)) = Cardinality(C) - 1
  BY <1>3, <1>4, <1>6, TopCut
<1>8. Len(events) = Len(legs)
  BY <1>3, <1>5, <1>7
<1>9. events = legs
  <2>1. events \in Seq(LegType)
    BY DEF AInv, IInv, TypeOK
  <2>2. /\ events = [i \in 1 .. Len(events) |-> events[i]]
        /\ legs = [i \in 1 .. Len(events) |-> legs[i]]
    BY <1>5, <1>8, <2>1
  <2> QED
    BY <1>3, <2>2, SameFunction
<1>10. purse = Swap(Start, w, c)
  BY <1>3, <1>8 DEF Swap, legs
<1> QED
  BY <1>9, <1>10 DEF legs, c

LEMMA ReturnIsAtomic ==
  ASSUME AInv, Return
  PROVE  /\ Outcome = "pending" /\ Outcome' = "done"
         /\ Atomic!Registered /\ Atomic!TwoSided(w)
         /\ net' = [m \in MeterIds |-> IF m \in Atomic!ToSet(w.ids) THEN 0 ELSE net[m]]
         /\ \E c \in {Atomic!Clearing(w)} :
              /\ Atomic!Fits(w, c)
              /\ \E p \in {Atomic!Swapped(c)} : p.ok /\ bal' = p.bal /\ allow' = p.allow
              /\ payments' = Atomic!Legs(w, c)
              /\ report' = [traded_wh |-> c.traded_wh,
                            producers |-> Len(c.prod_wh), consumers |-> Len(c.cons_wh),
                            paid_out |-> c.total_net, fee |-> c.total_paid - c.total_net]
         /\ UNCHANGED w
<1> DEFINE c == Clearing(w)
<1>1. /\ pc = "rest" /\ pc' = "done" /\ ci \notin DOMAIN cons
      /\ net' = Cleared /\ bal' = purse.bal /\ allow' = purse.allow /\ payments' = events
      /\ report' = [traded_wh |-> Traded, producers |-> Len(prods), consumers |-> Len(cons),
                    paid_out |-> TotalNet, fee |-> TotalPaid - TotalNet]
      /\ w' = w
  BY DEF Return
<1>2. pc \in Active \ {"classify", "pay"} /\ pc \in Swapping
  BY <1>1 DEF Active, Swapping
<1>3. Outcome = "pending" /\ Outcome' = "done"
  BY <1>1, <1>2, Pending DEF Outcome
<1>4. Atomic!Registered /\ Atomic!TwoSided(w)
  BY <1>2, AllRegistered
<1>5. net' = [m \in MeterIds |-> IF m \in Atomic!ToSet(w.ids) THEN 0 ELSE net[m]]
  BY <1>1 DEF Cleared, ToSet, Atomic!ToSet
<1>6. Atomic!Clearing(w) = c /\ Atomic!Fits(w, c) /\ Atomic!Legs(w, c) = Legs(w, c)
  BY <1>1, AllFits, SameAmounts, SameFits, SameLegs
<1>7. events = Legs(w, c) /\ purse = Swap(Start, w, c)
  BY <1>1, AllLaid
<1>8. Atomic!Swapped(c) = purse
  <2>1. Atomic!Swapped(c) = Swap(Start, w, c)
    BY <1>6, SameTransferred DEF Atomic!Swapped, Atomic!Swap, Swap, Start
  <2> QED
    BY <1>7, <2>1
<1>9. purse.ok
  BY DEF AInv, IInv, TypeOK, Purses
<1>10. /\ Traded = c.traded_wh /\ Len(prods) = Len(c.prod_wh) /\ Len(cons) = Len(c.cons_wh)
       /\ TotalNet = c.total_net /\ TotalPaid = c.total_paid
  BY <1>2, SeenAll, ClosedSides, ClosedTypes, ClosedPool, ClosedNet
<1> HIDE DEF c
<1>11. /\ Atomic!Fits(w, c)
       /\ \E p \in {Atomic!Swapped(c)} : p.ok /\ bal' = p.bal /\ allow' = p.allow
       /\ payments' = Atomic!Legs(w, c)
       /\ report' = [traded_wh |-> c.traded_wh,
                     producers |-> Len(c.prod_wh), consumers |-> Len(c.cons_wh),
                     paid_out |-> c.total_net, fee |-> c.total_paid - c.total_net]
  BY <1>1, <1>6, <1>7, <1>8, <1>9, <1>10
<1> QED
  BY <1>1, <1>3, <1>4, <1>5, <1>6, <1>11

LEMMA AtomicInit ==
  ASSUME Init
  PROVE  Atomic!Init
<1>1. Outcome = "pending"
  BY DEF Init, Outcome, Failures
<1>2. report = Atomic!NoReport
  BY DEF Init, NoReport, Atomic!NoReport
<1> QED
  BY <1>1, <1>2 DEF Init, Atomic!Init, Outcome

LEMMA AtomicStep ==
  ASSUME AInv, [Next]_vars
  PROVE  [Atomic!Next]_(Atomic!vars)
<1>1. ASSUME pc \in Active, pc' \in Active, UNCHANGED <<w, ledger>>
      PROVE  UNCHANGED Atomic!vars
  <2>1. Outcome = "pending" /\ Outcome' = "pending"
    BY <1>1 DEF Outcome, Active, Failures
  <2> QED
    BY <1>1, <2>1 DEF ledger, Atomic!vars, Outcome
<1>2. ASSUME NEW why \in Failures, pc \in Active, pc' = why, UNCHANGED <<w, ledger>>
      PROVE  Atomic!Fail(why)
  <2>1. Outcome = "pending" /\ Outcome' = why
    BY <1>2 DEF Outcome, Active, Failures
  <2> QED
    BY <1>2, <2>1 DEF ledger, Atomic!Fail, Outcome
<1>3. CASE Classify \/ Pay \/ EndPay \/ Match \/ EndMatch \/ Net \/ EndNet
  <2>1. pc \in Active /\ pc' \in Active /\ UNCHANGED <<w, ledger>>
    BY <1>3 DEF Classify, Pay, EndPay, Match, EndMatch, Net, EndNet, Active
  <2> QED
    BY <1>1, <2>1
<1>4. CASE SwapStep \/ EndSwap \/ Remainder \/ NoRemainder \/ Rest
  <2>1. pc \in Active /\ pc' \in Active /\ UNCHANGED <<w, ledger>>
    BY <1>4 DEF SwapStep, EndSwap, Remainder, NoRemainder, Rest, Active
  <2> QED
    BY <1>1, <2>1
<1>5. CASE EndClassify
  <2>1. pc \in Active /\ pc' \in {"NothingToSettle", "pay"} /\ UNCHANGED <<w, ledger>>
    BY <1>5 DEF EndClassify, Active
  <2>2. CASE pc' = "pay"
    BY <1>1, <2>1, <2>2 DEF Active
  <2>3. CASE pc' = "NothingToSettle"
    <3>1. Atomic!Fail("NothingToSettle")
      BY <1>2, <2>1, <2>3 DEF Failures
    <3>2. Atomic!NothingToSettle
      BY <1>5, <2>3, <3>1, OneSided DEF Atomic!NothingToSettle
    <3> QED
      BY <3>2 DEF Atomic!Next
  <2> QED
    BY <2>1, <2>2, <2>3
<1>6. CASE UnknownMeter
  <2>1. pc \in Active /\ pc' = "MeterNotFound" /\ UNCHANGED <<w, ledger>>
    BY <1>6 DEF UnknownMeter, Active
  <2>2. Atomic!Fail("MeterNotFound")
    BY <1>2, <2>1 DEF Failures
  <2> QED
    BY <1>6, <2>2, UnknownFails DEF Atomic!MeterNotFound, Atomic!Next
<1>7. CASE Trap
  <2>1. pc' = "trap" /\ UNCHANGED <<w, ledger>>
    BY <1>7 DEF Trap
  <2>2. /\ pc \in Active
        /\ \/ \E x \in Atomic!Sums : x > I128Max
           \/ /\ Atomic!Registered /\ Atomic!TwoSided(w)
              /\ \E c \in {Atomic!Clearing(w)} : ~Atomic!Fits(w, c) \/ ~Atomic!Swapped(c).ok
    BY <1>7, TrapIsAtomic
  <2>3. Atomic!Fail("trap")
    BY <1>2, <2>1, <2>2 DEF Failures
  <2>4. Atomic!Trap
    BY <2>2, <2>3 DEF Atomic!Trap
  <2> QED
    BY <2>4 DEF Atomic!Next
<1>8. CASE Return
  <2>1. Atomic!Settle
    BY <1>8, ReturnIsAtomic DEF Atomic!Settle, Outcome
  <2> QED
    BY <2>1 DEF Atomic!Next
<1>9. CASE UNCHANGED vars
  <2>1. w' = w /\ pc' = pc /\ UNCHANGED ledger
    BY <1>9 DEF vars
  <2> QED
    BY <2>1 DEF ledger, Atomic!vars
<1> QED
  BY <1>3, <1>4, <1>5, <1>6, <1>7, <1>8, <1>9 DEF Next

(* The invariant of the refinement. *)
THEOREM RunAInv == Spec => []AInv
<1>1. Init => AInv
  BY InitAtomic
<1>2. AInv /\ [Next]_vars => AInv'
  BY NextAInv
<1> QED
  BY <1>1, <1>2, PTL DEF Spec

(* A caller of settle sees one atomic step (settle.rs:43-190): for every   *)
(* window and every wallet, a run that returns leaves the balances, the    *)
(* allowances, the events, the report and the positions of the closed      *)
(* form, and a run that fails fails as the closed form may and leaves the  *)
(* ledger untouched.                                                       *)
THEOREM RunAtomic == Spec => RunIsAtomic
<1>1. Init => Atomic!Init
  BY AtomicInit
<1>2. AInv /\ [Next]_vars => [Atomic!Next]_(Atomic!vars)
  BY AtomicStep
<1>3. Spec => []AInv
  BY RunAInv
<1> QED
  BY <1>1, <1>2, <1>3, PTL DEF Spec, RunIsAtomic, Atomic!Spec
=============================================================================
