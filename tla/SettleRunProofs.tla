--------------------------- MODULE SettleRunProofs ---------------------------
(***************************************************************************)
(* Proofs about `settle::run` for every list of meters, every position,    *)
(* every price, fee and wallet.                                            *)
(***************************************************************************)
EXTENDS SettleRunProps, SettlementProofs

LEMMA NoElements ==
  ASSUME NEW S, NEW s \in Seq(S), Len(s) = 0
  PROVE  s = <<>>
  OBVIOUS

LEMMA LatestNat ==
  ASSUME NEW s \in Seq(Nat)
  PROVE  Latest(s) \in Nat
<1>1. CASE s = <<>>
  BY <1>1 DEF Latest
<1>2. CASE s # <<>>
  <2>1. Len(s) \in DOMAIN s
    BY <1>2
  <2> QED
    BY <1>2, <2>1, ElementIn DEF Latest
<1> QED
  BY <1>1, <1>2

(* Running totals: the next one is the latest plus the next amount. *)
LEMMA GrownSum ==
  ASSUME NEW sums \in Seq(Nat), NEW f, NEW n, n = Len(sums) + 1, f[n] \in Nat,
         Accumulates(sums, f)
  PROVE  /\ Accumulates(Append(sums, Latest(sums) + f[n]), f)
         /\ Append(sums, Latest(sums) + f[n]) \in Seq(Nat)
         /\ Len(Append(sums, Latest(sums) + f[n])) = n
<1> DEFINE next == Append(sums, Latest(sums) + f[n])
<1>1. Latest(sums) \in Nat /\ Latest(sums) = Before(sums, Len(sums) + 1)
  BY LatestNat DEF Latest, Before
<1>2. /\ next \in Seq(Nat) /\ Len(next) = Len(sums) + 1
      /\ \A i \in DOMAIN sums : next[i] = sums[i]
      /\ next[n] = Latest(sums) + f[n]
      /\ \A i \in DOMAIN next : i \in DOMAIN sums \/ i = n
  BY <1>1, Appended
<1>3. DOMAIN sums = 1 .. Len(sums) /\ Len(sums) \in Nat
  OBVIOUS
<1> HIDE DEF next
<1>4. ASSUME NEW i \in DOMAIN next
      PROVE  next[i] = Before(next, i) + f[i]
  <2>1. CASE i \in DOMAIN sums
    <3>1. Before(next, i) = Before(sums, i)
      <4>1. CASE i = 1
        BY <4>1 DEF Before
      <4>2. CASE i # 1
        <5>1. i - 1 \in DOMAIN sums
          BY <1>3, <2>1, <4>2
        <5> QED
          BY <1>2, <4>2, <5>1 DEF Before
      <4> QED
        BY <4>1, <4>2
    <3> QED
      BY <1>2, <2>1, <3>1 DEF Accumulates
  <2>2. CASE i = n
    <3>1. Before(next, i) = Latest(sums)
      <4>1. CASE Len(sums) = 0
        BY <1>1, <2>2, <4>1 DEF Before
      <4>2. CASE Len(sums) # 0
        <5>1. i - 1 \in DOMAIN sums /\ i # 1
          BY <1>3, <2>2, <4>2
        <5> QED
          BY <1>1, <1>2, <2>2, <5>1 DEF Before
      <4> QED
        BY <4>1, <4>2
    <3> QED
      BY <1>2, <2>2, <3>1
  <2> QED
    BY <1>2, <2>1, <2>2
<1> QED
  BY <1>2, <1>4 DEF next, Accumulates

LEMMA PartyFields ==
  ASSUME NEW s \in Seq(PartyType), NEW i \in DOMAIN s
  PROVE  s[i].wh \in Nat \ {0} /\ s[i].owner \in Accounts
<1>1. s[i] \in PartyType
  BY ElementIn
<1> QED
  BY <1>1 DEF PartyType

LEMMA WindowFields ==
  ASSUME NEW x \in WindowType
  PROVE  x.price \in Nat /\ x.fee_bps \in Nat /\ x.fee_bps <= BPS
<1>1. x.price \in Nat /\ x.fee_bps \in 0 .. BPS
  BY DEF WindowType
<1>2. \A f \in 0 .. BPS : f \in Nat /\ f <= BPS
  BY DEF BPS
<1> QED
  BY <1>1, <1>2, Zenon

(* A fee of at most 10000 basis points leaves a pool that is not negative. *)
LEMMA PoolNat ==
  ASSUME TypeOK
  PROVE  TotalPaid \in Nat /\ Pool \in Nat /\ Pool <= TotalPaid
<1>1. TotalPaid \in Nat
  BY LatestNat DEF TypeOK, TotalPaid
<1>2. w.fee_bps \in Nat /\ w.fee_bps <= BPS /\ BPS \in Nat \ {0}
  BY WindowFields DEF TypeOK, BPS
<1>3. w.fee_bps * TotalPaid <= BPS * TotalPaid
  BY <1>1, <1>2, ProductMonotone
<1>4. TotalPaid * w.fee_bps \in Nat /\ TotalPaid * w.fee_bps <= TotalPaid * BPS
  BY <1>1, <1>2, <1>3
<1>5. (TotalPaid * w.fee_bps) \div BPS \in Nat /\ (TotalPaid * w.fee_bps) \div BPS <= TotalPaid
  BY <1>1, <1>2, <1>4, Floor, FloorBelow
<1> QED
  BY <1>1, <1>5 DEF Pool

(* The amounts of the loops are natural numbers. *)
LEMMA AmountsNat ==
  ASSUME TypeOK, Loops
  PROVE  /\ Traded \in Nat /\ MatchedTotal \in Nat /\ TotalNet \in Nat
         /\ \A i \in DOMAIN cons : Due(i) \in Nat
         /\ \A j \in DOMAIN prods : Matched(j) \in Nat /\ Payout(j) \in Nat
<1>1. Traded \in Nat /\ MatchedTotal \in Nat /\ TotalNet \in Nat
  BY LatestNat DEF TypeOK, Traded, Lower, MatchedTotal, TotalNet
<1>2. ASSUME NEW i \in DOMAIN cons PROVE Due(i) \in Nat
  <2>1. cons[i].wh \in Nat
    BY <1>2, PartyFields DEF TypeOK
  <2>2. total_deficit \in Nat \ {0}
    BY <1>2 DEF TypeOK, Loops
  <2>3. w.price \in Nat
    BY WindowFields DEF TypeOK
  <2>4. Drawn(i) \in Nat
    BY <2>1, <2>2, <1>1, ProductNat, Floor DEF Drawn, Share
  <2> QED
    BY <2>3, <2>4, ProductNat, Floor DEF Due, WhPerKwh
<1>3. ASSUME NEW j \in DOMAIN prods PROVE Matched(j) \in Nat /\ Payout(j) \in Nat
  <2>1. prods[j].wh \in Nat
    BY <1>3, PartyFields DEF TypeOK
  <2>4. total_surplus \in Nat \ {0}
    BY <1>3 DEF TypeOK, Loops
  <2>2. Matched(j) \in Nat
    BY <2>1, <2>4, <1>1, ProductNat, Floor DEF Matched, Share
  <2>3. Pool * Matched(j) \in Nat
    BY <2>2, PoolNat, ProductNat
  <2> QED
    BY <2>2, <2>3, <1>1, Floor DEF Payout
<1> QED
  BY <1>1, <1>2, <1>3

(* The sequences of amounts. *)
LEMMA Sequences ==
  ASSUME IInv
  PROVE  /\ cons_pay \in Seq(Nat) /\ paid \in Seq(Nat) /\ Len(paid) = Len(cons_pay)
         /\ matched \in Seq(Nat)
         /\ prod_net \in Seq(Nat) /\ netted \in Seq(Nat) /\ Len(netted) = Len(prod_net)
         /\ prods \in Seq(PartyType) /\ cons \in Seq(PartyType)
         /\ charged \in Seq(Nat) /\ received \in Seq(Nat)
         /\ k \in Nat \ {0}
  BY DEF IInv, TypeOK, Sums

(* What is still empty before each loop of step 2. *)
LEMMA StillEmpty ==
  ASSUME IInv
  PROVE  /\ pc = "classify" => cons_pay = <<>> /\ paid = <<>>
         /\ pc \in {"classify", "pay"} => matched = <<>>
         /\ pc \in {"classify", "pay", "match"} => prod_net = <<>> /\ netted = <<>>
<1>1. /\ pc = "classify" => cons_pay = <<>>
      /\ pc \in {"classify", "pay"} => matched = <<>>
      /\ pc \in {"classify", "pay", "match"} => prod_net = <<>>
  BY DEF IInv, Loops
<1>2. Len(<<>>) = 0
  OBVIOUS
<1> QED
  BY <1>1, <1>2, Sequences, NoElements

-----------------------------------------------------------------------------
LEMMA InitIInv == Init => IInv
<1> SUFFICES ASSUME Init PROVE IInv
  OBVIOUS
<1>1. w \in WindowType /\ net = w.net
  BY WindowsAssumption DEF Init
<1>2. bal \in [Accounts -> Nat] /\ allow \in [Accounts -> Nat]
  BY WalletsAssumption DEF Init
<1>3. TypeOK
  BY <1>1, <1>2 DEF Init, TypeOK, WindowType, Purses, NoReport, Terminal
<1>4. Loops
  BY DEF Init, Loops
<1>5. Sums
  BY DEF Init, Sums, Accumulates
<1>6. PoolHolds
  BY DEF Init, PoolHolds
<1>7. Books
  BY DEF Init, Books
<1> QED
  BY <1>3, <1>4, <1>5, <1>6, <1>7 DEF IInv

-----------------------------------------------------------------------------
(* Step 1 of the code. *)
LEMMA ClassifyStep ==
  ASSUME IInv, Classify
  PROVE  IInv'
<1> DEFINE wh == w.net[w.ids[k]]
           party == [owner |-> w.owner[w.ids[k]], wh |-> Size(wh)]
<1>1. wh \in Int /\ w.owner[w.ids[k]] \in Accounts
  <2>1. w.ids \in Seq(MeterIds) /\ w.owner \in OwnerType /\ w.net \in [MeterIds -> Int]
    BY DEF IInv, TypeOK, WindowType
  <2>2. w.ids[k] \in MeterIds
    BY <2>1, ElementIn DEF Classify
  <2>3. PICK R \in SUBSET MeterIds : w.owner \in [R -> Accounts]
    BY <2>1 DEF OwnerType
  <2> QED
    BY <2>1, <2>2, <2>3 DEF Classify
<1>2. wh # 0 => party \in PartyType
  BY <1>1 DEF PartyType, Size
<1>3. /\ prods' = IF wh > 0 THEN Append(prods, party) ELSE prods
      /\ cons' = IF wh < 0 THEN Append(cons, party) ELSE cons
      /\ total_surplus' = IF wh > 0 THEN total_surplus + wh ELSE total_surplus
      /\ total_deficit' = IF wh < 0 THEN total_deficit - wh ELSE total_deficit
      /\ k' = k + 1 /\ pc = "classify"
      /\ UNCHANGED <<w, ledger, pc, money, swap>>
  BY DEF Classify
<1> HIDE DEF wh, party
<1>4. prods' \in Seq(PartyType) /\ cons' \in Seq(PartyType)
  BY <1>1, <1>2, <1>3, Sequences, Appended
<1>5. total_surplus' \in Nat /\ total_deficit' \in Nat /\ k' \in Nat \ {0}
  <2>1. total_surplus \in Nat /\ total_deficit \in Nat /\ k \in Nat \ {0}
    BY DEF IInv, TypeOK
  <2> QED
    BY <1>1, <1>3, <2>1
<1>6. TypeOK'
  BY <1>3, <1>4, <1>5 DEF IInv, TypeOK, ledger, money, swap
<1>7. /\ cons' # <<>> => total_deficit' > 0
      /\ prods' # <<>> => total_surplus' > 0
  <2>1. /\ total_surplus \in Nat /\ total_deficit \in Nat
        /\ cons # <<>> => total_deficit > 0
        /\ prods # <<>> => total_surplus > 0
    BY DEF IInv, TypeOK, Loops
  <2> QED
    BY <1>1, <1>3, <2>1
<1>8. Loops'
  BY <1>3, <1>7 DEF IInv, Loops, ledger, money, swap
<1>9. cons_pay = <<>> /\ matched = <<>> /\ prod_net = <<>> /\ netted = <<>> /\ paid = <<>>
  BY <1>3, StillEmpty
<1>10. Sums'
  BY <1>3, <1>9 DEF Sums, money, Accumulates
<1>11. PoolHolds'
  BY <1>3, <1>9 DEF PoolHolds, money
<1>12. Books'
  BY <1>3 DEF Books
<1> QED
  BY <1>6, <1>8, <1>10, <1>11, <1>12 DEF IInv

LEMMA EndClassifyStep ==
  ASSUME IInv, EndClassify \/ UnknownMeter
  PROVE  IInv'
<1>1. /\ pc = "classify" /\ k' \in {1, k}
      /\ pc' \in {"MeterNotFound", "NothingToSettle", "pay"}
      /\ pc' = "pay" => k' = 1 /\ prods # <<>> /\ cons # <<>>
      /\ UNCHANGED <<w, ledger, positions, money, swap>>
  BY DEF EndClassify, UnknownMeter
<1>2. cons_pay = <<>> /\ matched = <<>> /\ prod_net = <<>> /\ netted = <<>> /\ paid = <<>>
  BY <1>1, StillEmpty
<1>3. TypeOK'
  <2>1. pc' \in {"pay"} \cup Terminal /\ k' \in Nat \ {0}
    BY <1>1, Sequences DEF Terminal, Failures
  <2> QED
    BY <1>1, <2>1 DEF IInv, TypeOK, ledger, positions, money, swap
<1>4. Loops'
  BY <1>1, <1>2 DEF IInv, TypeOK, Loops, ledger, positions, money, swap
<1>5. Sums'
  BY <1>1, <1>2 DEF Sums, money, Accumulates
<1>6. PoolHolds'
  BY <1>1, <1>2 DEF PoolHolds, money
<1>7. Books'
  BY <1>1 DEF Books
<1> QED
  BY <1>3, <1>4, <1>5, <1>6, <1>7 DEF IInv

-----------------------------------------------------------------------------
(* Step 2 of the code. *)
LEMMA PayStep ==
  ASSUME IInv, Pay
  PROVE  IInv'
<1>1. /\ pc = "pay" /\ k \in DOMAIN cons /\ k' = k + 1
      /\ cons_pay' = Append(cons_pay, Due(k))
      /\ paid' = Append(paid, TotalPaid + Due(k))
      /\ UNCHANGED <<w, ledger, pc, positions, matched, prod_net, netted, swap>>
  BY DEF Pay
<1>2. Due(k) \in Nat /\ TotalPaid \in Nat
  BY <1>1, AmountsNat, PoolNat DEF IInv
<1>3. matched = <<>> /\ prod_net = <<>> /\ netted = <<>>
  BY <1>1, StillEmpty
<1>4. /\ cons_pay \in Seq(Nat) /\ paid \in Seq(Nat) /\ k \in Nat \ {0}
      /\ Len(cons_pay) = k - 1 /\ Len(paid) = k - 1
  BY <1>1, Sequences DEF IInv, Loops
<1>5. /\ cons_pay' \in Seq(Nat) /\ Len(cons_pay') = k /\ cons_pay'[k] = Due(k)
      /\ \A i \in DOMAIN cons_pay : cons_pay'[i] = cons_pay[i]
  BY <1>1, <1>2, <1>4, Appended
<1>6. Accumulates(paid', cons_pay') /\ paid' \in Seq(Nat) /\ Len(paid') = k
  <2>1. Accumulates(paid, cons_pay')
    BY <1>4, <1>5 DEF IInv, Sums, Accumulates
  <2>2. k = Len(paid) + 1 /\ cons_pay'[k] \in Nat
    BY <1>2, <1>4, <1>5
  <2>3. paid' = Append(paid, Latest(paid) + cons_pay'[k])
    BY <1>1, <1>5 DEF TotalPaid
  <2> QED
    BY <1>4, <2>1, <2>2, <2>3, GrownSum
<1>7. TypeOK'
  <2>1. k' \in Nat \ {0}
    BY <1>1, <1>4
  <2> QED
    BY <1>1, <1>5, <1>6, <2>1 DEF IInv, TypeOK, ledger, positions, swap
<1>8. Loops'
  <2>1. k' - 1 = k /\ k' <= Len(cons) + 1
    BY <1>1, <1>4, Sequences
  <2> QED
    BY <1>1, <1>3, <1>5, <2>1 DEF IInv, Loops, ledger, positions, swap
<1>9. Sums'
  BY <1>1, <1>3, <1>5, <1>6 DEF Sums, Accumulates
<1>10. PoolHolds'
  BY <1>1, <1>3 DEF PoolHolds
<1>11. Books'
  BY <1>1 DEF Books
<1> QED
  BY <1>7, <1>8, <1>9, <1>10, <1>11 DEF IInv

LEMMA EndPayStep ==
  ASSUME IInv, EndPay
  PROVE  IInv'
<1>1. /\ pc = "pay" /\ pc' = "match" /\ k' = 1 /\ k \notin DOMAIN cons
      /\ UNCHANGED <<w, ledger, positions, money, swap>>
  BY DEF EndPay
<1>2. matched = <<>> /\ prod_net = <<>> /\ netted = <<>>
  BY <1>1, StillEmpty
<1>3. Len(cons_pay) = Len(cons)
  BY <1>1, Sequences DEF IInv, Loops
<1>4. TypeOK'
  BY <1>1 DEF IInv, TypeOK, ledger, positions, money, swap
<1>5. Loops'
  BY <1>1, <1>2, <1>3, Sequences DEF IInv, Loops, ledger, positions, money, swap
<1>6. Sums'
  BY <1>1, <1>2 DEF IInv, Sums, money, Accumulates
<1>7. PoolHolds'
  BY <1>1, <1>2 DEF PoolHolds, money
<1>8. Books'
  BY <1>1 DEF Books
<1> QED
  BY <1>4, <1>5, <1>6, <1>7, <1>8 DEF IInv

LEMMA MatchStep ==
  ASSUME IInv, Match
  PROVE  IInv'
<1>1. /\ pc = "match" /\ k \in DOMAIN prods /\ k' = k + 1
      /\ matched' = Append(matched, MatchedTotal + Matched(k))
      /\ UNCHANGED <<w, ledger, pc, positions, cons_pay, paid, prod_net, netted, swap>>
  BY DEF Match
<1>2. Matched(k) \in Nat
  BY <1>1, AmountsNat DEF IInv
<1>3. prod_net = <<>> /\ netted = <<>>
  BY <1>1, StillEmpty
<1>4. matched \in Seq(Nat) /\ k \in Nat \ {0} /\ Len(matched) = k - 1 /\ k <= Len(prods)
  BY <1>1, Sequences DEF IInv, Loops
<1>5. Accumulates(matched', MatchedWh) /\ matched' \in Seq(Nat) /\ Len(matched') = k
  <2>1. Accumulates(matched, MatchedWh)
    BY DEF IInv, Sums
  <2>2. k = Len(matched) + 1 /\ MatchedWh[k] \in Nat
    BY <1>1, <1>2, <1>4 DEF MatchedWh
  <2>3. matched' = Append(matched, Latest(matched) + MatchedWh[k])
    BY <1>1 DEF MatchedTotal, MatchedWh
  <2> QED
    BY <1>4, <2>1, <2>2, <2>3, GrownSum
<1>6. TypeOK'
  <2>1. k' \in Nat \ {0}
    BY <1>1, <1>4
  <2> QED
    BY <1>1, <1>5, <2>1 DEF IInv, TypeOK, ledger, positions, swap
<1>7. Loops'
  <2>1. k' - 1 = k /\ k' <= Len(prods) + 1
    BY <1>1, <1>4, Sequences
  <2> QED
    BY <1>1, <1>3, <1>5, <2>1 DEF IInv, Loops, ledger, positions, swap
<1>8. Sums'
  <2>1. MatchedWh' = MatchedWh
    BY <1>1 DEF positions, MatchedWh, Matched, Traded
  <2> QED
    BY <1>1, <1>3, <1>5, <2>1 DEF IInv, Sums
<1>9. PoolHolds'
  BY <1>1, <1>3 DEF PoolHolds
<1>10. Books'
  BY <1>1 DEF Books
<1> QED
  BY <1>6, <1>7, <1>8, <1>9, <1>10 DEF IInv

LEMMA EndMatchStep ==
  ASSUME IInv, EndMatch
  PROVE  IInv'
<1>1. /\ pc = "match" /\ pc' = "net" /\ k' = 1 /\ k \notin DOMAIN prods
      /\ UNCHANGED <<w, ledger, positions, money, swap>>
  BY DEF EndMatch
<1>2. prod_net = <<>> /\ netted = <<>>
  BY <1>1, StillEmpty
<1>3. Len(matched) = Len(prods)
  BY <1>1, Sequences DEF IInv, Loops
<1>4. TypeOK'
  BY <1>1 DEF IInv, TypeOK, ledger, positions, money, swap
<1>5. Loops'
  BY <1>1, <1>2, <1>3, Sequences DEF IInv, Loops, ledger, positions, money, swap
<1>6. Sums'
  <2>1. MatchedWh' = MatchedWh
    BY <1>1 DEF positions, MatchedWh, Matched, Traded
  <2> QED
    BY <1>1, <1>2, <2>1 DEF IInv, Sums, money
<1>7. PoolHolds'
  BY <1>1, <1>2 DEF PoolHolds, money
<1>8. Books'
  BY <1>1 DEF Books
<1> QED
  BY <1>4, <1>5, <1>6, <1>7, <1>8 DEF IInv

LEMMA NetStep ==
  ASSUME IInv, Net
  PROVE  IInv'
<1>1. /\ pc = "net" /\ k \in DOMAIN prods /\ k' = k + 1
      /\ prod_net' = Append(prod_net, Payout(k))
      /\ netted' = Append(netted, TotalNet + Payout(k))
      /\ UNCHANGED <<w, ledger, pc, positions, cons_pay, paid, matched, swap>>
  BY DEF Net
<1>2. Payout(k) \in Nat /\ Matched(k) \in Nat /\ MatchedTotal \in Nat /\ Pool \in Nat
  BY <1>1, AmountsNat, PoolNat DEF IInv
<1>3. /\ prod_net \in Seq(Nat) /\ netted \in Seq(Nat) /\ matched \in Seq(Nat)
      /\ k \in Nat \ {0} /\ k <= Len(prods)
      /\ Len(prod_net) = k - 1 /\ Len(netted) = k - 1 /\ Len(matched) = Len(prods)
  BY <1>1, Sequences DEF IInv, Loops
<1>4. /\ prod_net' \in Seq(Nat) /\ Len(prod_net') = k /\ prod_net'[k] = Payout(k)
      /\ \A i \in DOMAIN prod_net : prod_net'[i] = prod_net[i]
  BY <1>1, <1>2, <1>3, Appended
<1>5. Accumulates(netted', prod_net') /\ netted' \in Seq(Nat) /\ Len(netted') = k
  <2>1. Accumulates(netted, prod_net')
    <3>1. Accumulates(netted, prod_net)
      BY DEF IInv, Sums
    <3>2. DOMAIN netted = DOMAIN prod_net
      BY <1>3
    <3> QED
      BY <1>4, <3>1, <3>2 DEF Accumulates
  <2>2. k = Len(netted) + 1 /\ prod_net'[k] \in Nat
    BY <1>2, <1>3, <1>4
  <2>3. netted' = Append(netted, Latest(netted) + prod_net'[k])
    BY <1>1, <1>4 DEF TotalNet
  <2> QED
    BY <1>3, <2>1, <2>2, <2>3, GrownSum
<1>6. /\ TotalNet \in Nat /\ netted'[k] = TotalNet + Payout(k)
      /\ \A i \in DOMAIN netted : netted'[i] = netted[i] /\ netted[i] <= TotalNet
      /\ \A i \in DOMAIN netted' : i \in DOMAIN netted \/ i = k
  <2>1. TotalNet \in Nat
    BY <1>3, LatestNat DEF TotalNet
  <2>2. \A i \in DOMAIN netted : netted[i] <= TotalNet
    <3>1. ASSUME NEW i \in DOMAIN netted PROVE netted[i] <= netted[Len(netted)]
      <4>1. Len(netted) \in DOMAIN netted /\ i <= Len(netted)
        BY <1>3
      <4> QED
        BY <4>1 DEF IInv, Sums
    <3> QED
      BY <3>1 DEF TotalNet, Latest
  <2>3. k = Len(netted) + 1 /\ TotalNet + Payout(k) \in Nat
    BY <1>2, <1>3, <2>1
  <2>4. /\ \A i \in DOMAIN netted : netted'[i] = netted[i]
        /\ \A i \in DOMAIN netted' : i \in DOMAIN netted \/ i = k
        /\ netted'[k] = TotalNet + Payout(k)
    BY <1>1, <1>3, <2>3
  <2> QED
    BY <2>1, <2>2, <2>4
<1>7. TypeOK'
  <2>1. k' \in Nat \ {0}
    BY <1>1, <1>3
  <2> QED
    BY <1>1, <1>4, <1>5, <2>1 DEF IInv, TypeOK, ledger, positions, swap
<1>8. Loops'
  <2>1. k' - 1 = k /\ k' <= Len(prods) + 1
    BY <1>1, <1>3, Sequences
  <2> QED
    BY <1>1, <1>4, <2>1 DEF IInv, Loops, ledger, positions, swap
<1>9. Sums'
  <2>1. MatchedWh' = MatchedWh
    BY <1>1 DEF positions, MatchedWh, Matched, Traded
  <2>2. \A j1, j2 \in DOMAIN netted' : j1 <= j2 => netted'[j1] <= netted'[j2]
    <3>1. \A j \in DOMAIN netted : j \in Nat /\ j < k /\ netted[j] \in Nat
      BY <1>3
    <3>2. \A j1, j2 \in DOMAIN netted : j1 <= j2 => netted[j1] <= netted[j2]
      BY DEF IInv, Sums
    <3>3. \A j \in DOMAIN netted : netted[j] <= netted'[k]
      BY <1>2, <1>6, <3>1
    <3>4. netted'[k] \in Nat
      BY <1>2, <1>6
    <3>5. ASSUME NEW j1 \in DOMAIN netted', NEW j2 \in DOMAIN netted', j1 <= j2
          PROVE  netted'[j1] <= netted'[j2]
      <4>1. CASE j1 = k
        <5>1. j2 = k
          BY <1>3, <1>6, <3>1, <3>5, <4>1
        <5> QED
          BY <3>4, <4>1, <5>1
      <4>2. CASE j1 \in DOMAIN netted /\ j2 = k
        BY <1>6, <3>3, <4>2
      <4>3. CASE j1 \in DOMAIN netted /\ j2 \in DOMAIN netted
        BY <1>6, <3>2, <3>5, <4>3
      <4> QED
        BY <1>6, <4>1, <4>2, <4>3
    <3> QED
      BY <3>5
  <2> QED
    BY <1>1, <1>4, <1>5, <2>1, <2>2 DEF IInv, Sums
<1>10. PoolHolds'
  <2>1. MatchedTotal' = MatchedTotal /\ Pool' = Pool /\ matched' = matched
    BY <1>1 DEF MatchedTotal, Pool, TotalPaid
  <2>2. netted'[k] * MatchedTotal <= Pool * matched[k]
    <3>1. Payout(k) * MatchedTotal <= Pool * Matched(k)
      <4>1. Pool * Matched(k) \in Nat
        BY <1>2, ProductNat
      <4>2. CASE MatchedTotal = 0
        BY <1>2, <4>1, <4>2
      <4>3. CASE MatchedTotal # 0
        BY <1>2, <4>1, <4>3, Floor DEF Payout
      <4> QED
        BY <4>2, <4>3
    <3>2. matched[k] = Before(matched, k) + Matched(k)
      <4>1. Accumulates(matched, MatchedWh)
        BY DEF IInv, Sums
      <4>2. k \in DOMAIN matched /\ MatchedWh[k] = Matched(k)
        BY <1>1, <1>3 DEF MatchedWh
      <4> QED
        BY <4>1, <4>2 DEF Accumulates
    <3>3. Before(matched, k) \in Nat /\ TotalNet * MatchedTotal <= Pool * Before(matched, k)
      <4>1. CASE k = 1
        <5>1. TotalNet = 0 /\ Before(matched, k) = 0
          BY <1>3, <4>1 DEF TotalNet, Latest, Before
        <5> QED
          BY <1>2, <5>1
      <4>2. CASE k # 1
        <5>1. k - 1 \in DOMAIN netted /\ k - 1 \in DOMAIN matched /\ netted # <<>>
          BY <1>3, <4>2
        <5>2. TotalNet = netted[k - 1] /\ Before(matched, k) = matched[k - 1]
          BY <1>3, <4>2, <5>1 DEF TotalNet, Latest, Before
        <5>3. netted[k - 1] * MatchedTotal <= Pool * matched[k - 1]
          BY <5>1 DEF IInv, PoolHolds
        <5> QED
          BY <1>3, <5>1, <5>2, <5>3
      <4> QED
        BY <4>1, <4>2
    <3>4. (TotalNet + Payout(k)) * MatchedTotal
            = TotalNet * MatchedTotal + Payout(k) * MatchedTotal
      BY <1>2, <1>6
    <3>5. Pool * (Before(matched, k) + Matched(k))
            = Pool * Before(matched, k) + Pool * Matched(k)
      BY <1>2, <3>3
    <3> DEFINE a == TotalNet * MatchedTotal
               b == Payout(k) * MatchedTotal
               c == Pool * Before(matched, k)
               d == Pool * Matched(k)
    <3>6. a \in Nat /\ b \in Nat /\ c \in Nat /\ d \in Nat
      BY <1>2, <1>6, <3>3, ProductNat
    <3>7. a + b <= c + d
      <4> HIDE DEF a, b, c, d
      <4>1. a <= c /\ b <= d
        BY <3>1, <3>3 DEF a, b, c, d
      <4> QED
        BY <3>6, <4>1
    <3> QED
      BY <1>6, <3>2, <3>4, <3>5, <3>7
  <2>3. \A j \in DOMAIN netted' : netted'[j] * MatchedTotal <= Pool * matched[j]
    BY <1>6, <2>2 DEF IInv, PoolHolds
  <2>4. MatchedTotal = 0 => \A j \in DOMAIN netted' : netted'[j] = 0
    <3>1. MatchedTotal = 0 => TotalNet = 0 /\ Payout(k) = 0
      BY <1>2, <1>3 DEF IInv, PoolHolds, TotalNet, Latest, Payout
    <3> QED
      BY <1>6, <3>1 DEF IInv, PoolHolds
  <2> QED
    BY <2>1, <2>3, <2>4 DEF PoolHolds
<1>11. Books'
  BY <1>1 DEF Books
<1> QED
  BY <1>7, <1>8, <1>9, <1>10, <1>11 DEF IInv

-----------------------------------------------------------------------------
(* Step 3 of the code: the swap. *)

(* Producers never net more than the pool, nor the pool more than was paid. *)
LEMMA NetWithinPool ==
  ASSUME IInv, pc \in {"net", "swap", "remainder", "rest", "done"}, netted # <<>>,
         Len(netted) = Len(matched)
  PROVE  TotalNet \in Nat /\ TotalNet <= Pool
<1>1. /\ netted \in Seq(Nat) /\ matched \in Seq(Nat)
      /\ Pool \in Nat /\ MatchedTotal \in Nat /\ TotalNet \in Nat
  BY Sequences, AmountsNat, PoolNat DEF IInv
<1>2. /\ Len(netted) \in DOMAIN netted /\ TotalNet = netted[Len(netted)]
      /\ MatchedTotal = matched[Len(netted)]
  BY <1>1 DEF TotalNet, MatchedTotal, Latest
<1>3. CASE MatchedTotal = 0
  BY <1>1, <1>2, <1>3 DEF IInv, PoolHolds
<1>4. CASE MatchedTotal # 0
  <2>1. TotalNet * MatchedTotal <= Pool * MatchedTotal
    BY <1>2 DEF IInv, PoolHolds
  <2> QED
    BY <1>1, <1>4, <2>1
<1> QED
  BY <1>3, <1>4

LEMMA EndNetStep ==
  ASSUME IInv, EndNet
  PROVE  IInv'
<1>1. /\ pc = "net" /\ pc' = "swap" /\ k \notin DOMAIN prods
      /\ pay_left' = cons_pay[1] /\ net_left' = prod_net[1]
      /\ charged' = [i \in DOMAIN cons |-> 0] /\ received' = [j \in DOMAIN prods |-> 0]
      /\ UNCHANGED <<w, ledger, k, positions, money, ci, pi, purse, events, to_admin>>
  BY DEF EndNet
<1>2. /\ cons \in Seq(PartyType) /\ prods \in Seq(PartyType)
      /\ cons_pay \in Seq(Nat) /\ prod_net \in Seq(Nat) /\ k \in Nat \ {0}
  BY Sequences
<1>3. /\ cons # <<>> /\ prods # <<>> /\ Len(cons_pay) = Len(cons)
      /\ Len(matched) = Len(prods) /\ Len(prod_net) = k - 1 /\ k <= Len(prods) + 1
      /\ ci = 1 /\ pi = 1 /\ to_admin = 0
  BY <1>1 DEF IInv, Loops
<1>4. Len(prod_net) = Len(prods)
  BY <1>1, <1>2, <1>3
<1>5. /\ charged' \in Seq(Nat) /\ Len(charged') = Len(cons)
      /\ received' \in Seq(Nat) /\ Len(received') = Len(prods)
  BY <1>1, <1>2
<1>6. 1 \in DOMAIN cons_pay /\ 1 \in DOMAIN prod_net
  BY <1>2, <1>3, <1>4
<1>7. TypeOK'
  <2>1. pay_left' \in Nat /\ net_left' \in Nat
    BY <1>1, <1>2, <1>6
  <2> QED
    BY <1>1, <1>5, <2>1 DEF IInv, TypeOK, ledger, positions, money
<1>8. Loops'
  BY <1>1, <1>2, <1>3, <1>4, <1>5 DEF IInv, Loops, ledger, positions, money
<1>9. Sums'
  <2>1. MatchedWh' = MatchedWh
    BY <1>1 DEF positions, MatchedWh, Matched, Traded
  <2> QED
    BY <1>1, <2>1 DEF IInv, Sums, money
<1>10. PoolHolds'
  BY <1>1 DEF IInv, PoolHolds, money, MatchedTotal, Pool, TotalPaid
<1>11. Books'
  <2>1. DOMAIN cons_pay = DOMAIN cons /\ DOMAIN prod_net = DOMAIN prods
    BY <1>2, <1>3, <1>4
  <2>2. Served(charged', cons_pay, 1, cons_pay[1]) /\ Served(received', prod_net, 1, prod_net[1])
    BY <1>1, <1>2, <2>1 DEF Served
  <2>3. MovedBy(paid, charged', 1) = 0 /\ MovedBy(netted, received', 1) = 0
    BY <1>1 DEF MovedBy, Before
  <2> QED
    BY <1>1, <1>3, <2>2, <2>3 DEF Books, money
<1> QED
  BY <1>7, <1>8, <1>9, <1>10, <1>11 DEF IInv

(* One transfer keeps the purse and the events well-typed, and charges the *)
(* consumer the loop points to.                                            *)
LEMMA TransferStep ==
  ASSUME IInv, pc \in {"swap", "remainder", "rest"}, ci \in DOMAIN cons,
         NEW to \in Accounts, NEW amount \in Nat, Transfer(to, amount)
  PROVE  /\ purse' \in Purses /\ events' \in Seq(LegType)
         /\ charged' = [charged EXCEPT ![ci] = @ + amount]
         /\ charged' \in Seq(Nat) /\ Len(charged') = Len(charged)
<1>1. cons[ci].owner \in Accounts
  BY Sequences, PartyFields
<1>2. purse \in Purses /\ events \in Seq(LegType)
  BY DEF IInv, TypeOK
<1>3. purse' \in Purses /\ events' \in Seq(LegType)
  <2>1. CASE amount = 0
    BY <1>2, <2>1 DEF Transfer
  <2>2. CASE amount # 0
    <3> DEFINE leg == Leg(to, amount)
    <3>1. leg \in LegType /\ leg.from \in Accounts /\ leg.to \in Accounts /\ leg.amount = amount
      BY <1>1, <2>2 DEF LegType, Leg
    <3>2. /\ CanMove(purse, leg) /\ purse' = TransferFrom(purse, leg)
          /\ events' = Append(events, leg)
      BY <2>2 DEF Transfer
    <3> HIDE DEF leg
    <3>3. events' \in Seq(LegType)
      BY <1>2, <3>1, <3>2
    <3>4. /\ purse.ok = TRUE /\ purse.bal \in [Accounts -> Nat]
          /\ purse.allow \in [Accounts -> Nat]
      BY <1>2 DEF Purses
    <3>5. purse.allow[leg.from] >= amount /\ purse.bal[leg.from] >= amount
      BY <3>1, <3>2 DEF CanMove
    <3> DEFINE debited == [purse.bal EXCEPT ![leg.from] = @ - amount]
    <3>6. debited \in [Accounts -> Nat]
      BY <3>1, <3>4, <3>5
    <3>7. [debited EXCEPT ![leg.to] = @ + amount] \in [Accounts -> Nat]
      <4> HIDE DEF debited
      <4> QED
        BY <3>1, <3>6
    <3>8. [purse.allow EXCEPT ![leg.from] = @ - amount] \in [Accounts -> Nat]
      BY <3>1, <3>4, <3>5
    <3>9. purse' = [ok    |-> TRUE,
                    allow |-> [purse.allow EXCEPT ![leg.from] = @ - amount],
                    bal   |-> [debited EXCEPT ![leg.to] = @ + amount]]
      BY <3>1, <3>2, <3>4 DEF TransferFrom
    <3>10. purse' \in Purses
      <4> HIDE DEF debited
      <4> QED
        BY <3>7, <3>8, <3>9 DEF Purses
    <3> QED
      BY <3>3, <3>10
  <2> QED
    BY <2>1, <2>2
<1>4. charged' = [charged EXCEPT ![ci] = @ + amount]
  BY DEF Transfer
<1>5. charged' \in Seq(Nat) /\ Len(charged') = Len(charged)
  <2>1. charged \in Seq(Nat) /\ cons \in Seq(PartyType) /\ Len(charged) = Len(cons)
    BY Sequences DEF IInv, Loops
  <2> QED
    BY <1>4, <2>1
<1> QED
  BY <1>3, <1>4, <1>5

(* One side of the swap, well-formed. *)
Side(due, done, sums, i, left) ==
  /\ due \in Seq(Nat) /\ done \in Seq(Nat) /\ sums \in Seq(Nat)
  /\ Len(done) = Len(due) /\ Len(sums) = Len(due) /\ Accumulates(sums, due)
  /\ i \in Nat \ {0} /\ i <= Len(due) + 1 /\ left \in Nat
  /\ Served(done, due, i, left)

(* When Amount moves, the pointer and what is left of the party it points  *)
(* to stay in step with what has been moved.                               *)
LEMMA ServedStep ==
  ASSUME NEW due, NEW done, NEW sums, NEW i, NEW left, Side(due, done, sums, i, left),
         i \in DOMAIN due, Amount \in Nat, Amount <= left
  PROVE  /\ Side(due, [done EXCEPT ![i] = @ + Amount], sums,
                 Advance(i, left), Reload(left, due, i))
         /\ MovedBy(sums, [done EXCEPT ![i] = @ + Amount], Advance(i, left))
              = MovedBy(sums, done, i) + Amount
<1> DEFINE then == [done EXCEPT ![i] = @ + Amount]
<1>a. /\ due \in Seq(Nat) /\ done \in Seq(Nat) /\ sums \in Seq(Nat)
      /\ Len(done) = Len(due) /\ Len(sums) = Len(due) /\ Accumulates(sums, due)
      /\ left \in Nat /\ Served(done, due, i, left)
  BY DEF Side
<1> SUFFICES /\ Advance(i, left) \in Nat \ {0} /\ Advance(i, left) <= Len(due) + 1
             /\ Reload(left, due, i) \in Nat
             /\ then \in Seq(Nat) /\ Len(then) = Len(due)
             /\ Served(then, due, Advance(i, left), Reload(left, due, i))
             /\ MovedBy(sums, then, Advance(i, left)) = MovedBy(sums, done, i) + Amount
  BY <1>a DEF Side
<1>1. /\ i \in Nat \ {0} /\ i <= Len(due) /\ Len(due) \in Nat
      /\ DOMAIN due = 1 .. Len(due) /\ DOMAIN done = DOMAIN due /\ DOMAIN sums = DOMAIN due
  BY <1>a
<1>2. /\ then \in Seq(Nat) /\ Len(then) = Len(due) /\ DOMAIN then = DOMAIN due
      /\ then[i] = done[i] + Amount
      /\ \A h \in DOMAIN due : h # i => then[h] = done[h]
  BY <1>a, <1>1
<1> HIDE DEF then
<1>3. /\ \A h \in DOMAIN due : (h < i => done[h] = due[h]) /\ (h > i => done[h] = 0)
      /\ done[i] + left = due[i] /\ done[i] \in Nat /\ due[i] \in Nat
  BY <1>a, <1>1 DEF Served
<1>4. sums[i] = Before(sums, i) + due[i] /\ sums[i] \in Nat /\ Before(sums, i) \in Nat
  <2>1. Before(sums, i) \in Nat
    <3>1. CASE i = 1
      BY <3>1 DEF Before
    <3>2. CASE i # 1
      <4>1. i - 1 \in DOMAIN sums
        BY <1>1, <3>2
      <4> QED
        BY <1>a, <3>2, <4>1 DEF Before
    <3> QED
      BY <3>1, <3>2
  <2> QED
    BY <1>a, <1>1, <2>1 DEF Accumulates
<1>5. \A h \in DOMAIN due : (h < i => then[h] = due[h]) /\ (h > i => then[h] = 0)
  <2> SUFFICES ASSUME NEW h \in DOMAIN due
               PROVE  (h < i => then[h] = due[h]) /\ (h > i => then[h] = 0)
    OBVIOUS
  <2>1. h \in Nat
    BY <1>1
  <2>2. h # i => then[h] = done[h]
    BY <1>2
  <2>3. (h < i => done[h] = due[h]) /\ (h > i => done[h] = 0)
    BY <1>3
  <2> QED
    BY <1>1, <2>1, <2>2, <2>3
<1>6. CASE left # Amount
  <2>1. Advance(i, left) = i /\ Reload(left, due, i) = left - Amount
    BY <1>6 DEF Advance, Reload
  <2>2. left - Amount \in Nat /\ left - Amount # 0
    BY <1>a, <1>6
  <2>3. Served(then, due, i, left - Amount)
    <3>1. then[i] + (left - Amount) = due[i]
      <4>1. then[i] = done[i] + Amount /\ done[i] + left = due[i] /\ done[i] \in Nat /\ left \in Nat
        BY <1>a, <1>2, <1>3
      <4> QED
        BY <4>1
    <3> QED
      BY <1>5, <2>2, <3>1 DEF Served
  <2>4. MovedBy(sums, then, i) = MovedBy(sums, done, i) + Amount
    BY <1>1, <1>2, <1>3, <1>4 DEF MovedBy
  <2> QED
    BY <1>1, <1>2, <2>1, <2>2, <2>3, <2>4
<1>7. CASE left = Amount
  <2>1. Advance(i, left) = i + 1
    BY <1>7 DEF Advance
  <2>2. then[i] = due[i]
    BY <1>2, <1>3, <1>7
  <2>3. MovedBy(sums, done, i) + Amount = sums[i]
    BY <1>1, <1>3, <1>4, <1>7 DEF MovedBy
  <2>4. Before(sums, i + 1) = sums[i]
    BY <1>1 DEF Before
  <2>5. CASE i + 1 \in DOMAIN due
    <3>1. Reload(left, due, i) = due[i + 1] /\ due[i + 1] \in Nat
      BY <1>a, <1>7, <2>5 DEF Reload
    <3>2. then[i + 1] = 0
      BY <1>1, <1>5, <2>5
    <3>3. Served(then, due, i + 1, due[i + 1])
      <4>1. ASSUME NEW h \in DOMAIN due
            PROVE  (h < i + 1 => then[h] = due[h]) /\ (h > i + 1 => then[h] = 0)
        <5>1. h \in Nat /\ (h < i => then[h] = due[h]) /\ (h > i => then[h] = 0)
          BY <1>1, <1>5
        <5> QED
          BY <1>1, <2>2, <5>1
      <4> QED
        BY <3>1, <3>2, <4>1 DEF Served
    <3>4. MovedBy(sums, then, i + 1) = sums[i]
      <4>1. i + 1 \in DOMAIN then /\ sums[i] \in Nat
        BY <1>2, <1>4, <2>5
      <4>2. MovedBy(sums, then, i + 1) = Before(sums, i + 1) + then[i + 1]
        BY <4>1 DEF MovedBy
      <4> QED
        BY <2>4, <3>2, <4>1, <4>2
    <3> QED
      <4>1. i + 1 \in Nat \ {0} /\ i + 1 <= Len(due) + 1
        BY <1>1
      <4> QED
        BY <1>2, <2>1, <2>3, <3>1, <3>3, <3>4, <4>1
  <2>6. CASE i + 1 \notin DOMAIN due
    <3>1. Reload(left, due, i) = 0
      BY <1>7, <2>6 DEF Reload
    <3>2. Served(then, due, i + 1, 0)
      <4>1. ASSUME NEW h \in DOMAIN due
            PROVE  (h < i + 1 => then[h] = due[h]) /\ (h > i + 1 => then[h] = 0)
        <5>1. h \in Nat /\ (h < i => then[h] = due[h]) /\ (h > i => then[h] = 0)
          BY <1>1, <1>5
        <5> QED
          BY <1>1, <2>2, <5>1
      <4> QED
        BY <2>6, <4>1 DEF Served
    <3>3. MovedBy(sums, then, i + 1) = sums[i]
      BY <1>2, <1>4, <2>4, <2>6 DEF MovedBy
    <3> QED
      BY <1>1, <1>2, <2>1, <2>3, <3>1, <3>2, <3>3
  <2> QED
    BY <2>5, <2>6
<1> QED
  BY <1>6, <1>7

LEMMA SwapStepStep ==
  ASSUME IInv, SwapStep
  PROVE  IInv'
<1>1. /\ pc = "swap" /\ ci \in DOMAIN cons /\ pi \in DOMAIN prods
      /\ Transfer(prods[pi].owner, Amount)
      /\ received' = [received EXCEPT ![pi] = @ + Amount]
      /\ ci' = Advance(ci, pay_left) /\ pay_left' = Reload(pay_left, cons_pay, ci)
      /\ pi' = Advance(pi, net_left) /\ net_left' = Reload(net_left, prod_net, pi)
      /\ UNCHANGED <<w, ledger, pc, k, positions, money, to_admin>>
  BY DEF SwapStep
<1>2. /\ cons \in Seq(PartyType) /\ prods \in Seq(PartyType)
      /\ cons_pay \in Seq(Nat) /\ paid \in Seq(Nat) /\ Len(paid) = Len(cons_pay)
      /\ prod_net \in Seq(Nat) /\ netted \in Seq(Nat) /\ Len(netted) = Len(prod_net)
      /\ charged \in Seq(Nat) /\ received \in Seq(Nat)
  BY Sequences
<1>3. /\ Len(cons_pay) = Len(cons) /\ Len(prod_net) = Len(prods)
      /\ Len(charged) = Len(cons) /\ Len(received) = Len(prods)
  BY <1>1 DEF IInv, Loops
<1>4. ci \in DOMAIN cons_pay /\ pi \in DOMAIN prod_net
  <2>1. DOMAIN cons_pay = DOMAIN cons /\ DOMAIN prod_net = DOMAIN prods
    BY <1>2, <1>3
  <2> QED
    BY <1>1, <2>1
<1>5. /\ pay_left \in Nat /\ net_left \in Nat
      /\ Amount \in Nat /\ Amount <= pay_left /\ Amount <= net_left
  <2>1. pay_left \in Nat /\ net_left \in Nat
    BY DEF IInv, TypeOK
  <2> QED
    BY <2>1 DEF Amount, Lower
<1>6. /\ purse' \in Purses /\ events' \in Seq(LegType)
      /\ charged' = [charged EXCEPT ![ci] = @ + Amount]
  BY <1>1, <1>2, <1>5, PartyFields, TransferStep
<1>7. /\ Served(charged, cons_pay, ci, pay_left) /\ Served(received, prod_net, pi, net_left)
      /\ MovedBy(paid, charged, ci) = MovedBy(netted, received, pi) /\ to_admin = 0
  BY <1>1 DEF IInv, Books
<1>8. Accumulates(paid, cons_pay) /\ Accumulates(netted, prod_net)
  BY DEF IInv, Sums
<1>9. /\ Side(cons_pay, charged', paid, ci', pay_left')
      /\ MovedBy(paid, charged', ci') = MovedBy(paid, charged, ci) + Amount
  <2>1. ci \in Nat \ {0} /\ ci <= Len(cons_pay) + 1
    <3>1. ci \in 1 .. Len(cons_pay) /\ Len(cons_pay) \in Nat
      BY <1>2, <1>4, ElementIn
    <3> QED
      BY <3>1
  <2>2. Side(cons_pay, charged, paid, ci, pay_left)
    BY <1>2, <1>3, <1>5, <1>7, <1>8, <2>1 DEF Side
  <2>3. /\ Side(cons_pay, [charged EXCEPT ![ci] = @ + Amount], paid,
               Advance(ci, pay_left), Reload(pay_left, cons_pay, ci))
        /\ MovedBy(paid, [charged EXCEPT ![ci] = @ + Amount], Advance(ci, pay_left))
             = MovedBy(paid, charged, ci) + Amount
    <3>1. ci \in DOMAIN cons_pay /\ Amount \in Nat /\ Amount <= pay_left
      BY <1>4, <1>5
    <3> QED
      BY <2>2, <3>1, ServedStep
  <2> QED
    BY <1>1, <1>6, <2>3
<1>10. /\ Side(prod_net, received', netted, pi', net_left')
       /\ MovedBy(netted, received', pi') = MovedBy(netted, received, pi) + Amount
  <2>1. pi \in Nat \ {0} /\ pi <= Len(prod_net) + 1
    <3>1. pi \in 1 .. Len(prod_net) /\ Len(prod_net) \in Nat
      BY <1>2, <1>4, ElementIn
    <3> QED
      BY <3>1
  <2>2. Side(prod_net, received, netted, pi, net_left)
    BY <1>2, <1>3, <1>5, <1>7, <1>8, <2>1 DEF Side
  <2>3. /\ Side(prod_net, [received EXCEPT ![pi] = @ + Amount], netted,
               Advance(pi, net_left), Reload(net_left, prod_net, pi))
        /\ MovedBy(netted, [received EXCEPT ![pi] = @ + Amount], Advance(pi, net_left))
             = MovedBy(netted, received, pi) + Amount
    <3>1. pi \in DOMAIN prod_net /\ Amount \in Nat /\ Amount <= net_left
      BY <1>4, <1>5
    <3> QED
      BY <2>2, <3>1, ServedStep
  <2> QED
    BY <1>1, <2>3
<1>11. TypeOK'
  BY <1>1, <1>6, <1>9, <1>10 DEF IInv, TypeOK, ledger, positions, money, Side
<1>12. Loops'
  BY <1>1, <1>3, <1>9, <1>10 DEF IInv, Loops, ledger, positions, money, Side
<1>13. Sums'
  <2>1. MatchedWh' = MatchedWh
    BY <1>1 DEF positions, MatchedWh, Matched, Traded
  <2> QED
    BY <1>1, <2>1 DEF IInv, Sums, money
<1>14. PoolHolds'
  BY <1>1 DEF IInv, PoolHolds, money, MatchedTotal, Pool, TotalPaid
<1>15. Books'
  <2>1. UNCHANGED <<cons_pay, paid, prod_net, netted, to_admin>> /\ pc' = "swap"
    BY <1>1 DEF money
  <2> QED
    BY <1>7, <1>9, <1>10, <2>1 DEF Books, Side
<1> QED
  BY <1>11, <1>12, <1>13, <1>14, <1>15 DEF IInv

LEMMA SequenceDomain ==
  ASSUME NEW S, NEW s \in Seq(S)
  PROVE  /\ Len(s) \in Nat /\ DOMAIN s = 1 .. Len(s)
         /\ \A i \in 1 .. Len(s) : s[i] \in S
         /\ s # <<>> => Len(s) # 0 /\ Latest(s) = s[Len(s)]
  BY DEF Latest

LEMMA SameSequence ==
  ASSUME NEW s \in Seq(Nat), NEW t \in Seq(Nat), Len(s) = Len(t),
         \A i \in 1 .. Len(s) : s[i] = t[i]
  PROVE  s = t
  OBVIOUS

(* Where step 3 stands, index by index. *)
LEMMA SwapFacts ==
  ASSUME IInv, pc \in {"swap", "remainder", "rest"}
  PROVE  /\ Len(cons) \in Nat \ {0} /\ DOMAIN cons = 1 .. Len(cons)
         /\ DOMAIN cons_pay = 1 .. Len(cons) /\ DOMAIN charged = 1 .. Len(cons)
         /\ \A i \in 1 .. Len(cons) :
              /\ cons_pay[i] \in Nat /\ charged[i] \in Nat /\ paid[i] \in Nat
              /\ paid[i] = Before(paid, i) + cons_pay[i]
         /\ TotalPaid = paid[Len(cons)] /\ TotalPaid \in Nat
         /\ ci \in 1 .. Len(cons) + 1
<1>1. /\ cons \in Seq(PartyType) /\ cons_pay \in Seq(Nat) /\ paid \in Seq(Nat)
      /\ charged \in Seq(Nat) /\ Len(paid) = Len(cons_pay)
  BY Sequences
<1>2. /\ Len(cons_pay) = Len(cons) /\ Len(charged) = Len(cons)
      /\ cons # <<>> /\ ci <= Len(cons) + 1
  BY DEF IInv, Loops
<1>3. ci \in Nat \ {0}
  BY DEF IInv, TypeOK
<1>4. Len(cons) \in Nat \ {0} /\ DOMAIN cons = 1 .. Len(cons)
  BY <1>1, <1>2, SequenceDomain
<1>5. /\ DOMAIN cons_pay = 1 .. Len(cons) /\ DOMAIN charged = 1 .. Len(cons)
      /\ DOMAIN paid = 1 .. Len(cons)
      /\ \A i \in 1 .. Len(cons) : cons_pay[i] \in Nat /\ charged[i] \in Nat /\ paid[i] \in Nat
  BY <1>1, <1>2, SequenceDomain
<1>6. \A i \in 1 .. Len(cons) : paid[i] = Before(paid, i) + cons_pay[i]
  BY <1>5 DEF IInv, Sums, Accumulates
<1>7. TotalPaid = paid[Len(cons)]
  <2>1. paid # <<>>
    BY <1>4, <1>5
  <2> QED
    BY <1>1, <1>2, <2>1, SequenceDomain DEF TotalPaid
<1>8. TotalPaid \in Nat /\ ci \in 1 .. Len(cons) + 1
  BY <1>2, <1>3, <1>4, <1>5, <1>7
<1> QED
  BY <1>4, <1>5, <1>6, <1>7, <1>8

LEMMA SwapProducers ==
  ASSUME IInv, pc \in {"swap", "remainder", "rest"}
  PROVE  /\ Len(prods) \in Nat \ {0} /\ DOMAIN prods = 1 .. Len(prods)
         /\ DOMAIN prod_net = 1 .. Len(prods) /\ DOMAIN received = 1 .. Len(prods)
         /\ DOMAIN netted = 1 .. Len(prods)
         /\ \A j \in 1 .. Len(prods) :
              /\ prod_net[j] \in Nat /\ received[j] \in Nat /\ netted[j] \in Nat
              /\ netted[j] = Before(netted, j) + prod_net[j]
              /\ Before(netted, j) \in Nat /\ netted[j] <= TotalNet
         /\ \A j1, j2 \in 1 .. Len(prods) : j1 <= j2 => netted[j1] <= netted[j2]
         /\ TotalNet = netted[Len(prods)] /\ TotalNet \in Nat /\ TotalNet <= TotalPaid
         /\ pi \in 1 .. Len(prods) + 1
<1>1. /\ prods \in Seq(PartyType) /\ prod_net \in Seq(Nat) /\ netted \in Seq(Nat)
      /\ received \in Seq(Nat) /\ Len(netted) = Len(prod_net)
  BY Sequences
<1>2. /\ Len(prod_net) = Len(prods) /\ Len(received) = Len(prods) /\ Len(matched) = Len(prods)
      /\ prods # <<>> /\ pi <= Len(prods) + 1
  BY DEF IInv, Loops
<1>3. pi \in Nat \ {0}
  BY DEF IInv, TypeOK
<1>4. Len(prods) \in Nat \ {0} /\ DOMAIN prods = 1 .. Len(prods)
  BY <1>1, <1>2, SequenceDomain
<1>5. /\ DOMAIN prod_net = 1 .. Len(prods) /\ DOMAIN received = 1 .. Len(prods)
      /\ DOMAIN netted = 1 .. Len(prods)
      /\ \A j \in 1 .. Len(prods) : prod_net[j] \in Nat /\ received[j] \in Nat /\ netted[j] \in Nat
  BY <1>1, <1>2, SequenceDomain
<1>6. \A j \in 1 .. Len(prods) : netted[j] = Before(netted, j) + prod_net[j]
  BY <1>5 DEF IInv, Sums, Accumulates
<1>7. netted # <<>>
  BY <1>4, <1>5
<1>8. TotalNet = netted[Len(prods)]
  BY <1>1, <1>2, <1>7, SequenceDomain DEF TotalNet
<1>9. \A j1, j2 \in 1 .. Len(prods) : j1 <= j2 => netted[j1] <= netted[j2]
  BY <1>5 DEF IInv, Sums
<1>10. \A j \in 1 .. Len(prods) : Before(netted, j) \in Nat
  <2> SUFFICES ASSUME NEW j \in 1 .. Len(prods), j # 1 PROVE Before(netted, j) \in Nat
    BY DEF Before
  <2>1. j - 1 \in 1 .. Len(prods)
    BY <1>4
  <2> QED
    BY <1>5, <2>1 DEF Before
<1>11. \A j \in 1 .. Len(prods) : netted[j] <= TotalNet
  BY <1>4, <1>8, <1>9
<1>12. TotalNet \in Nat /\ TotalNet <= TotalPaid
  <2>1. TotalNet \in Nat /\ TotalNet <= Pool
    BY <1>1, <1>2, <1>7, NetWithinPool
  <2>2. Pool \in Nat /\ TotalPaid \in Nat /\ Pool <= TotalPaid
    BY PoolNat DEF IInv
  <2> QED
    BY <2>1, <2>2
<1>13. pi \in 1 .. Len(prods) + 1
  BY <1>2, <1>3, <1>4
<1> QED
  BY <1>4, <1>5, <1>6, <1>8, <1>9, <1>10, <1>11, <1>12, <1>13

(* The swap ends with every producer paid in full: either its pointer is   *)
(* past the last one, or the consumers have run out, and what they paid    *)
(* covers all the nets.                                                    *)
LEMMA ProducersServed ==
  ASSUME IInv, pc = "swap", ci \notin DOMAIN cons \/ pi \notin DOMAIN prods
  PROVE  received = prod_net /\ MovedBy(netted, received, pi) = TotalNet
<1>1. /\ Served(received, prod_net, pi, net_left) /\ net_left \in Nat
      /\ MovedBy(paid, charged, ci) = MovedBy(netted, received, pi)
  BY DEF IInv, TypeOK, Books
<1>2. ASSUME \A h \in 1 .. Len(prods) : received[h] = prod_net[h]
      PROVE  received = prod_net
  <2>1. received \in Seq(Nat) /\ prod_net \in Seq(Nat)
    BY Sequences
  <2>2. Len(received) = Len(prods) /\ Len(prod_net) = Len(prods)
    BY DEF IInv, Loops
  <2> QED
    BY <1>2, <2>1, <2>2, SameSequence
<1>3. CASE pi \notin DOMAIN prods
  <2>1. pi = Len(prods) + 1
    BY <1>3, SwapProducers
  <2>2. ASSUME NEW h \in 1 .. Len(prods) PROVE received[h] = prod_net[h]
    <3>1. h < pi /\ h \in DOMAIN prod_net
      BY <2>1, SwapProducers
    <3> QED
      BY <1>1, <3>1 DEF Served
  <2>3. MovedBy(netted, received, pi) = TotalNet
    BY <2>1, SwapProducers DEF MovedBy, Before
  <2> QED
    BY <1>2, <2>2, <2>3
<1>4. CASE pi \in DOMAIN prods
  <2>1. ci = Len(cons) + 1
    BY <1>4, SwapFacts
  <2>2. MovedBy(paid, charged, ci) = TotalPaid
    BY <2>1, SwapFacts DEF MovedBy, Before
  <2>3. pi \in 1 .. Len(prods)
    BY <1>4, SwapProducers
  <2>4. received[pi] + net_left = prod_net[pi]
    BY <1>1, <2>3, SwapProducers DEF Served
  <2>5. MovedBy(netted, received, pi) = Before(netted, pi) + received[pi]
    BY <2>3, SwapProducers DEF MovedBy
  <2>6. /\ TotalNet \in Nat /\ TotalPaid \in Nat /\ TotalNet <= TotalPaid
        /\ Before(netted, pi) \in Nat /\ received[pi] \in Nat /\ prod_net[pi] \in Nat
        /\ netted[pi] = Before(netted, pi) + prod_net[pi] /\ netted[pi] <= TotalNet
    BY <2>3, SwapFacts, SwapProducers
  <2>7. received[pi] = prod_net[pi] /\ netted[pi] = TotalNet
    <3>1. Before(netted, pi) + received[pi] = TotalPaid
      BY <1>1, <2>2, <2>5
    <3>2. received[pi] <= prod_net[pi]
      BY <1>1, <2>4, <2>6
    <3> QED
      BY <2>6, <3>1, <3>2
  <2>8. ASSUME NEW h \in 1 .. Len(prods) PROVE received[h] = prod_net[h]
    <3>1. CASE h < pi
      BY <1>1, <3>1, SwapProducers DEF Served
    <3>2. CASE h = pi
      BY <2>7, <3>2
    <3>3. CASE h > pi
      <4>1. received[h] = 0
        BY <1>1, <3>3, SwapProducers DEF Served
      <4>2. h - 1 \in 1 .. Len(prods) /\ h # 1 /\ pi <= h - 1 /\ h - 1 <= h
        BY <2>3, <3>3
      <4>3. /\ netted[pi] <= netted[h - 1] /\ netted[h - 1] <= netted[h] /\ netted[h] <= TotalNet
            /\ netted[h] \in Nat /\ netted[h - 1] \in Nat /\ prod_net[h] \in Nat
            /\ netted[h] = Before(netted, h) + prod_net[h]
        BY <2>3, <4>2, SwapProducers
      <4>4. Before(netted, h) = netted[h - 1]
        BY <4>2 DEF Before
      <4> QED
        BY <2>6, <2>7, <4>1, <4>3, <4>4
    <3> QED
      BY <2>3, <3>1, <3>2, <3>3
  <2> QED
    BY <1>2, <2>5, <2>6, <2>7, <2>8
<1> QED
  BY <1>3, <1>4

LEMMA EndSwapStep ==
  ASSUME IInv, EndSwap
  PROVE  IInv'
<1>1. /\ pc = "swap" /\ pc' = "remainder"
      /\ ci \notin DOMAIN cons \/ pi \notin DOMAIN prods
      /\ UNCHANGED <<w, ledger, k, positions, money, swap>>
  BY DEF EndSwap
<1>2. TypeOK'
  BY <1>1 DEF IInv, TypeOK, ledger, positions, money, swap
<1>3. Loops'
  BY <1>1 DEF IInv, Loops, ledger, positions, money, swap
<1>4. Sums'
  <2>1. MatchedWh' = MatchedWh
    BY <1>1 DEF positions, MatchedWh, Matched, Traded
  <2> QED
    BY <1>1, <2>1 DEF IInv, Sums, money
<1>5. PoolHolds'
  BY <1>1 DEF IInv, PoolHolds, money, MatchedTotal, Pool, TotalPaid
<1>6. Books'
  <2>1. received = prod_net /\ MovedBy(netted, received, pi) = TotalNet
    BY <1>1, ProducersServed
  <2>2. /\ Served(charged, cons_pay, ci, pay_left) /\ to_admin = 0
        /\ MovedBy(paid, charged, ci) = MovedBy(netted, received, pi)
    BY <1>1 DEF IInv, Books
  <2>3. TotalNet \in Nat
    BY <1>1, SwapProducers
  <2>4. MovedBy(paid, charged, ci) = TotalNet + to_admin
    BY <2>1, <2>2, <2>3
  <2> QED
    BY <1>1, <2>1, <2>2, <2>4 DEF Books, money, swap, TotalNet
<1> QED
  BY <1>2, <1>3, <1>4, <1>5, <1>6 DEF IInv

(* Step 3 changes neither the parties nor the amounts of step 2. *)
LEMMA AmountsKept ==
  ASSUME IInv, UNCHANGED <<w, positions, money>>
  PROVE  Sums' /\ PoolHolds' /\ TotalNet' = TotalNet /\ TotalPaid' = TotalPaid
<1>1. MatchedWh' = MatchedWh
  BY DEF positions, MatchedWh, Matched, Traded
<1>2. Sums'
  BY <1>1 DEF IInv, Sums, money
<1>3. PoolHolds'
  BY DEF IInv, PoolHolds, money, MatchedTotal, Pool, TotalPaid
<1> QED
  BY <1>2, <1>3 DEF money, TotalNet, TotalPaid

LEMMA AdminIn == Admin \in Accounts
  BY AdminAssumption

(* Charging consumer ci what it still owes moves the pointer past it. *)
LEMMA ConsumerDone ==
  ASSUME IInv, pc \in {"remainder", "rest"}, ci \in DOMAIN cons, NEW owed \in Nat,
         Transfer(Admin, owed), to_admin' = to_admin + owed, ci' = ci + 1,
         UNCHANGED <<w, positions, money>>,
         charged[ci] + owed = cons_pay[ci],
         Before(paid, ci) + charged[ci] = TotalNet + to_admin,
         \A h \in 1 .. Len(cons) : h < ci => charged[h] = cons_pay[h],
         \A h \in 1 .. Len(cons) : h > ci => charged[h] = 0
  PROVE  /\ \A h \in DOMAIN cons_pay' :
              charged'[h] = IF h < ci' THEN cons_pay'[h] ELSE 0
         /\ Before(paid', ci') = TotalNet' + to_admin'
         /\ to_admin' \in Nat /\ ci' \in Nat \ {0} /\ ci' <= Len(cons) + 1
<1>1. ci \in 1 .. Len(cons) /\ Len(cons) \in Nat
  BY SwapFacts
<1>2. charged' = [charged EXCEPT ![ci] = @ + owed]
  BY AdminIn, TransferStep
<1>3. to_admin \in Nat
  BY DEF IInv, TypeOK
<1>4. /\ DOMAIN charged = 1 .. Len(cons) /\ DOMAIN cons_pay = 1 .. Len(cons)
      /\ cons_pay[ci] \in Nat /\ charged[ci] \in Nat /\ paid[ci] \in Nat
      /\ paid[ci] = Before(paid, ci) + cons_pay[ci]
  BY <1>1, SwapFacts
<1>5. UNCHANGED <<cons_pay, paid>> /\ TotalNet' = TotalNet
  BY DEF money, TotalNet
<1>6. ASSUME NEW h \in 1 .. Len(cons)
      PROVE  charged'[h] = IF h < ci' THEN cons_pay'[h] ELSE 0
  <2>1. CASE h < ci
    <3>1. charged'[h] = charged[h] /\ h < ci'
      BY <1>1, <1>2, <1>4, <2>1
    <3> QED
      BY <1>5, <2>1, <3>1
  <2>2. CASE h = ci
    <3>1. charged'[h] = charged[ci] + owed /\ h < ci'
      BY <1>1, <1>2, <1>4, <2>2
    <3> QED
      BY <1>5, <2>2, <3>1
  <2>3. CASE h > ci
    <3>1. charged'[h] = charged[h] /\ ~(h < ci')
      BY <1>1, <1>2, <1>4, <2>3
    <3> QED
      BY <2>3, <3>1
  <2> QED
    BY <1>1, <2>1, <2>2, <2>3
<1>7. Before(paid', ci') = TotalNet' + to_admin'
  <2>1. Before(paid, ci + 1) = paid[ci]
    BY <1>1 DEF Before
  <2>2. TotalNet \in Nat
    BY SwapProducers
  <2>3. Before(paid, ci) \in Int
    <3>1. CASE ci = 1
      BY <3>1 DEF Before
    <3>2. CASE ci # 1
      <4>1. ci - 1 \in 1 .. Len(cons)
        BY <1>1, <3>2
      <4>2. paid[ci - 1] \in Nat
        BY <4>1, SwapFacts
      <4> QED
        BY <3>2, <4>2 DEF Before
    <3> QED
      BY <3>1, <3>2
  <2>4. paid[ci] = TotalNet + (to_admin + owed)
    BY <1>3, <1>4, <2>2, <2>3
  <2> QED
    BY <1>5, <2>1, <2>4
<1> QED
  BY <1>1, <1>3, <1>4, <1>5, <1>6, <1>7

LEMMA RemainderStep ==
  ASSUME IInv, Remainder
  PROVE  IInv'
<1>1. /\ pc = "remainder" /\ ci \in DOMAIN cons /\ pay_left > 0 /\ pay_left \in Nat
      /\ Transfer(Admin, pay_left)
      /\ to_admin' = to_admin + pay_left /\ ci' = ci + 1 /\ pc' = "rest"
      /\ UNCHANGED <<w, ledger, k, positions, money, pi, pay_left, net_left, received>>
  BY DEF Remainder, IInv, TypeOK
<1>2. /\ Served(charged, cons_pay, ci, pay_left) /\ received = prod_net
      /\ MovedBy(paid, charged, ci) = TotalNet + to_admin
  BY <1>1 DEF IInv, Books
<1>3. ci \in DOMAIN cons_pay /\ ci \in DOMAIN charged /\ DOMAIN cons_pay = 1 .. Len(cons)
  BY <1>1, SwapFacts
<1>4. charged[ci] + pay_left = cons_pay[ci]
  BY <1>2, <1>3 DEF Served
<1>5. Before(paid, ci) + charged[ci] = TotalNet + to_admin
  BY <1>2, <1>3 DEF MovedBy
<1>6. /\ \A h \in 1 .. Len(cons) : h < ci => charged[h] = cons_pay[h]
      /\ \A h \in 1 .. Len(cons) : h > ci => charged[h] = 0
  BY <1>2, <1>3 DEF Served
<1>7. /\ \A h \in DOMAIN cons_pay' :
           charged'[h] = IF h < ci' THEN cons_pay'[h] ELSE 0
      /\ Before(paid', ci') = TotalNet' + to_admin'
      /\ to_admin' \in Nat /\ ci' \in Nat \ {0} /\ ci' <= Len(cons) + 1
  BY <1>1, <1>4, <1>5, <1>6, ConsumerDone
<1>8. /\ purse' \in Purses /\ events' \in Seq(LegType)
      /\ charged' \in Seq(Nat) /\ Len(charged') = Len(charged)
  BY <1>1, AdminIn, TransferStep
<1>9. TypeOK'
  BY <1>1, <1>7, <1>8 DEF IInv, TypeOK, ledger, positions, money
<1>10. Loops'
  BY <1>1, <1>7, <1>8 DEF IInv, Loops, ledger, positions, money
<1>11. Books'
  BY <1>1, <1>2, <1>7 DEF Books, money
<1> QED
  BY <1>1, <1>9, <1>10, <1>11, AmountsKept DEF IInv

LEMMA NoRemainderStep ==
  ASSUME IInv, NoRemainder
  PROVE  IInv'
<1>1. /\ pc = "remainder" /\ ~(ci \in DOMAIN cons /\ pay_left > 0) /\ pc' = "rest"
      /\ pay_left \in Nat
      /\ UNCHANGED <<w, ledger, k, positions, money, swap>>
  BY DEF NoRemainder, IInv, TypeOK
<1>2. /\ Served(charged, cons_pay, ci, pay_left) /\ received = prod_net
      /\ MovedBy(paid, charged, ci) = TotalNet + to_admin
  BY <1>1 DEF IInv, Books
<1>3. /\ DOMAIN cons_pay = 1 .. Len(cons) /\ DOMAIN charged = 1 .. Len(cons)
      /\ ci \in 1 .. Len(cons) + 1 /\ Len(cons) \in Nat /\ DOMAIN cons = 1 .. Len(cons)
  BY <1>1, SwapFacts
<1>4. ci \in DOMAIN cons => charged[ci] = 0
  BY <1>1, <1>2, <1>3 DEF Served
<1>5. ASSUME NEW h \in DOMAIN cons_pay
      PROVE  charged[h] = IF h < ci THEN cons_pay[h] ELSE 0
  <2>1. (h < ci => charged[h] = cons_pay[h]) /\ (h > ci => charged[h] = 0)
    BY <1>2 DEF Served
  <2> QED
    BY <1>3, <1>4, <2>1
<1>6. Before(paid, ci) = TotalNet + to_admin
  <2>1. /\ TotalNet \in Nat /\ to_admin \in Nat
    BY <1>1, SwapProducers DEF IInv, TypeOK
  <2>2. CASE ci \in DOMAIN cons
    <3>1. Before(paid, ci) \in Int
      <4>1. CASE ci = 1
        BY <4>1 DEF Before
      <4>2. CASE ci # 1
        <5>1. ci - 1 \in 1 .. Len(cons)
          BY <1>3, <2>2, <4>2
        <5>2. paid[ci - 1] \in Nat
          BY <1>1, <5>1, SwapFacts
        <5> QED
          BY <4>2, <5>2 DEF Before
      <4> QED
        BY <4>1, <4>2
    <3>2. MovedBy(paid, charged, ci) = Before(paid, ci) + 0
      BY <1>3, <1>4, <2>2 DEF MovedBy
    <3> QED
      BY <1>2, <3>1, <3>2
  <2>3. CASE ci \notin DOMAIN cons
    <3>1. ci = Len(cons) + 1 /\ Len(cons) \in 1 .. Len(cons) /\ ci # 1 /\ ci - 1 = Len(cons)
      BY <1>1, <1>3, <2>3, SwapFacts
    <3>2. Before(paid, ci) = TotalPaid /\ TotalPaid \in Nat
      BY <1>1, <3>1, SwapFacts DEF Before
    <3>3. MovedBy(paid, charged, ci) = Before(paid, ci) + 0
      BY <1>3, <2>3 DEF MovedBy
    <3> QED
      BY <1>2, <3>2, <3>3
  <2> QED
    BY <2>2, <2>3
<1>7. TypeOK'
  BY <1>1 DEF IInv, TypeOK, ledger, positions, money, swap
<1>8. Loops'
  BY <1>1 DEF IInv, Loops, ledger, positions, money, swap
<1>9. Books'
  BY <1>1, <1>2, <1>5, <1>6 DEF Books, money, swap, TotalNet
<1> QED
  BY <1>1, <1>7, <1>8, <1>9, AmountsKept DEF IInv

LEMMA RestStep ==
  ASSUME IInv, Rest
  PROVE  IInv'
<1>1. /\ pc = "rest" /\ ci \in DOMAIN cons
      /\ Transfer(Admin, cons_pay[ci])
      /\ to_admin' = to_admin + cons_pay[ci] /\ ci' = ci + 1
      /\ UNCHANGED <<w, ledger, pc, k, positions, money, pi, pay_left, net_left, received>>
  BY DEF Rest
<1>2. /\ \A h \in DOMAIN cons_pay : charged[h] = IF h < ci THEN cons_pay[h] ELSE 0
      /\ received = prod_net
      /\ Before(paid, ci) = TotalNet + to_admin
  BY <1>1 DEF IInv, Books
<1>3. /\ DOMAIN cons_pay = 1 .. Len(cons) /\ ci \in 1 .. Len(cons) /\ Len(cons) \in Nat
      /\ cons_pay[ci] \in Nat
  BY <1>1, SwapFacts
<1>4. /\ charged[ci] = 0
      /\ \A h \in 1 .. Len(cons) : h < ci => charged[h] = cons_pay[h]
      /\ \A h \in 1 .. Len(cons) : h > ci => charged[h] = 0
  BY <1>2, <1>3
<1>5. Before(paid, ci) + charged[ci] = TotalNet + to_admin
  <2>1. TotalNet \in Nat /\ to_admin \in Nat
    BY <1>1, SwapProducers DEF IInv, TypeOK
  <2> QED
    BY <1>2, <1>4, <2>1
<1>6. charged[ci] + cons_pay[ci] = cons_pay[ci]
  BY <1>3, <1>4
<1>7. /\ \A h \in DOMAIN cons_pay' :
           charged'[h] = IF h < ci' THEN cons_pay'[h] ELSE 0
      /\ Before(paid', ci') = TotalNet' + to_admin'
      /\ to_admin' \in Nat /\ ci' \in Nat \ {0} /\ ci' <= Len(cons) + 1
  BY <1>1, <1>3, <1>4, <1>5, <1>6, ConsumerDone
<1>8. /\ purse' \in Purses /\ events' \in Seq(LegType)
      /\ charged' \in Seq(Nat) /\ Len(charged') = Len(charged)
  BY <1>1, <1>3, AdminIn, TransferStep
<1>9. TypeOK'
  BY <1>1, <1>7, <1>8 DEF IInv, TypeOK, ledger, positions, money
<1>10. Loops'
  BY <1>1, <1>7, <1>8 DEF IInv, Loops, ledger, positions, money
<1>11. Books'
  BY <1>1, <1>2, <1>7 DEF Books, money
<1> QED
  BY <1>1, <1>9, <1>10, <1>11, AmountsKept DEF IInv

LEMMA ReturnStep ==
  ASSUME IInv, Return
  PROVE  IInv'
<1>1. /\ pc = "rest" /\ ci \notin DOMAIN cons /\ pc' = "done"
      /\ net' = Cleared
      /\ bal' = purse.bal /\ allow' = purse.allow /\ payments' = events
      /\ report' = [traded_wh |-> Traded, producers |-> Len(prods), consumers |-> Len(cons),
                    paid_out |-> TotalNet, fee |-> TotalPaid - TotalNet]
      /\ UNCHANGED <<w, k, positions, money, swap>>
  BY DEF Return
<1>2. /\ \A h \in DOMAIN cons_pay : charged[h] = IF h < ci THEN cons_pay[h] ELSE 0
      /\ received = prod_net
      /\ Before(paid, ci) = TotalNet + to_admin
  BY <1>1 DEF IInv, Books
<1>3. /\ Len(cons) \in Nat \ {0} /\ DOMAIN cons = 1 .. Len(cons)
      /\ DOMAIN cons_pay = 1 .. Len(cons) /\ ci \in 1 .. Len(cons) + 1
      /\ TotalPaid \in Nat /\ TotalPaid = paid[Len(cons)]
  BY <1>1, SwapFacts
<1>4. ci = Len(cons) + 1
  BY <1>1, <1>3
<1>5. /\ TotalNet \in Nat /\ TotalNet <= TotalPaid /\ Len(prods) \in Nat
      /\ to_admin \in Nat
  BY <1>1, SwapProducers DEF IInv, TypeOK
<1>6. to_admin = TotalPaid - TotalNet
  <2>1. Before(paid, ci) = TotalPaid
    BY <1>3, <1>4 DEF Before
  <2> QED
    BY <1>2, <1>3, <1>5, <2>1
<1>7. charged = cons_pay
  <2>1. charged \in Seq(Nat) /\ cons_pay \in Seq(Nat)
    BY Sequences
  <2>2. Len(charged) = Len(cons) /\ Len(cons_pay) = Len(cons)
    BY <1>1 DEF IInv, Loops
  <2>3. ASSUME NEW h \in 1 .. Len(cons) PROVE charged[h] = cons_pay[h]
    <3>1. h < ci
      BY <1>3, <1>4
    <3> QED
      BY <1>2, <1>3, <3>1
  <2> QED
    BY <2>1, <2>2, <2>3, SameSequence
<1>8. TypeOK'
  <2>1. net \in [MeterIds -> Int] /\ purse \in Purses /\ events \in Seq(LegType)
    BY DEF IInv, TypeOK
  <2>2. net' \in [MeterIds -> Int]
    BY <1>1, <2>1 DEF Cleared
  <2>3. bal' \in [Accounts -> Nat] /\ allow' \in [Accounts -> Nat]
    BY <1>1, <2>1 DEF Purses
  <2>4. Traded \in Nat
    BY DEF IInv, TypeOK, Traded, Lower
  <2>5. TotalPaid - TotalNet \in Nat
    BY <1>3, <1>5
  <2>6. report' \in [traded_wh : Nat, producers : Nat, consumers : Nat, paid_out : Nat, fee : Nat]
    BY <1>1, <1>3, <1>5, <2>4, <2>5
  <2> QED
    BY <1>1, <2>1, <2>2, <2>3, <2>6
       DEF IInv, TypeOK, positions, money, swap, Terminal
<1>9. Loops'
  BY <1>1 DEF IInv, Loops, positions, money, swap
<1>10. Books'
  BY <1>1, <1>2, <1>6, <1>7 DEF Books, money, swap, positions, TotalNet, TotalPaid
<1>11. Sums' /\ PoolHolds'
  BY <1>1, AmountsKept
<1> QED
  BY <1>8, <1>9, <1>10, <1>11 DEF IInv

LEMMA TrapStep ==
  ASSUME IInv, Trap
  PROVE  IInv'
<1>1. pc' = "trap" /\ UNCHANGED <<w, ledger, k, positions, money, swap>>
  BY DEF Trap
<1>2. TypeOK'
  BY <1>1 DEF IInv, TypeOK, ledger, positions, money, swap, Terminal, Failures
<1>3. Loops'
  BY <1>1 DEF IInv, Loops, positions, money, swap
<1>4. Books'
  BY <1>1 DEF Books
<1> QED
  BY <1>1, <1>2, <1>3, <1>4, AmountsKept DEF IInv

LEMMA StutterStep ==
  ASSUME IInv, UNCHANGED vars
  PROVE  IInv'
<1>1. UNCHANGED <<w, ledger, pc, k, positions, money, swap>>
  BY DEF vars
<1>2. TypeOK'
  BY <1>1 DEF IInv, TypeOK, ledger, positions, money, swap
<1>3. Loops'
  BY <1>1 DEF IInv, Loops, positions, money, swap
<1>4. Books'
  BY <1>1 DEF IInv, Books, ledger, positions, money, swap, TotalNet, TotalPaid
<1> QED
  BY <1>1, <1>2, <1>3, <1>4, AmountsKept DEF IInv

LEMMA NextIInv == IInv /\ [Next]_vars => IInv'
<1> SUFFICES ASSUME IInv, [Next]_vars PROVE IInv'
  OBVIOUS
<1>1. CASE Classify
  BY <1>1, ClassifyStep
<1>2. CASE EndClassify \/ UnknownMeter
  BY <1>2, EndClassifyStep
<1>3. CASE Pay
  BY <1>3, PayStep
<1>4. CASE EndPay
  BY <1>4, EndPayStep
<1>5. CASE Match
  BY <1>5, MatchStep
<1>6. CASE EndMatch
  BY <1>6, EndMatchStep
<1>7. CASE Net
  BY <1>7, NetStep
<1>8. CASE EndNet
  BY <1>8, EndNetStep
<1>9. CASE SwapStep
  BY <1>9, SwapStepStep
<1>10. CASE EndSwap
  BY <1>10, EndSwapStep
<1>11. CASE Remainder
  BY <1>11, RemainderStep
<1>12. CASE NoRemainder
  BY <1>12, NoRemainderStep
<1>13. CASE Rest
  BY <1>13, RestStep
<1>14. CASE Return
  BY <1>14, ReturnStep
<1>15. CASE Trap
  BY <1>15, TrapStep
<1>16. CASE UNCHANGED vars
  BY <1>16, StutterStep
<1> QED
  BY <1>1, <1>2, <1>3, <1>4, <1>5, <1>6, <1>7, <1>8, <1>9, <1>10, <1>11, <1>12,
     <1>13, <1>14, <1>15, <1>16 DEF Next

-----------------------------------------------------------------------------
(* Whatever the window, the price, the fee and the wallets: every state of *)
(* a run satisfies its inductive invariant.  The amounts stay natural, the *)
(* accumulators hold the running totals, the nets stay within the pool,    *)
(* and the two sides of the swap stay in step.                             *)
THEOREM RunIInv == Spec => []IInv
<1> QED
  BY InitIInv, NextIInv, PTL DEF Spec

(* No subtraction of the swap goes below zero and no balance is overdrawn, *)
(* in any window.                                                          *)
THEOREM RunTypeOK == Spec => []TypeOK
<1>1. IInv => TypeOK
  BY DEF IInv
<1> QED
  BY <1>1, RunIInv, PTL

(* The two-pointer swap of settle.rs:109-175 is exact in every window: a   *)
(* settlement that succeeds has charged every consumer its obligation and  *)
(* paid every producer its net, to the unit, and the rest is the fee.      *)
THEOREM RunExactSwap == Spec => []ExactSwap
<1>1. IInv => ExactSwap
  BY DEF IInv, Books, ExactSwap
<1> QED
  BY <1>1, RunIInv, PTL

-----------------------------------------------------------------------------
(* The obligations are set once, from parties that no longer change.       *)
LEMMA NextPriced == IInv /\ Priced /\ [Next]_vars => Priced'
<1> SUFFICES ASSUME IInv, Priced, [Next]_vars PROVE Priced'
  OBVIOUS
<1>1. CASE UNCHANGED <<w, positions, cons_pay>>
  BY <1>1 DEF Priced, Due, Drawn, Traded, positions
<1>2. CASE Classify
  <2>1. cons_pay' = <<>>
    BY <1>2, StillEmpty DEF Classify, money
  <2> QED
    BY <2>1 DEF Priced
<1>3. CASE Pay
  <2>1. /\ cons_pay' = Append(cons_pay, Due(k)) /\ UNCHANGED <<w, positions>>
        /\ pc = "pay" /\ k \in DOMAIN cons
    BY <1>3 DEF Pay
  <2>2. Due(k) \in Nat
    BY <2>1, AmountsNat DEF IInv
  <2>3. k = Len(cons_pay) + 1 /\ cons_pay \in Seq(Nat)
    BY <2>1, Sequences DEF IInv, Loops
  <2>4. /\ \A i \in DOMAIN cons_pay : cons_pay'[i] = cons_pay[i]
        /\ cons_pay'[k] = Due(k)
        /\ \A i \in DOMAIN cons_pay' : i \in DOMAIN cons_pay \/ i = k
    BY <2>1, <2>2, <2>3, Appended
  <2>5. ASSUME NEW i \in DOMAIN cons_pay' PROVE cons_pay'[i] = Due(i)
    BY <2>4 DEF Priced
  <2>6. /\ UNCHANGED <<w, cons, total_surplus, total_deficit>>
    BY <2>1 DEF positions
  <2>7. Priced' = (\A i \in DOMAIN cons_pay' : cons_pay'[i] = Due(i))
    BY <2>6 DEF Priced, Due, Drawn, Traded
  <2> QED
    BY <2>5, <2>7
<1> QED
  BY <1>1, <1>2, <1>3
     DEF Next, vars, money, UnknownMeter, EndClassify, EndPay, Match, EndMatch, Net, EndNet,
         SwapStep, EndSwap, Remainder, NoRemainder, Rest, Return, Trap

(* An obligation is at most the tariff for the whole deficit. *)
LEMMA DueBelowTariff ==
  ASSUME IInv, NEW i \in DOMAIN cons
  PROVE  Due(i) * WhPerKwh <= cons[i].wh * w.price
<1>1. cons[i].wh \in Nat /\ w.price \in Nat /\ total_deficit \in Nat \ {0}
  <2>1. cons \in Seq(PartyType) /\ cons # <<>>
    BY Sequences
  <2>2. total_deficit \in Nat /\ w \in WindowType
    BY DEF IInv, TypeOK
  <2>3. total_deficit > 0
    BY <2>1 DEF IInv, Loops
  <2> QED
    BY <2>1, <2>2, <2>3, PartyFields, WindowFields
<1>2. Traded \in Nat /\ Traded <= total_deficit
  BY DEF IInv, TypeOK, Traded, Lower
<1>3. Drawn(i) \in Nat /\ Drawn(i) <= cons[i].wh
  <2>1. Traded * cons[i].wh <= total_deficit * cons[i].wh
    BY <1>1, <1>2, ProductMonotone
  <2>2. cons[i].wh * Traded \in Nat /\ cons[i].wh * Traded <= cons[i].wh * total_deficit
    BY <1>1, <1>2, <2>1
  <2> QED
    BY <1>1, <2>2, Floor, FloorBelow DEF Drawn, Share
<1>4. Drawn(i) * w.price \in Nat /\ Drawn(i) * w.price <= cons[i].wh * w.price
  BY <1>1, <1>3, ProductNat, ProductMonotone
<1>5. Due(i) \in Nat /\ Due(i) * WhPerKwh <= Drawn(i) * w.price
  BY <1>4, Floor DEF Due, WhPerKwh
<1>6. Due(i) * WhPerKwh \in Nat /\ cons[i].wh * w.price \in Nat
  BY <1>1, <1>5, ProductNat DEF WhPerKwh
<1> QED
  BY <1>4, <1>5, <1>6

(* The producers' total net is within the pool, so the fee is at least the *)
(* base fee.                                                               *)
LEMMA FeeCovered ==
  ASSUME IInv, pc = "done"
  PROVE  /\ report.paid_out <= Pool
         /\ report.fee >= (TotalPaid * w.fee_bps) \div BPS
<1>1. report.paid_out = TotalNet /\ report.fee = TotalPaid - TotalNet
  BY DEF IInv, Books
<1>2. netted # <<>> /\ Len(netted) = Len(matched)
  <2>1. /\ Len(prod_net) = Len(prods) /\ Len(matched) = Len(prods) /\ prods # <<>>
    BY DEF IInv, Loops
  <2>2. /\ Len(netted) = Len(prod_net) /\ prods \in Seq(PartyType)
    BY Sequences
  <2>3. Len(netted) # 0
    BY <2>1, <2>2, NoElements
  <2> QED
    BY <2>1, <2>2, <2>3
<1>3. TotalNet \in Nat /\ TotalNet <= Pool
  BY <1>2, NetWithinPool
<1>4. TotalPaid \in Nat /\ Pool \in Nat
  BY PoolNat DEF IInv
<1>5. (TotalPaid * w.fee_bps) \div BPS \in Nat
  <2>1. w.fee_bps \in Nat
    BY WindowFields DEF IInv, TypeOK
  <2>2. BPS \in Nat \ {0}
    BY DEF BPS
  <2> QED
    BY <1>4, <2>1, <2>2, ProductNat, Floor
<1>6. Pool = TotalPaid - (TotalPaid * w.fee_bps) \div BPS
  BY DEF Pool
<1> QED
  BY <1>1, <1>3, <1>4, <1>5, <1>6

(* Rounding falls to the admin in every window (settle.rs:71-106): no      *)
(* consumer pays above the tariff for its deficit, the producers' nets     *)
(* stay within the pool, and the fee is at least fee_bps of what was paid. *)
THEOREM RunRoundedFairly == Spec => []RoundedFairly
<1>1. Init => Priced
  BY DEF Init, Priced
<1>2. IInv /\ Priced => RoundedFairly
  <2> SUFFICES ASSUME IInv, Priced, pc = "done" PROVE RoundedFairly
    BY DEF RoundedFairly
  <2>1. ASSUME NEW i \in DOMAIN cons
        PROVE  cons_pay[i] * WhPerKwh <= cons[i].wh * w.price
    <3>1. i \in DOMAIN cons_pay
      <4>1. Len(cons_pay) = Len(cons)
        BY DEF IInv, Loops
      <4> QED
        BY <4>1, Sequences
    <3> QED
      BY <3>1, DueBelowTariff DEF Priced
  <2> QED
    BY <2>1, FeeCovered DEF RoundedFairly
<1>3. Spec => []Priced
  BY <1>1, NextPriced, RunIInv, PTL DEF Spec
<1> QED
  BY <1>2, <1>3, RunIInv, PTL

-----------------------------------------------------------------------------
(* What rounding can cost: the admin gains less than one unit per          *)
(* producer, and the consumers together pay at most the tariff for the     *)
(* traded energy.  Both are statements about sums, so each is proved for   *)
(* the running totals, one iteration at a time.                            *)
(* What division drops is less than the divisor. *)
LEMMA FloorAbove ==
  ASSUME NEW a \in Nat, NEW b \in Nat \ {0}
  PROVE  a < (a \div b + 1) * b
  OBVIOUS

LEMMA SumsBelow ==
  ASSUME NEW a \in Nat, NEW b \in Nat, NEW c \in Nat, NEW d \in Nat, a <= b, c < d
  PROVE  a + c < b + d
  OBVIOUS

LEMMA Cancelled ==
  ASSUME NEW a \in Nat, NEW b \in Nat, NEW c \in Nat, a * c < b * c
  PROVE  a < b
  OBVIOUS

-----------------------------------------------------------------------------
(* The dust.                                                               *)
(*                                                                         *)
(* After j producers, their nets lack less than j units of their part of   *)
(* the pool.                                                               *)
Dusty ==
  MatchedTotal > 0 =>
    \A j \in DOMAIN netted : Pool * matched[j] < (netted[j] + j) * MatchedTotal

LEMMA NetDusty ==
  ASSUME IInv, Dusty, Net
  PROVE  Dusty'
<1>1. /\ pc = "net" /\ k \in DOMAIN prods
      /\ netted' = Append(netted, TotalNet + Payout(k))
      /\ UNCHANGED <<w, paid, matched>>
  BY DEF Net
<1>2. Payout(k) \in Nat /\ Matched(k) \in Nat /\ MatchedTotal \in Nat /\ Pool \in Nat
      /\ TotalNet \in Nat
  BY <1>1, AmountsNat, PoolNat DEF IInv
<1>3. /\ netted \in Seq(Nat) /\ matched \in Seq(Nat) /\ k \in Nat \ {0}
      /\ Len(netted) = k - 1 /\ Len(matched) = Len(prods) /\ k \in DOMAIN matched
  BY <1>1, Sequences DEF IInv, Loops
<1>4. MatchedTotal' = MatchedTotal /\ Pool' = Pool /\ matched' = matched
  BY <1>1 DEF MatchedTotal, Pool, TotalPaid
<1>5. /\ netted'[k] = TotalNet + Payout(k)
      /\ \A j \in DOMAIN netted : netted'[j] = netted[j]
      /\ \A j \in DOMAIN netted' : j \in DOMAIN netted \/ j = k
  <2>1. TotalNet + Payout(k) \in Nat /\ k = Len(netted) + 1
    BY <1>2, <1>3
  <2> QED
    BY <1>1, <1>3, <2>1, Appended
<1>6. ASSUME MatchedTotal > 0
      PROVE  Pool * matched[k] < (netted'[k] + k) * MatchedTotal
  <2> DEFINE before == Before(matched, k)
             a == Pool * before
             b == (TotalNet + (k - 1)) * MatchedTotal
             c == Pool * Matched(k)
             d == (Payout(k) + 1) * MatchedTotal
  <2>1. matched[k] = before + Matched(k)
    <3>1. Accumulates(matched, MatchedWh) /\ MatchedWh[k] = Matched(k)
      BY <1>1 DEF IInv, Sums, MatchedWh
    <3> QED
      BY <1>3, <3>1 DEF Accumulates
  <2>2. before \in Nat
    BY <1>3 DEF Before
  <2>3. a <= b
    <3>1. CASE k = 1
      <4>1. before = 0
        BY <3>1 DEF Before
      <4> QED
        BY <1>2, <3>1, <4>1, ProductNat
    <3>2. CASE k # 1
      <4>1. k - 1 \in DOMAIN netted /\ TotalNet = netted[k - 1] /\ before = matched[k - 1]
        BY <1>3, <3>2 DEF TotalNet, Latest, Before
      <4>2. Pool * matched[k - 1] < (netted[k - 1] + (k - 1)) * MatchedTotal
        BY <1>6, <4>1 DEF Dusty
      <4>3. a < b
        BY <4>1, <4>2
      <4>4. a \in Nat /\ b \in Nat
        BY <1>2, <1>3, <2>2, ProductNat
      <4> HIDE DEF a, b
      <4> QED
        BY <4>3, <4>4
    <3> QED
      BY <3>1, <3>2
  <2>4. c < d
    <3>1. c \in Nat /\ MatchedTotal \in Nat \ {0}
      BY <1>2, <1>6, ProductNat
    <3>2. Payout(k) = c \div MatchedTotal
      BY <1>6 DEF Payout
    <3> HIDE DEF c
    <3> QED
      BY <3>1, <3>2, FloorAbove
  <2>5. a \in Nat /\ b \in Nat /\ c \in Nat /\ d \in Nat
    <3>1. TotalNet + (k - 1) \in Nat /\ Payout(k) + 1 \in Nat
      BY <1>2, <1>3
    <3>2. a \in Nat /\ c \in Nat
      BY <1>2, <2>2, ProductNat
    <3>3. b \in Nat
      BY <1>2, <3>1, ProductNat
    <3>4. d \in Nat
      BY <1>2, <3>1, ProductNat
    <3> QED
      BY <3>2, <3>3, <3>4
  <2>6. Pool * matched[k] = a + c
    BY <1>2, <2>1, <2>2
  <2>7. (netted'[k] + k) * MatchedTotal = b + d
    <3>1. netted'[k] + k = (TotalNet + (k - 1)) + (Payout(k) + 1)
      BY <1>2, <1>3, <1>5
    <3>2. TotalNet + (k - 1) \in Nat /\ Payout(k) + 1 \in Nat
      BY <1>2, <1>3
    <3> DEFINE x == TotalNet + (k - 1)
               y == Payout(k) + 1
    <3>3. (x + y) * MatchedTotal = x * MatchedTotal + y * MatchedTotal
      <4> HIDE DEF x, y
      <4>1. x \in Nat /\ y \in Nat
        BY <3>2 DEF x, y
      <4> QED
        BY <1>2, <4>1
    <3> QED
      BY <3>1, <3>3
  <2> HIDE DEF a, b, c, d
  <2> QED
    BY <2>3, <2>4, <2>5, <2>6, <2>7, SumsBelow
<1> QED
  BY <1>4, <1>5, <1>6 DEF Dusty

LEMMA NextDusty == IInv /\ Dusty /\ [Next]_vars => Dusty'
<1> SUFFICES ASSUME IInv, Dusty, [Next]_vars PROVE Dusty'
  OBVIOUS
<1>1. CASE UNCHANGED <<w, paid, matched, netted>>
  BY <1>1 DEF Dusty, MatchedTotal, Pool, TotalPaid
<1>2. CASE Pay \/ Match
  <2>1. netted' = <<>>
    BY <1>2, StillEmpty DEF Pay, Match
  <2> QED
    BY <2>1 DEF Dusty
<1>3. CASE Net
  BY <1>3, NetDusty
<1> QED
  BY <1>1, <1>2, <1>3
     DEF Next, vars, money, Classify, UnknownMeter, EndClassify, EndPay, EndMatch, EndNet,
         SwapStep, EndSwap, Remainder, NoRemainder, Rest, Return, Trap

LEMMA DustAtTheEnd ==
  ASSUME IInv, Dusty
  PROVE  DustOnly
<1> SUFFICES ASSUME pc = "done", MatchedTotal > 0
             PROVE  Pool - report.paid_out < report.producers
  BY DEF DustOnly
<1>1. report.paid_out = TotalNet /\ report.producers = Len(prods)
  BY DEF IInv, Books
<1>2. /\ Len(prod_net) = Len(prods) /\ Len(matched) = Len(prods) /\ prods # <<>>
  BY DEF IInv, Loops
<1>3. /\ netted \in Seq(Nat) /\ matched \in Seq(Nat) /\ Len(netted) = Len(prods)
      /\ prods \in Seq(PartyType) /\ Len(prods) \in Nat \ {0}
  BY <1>2, Sequences
<1>4. Pool \in Nat /\ MatchedTotal \in Nat /\ TotalNet \in Nat
  BY AmountsNat, PoolNat DEF IInv
<1> DEFINE n == Len(prods)
<1>5. n \in DOMAIN netted /\ netted[n] = TotalNet /\ matched[n] = MatchedTotal
  BY <1>2, <1>3 DEF TotalNet, MatchedTotal, Latest
<1>6. Pool * MatchedTotal < (TotalNet + n) * MatchedTotal
  BY <1>5 DEF Dusty
<1>7. Pool < TotalNet + n
  <2>1. TotalNet + n \in Nat
    BY <1>3, <1>4
  <2> QED
    BY <1>4, <1>6, <2>1, Cancelled
<1> QED
  BY <1>1, <1>3, <1>4, <1>7

(* Rounding is dust in every window: once some watt-hour is matched, the   *)
(* admin's share exceeds the base fee by less than one unit per producer   *)
(* (settle.rs:91-106).                                                     *)
THEOREM RunDustOnly == Spec => []DustOnly
<1>1. Init => Dusty
  BY DEF Init, Dusty
<1>2. Spec => []Dusty
  BY <1>1, NextDusty, RunIInv, PTL DEF Spec
<1> QED
  BY <1>2, DustAtTheEnd, RunIInv, PTL

-----------------------------------------------------------------------------
(* The tariff.                                                             *)
(*                                                                         *)
(* upto holds the running total of the consumers' deficits; after i of     *)
(* them, what they pay is at most the tariff for their part of the traded  *)
(* energy, upto[i] / total_deficit of it.                                  *)
DeficitOf(c) == [i \in DOMAIN c |-> c[i].wh]

Weighs(upto) ==
  /\ upto \in Seq(Nat) /\ Len(upto) = Len(cons)
  /\ Accumulates(upto, DeficitOf(cons)) /\ Latest(upto) = total_deficit

Bill == WhPerKwh * total_deficit

Tariff == Traded * w.price

Tariffed ==
  \E upto : Weighs(upto) /\ \A i \in DOMAIN paid : paid[i] * Bill <= upto[i] * Tariff

Reported == pc = "done" => report.traded_wh = Traded

LEMMA BillNat ==
  ASSUME IInv
  PROVE  Bill \in Nat /\ Tariff \in Nat /\ w.price \in Nat /\ total_deficit \in Nat
         /\ Traded \in Nat
<1>1. w.price \in Nat /\ total_deficit \in Nat
  BY WindowFields DEF IInv, TypeOK
<1>2. Traded \in Nat
  BY AmountsNat DEF IInv
<1>3. Bill \in Nat
  BY <1>1, ProductNat DEF Bill, WhPerKwh
<1>4. Tariff \in Nat
  BY <1>1, <1>2, ProductNat DEF Tariff
<1> QED
  BY <1>1, <1>2, <1>3, <1>4

LEMMA ClassifyTariffed ==
  ASSUME IInv, Tariffed, Classify
  PROVE  Tariffed'
<1> DEFINE wh == w.net[w.ids[k]]
           party == [owner |-> w.owner[w.ids[k]], wh |-> Size(wh)]
<1>1. /\ cons' = IF wh < 0 THEN Append(cons, party) ELSE cons
      /\ total_deficit' = IF wh < 0 THEN total_deficit - wh ELSE total_deficit
      /\ UNCHANGED paid /\ pc = "classify"
  BY DEF Classify, money
<1>2. paid' = <<>>
  BY <1>1, StillEmpty
<1>3. PICK upto : Weighs(upto)
  BY DEF Tariffed
<1>4. cons \in Seq(PartyType) /\ total_deficit \in Nat
  BY Sequences DEF IInv, TypeOK
<1>5. CASE ~(wh < 0)
  <2>1. cons' = cons /\ total_deficit' = total_deficit
    BY <1>1, <1>5
  <2>2. Weighs(upto)'
    BY <1>3, <2>1 DEF Weighs
  <2> QED
    BY <1>2, <2>2 DEF Tariffed
<1>6. CASE wh < 0
  <2>1. wh \in Int
    <3>1. w.ids \in Seq(MeterIds) /\ w.net \in [MeterIds -> Int]
      BY DEF IInv, TypeOK, WindowType
    <3>2. w.ids[k] \in MeterIds
      BY <3>1, ElementIn DEF Classify
    <3> QED
      BY <3>1, <3>2
  <2> DEFINE n == Len(cons) + 1
  <2>12. PICK f : f = DeficitOf(cons')
    OBVIOUS
  <2>11. PICK new : new = Append(upto, Latest(upto) + f[n])
    OBVIOUS
  <2>2. /\ cons' = Append(cons, party) /\ party.wh = -wh /\ -wh \in Nat
        /\ total_deficit' = total_deficit - wh
    BY <1>1, <1>6, <2>1 DEF Size
  <2> HIDE DEF wh, party
  <2>3. /\ DOMAIN cons = 1 .. Len(cons) /\ DOMAIN cons' = 1 .. n /\ n \in Nat
        /\ Len(cons') = n /\ cons'[n] = party /\ \A i \in DOMAIN cons : cons'[i] = cons[i]
    BY <1>4, <2>2
  <2>4. f[n] = -wh /\ \A i \in DOMAIN cons : f[i] = DeficitOf(cons)[i]
    BY <2>12, <2>2, <2>3 DEF DeficitOf
  <2>5. /\ upto \in Seq(Nat) /\ n = Len(upto) + 1 /\ Latest(upto) = total_deficit
        /\ DOMAIN upto = DOMAIN cons /\ Accumulates(upto, DeficitOf(cons))
    BY <1>3, <2>3 DEF Weighs
  <2>6. Accumulates(upto, f)
    BY <2>4, <2>5 DEF Accumulates
  <2>7. f[n] \in Nat
    BY <2>2, <2>4
  <2>8. /\ Accumulates(new, f) /\ new \in Seq(Nat) /\ Len(new) = n
    BY <2>11, <2>5, <2>6, <2>7, GrownSum
  <2>9. Latest(new) = total_deficit'
    <3>1. new[n] = Latest(upto) + f[n] /\ new # <<>>
      BY <2>11, <2>5, <2>7, <1>4
    <3> QED
      BY <1>4, <2>1, <2>2, <2>4, <2>5, <2>8, <3>1 DEF Latest
  <2>10. Weighs(new)'
    BY <2>12, <2>3, <2>8, <2>9 DEF Weighs
  <2> QED
    BY <1>2, <2>10 DEF Tariffed
<1> QED
  BY <1>5, <1>6

(* One consumer's obligation, against its own deficit. *)
LEMMA DueTariff ==
  ASSUME IInv, NEW i \in DOMAIN cons
  PROVE  Due(i) * Bill <= cons[i].wh * Tariff
<1>1. cons[i].wh \in Nat /\ total_deficit \in Nat \ {0}
  <2>1. cons \in Seq(PartyType) /\ cons # <<>>
    BY Sequences
  <2>2. total_deficit \in Nat /\ total_deficit > 0
    BY <2>1 DEF IInv, TypeOK, Loops
  <2> QED
    BY <2>1, <2>2, PartyFields
<1>2. w.price \in Nat /\ Traded \in Nat
  BY BillNat
<1> DEFINE d == Drawn(i)
           p == w.price
           t == total_deficit
<1>3. d \in Nat /\ d * t <= cons[i].wh * Traded /\ cons[i].wh * Traded \in Nat
  BY <1>1, <1>2, ProductNat, Floor DEF Drawn, Share
<1>4. Due(i) \in Nat /\ Due(i) * WhPerKwh <= d * p /\ d * p \in Nat
  BY <1>2, <1>3, ProductNat, Floor DEF Due, WhPerKwh
<1> HIDE DEF d, p, t
<1>5. p \in Nat /\ t \in Nat
  BY <1>1, <1>2 DEF p, t
<1>6. Due(i) * WhPerKwh \in Nat /\ WhPerKwh \in Nat
  BY <1>4, ProductNat DEF WhPerKwh
<1>7. (Due(i) * WhPerKwh) * t <= (d * p) * t
  BY <1>4, <1>5, <1>6, ProductMonotone
<1>8. (d * t) * p <= (cons[i].wh * Traded) * p
  BY <1>3, <1>5, ProductNat, ProductMonotone
<1>9. (d * p) * t = (d * t) * p
  BY <1>3, <1>5
<1>10. Due(i) * Bill = (Due(i) * WhPerKwh) * t
  BY <1>4, <1>5, <1>6 DEF Bill, t
<1>11. cons[i].wh * Tariff = (cons[i].wh * Traded) * p
  BY <1>1, <1>2, <1>5 DEF Tariff, p
<1> DEFINE x == (Due(i) * WhPerKwh) * t
           y == (d * t) * p
           z == (cons[i].wh * Traded) * p
<1>12. x \in Nat /\ y \in Nat /\ z \in Nat
  BY <1>3, <1>5, <1>6, ProductNat
<1>13. x <= y /\ y <= z
  BY <1>7, <1>8, <1>9
<1> HIDE DEF x, y, z
<1>14. x <= z
  BY <1>12, <1>13
<1> QED
  BY <1>10, <1>11, <1>14 DEF x, z

LEMMA PayTariffed ==
  ASSUME IInv, Tariffed, Pay
  PROVE  Tariffed'
<1>1. /\ pc = "pay" /\ k \in DOMAIN cons
      /\ paid' = Append(paid, TotalPaid + Due(k)) /\ UNCHANGED <<w, positions>>
  BY DEF Pay
<1>2. PICK upto : Weighs(upto) /\ \A i \in DOMAIN paid : paid[i] * Bill <= upto[i] * Tariff
  BY DEF Tariffed
<1>3. /\ paid \in Seq(Nat) /\ k \in Nat \ {0} /\ Len(paid) = k - 1 /\ cons \in Seq(PartyType)
  BY <1>1, Sequences DEF IInv, Loops
<1>4. Due(k) \in Nat /\ TotalPaid \in Nat /\ Bill \in Nat /\ Tariff \in Nat
  BY <1>1, AmountsNat, PoolNat, BillNat DEF IInv
<1>5. /\ paid'[k] = TotalPaid + Due(k)
      /\ \A i \in DOMAIN paid : paid'[i] = paid[i]
      /\ \A i \in DOMAIN paid' : i \in DOMAIN paid \/ i = k
  <2>1. TotalPaid + Due(k) \in Nat /\ k = Len(paid) + 1
    BY <1>3, <1>4
  <2> QED
    BY <1>1, <1>3, <2>1, Appended
<1>6. /\ upto \in Seq(Nat) /\ DOMAIN upto = DOMAIN cons /\ k \in DOMAIN upto
      /\ upto[k] = Before(upto, k) + cons[k].wh /\ cons[k].wh \in Nat
  <2>1. upto \in Seq(Nat) /\ DOMAIN upto = DOMAIN cons /\ cons[k].wh \in Nat
    BY <1>1, <1>2, <1>3, PartyFields DEF Weighs
  <2>2. Accumulates(upto, DeficitOf(cons)) /\ DeficitOf(cons)[k] = cons[k].wh
    BY <1>1, <1>2 DEF Weighs, DeficitOf
  <2> QED
    BY <1>1, <2>1, <2>2 DEF Accumulates
<1>7. Before(upto, k) \in Nat /\ TotalPaid * Bill <= Before(upto, k) * Tariff
  <2>1. CASE k = 1
    <3>1. TotalPaid = 0 /\ Before(upto, k) = 0
      BY <1>3, <2>1 DEF TotalPaid, Latest, Before
    <3> QED
      BY <1>4, <3>1
  <2>2. CASE k # 1
    <3>1. k - 1 \in DOMAIN paid /\ k - 1 \in DOMAIN upto
      BY <1>3, <1>6, <2>2
    <3>2. TotalPaid = paid[k - 1] /\ Before(upto, k) = upto[k - 1]
      BY <1>3, <2>2, <3>1 DEF TotalPaid, Latest, Before
    <3>3. paid[k - 1] * Bill <= upto[k - 1] * Tariff
      BY <1>2, <3>1
    <3> QED
      BY <1>6, <3>1, <3>2, <3>3
  <2> QED
    BY <2>1, <2>2
<1>8. paid'[k] * Bill <= upto[k] * Tariff
  <2> DEFINE a == TotalPaid * Bill
             b == Due(k) * Bill
             c == Before(upto, k) * Tariff
             d == cons[k].wh * Tariff
  <2>1. a <= c /\ b <= d
    BY <1>1, <1>7, DueTariff
  <2>2. a \in Nat /\ b \in Nat /\ c \in Nat /\ d \in Nat
    BY <1>4, <1>6, <1>7, ProductNat
  <2>3. paid'[k] * Bill = a + b
    <3>1. (TotalPaid + Due(k)) * Bill = TotalPaid * Bill + Due(k) * Bill
      BY <1>4, Distributes
    <3> QED
      BY <1>5, <3>1
  <2>4. upto[k] * Tariff = c + d
    <3>1. (Before(upto, k) + cons[k].wh) * Tariff = Before(upto, k) * Tariff + cons[k].wh * Tariff
      BY <1>4, <1>6, <1>7, Distributes
    <3> QED
      BY <1>6, <3>1
  <2> HIDE DEF a, b, c, d
  <2> QED
    BY <2>1, <2>2, <2>3, <2>4
<1>9. Weighs(upto)' /\ Bill' = Bill /\ Tariff' = Tariff
  BY <1>1, <1>2 DEF Weighs, positions, Bill, Tariff, Traded
<1>10. \A i \in DOMAIN paid' : paid'[i] * Bill' <= upto[i] * Tariff'
  BY <1>2, <1>5, <1>8, <1>9
<1> QED
  BY <1>9, <1>10 DEF Tariffed

LEMMA NextTariffed ==
  IInv /\ Tariffed /\ Reported /\ [Next]_vars => Tariffed' /\ Reported'
<1> SUFFICES ASSUME IInv, Tariffed, Reported, [Next]_vars PROVE Tariffed' /\ Reported'
  OBVIOUS
<1>1. Tariffed'
  <2>1. CASE UNCHANGED <<w, positions, paid>>
    BY <2>1 DEF Tariffed, Weighs, positions, Bill, Tariff, Traded
  <2>2. CASE Classify
    BY <2>2, ClassifyTariffed
  <2>3. CASE Pay
    BY <2>3, PayTariffed
  <2> QED
    BY <2>1, <2>2, <2>3
       DEF Next, vars, money, UnknownMeter, EndClassify, EndPay, Match, EndMatch, Net, EndNet,
           SwapStep, EndSwap, Remainder, NoRemainder, Rest, Return, Trap
<1>2. Reported'
  <2>1. CASE Return
    <3>1. report'.traded_wh = Traded /\ UNCHANGED positions
      BY <2>1 DEF Return
    <3> QED
      BY <3>1 DEF Reported, Traded, positions
  <2>2. CASE UNCHANGED vars
    BY <2>2 DEF Reported, Traded, positions, ledger, vars
  <2>3. CASE pc' # "done"
    BY <2>3 DEF Reported
  <2> QED
    BY <2>1, <2>2, <2>3
       DEF Next, Classify, UnknownMeter, EndClassify, Pay, EndPay, Match, EndMatch, Net, EndNet,
           SwapStep, EndSwap, Remainder, NoRemainder, Rest, Trap
<1> QED
  BY <1>1, <1>2

LEMMA TariffAtTheEnd ==
  ASSUME IInv, Tariffed, Reported
  PROVE  TradedAtTariff
<1> SUFFICES ASSUME pc = "done"
             PROVE  TotalPaid * WhPerKwh <= Traded * w.price
  BY DEF TradedAtTariff, Reported
<1>1. PICK upto : Weighs(upto) /\ \A i \in DOMAIN paid : paid[i] * Bill <= upto[i] * Tariff
  BY DEF Tariffed
<1>2. /\ Len(cons_pay) = Len(cons) /\ cons # <<>> /\ total_deficit > 0
  BY DEF IInv, Loops
<1>3. /\ paid \in Seq(Nat) /\ Len(paid) = Len(cons) /\ cons \in Seq(PartyType)
      /\ Len(cons) \in Nat \ {0}
  BY <1>2, Sequences
<1>4. /\ TotalPaid \in Nat /\ Bill \in Nat /\ Tariff \in Nat /\ total_deficit \in Nat \ {0}
      /\ WhPerKwh \in Nat
  BY <1>2, PoolNat, BillNat DEF IInv, WhPerKwh
<1>5. TotalPaid * Bill <= total_deficit * Tariff
  <2>1. /\ Len(cons) \in DOMAIN paid /\ paid[Len(cons)] = TotalPaid
        /\ upto[Len(cons)] = total_deficit
    BY <1>1, <1>3 DEF TotalPaid, Latest, Weighs
  <2> QED
    BY <1>1, <2>1
<1> DEFINE x == TotalPaid * WhPerKwh
           y == Tariff
           t == total_deficit
<1>6. x \in Nat /\ y \in Nat /\ t \in Nat \ {0}
  BY <1>4, ProductNat
<1>7. TotalPaid * Bill = x * t
  BY <1>4 DEF Bill
<1>8. x * t <= y * t
  BY <1>4, <1>5, <1>7
<1> HIDE DEF x, y, t
<1>9. x <= y
  BY <1>6, <1>8, Cancels
<1> QED
  BY <1>9 DEF x, y, Tariff

(* No watt-hour is billed that no producer delivered, in any window: what  *)
(* the consumers pay together is at most the tariff for the traded energy  *)
(* (settle.rs:62-79).                                                      *)
THEOREM RunTradedAtTariff == Spec => []TradedAtTariff
<1>1. Init => Tariffed /\ Reported
  <2> SUFFICES ASSUME Init PROVE Tariffed /\ Reported
    OBVIOUS
  <2>1. paid = <<>> /\ cons = <<>> /\ total_deficit = 0 /\ pc = "classify"
    BY DEF Init
  <2>2. Weighs(<<>>)
    BY <2>1 DEF Weighs, Accumulates, Latest
  <2> QED
    BY <2>1, <2>2 DEF Tariffed, Reported
<1>2. Spec => [](Tariffed /\ Reported)
  BY <1>1, NextTariffed, RunIInv, PTL DEF Spec
<1> QED
  BY <1>2, TariffAtTheEnd, RunIInv, PTL

=============================================================================
