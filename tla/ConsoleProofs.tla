---------------------------- MODULE ConsoleProofs ----------------------------
(***************************************************************************)
(* Proofs about the people at their browsers, for every registry, every    *)
(* number of loads, requests, accounts and events.                         *)
(***************************************************************************)
EXTENDS ConsoleProps, TLAPS

Counted == events \in 0 .. MaxEvents

(* Whatever counts as an event happens below the bound. *)
LEMMA NextCounted ==
  ASSUME Counted, [Next]_vars
  PROVE  Counted'
<1>1. ASSUME events < MaxEvents, events' = events + 1 PROVE Counted'
  BY <1>1, ConsoleAssumption DEF Counted
<1>2. ASSUME events' = events PROVE Counted'
  BY <1>2 DEF Counted
<1>3. CASE OfTariff(P!Next)
  BY <1>1, <1>2, <1>3
     DEF OfTariff, P!Next, P!PatchConfig, P!Land, P!Answer, P!Fail, P!LandLate
<1>4. CASE OfDashboard(D!Next)
  BY <1>1, <1>2, <1>4
     DEF OfDashboard, D!Next, D!AcceptReading, D!SettleElsewhere, D!Server, D!ReadConfig,
         D!ReadMeter, D!ReadNet, D!LoseLoad, D!CutLoad, D!ClickLoad, D!Arrives, D!Loaded,
         D!LoadFailed, D!Breaks, D!EndsLoad, D!ClickSettle, D!SettleGoesOn, D!LandSettle,
         D!Settled, D!SettleFailed, D!LoseSettle, D!CutSettle
<1>5. CASE OfWallet(W!Next)
  BY <1>1, <1>2, <1>5
     DEF OfWallet, W!Next, W!LookedUp, W!ClickConnect, W!Grant, W!Connected, W!ConnectFailed,
         W!ClickApprove, W!ApprovalGoesOn, W!CheckNetwork, W!ReadAccount, W!Sign, W!Submit,
         W!Approved, W!ApproveFailed, W!ApproveLost, W!Select, W!Apply, W!Drop, W!SwitchNetwork
<1> QED
  BY <1>2, <1>3, <1>4, <1>5 DEF Next, vars

(* The tariff: a price is sent, given up on or set whenever; a fee only    *)
(* when the price of the same request, if any, is set already.             *)
Sent == [field : {"price", "fee_bps"}, body : Patches, request : 0 .. MaxEvents]

RequestType ==
  [stage : {"price", "fee_bps"}, body : Patches, request : 0 .. MaxEvents,
   answer : {"awaited", "given"}]

PriceIn(landed, body, id) == P!Transaction("price", body, id) \in landed

InTurn(x, landed) ==
  /\ x.field = "price" => x.body.price \in Nat
  /\ x.field = "fee_bps" => /\ x.body.fee_bps \in Nat /\ x.body.fee_bps <= 10000
                            /\ x.body.price # Absent => PriceIn(landed, x.body, x.request)

RequestInTurn(r, landed) ==
  r # P!NoPatch =>
    /\ InTurn(P!Transaction(r.stage, r.body, r.request), landed)
    /\ r.stage = "price" /\ r.answer = "given" => PriceIn(landed, r.body, r.request)

TariffType ==
  /\ events \in 0 .. MaxEvents
  /\ tariff \in [price : Nat, fee_bps : Nat] /\ tariff.fee_bps <= 10000
  /\ patch \in [Operators -> {P!NoPatch} \cup RequestType]
  /\ late \subseteq Sent /\ set \subseteq Sent

TariffInv ==
  /\ TariffType
  /\ \A x \in late \cup set : InTurn(x, set)
  /\ \A o \in Operators : RequestInTurn(patch[o], set)

LEMMA BodyFields ==
  ASSUME NEW body \in Patches
  PROVE  /\ body.price # Absent => body.price \in Nat
         /\ body.fee_bps # Absent => body.fee_bps \in Int
  BY ConsoleAssumption

LEMMA RequestFields ==
  ASSUME TariffInv, NEW o \in Operators, patch[o] # P!NoPatch
  PROVE  /\ patch[o] \in RequestType /\ patch[o].stage \in {"price", "fee_bps"}
         /\ patch[o].body \in Patches /\ patch[o].request \in 0 .. MaxEvents
         /\ P!TransactionOf(o) \in Sent /\ InTurn(P!TransactionOf(o), set)
         /\ patch[o].stage = "price" /\ patch[o].answer = "given"
              => PriceIn(set, patch[o].body, patch[o].request)
<1>1. patch[o] \in RequestType
  BY DEF TariffInv, TariffType
<1> QED
  BY <1>1 DEF TariffInv, RequestInTurn, RequestType, P!TransactionOf, P!Transaction, Sent

(* What was in turn stays so. *)
LEMMA InTurnGrows ==
  ASSUME NEW landed, NEW more, landed \subseteq more
  PROVE  /\ \A x : InTurn(x, landed) => InTurn(x, more)
         /\ \A r : RequestInTurn(r, landed) => RequestInTurn(r, more)
<1>1. \A b, id : PriceIn(landed, b, id) => PriceIn(more, b, id)
  BY DEF PriceIn
<1>2. \A x : InTurn(x, landed) => InTurn(x, more)
  BY <1>1 DEF InTurn
<1> QED
  BY <1>1, <1>2 DEF RequestInTurn

LEMMA InitTariffInv == Init => TariffInv
  BY ConsoleAssumption
     DEF Init, P!Init, P!InitialTariff, TariffInv, TariffType, RequestInTurn

LEMMA StageInTurn ==
  ASSUME NEW body \in Patches, NEW id
  PROVE  /\ P!FirstStage(body) \in {"price", "fee_bps", "over"}
         /\ P!FirstStage(body) # "over"
              => InTurn(P!Transaction(P!FirstStage(body), body, id), set)
         /\ P!FeeStage(body) \in {"price", "fee_bps", "over"}
         /\ P!FeeStage(body) # "over" /\ PriceIn(set, body, id)
              => InTurn(P!Transaction(P!FeeStage(body), body, id), set)
<1>1. body.fee_bps # Absent /\ P!IsFee(body.fee_bps)
        => body.fee_bps \in Nat /\ body.fee_bps <= 10000
  BY BodyFields DEF P!IsFee
<1> QED
  BY <1>1, BodyFields DEF P!FirstStage, P!FeeStage, InTurn, P!Transaction

(* A request that begins, or goes on to the fee, or is over. *)
LEMMA RequestKeeps ==
  ASSUME TariffInv, NEW o \in Operators, NEW stage \in {"price", "fee_bps", "over"},
         NEW body \in Patches, NEW id \in 0 .. MaxEvents,
         stage # "over" => InTurn(P!Transaction(stage, body, id), set),
         patch' = [patch EXCEPT ![o] = P!Request(stage, body, id)],
         tariff' = tariff, late' = late, set' = set, events' \in 0 .. MaxEvents
  PROVE  TariffInv'
<1> DEFINE r == P!Request(stage, body, id)
<1>1. r \in {P!NoPatch} \cup RequestType /\ RequestInTurn(r, set)
  <2>1. CASE stage = "over"
    BY <2>1 DEF P!Request, RequestInTurn
  <2>2. CASE stage # "over"
    <3>1. r = [stage |-> stage, body |-> body, request |-> id, answer |-> "awaited"]
      BY <2>2 DEF P!Request
    <3>2. /\ r \in RequestType /\ r.stage = stage /\ r.body = body /\ r.request = id
          /\ r.answer # "given"
      BY <2>2, <3>1 DEF RequestType
    <3> QED
      BY <2>2, <3>2 DEF RequestInTurn
  <2> QED
    BY <2>1, <2>2
<1> HIDE DEF r
<1>2. patch' = [patch EXCEPT ![o] = r]
  BY DEF r
<1>3. TariffType'
  BY <1>1, <1>2 DEF TariffInv, TariffType
<1>4. \A p \in Operators : RequestInTurn(patch'[p], set)
  BY <1>1, <1>2 DEF TariffInv, TariffType
<1> QED
  BY <1>3, <1>4 DEF TariffInv

(* A transaction lands: of a request, or one that was given up on. *)
LEMMA PutKeeps ==
  ASSUME TariffInv, NEW x \in Sent, InTurn(x, set), P!Put(x)
  PROVE  /\ tariff' \in [price : Nat, fee_bps : Nat] /\ tariff'.fee_bps <= 10000
         /\ set' \subseteq Sent /\ set \subseteq set' /\ x \in set'
         /\ \A y \in late \cup set' : InTurn(y, set')
<1>1. /\ set' = set \cup {x} /\ tariff' = [tariff EXCEPT ![x.field] = x.body[x.field]]
      /\ x.field \in {"price", "fee_bps"}
  BY DEF P!Put, Sent
<1>2. tariff' \in [price : Nat, fee_bps : Nat] /\ tariff'.fee_bps <= 10000
  <2>1. CASE x.field = "price"
    BY <1>1, <2>1 DEF InTurn, TariffInv, TariffType
  <2>2. CASE x.field = "fee_bps"
    BY <1>1, <2>2 DEF InTurn, TariffInv, TariffType
  <2> QED
    BY <1>1, <2>1, <2>2
<1>3. set \subseteq set' /\ x \in set'
  BY <1>1
<1>4. \A y \in late \cup set' : InTurn(y, set')
  BY <1>1, <1>3, InTurnGrows DEF TariffInv
<1>5. set' \subseteq Sent
  BY <1>1 DEF TariffInv, TariffType
<1> QED
  BY <1>2, <1>3, <1>4, <1>5

LEMMA LandKeeps ==
  ASSUME TariffInv, NEW o \in Operators, P!Land(o)
  PROVE  TariffInv'
<1> DEFINE r == [patch[o] EXCEPT !.answer = "given"]
           x == P!TransactionOf(o)
<1>1. /\ patch[o] # P!NoPatch /\ P!Put(x)
      /\ patch' = [patch EXCEPT ![o] = r] /\ late' = late /\ events' = events
  BY DEF P!Land
<1>2. x = P!Transaction(patch[o].stage, patch[o].body, patch[o].request)
  BY DEF P!TransactionOf
<1>3. x \in Sent /\ InTurn(x, set)
  BY <1>1, RequestFields
<1> HIDE DEF x
<1>4. /\ tariff' \in [price : Nat, fee_bps : Nat] /\ tariff'.fee_bps <= 10000
      /\ set' \subseteq Sent /\ set \subseteq set' /\ x \in set'
      /\ \A y \in late \cup set' : InTurn(y, set')
  BY <1>1, <1>3, PutKeeps
<1>5. /\ r \in RequestType /\ r.stage = patch[o].stage /\ r.body = patch[o].body
      /\ r.request = patch[o].request
  BY <1>1, RequestFields DEF RequestType
<1> HIDE DEF r
<1>6. RequestInTurn(r, set')
  <2>1. InTurn(P!Transaction(r.stage, r.body, r.request), set')
    BY <1>2, <1>3, <1>4, <1>5, InTurnGrows
  <2>2. r.stage = "price" => PriceIn(set', r.body, r.request)
    BY <1>2, <1>4, <1>5 DEF PriceIn
  <2> QED
    BY <2>1, <2>2 DEF RequestInTurn
<1>7. TariffType'
  BY <1>1, <1>4, <1>5 DEF TariffInv, TariffType
<1>8. \A p \in Operators : RequestInTurn(patch'[p], set')
  BY <1>1, <1>4, <1>6, InTurnGrows DEF TariffInv, TariffType
<1> QED
  BY <1>1, <1>4, <1>7, <1>8 DEF TariffInv

LEMMA FailKeeps ==
  ASSUME TariffInv, NEW o \in Operators, P!Fail(o)
  PROVE  TariffInv'
<1> DEFINE x == P!TransactionOf(o)
<1>1. /\ patch[o] # P!NoPatch /\ late' \subseteq late \cup {x}
      /\ patch' = [patch EXCEPT ![o] = P!NoPatch] /\ tariff' = tariff /\ set' = set
  BY DEF P!Fail
<1>2. x \in Sent /\ InTurn(x, set)
  BY <1>1, RequestFields
<1> HIDE DEF x
<1>3. events' \in 0 .. MaxEvents
  BY ConsoleAssumption DEF P!Fail, TariffInv, TariffType
<1>4. TariffType'
  BY <1>1, <1>2, <1>3 DEF TariffInv, TariffType
<1>5. \A p \in Operators : RequestInTurn(patch'[p], set)
  BY <1>1 DEF TariffInv, TariffType, RequestInTurn
<1> QED
  BY <1>1, <1>2, <1>4, <1>5 DEF TariffInv

LEMMA LandLateKeeps ==
  ASSUME TariffInv, P!LandLate
  PROVE  TariffInv'
<1>1. PICK x \in late : P!Put(x) /\ late' = late \ {x} /\ patch' = patch /\ events' = events
  BY DEF P!LandLate
<1>2. x \in Sent /\ InTurn(x, set)
  BY DEF TariffInv, TariffType
<1>3. /\ tariff' \in [price : Nat, fee_bps : Nat] /\ tariff'.fee_bps <= 10000
      /\ set' \subseteq Sent /\ set \subseteq set'
      /\ \A y \in late \cup set' : InTurn(y, set')
  BY <1>1, <1>2, PutKeeps
<1>4. TariffType'
  BY <1>1, <1>3 DEF TariffInv, TariffType
<1>5. \A p \in Operators : RequestInTurn(patch'[p], set')
  BY <1>1, <1>3, InTurnGrows DEF TariffInv
<1> QED
  BY <1>1, <1>3, <1>4, <1>5 DEF TariffInv

LEMMA NextTariffInv == TariffInv /\ [Next]_vars => TariffInv'
<1> SUFFICES ASSUME TariffInv, [Next]_vars PROVE TariffInv'
  OBVIOUS
<1>0. events' \in 0 .. MaxEvents
  BY NextCounted DEF TariffInv, TariffType, Counted
<1>1. CASE UNCHANGED tariffVars
  BY <1>0, <1>1 DEF TariffInv, TariffType, tariffVars
<1>2. ASSUME NEW o \in Operators, NEW body \in Patches, P!PatchConfig(o, body) PROVE TariffInv'
  <2> DEFINE stage == P!FirstStage(body)
  <2>1. /\ patch' = [patch EXCEPT ![o] = P!Request(stage, body, events)]
        /\ tariff' = tariff /\ late' = late /\ set' = set /\ events \in 0 .. MaxEvents
    BY <1>2 DEF P!PatchConfig, TariffInv, TariffType
  <2>2. /\ stage \in {"price", "fee_bps", "over"}
        /\ stage # "over" => InTurn(P!Transaction(stage, body, events), set)
    BY <2>1, StageInTurn
  <2> HIDE DEF stage
  <2> QED
    BY <1>0, <2>1, <2>2, RequestKeeps
<1>3. ASSUME NEW o \in Operators, P!Answer(o) PROVE TariffInv'
  <2> DEFINE r == patch[o]
  <2>1. /\ r # P!NoPatch /\ r.answer = "given" /\ tariff' = tariff /\ late' = late /\ set' = set
        /\ patch' = [patch EXCEPT ![o] =
                       IF r.stage = "price" THEN P!Request(P!FeeStage(r.body), r.body, r.request)
                       ELSE P!NoPatch]
    BY <1>3 DEF P!Answer
  <2>2. /\ r.body \in Patches /\ r.request \in 0 .. MaxEvents
        /\ r.stage = "price" => PriceIn(set, r.body, r.request)
    BY <2>1, RequestFields
  <2> DEFINE stage == IF r.stage = "price" THEN P!FeeStage(r.body) ELSE "over"
             body == r.body
             id == r.request
  <2>3. patch' = [patch EXCEPT ![o] = P!Request(stage, body, id)]
    BY <2>1 DEF P!Request
  <2>4. /\ stage \in {"price", "fee_bps", "over"}
        /\ stage # "over" => InTurn(P!Transaction(stage, body, id), set)
    BY <2>2, StageInTurn
  <2>5. /\ tariff' = tariff /\ late' = late /\ set' = set
        /\ body \in Patches /\ id \in 0 .. MaxEvents
    BY <2>1, <2>2
  <2> HIDE DEF body, stage, id
  <2> QED
    BY <1>0, <2>3, <2>4, <2>5, RequestKeeps
<1>4. CASE OfTariff(P!Next)
  <2>1. P!Next
    BY <1>4 DEF OfTariff
  <2> QED
    BY <1>2, <1>3, <2>1, LandKeeps, FailKeeps, LandLateKeeps DEF P!Next
<1> QED
  BY <1>1, <1>4 DEF Next, OfDashboard, OfWallet, vars

(* The fee of a PATCH lands only after its own price, however requests     *)
(* overlap and whenever a transaction that was given up on lands           *)
(* (routes.ts:110-119).                                                    *)
THEOREM ConsoleFeeAfterPrice == Spec => []FeeAfterPrice
<1>1. ASSUME TariffInv PROVE FeeAfterPrice
  <2> SUFFICES ASSUME NEW x \in set, x.field = "fee_bps", x.body.price # Absent
               PROVE  [x EXCEPT !.field = "price"] \in set
    BY DEF FeeAfterPrice
  <2>1. x \in Sent /\ PriceIn(set, x.body, x.request)
    BY <1>1 DEF TariffInv, TariffType, InTurn
  <2>2. [x EXCEPT !.field = "price"] = P!Transaction("price", x.body, x.request)
    BY <2>1 DEF Sent, P!Transaction
  <2> QED
    BY <2>1, <2>2 DEF PriceIn
<1> QED
  BY <1>1, InitTariffInv, NextTariffInv, PTL DEF Spec

-----------------------------------------------------------------------------
(* The wallet: from the click on, the account selected at any moment has   *)
(* been remembered, and the approval is of one of them.                    *)
ApprovalTx == [from : Homes, id : 0 .. MaxEvents]

ApprovalType ==
  [stage : {"idle", "checking", "reading"}]
    \cup [stage : {"signing", "sending"}, tx : ApprovalTx]
    \cup [stage : {"sent"}, tx : ApprovalTx, status : W!Statuses]

WalletInv ==
  /\ Counted /\ selected \in Homes /\ approval \in ApprovalType
  /\ approval.stage # "idle" => busy /\ selected \in chosen
  /\ ApprovesSelected

LEMMA InitWalletInv == Init => WalletInv
  BY ConsoleAssumption
     DEF Init, W!Init, W!NoTask, W!Nothing, WalletInv, ApprovalType, ApprovesSelected, Counted

(* The steps of an approval. *)
LEMMA ApprovalSteps ==
  ASSUME WalletInv, W!ApprovalGoesOn \/ W!ApproveLost, Counted'
  PROVE  WalletInv'
<1> USE DEF WalletInv, ApprovesSelected
<1>1. CASE W!CheckNetwork
  BY <1>1 DEF W!CheckNetwork, W!panel, W!network, W!extension, ApprovalType
<1>2. CASE W!ReadAccount
  <2>1. W!AccountToApprove = selected
    BY <1>2 DEF W!ReadAccount, W!AccountToApprove, W!Selected
  <2> QED
    BY <1>2, <2>1
       DEF W!ReadAccount, W!panel, W!network, W!extension, ApprovalType, ApprovalTx, Counted
<1>3. CASE W!Sign
  BY <1>3 DEF W!Sign, W!panel, W!network, W!extension, ApprovalType
<1>4. ASSUME NEW status \in W!Statuses, W!Submit(status) PROVE WalletInv'
  BY <1>4 DEF W!Submit, W!panel, W!extension, W!Statuses, ApprovalType
<1>5. CASE W!Approved
  BY <1>5 DEF W!Approved, W!Ends, W!IsSent, W!NoTask, W!network, W!extension, ApprovalType
<1>6. CASE W!ApproveFailed
  BY <1>6 DEF W!ApproveFailed, W!Ends, W!NoTask, W!network, W!extension, ApprovalType
<1>7. CASE W!ApproveLost
  BY <1>7 DEF W!ApproveLost, W!Ends, W!NoTask, W!network, W!extension, ApprovalType
<1> QED
  BY <1>1, <1>2, <1>3, <1>4, <1>5, <1>6, <1>7 DEF W!ApprovalGoesOn

LEMMA NextWalletInv == WalletInv /\ [Next]_vars => WalletInv'
<1> SUFFICES ASSUME WalletInv, [Next]_vars PROVE WalletInv'
  OBVIOUS
<1> USE DEF WalletInv, ApprovesSelected
<1>0. Counted'
  BY NextCounted
<1>1. CASE UNCHANGED walletVars
  BY <1>0, <1>1 DEF walletVars
<1>2. CASE OfWallet(W!Next)
  <2>1. CASE W!LookedUp
    BY <1>0, <2>1 DEF W!LookedUp, W!network, W!extension
  <2>2. CASE W!ClickConnect \/ W!Grant \/ W!Connected \/ W!ConnectFailed
    BY <1>0, <2>2 DEF W!ClickConnect, W!Grant, W!Connected, W!ConnectFailed, W!Nothing,
                W!network, W!extension, W!panel
  <2>3. CASE W!ClickApprove
    BY <1>0, <2>3 DEF W!ClickApprove, W!Nothing, W!network, W!extension, ApprovalType
  <2>4. ASSUME NEW a \in Homes, W!Select(a) PROVE WalletInv'
    BY <1>0, <2>4 DEF W!Select, W!network, W!panel, W!tasks
  <2>5. ASSUME NEW tx \in taken, W!Apply(tx) \/ W!Drop(tx) PROVE WalletInv'
    BY <1>0, <2>5 DEF W!Apply, W!Drop, W!extension, W!panel, W!tasks
  <2>6. CASE W!SwitchNetwork
    BY <1>0, <2>6 DEF W!SwitchNetwork, W!network, W!panel, W!tasks
  <2>7. CASE W!ApprovalGoesOn \/ W!ApproveLost
    BY <1>0, <2>7, ApprovalSteps
  <2> QED
    BY <1>2, <2>1, <2>2, <2>3, <2>4, <2>5, <2>6, <2>7 DEF OfWallet, W!Next
<1> QED
  BY <1>1, <1>2 DEF Next, OfTariff, OfDashboard, vars

(* An approval is made for an account that was selected in the extension   *)
(* after the click, however often it is changed there (stellar.ts:95-123). *)
THEOREM ConsoleApprovesSelected == Spec => []ApprovesSelected
<1>1. WalletInv => ApprovesSelected
  BY DEF WalletInv
<1> QED
  BY <1>1, InitWalletInv, NextWalletInv, PTL DEF Spec

-----------------------------------------------------------------------------
(* The dashboard: what a load has read so far is of the states since it    *)
(* began, the present one among them; the load after a settlement begins   *)
(* when the settlement has landed.                                         *)
TrueCard(card, states) ==
  /\ \E s \in states : card.nonce = s.nonce[card.id]
  /\ \E s \in states : card.net_wh = s.net[card.id]

Nonces(states) == {s.nonce[m] : s \in states, m \in D!Listed}

Nets(states) == {s.net[m] : s \in states, m \in D!Listed}

Cards(states) ==
  {card \in [id : D!Listed, nonce : Nonces(states), net_wh : Nets(states)] :
     TrueCard(card, states)}

Running(states) ==
  [stage  : {"config", "meter", "net", "answered"},
   config : {s.tariff : s \in states} \cup {Absent},
   at     : Nat,
   nonce  : Nonces(states) \cup {Absent},
   cards  : Seq(Cards(states))]

Ended == [stage : {"idle", "failed", "cut"}]

ReadSoFar(r, states) ==
  /\ r.stage = "config" => r.at = 1
  /\ r.stage # "config" => \E s \in states : r.config = s.tariff
  /\ r.stage \in {"meter", "net"} => r.at \in 1 .. Len(Registry)
  /\ r.stage = "net" => \E s \in states : r.nonce = s.nonce[Registry[r.at]]

Served(r, states, now) ==
  \/ r \in Ended /\ states = {}
  \/ r \in Running(states) /\ ReadSoFar(r, states) /\ now \in states

LoadsInv ==
  /\ DOMAIN load = Loads /\ DOMAIN since = Loads
  /\ \A l \in Loads : Served(load[l], since[l], Now)

SettleInv ==
  /\ settle.stage # "idle" => settling
  /\ load["after"].stage # "idle" => settle.stage = "loading"
  /\ settle.stage \in {"sent", "settled", "cut", "failed"} => report = Absent

(* Once a settlement of the page has landed, what a load has seen is from  *)
(* after it, unless the load is an earlier one ...                         *)
Reported == settle.stage = "settled" \/ report # Absent

HistInv == Reported => \A l \in Loads \ early : since[l] \subseteq after

(* ... and so is what the page shows, once the load after it has ended.    *)
FreshInv ==
  report # Absent /\ settle.stage # "loading" /\ ~loading /\ error = "none" /\ ~overtaken
    => overview = Broken \/ TrueIn(overview, after)

DashInv == LoadsInv /\ SettleInv /\ HistInv /\ FreshInv /\ FiguresWereTrue

LEMMA StatesGrow ==
  ASSUME NEW states, NEW more, states \subseteq more
  PROVE  /\ Running(states) \subseteq Running(more)
         /\ \A r : ReadSoFar(r, states) => ReadSoFar(r, more)
<1>1. Cards(states) \subseteq Cards(more)
  BY DEF Cards, TrueCard, Nonces, Nets
<1>2. Seq(Cards(states)) \subseteq Seq(Cards(more))
  BY <1>1
<1>3. Nonces(states) \subseteq Nonces(more)
  BY DEF Nonces
<1>4. {s.tariff : s \in states} \subseteq {s.tariff : s \in more}
  OBVIOUS
<1>5. Running(states) \subseteq Running(more)
  BY <1>2, <1>3, <1>4 DEF Running
<1>6. \A r : ReadSoFar(r, states) => ReadSoFar(r, more)
  BY DEF ReadSoFar
<1> QED
  BY <1>5, <1>6

LEMMA NewLoadServed ==
  ASSUME NEW states, NEW now \in states
  PROVE  Served(D!NewLoad, states, now)
<1>1. <<>> \in Seq(Cards(states))
  OBVIOUS
<1>2. D!NewLoad \in Running(states)
  BY <1>1 DEF D!NewLoad, Running
<1> QED
  BY <1>2 DEF Served, ReadSoFar, D!NewLoad

LEMMA InitDashInv == Init => DashInv
<1> SUFFICES ASSUME Init PROVE DashInv
  OBVIOUS
<1>1. LoadsInv
  <2>1. Served(D!NewLoad, {Now}, Now)
    BY NewLoadServed
  <2>2. Served(D!NoLoad, {}, Now)
    BY DEF Served, Ended, D!NoLoad
  <2> QED
    BY <2>1, <2>2 DEF Init, D!Init, LoadsInv
<1>2. SettleInv /\ HistInv /\ FreshInv
  BY ConsoleAssumption
     DEF Init, D!Init, D!NoLoad, D!NoSettle, SettleInv, HistInv, FreshInv, Reported
<1>3. FiguresWereTrue
  BY DEF Init, D!Init, FiguresWereTrue
<1> QED
  BY <1>1, <1>2, <1>3 DEF DashInv

(* Every load that a step leaves alone stays served. *)
LEMMA LoadsKeep ==
  ASSUME LoadsInv, Remember, DOMAIN load' = Loads,
         \A l \in Loads : load'[l] # load[l] => Served(load'[l], since'[l], Now')
  PROVE  LoadsInv'
<1>1. DOMAIN since' = Loads
  BY DEF Remember
<1>2. ASSUME NEW l \in Loads, load'[l] = load[l] PROVE Served(load'[l], since'[l], Now')
  <2>1. CASE load[l] \in Ended
    <3>1. since'[l] = {}
      BY <1>2, <2>1 DEF Remember, Ended
    <3> QED
      BY <1>2, <2>1, <3>1 DEF Served
  <2>2. CASE load[l] \in Running(since[l]) /\ ReadSoFar(load[l], since[l])
    <3>1. since'[l] = since[l] \cup {Now'}
      BY <1>2, <2>2 DEF Remember, Running
    <3> QED
      BY <1>2, <2>2, <3>1, StatesGrow DEF Served
  <2> QED
    BY <2>1, <2>2 DEF LoadsInv, Served
<1> QED
  BY <1>1, <1>2 DEF LoadsInv

(* The backend reads on. *)
LEMMA ServerServes ==
  ASSUME LoadsInv, Remember, NEW l \in Loads, D!Server(l), tariff' = tariff
  PROVE  /\ DOMAIN load' = Loads /\ \A k \in Loads \ {l} : load'[k] = load[k]
         /\ Served(load'[l], since'[l], Now')
         /\ load[l].stage # "idle" /\ load'[l].stage # "idle"
<1> DEFINE r == load[l]
           S == since[l]
<1>1. r.stage \in {"config", "meter", "net"}
  BY DEF D!Server, D!ReadConfig, D!ReadMeter, D!ReadNet
<1>2. r \in Running(S) /\ ReadSoFar(r, S) /\ Now \in S
  BY <1>1 DEF LoadsInv, Served, Ended
<1>3. /\ r.config \in {s.tariff : s \in S} \cup {Absent} /\ r.at \in Nat
      /\ r.nonce \in Nonces(S) \cup {Absent} /\ r.cards \in Seq(Cards(S))
      /\ r = [stage |-> r.stage, config |-> r.config, at |-> r.at, nonce |-> r.nonce,
              cards |-> r.cards]
  BY <1>2 DEF Running
<1>4. UNCHANGED <<tariff, nonce, net>> => Now' = Now
  BY DEF Now
<1>5. Registry \in Seq(Nat) /\ D!Listed = {Registry[i] : i \in 1 .. Len(Registry)}
  BY ConsoleAssumption DEF D!Listed, D!ToSet
<1> HIDE DEF r, S
<1>6. ASSUME NEW q, load' = [load EXCEPT ![l] = q], q \in Running(S), ReadSoFar(q, S),
             UNCHANGED <<nonce, net>>
      PROVE  /\ DOMAIN load' = Loads /\ \A k \in Loads \ {l} : load'[k] = load[k]
             /\ load'[l] = q /\ Served(load'[l], since'[l], Now') /\ load'[l].stage # "idle"
  <2>1. DOMAIN load' = Loads /\ load'[l] = q /\ \A k \in Loads \ {l} : load'[k] = load[k]
    BY <1>6 DEF LoadsInv
  <2>2. q.stage \notin {"idle", "failed", "cut"}
    BY <1>6 DEF Running
  <2>3. Now' = Now
    BY <1>4, <1>6
  <2>4. since'[l] = S \cup {Now}
    BY <2>1, <2>2, <2>3 DEF Remember, S
  <2>5. since'[l] = S
    BY <1>2, <2>4
  <2> QED
    BY <1>2, <1>6, <2>1, <2>2, <2>3, <2>5 DEF Served
<1>7. CASE D!ReadConfig(l)
  <2> DEFINE st == IF Registry = <<>> THEN "answered" ELSE "meter"
             q == [r EXCEPT !.stage = st, !.config = tariff]
  <2>1. /\ load' = [load EXCEPT ![l] = q] /\ r.stage = "config" /\ UNCHANGED <<nonce, net>>
        /\ st \in {"answered", "meter"} /\ (st = "meter" => Registry # <<>>)
    BY <1>7 DEF D!ReadConfig, D!grid, r
  <2> HIDE DEF st
  <2>2. tariff \in {s.tariff : s \in S}
    BY <1>2 DEF Now
  <2>3. q \in Running(S) /\ q.stage = st /\ q.config = tariff /\ q.at = r.at
    BY <1>2, <2>1, <2>2 DEF Running
  <2> HIDE DEF q
  <2>4. ReadSoFar(q, S)
    BY <1>2, <1>5, <2>1, <2>2, <2>3 DEF ReadSoFar
  <2> QED
    BY <1>1, <1>6, <2>1, <2>3, <2>4 DEF r
<1>8. CASE D!ReadMeter(l)
  <2> DEFINE st == IF r.at = Len(Registry) THEN "answered" ELSE "meter"
             m == Registry[r.at]
             q1 == [r EXCEPT !.stage = "net", !.nonce = nonce[m]]
             q2 == [r EXCEPT !.stage = st, !.at = r.at + 1]
  <2>1. /\ load' = [load EXCEPT ![l] = IF m \in known THEN q1 ELSE q2]
        /\ r.stage = "meter" /\ UNCHANGED <<nonce, net>>
    BY <1>8 DEF D!ReadMeter, D!Entry, D!Further, D!grid, r
  <2>2. m \in D!Listed /\ r.at \in 1 .. Len(Registry) /\ Len(Registry) \in Nat
    BY <1>2, <1>5, <2>1 DEF ReadSoFar
  <2>3. /\ st \in {"answered", "meter"} /\ r.at + 1 \in Nat
        /\ st = "meter" => r.at + 1 \in 1 .. Len(Registry)
    BY <2>2
  <2>4. nonce[m] = Now.nonce[m] /\ nonce[m] \in Nonces(S)
    BY <1>2, <2>2 DEF Now, Nonces
  <2> HIDE DEF st, m
  <2>5. /\ q1 \in Running(S) /\ q1.stage = "net" /\ q1.config = r.config /\ q1.at = r.at
        /\ q1.nonce = nonce[m]
    BY <1>2, <2>4 DEF Running
  <2>6. q2 \in Running(S) /\ q2.stage = st /\ q2.config = r.config /\ q2.at = r.at + 1
    BY <1>2, <2>3 DEF Running
  <2> HIDE DEF q1, q2
  <2>7. ReadSoFar(q1, S)
    BY <1>2, <2>1, <2>2, <2>4, <2>5 DEF ReadSoFar, m
  <2>8. ReadSoFar(q2, S)
    BY <1>2, <2>1, <2>3, <2>6 DEF ReadSoFar
  <2>9. CASE m \in known
    BY <1>1, <1>6, <2>1, <2>5, <2>7, <2>9 DEF r
  <2>10. CASE m \notin known
    BY <1>1, <1>6, <2>1, <2>6, <2>8, <2>10 DEF r
  <2> QED
    BY <2>9, <2>10
<1>9. CASE D!ReadNet(l)
  <2> DEFINE st == IF r.at = Len(Registry) THEN "answered" ELSE "meter"
             m == Registry[r.at]
             card == [id |-> m, nonce |-> r.nonce, net_wh |-> net[m]]
             cs == Append(r.cards, card)
             q == [r EXCEPT !.stage = st, !.at = r.at + 1, !.nonce = Absent, !.cards = cs]
  <2>1. load' = [load EXCEPT ![l] = q] /\ r.stage = "net" /\ UNCHANGED <<nonce, net>>
    BY <1>9 DEF D!ReadNet, D!NetOf, D!Entry, D!Further, D!grid, r
  <2>2. m \in D!Listed /\ r.at \in 1 .. Len(Registry) /\ Len(Registry) \in Nat
    BY <1>2, <1>5, <2>1 DEF ReadSoFar
  <2>3. /\ st \in {"answered", "meter"} /\ r.at + 1 \in Nat
        /\ st = "meter" => r.at + 1 \in 1 .. Len(Registry)
    BY <2>2
  <2>4. \E s \in S : r.nonce = s.nonce[m]
    BY <1>2, <2>1 DEF ReadSoFar
  <2>5. net[m] = Now.net[m] /\ net[m] \in Nets(S)
    BY <1>2, <2>2 DEF Now, Nets
  <2> HIDE DEF st, m
  <2>6. card \in Cards(S)
    BY <1>2, <2>2, <2>4, <2>5 DEF Cards, TrueCard, Nonces
  <2> HIDE DEF card
  <2>7. cs \in Seq(Cards(S))
    BY <1>3, <2>6
  <2> HIDE DEF cs
  <2>8. q \in Running(S) /\ q.stage = st /\ q.config = r.config /\ q.at = r.at + 1
    BY <1>2, <2>3, <2>7 DEF Running
  <2> HIDE DEF q
  <2>9. ReadSoFar(q, S)
    BY <1>2, <2>1, <2>3, <2>8 DEF ReadSoFar
  <2> QED
    BY <1>1, <1>6, <2>1, <2>8, <2>9 DEF r
<1> QED
  BY <1>7, <1>8, <1>9 DEF D!Server

(* A load ends, or begins. *)
LEMMA LoadReplaced ==
  ASSUME LoadsInv, Remember, NEW l \in Loads, NEW r \in Ended \cup {D!NewLoad},
         load' = [load EXCEPT ![l] = r]
  PROVE  LoadsInv'
<1>1. DOMAIN load' = Loads /\ load'[l] = r /\ \A k \in Loads \ {l} : load'[k] = load[k]
  BY DEF LoadsInv
<1>2. CASE r \in Ended
  <2>1. since'[l] = {}
    BY <1>1, <1>2 DEF Remember, Ended
  <2>2. Served(load'[l], since'[l], Now')
    BY <1>1, <1>2, <2>1 DEF Served
  <2> QED
    BY <1>1, <2>2, LoadsKeep
<1>3. CASE r = D!NewLoad
  <2>1. since'[l] = since[l] \cup {Now'}
    BY <1>1, <1>3 DEF Remember, D!NewLoad
  <2>2. Served(load'[l], since'[l], Now')
    BY <1>1, <1>3, <2>1, NewLoadServed
  <2> QED
    BY <1>1, <2>2, LoadsKeep
<1> QED
  BY <1>2, <1>3

LEMMA NextLoads ==
  ASSUME LoadsInv, [Next]_vars
  PROVE  LoadsInv'
<1>1. CASE UNCHANGED vars
  <2>1. Now' = Now
    BY <1>1 DEF vars, tariffVars, dashVars, Now
  <2> QED
    BY <1>1, <2>1 DEF vars, dashVars, pageHist, LoadsInv
<1>2. ASSUME load' = load, Remember PROVE LoadsInv'
  BY <1>2, LoadsKeep DEF LoadsInv
<1>3. CASE OfTariff(P!Next) \/ OfWallet(W!Next)
  BY <1>2, <1>3 DEF OfTariff, OfWallet, dashVars
<1>4. CASE OfDashboard(D!Next)
  <2>1. D!Next /\ Remember /\ tariff' = tariff
    BY <1>4 DEF OfDashboard, tariffVars
  <2>2. CASE \E m \in D!Listed, wh \in Deltas : D!AcceptReading(m, wh)
    BY <1>2, <2>1, <2>2 DEF D!AcceptReading
  <2>3. CASE D!SettleElsewhere \/ D!ClickSettle \/ D!LandSettle \/ D!SettleFailed
             \/ D!LoseSettle \/ D!CutSettle
    BY <1>2, <2>1, <2>3
       DEF D!SettleElsewhere, D!ClickSettle, D!LandSettle, D!SettleFailed, D!LoseSettle, D!CutSettle
  <2>4. CASE D!Settled
    BY <2>1, <2>4, ConsoleAssumption, LoadReplaced DEF D!Settled, D!ShowsReport, D!Begins
  <2>5. ASSUME NEW l \in Loads, D!Server(l) PROVE LoadsInv'
    BY <2>1, <2>5, ServerServes, LoadsKeep
  <2>6. ASSUME NEW l \in Loads, D!LoseLoad(l) \/ D!CutLoad(l) PROVE LoadsInv'
    BY <2>1, <2>6, LoadReplaced DEF D!LoseLoad, D!CutLoad, Ended
  <2>7. ASSUME NEW l \in Loads, D!ClickLoad(l) PROVE LoadsInv'
    BY <2>1, <2>7, LoadReplaced DEF D!ClickLoad, D!Begins
  <2>8. ASSUME NEW l \in Loads, D!Arrives(l) PROVE LoadsInv'
    BY <2>1, <2>8, LoadReplaced
       DEF D!Arrives, D!Loaded, D!LoadFailed, D!Breaks, D!EndsLoad, D!NoLoad, Ended
  <2> QED
    BY <2>1, <2>2, <2>3, <2>4, <2>5, <2>6, <2>7, <2>8 DEF D!Next, D!SettleGoesOn
<1> QED
  BY <1>1, <1>3, <1>4 DEF Next

(* What an answer shows was true since its load began. *)
LEMMA LoadedIsTrue ==
  ASSUME LoadsInv, NEW l \in Loads, D!Loaded(l)
  PROVE  TrueIn(overview', since[l])
<1>1. load[l].stage = "answered"
      /\ overview' = [config |-> load[l].config, meters |-> load[l].cards]
  BY DEF D!Loaded
<1>2. load[l] \in Running(since[l]) /\ ReadSoFar(load[l], since[l])
  BY <1>1 DEF LoadsInv, Served, Ended
<1>3. \E s \in since[l] : overview'.config = s.tariff
  BY <1>1, <1>2 DEF ReadSoFar
<1>4. overview'.meters \in Seq(Cards(since[l]))
  BY <1>1, <1>2 DEF Running
<1>5. \A i \in DOMAIN overview'.meters : overview'.meters[i] \in Cards(since[l])
  BY <1>4
<1>6. \A i \in DOMAIN overview'.meters : TrueCard(overview'.meters[i], since[l])
  BY <1>5 DEF Cards
<1> QED
  BY <1>3, <1>6 DEF TrueIn, TrueCard

LEMMA NextFigures ==
  ASSUME LoadsInv, FiguresWereTrue, [Next]_vars
  PROVE  FiguresWereTrue'
<1>1. ASSUME overview' = overview, shown' = shown PROVE FiguresWereTrue'
  BY <1>1 DEF FiguresWereTrue, TrueIn
<1>2. CASE UNCHANGED vars \/ OfTariff(P!Next) \/ OfWallet(W!Next)
  BY <1>1, <1>2 DEF OfTariff, OfWallet, vars, dashVars
<1>3. CASE OfDashboard(D!Next)
  <2>1. CASE \E l \in Loads : D!Loaded(l)
    <3>1. PICK l \in Loads : D!Loaded(l)
      BY <2>1
    <3>2. TrueIn(overview', since[l]) /\ shown' = since[l]
      BY <3>1, LoadedIsTrue DEF D!Loaded
    <3> QED
      BY <3>2 DEF FiguresWereTrue, TrueIn
  <2>2. CASE \E l \in Loads : D!Breaks(l)
    BY <2>2 DEF D!Breaks, FiguresWereTrue
  <2>3. CASE ~(\E l \in Loads : D!Loaded(l) \/ D!Breaks(l))
    <3>1. overview' = overview /\ shown' = shown
      BY <1>3, <2>3
         DEF OfDashboard, D!Next, D!AcceptReading, D!SettleElsewhere, D!Server, D!ReadConfig,
             D!ReadMeter, D!ReadNet, D!LoseLoad, D!CutLoad, D!ClickLoad, D!Arrives, D!LoadFailed,
             D!ClickSettle, D!SettleGoesOn, D!LandSettle, D!Settled, D!SettleFailed,
             D!LoseSettle, D!CutSettle, D!page
    <3> QED
      BY <1>1, <3>1
  <2> QED
    BY <2>1, <2>2, <2>3
<1> QED
  BY <1>2, <1>3 DEF Next

(* Steps that leave the settlement of the page, and its load, in flight.   *)
LEMMA SettleKeeps ==
  ASSUME SettleInv, UNCHANGED <<settle, report, settling>>,
         load'["after"].stage # "idle" => load["after"].stage # "idle"
  PROVE  SettleInv'
  BY DEF SettleInv

LEMMA NextSettle ==
  ASSUME LoadsInv, SettleInv, [Next]_vars
  PROVE  SettleInv'
<1> USE ConsoleAssumption
<1>1. CASE UNCHANGED vars
  BY <1>1 DEF vars, dashVars, SettleInv
<1>2. CASE OfTariff(P!Next) \/ OfWallet(W!Next)
  BY <1>2, SettleKeeps DEF OfTariff, OfWallet, dashVars
<1>3. CASE OfDashboard(D!Next)
  <2>1. D!Next /\ Remember
    BY <1>3 DEF OfDashboard
  <2>2. CASE (\E m \in D!Listed, wh \in Deltas : D!AcceptReading(m, wh)) \/ D!SettleElsewhere
    BY <2>1, <2>2, SettleKeeps DEF D!AcceptReading, D!SettleElsewhere, D!page
  <2>3. ASSUME NEW l \in Loads, D!Server(l) PROVE SettleInv'
    <3>1. UNCHANGED <<settle, report, settling>> /\ load[l].stage # "idle"
          /\ DOMAIN load = Loads /\ \A k \in Loads \ {l} : load'[k] = load[k]
      BY <2>3 DEF D!Server, D!ReadConfig, D!ReadMeter, D!ReadNet, D!page, LoadsInv
    <3> QED
      BY <2>1, <3>1, SettleKeeps
  <2>4. ASSUME NEW l \in Loads, D!LoseLoad(l) \/ D!CutLoad(l) PROVE SettleInv'
    BY <2>1, <2>4, SettleKeeps DEF D!LoseLoad, D!CutLoad, D!page, LoadsInv
  <2>5. ASSUME NEW l \in Loads, D!ClickLoad(l) PROVE SettleInv'
    BY <2>1, <2>5, SettleKeeps DEF D!ClickLoad, D!Begins, LoadsInv
  <2>6. ASSUME NEW l \in Loads \ {"after"}, D!Arrives(l) PROVE SettleInv'
    BY <2>1, <2>6, SettleKeeps
       DEF D!Arrives, D!Loaded, D!LoadFailed, D!Breaks, D!EndsLoad, LoadsInv
  <2>7. CASE D!Arrives("after")
    <3>1. D!EndsLoad("after")
      BY <2>7 DEF D!Arrives, D!Loaded, D!LoadFailed, D!Breaks
    <3>2. load' = [load EXCEPT !["after"] = D!NoLoad] /\ settle' = D!NoSettle
      BY <3>1 DEF D!EndsLoad
    <3>3. load'["after"].stage = "idle" /\ settle'.stage = "idle"
      BY <3>2 DEF D!NoLoad, D!NoSettle, LoadsInv
    <3> QED
      BY <3>3 DEF SettleInv
  <2>8. CASE D!ClickSettle
    BY <2>8 DEF D!ClickSettle, SettleInv
  <2>9. CASE D!LandSettle \/ D!LoseSettle \/ D!CutSettle
    BY <2>9 DEF D!LandSettle, D!LoseSettle, D!CutSettle, D!page, SettleInv
  <2>10. CASE D!SettleFailed
    BY <2>10 DEF D!SettleFailed, D!NoSettle, SettleInv
  <2>11. CASE D!Settled
    <3>1. settle.stage \in {"settled", "cut"} /\ settle' = [stage |-> "loading"]
          /\ settling' = settling
      BY <2>11 DEF D!Settled, D!ShowsReport
    <3> QED
      BY <3>1 DEF SettleInv
  <2> QED
    BY <2>1, <2>2, <2>3, <2>4, <2>5, <2>6, <2>7, <2>8, <2>9, <2>10, <2>11
       DEF D!Next, D!SettleGoesOn
<1> QED
  BY <1>1, <1>2, <1>3 DEF Next

(* A report appears when a settlement has landed. *)
LEMMA ReportsLanded ==
  ASSUME [Next]_vars, report' # Absent
  PROVE  report # Absent \/ settle.stage = "settled"
<1>1. CASE UNCHANGED report
  BY <1>1
<1>2. CASE D!Settled
  BY <1>2 DEF D!Settled
<1>3. D!ClickSettle => report' = Absent
  BY DEF D!ClickSettle
<1>4. UNCHANGED report \/ D!Settled \/ D!ClickSettle
  BY DEF Next, OfTariff, OfWallet, OfDashboard, vars, dashVars, D!Next, D!AcceptReading,
         D!SettleElsewhere, D!Server, D!ReadConfig, D!ReadMeter, D!ReadNet, D!LoseLoad,
         D!CutLoad, D!ClickLoad, D!Arrives, D!Loaded, D!LoadFailed, D!Breaks, D!EndsLoad,
         D!SettleGoesOn, D!LandSettle, D!SettleFailed, D!LoseSettle, D!CutSettle, D!page
<1> QED
  BY <1>1, <1>2, <1>3, <1>4

LEMMA NextHist ==
  ASSUME HistInv, [Next]_vars
  PROVE  HistInv'
<1>1. CASE UNCHANGED vars
  BY <1>1 DEF vars, dashVars, pageHist, HistInv, Reported
<1>2. CASE Remember
  <2> SUFFICES ASSUME Reported', NEW l \in Loads, l \notin early' PROVE since'[l] \subseteq after'
    BY DEF HistInv
  <2>1. CASE load'[l].stage = "idle"
    BY <1>2, <2>1 DEF Remember
  <2>2. CASE load'[l].stage # "idle"
    <3>1. ~Lands /\ l \notin early
      BY <1>2, <2>2 DEF Remember
    <3>2. Reported
      BY <3>1, ReportsLanded DEF Lands, Reported
    <3>3. since[l] \subseteq after
      BY <3>1, <3>2 DEF HistInv
    <3>4. after' = after \cup {Now'}
      BY <1>2 DEF Remember, Reported
    <3>5. since'[l] \subseteq since[l] \cup {Now'}
      BY <1>2 DEF Remember
    <3> QED
      BY <3>3, <3>4, <3>5
  <2> QED
    BY <2>1, <2>2
<1> QED
  BY <1>1, <1>2 DEF Next, OfTariff, OfDashboard, OfWallet

(* A step that leaves the page and its settlement alone, and shows no      *)
(* answer of a load.                                                       *)
LEMMA FreshKeeps ==
  ASSUME FreshInv, Remember, UNCHANGED <<settle, D!page>>, \A l \in Loads : ~Shows(l)
  PROVE  FreshInv'
<1>1. settle' = settle /\ UNCHANGED <<overview, loading, error, report>>
  BY DEF D!page
<1>2. SUFFICES ASSUME report # Absent, settle.stage # "loading", ~loading, error = "none",
                      ~overtaken'
               PROVE  overview = Broken \/ TrueIn(overview, after')
  BY <1>1 DEF FreshInv
<1>3. ~Lands
  BY <1>1 DEF Lands
<1>4. ~overtaken
  BY <1>2, <1>3 DEF Remember
<1>5. after \subseteq after'
  BY <1>1, <1>2 DEF Remember
<1> QED
  BY <1>2, <1>4, <1>5 DEF FreshInv, TrueIn

LEMMA NextFresh ==
  ASSUME LoadsInv, SettleInv, HistInv, FreshInv, [Next]_vars
  PROVE  FreshInv'
<1>1. CASE UNCHANGED vars
  BY <1>1 DEF vars, dashVars, pageHist, FreshInv, TrueIn
<1>2. CASE OfTariff(P!Next) \/ OfWallet(W!Next)
  <2>1. Remember /\ UNCHANGED <<settle, D!page>> /\ load' = load
    BY <1>2 DEF OfTariff, OfWallet, dashVars, D!page
  <2> QED
    BY <2>1, FreshKeeps DEF Shows
<1>3. CASE OfDashboard(D!Next)
  <2>1. D!Next /\ Remember /\ tariff' = tariff
    BY <1>3 DEF OfDashboard, tariffVars
  <2>2. CASE (\E m \in D!Listed, wh \in Deltas : D!AcceptReading(m, wh)) \/ D!SettleElsewhere
    BY <2>1, <2>2, FreshKeeps DEF D!AcceptReading, D!SettleElsewhere, Shows
  <2>3. ASSUME NEW l \in Loads, D!Server(l) PROVE FreshInv'
    <3>1. UNCHANGED <<settle, D!page>>
      BY <2>3 DEF D!Server, D!ReadConfig, D!ReadMeter, D!ReadNet
    <3>2. load'[l].stage # "idle" /\ \A k \in Loads \ {l} : load'[k] = load[k]
      BY <2>1, <2>3, ServerServes
    <3> QED
      BY <2>1, <3>1, <3>2, FreshKeeps DEF Shows
  <2>4. ASSUME NEW l \in Loads, D!LoseLoad(l) \/ D!CutLoad(l) PROVE FreshInv'
    <3>1. UNCHANGED <<settle, D!page>>
      BY <2>4 DEF D!LoseLoad, D!CutLoad
    <3>2. PICK r \in {[stage |-> "failed"], [stage |-> "cut"]} : load' = [load EXCEPT ![l] = r]
      BY <2>4 DEF D!LoseLoad, D!CutLoad
    <3>3. load'[l].stage # "idle" /\ \A k \in Loads \ {l} : load'[k] = load[k]
      BY <3>2 DEF LoadsInv
    <3> QED
      BY <2>1, <3>1, <3>3, FreshKeeps DEF Shows
  <2>5. ASSUME NEW l \in Loads, D!ClickLoad(l) PROVE FreshInv'
    BY <2>5 DEF D!ClickLoad, FreshInv
  <2>6. ASSUME NEW l \in Loads, D!Loaded(l) PROVE FreshInv'
    <3>1. TrueIn(overview', since[l]) /\ report' = report
      BY <2>6, LoadedIsTrue DEF D!Loaded, D!EndsLoad
    <3>2. Shows(l)
      BY <2>6 DEF D!Loaded, D!EndsLoad, D!NoLoad, Shows, LoadsInv
    <3>3. SUFFICES ASSUME report # Absent, ~overtaken' PROVE TrueIn(overview', after')
      BY <3>1 DEF FreshInv
    <3>4. l \notin early
      BY <2>1, <3>2, <3>3 DEF Remember
    <3>5. since[l] \subseteq after /\ after \subseteq after'
      BY <2>1, <3>1, <3>3, <3>4 DEF HistInv, Reported, Remember
    <3> QED
      BY <3>1, <3>5 DEF TrueIn
  <2>7. ASSUME NEW l \in Loads, D!LoadFailed(l) PROVE FreshInv'
    BY <2>7 DEF D!LoadFailed, FreshInv
  <2>8. ASSUME NEW l \in Loads, D!Breaks(l) PROVE FreshInv'
    BY <2>8 DEF D!Breaks, FreshInv
  <2>9. CASE D!ClickSettle
    BY <2>9 DEF D!ClickSettle, FreshInv
  <2>10. CASE D!LandSettle \/ D!LoseSettle \/ D!CutSettle \/ D!SettleFailed
    <3>1. report' = report /\ settle.stage \in {"sent", "settled", "failed"}
      BY <2>10 DEF D!LandSettle, D!LoseSettle, D!CutSettle, D!SettleFailed, D!page
    <3> QED
      BY <3>1 DEF SettleInv, FreshInv
  <2>11. CASE D!Settled
    BY <2>11 DEF D!Settled, D!ShowsReport, FreshInv
  <2> QED
    BY <2>1, <2>2, <2>3, <2>4, <2>5, <2>6, <2>7, <2>8, <2>9, <2>10, <2>11
       DEF D!Next, D!SettleGoesOn, D!Arrives
<1> QED
  BY <1>1, <1>2, <1>3 DEF Next

LEMMA NextDashInv == DashInv /\ [Next]_vars => DashInv'
  BY NextLoads, NextSettle, NextHist, NextFresh, NextFigures DEF DashInv

(* No figure on the page was made up, for every registry and however many  *)
(* loads overlap with whatever else (relayer.ts:70-87, dashboard.tsx:51-61).*)
THEOREM ConsoleFiguresWereTrue == Spec => []FiguresWereTrue
<1>1. DashInv => FiguresWereTrue
  BY DEF DashInv
<1> QED
  BY <1>1, InitDashInv, NextDashInv, PTL DEF Spec

(* As long as a report is shown, the figures beside it are from after its  *)
(* settlement, unless the page says it is still loading or could not load, *)
(* or shows the answer of a load that had begun earlier                    *)
(* (dashboard.tsx:51-80).                                                  *)
THEOREM ConsoleFreshWithReport == Spec => []FreshWithReport
<1>1. DashInv => FreshWithReport
  BY DEF DashInv, SettleInv, FreshInv, FreshWithReport
<1> QED
  BY <1>1, InitDashInv, NextDashInv, PTL DEF Spec

-----------------------------------------------------------------------------
(* The flags of the page, each with the task that raised it.               *)
Waits == loading => \E l \in Loads : InFlight(l)

Settles ==
  /\ settling \in BOOLEAN /\ (settling <=> settle.stage # "idle")
  /\ InFlight("after") <=> settle.stage = "loading"

Flags == Waits /\ Settles

Approves == busy \in BOOLEAN /\ (busy <=> approval.stage # "idle")

LEMMA InitFlags == Init => Flags /\ Approves
<1> SUFFICES ASSUME Init PROVE Flags /\ Approves
  OBVIOUS
<1>1. Waits
  BY ConsoleAssumption DEF Init, D!Init, D!NewLoad, Waits, InFlight
<1>2. Settles
  BY ConsoleAssumption DEF Init, D!Init, D!NoLoad, D!NoSettle, Settles, InFlight
<1>3. Approves
  BY DEF Init, W!Init, W!NoTask, Approves
<1> QED
  BY <1>1, <1>2, <1>3 DEF Flags

(* A load that goes on, or fails, is still to be waited for. *)
LEMMA LoadGoesOn ==
  ASSUME LoadsInv, Flags, NEW l \in Loads, DOMAIN load' = Loads,
         \A k \in Loads \ {l} : load'[k] = load[k],
         load[l].stage # "idle", load'[l].stage # "idle",
         UNCHANGED <<loading, settling, settle>>
  PROVE  Flags'
<1>1. \A k \in Loads : InFlight(k)' <=> InFlight(k)
  BY DEF InFlight
<1>2. Waits'
  BY <1>1 DEF Flags, Waits
<1>3. Settles'
  BY <1>1, ConsoleAssumption DEF Flags, Settles
<1> QED
  BY <1>2, <1>3 DEF Flags

(* One that ends takes the flag with it, and the settlement it was for.    *)
LEMMA LoadEnds ==
  ASSUME LoadsInv, Flags, NEW l \in Loads, D!EndsLoad(l)
  PROVE  Flags'
<1>1. /\ load' = [load EXCEPT ![l] = D!NoLoad] /\ loading' = FALSE
      /\ l = "after" => settling' = FALSE /\ settle' = D!NoSettle
      /\ l # "after" => settling' = settling /\ settle' = settle
  BY DEF D!EndsLoad, D!StillLoading
<1>2. load'[l].stage = "idle" /\ \A k \in Loads \ {l} : load'[k] = load[k]
  BY <1>1 DEF LoadsInv, D!NoLoad
<1>3. Waits'
  BY <1>1 DEF Waits
<1>4. CASE l = "after"
  <2>1. settling' = FALSE /\ settle'.stage = "idle" /\ load'["after"].stage = "idle"
    BY <1>1, <1>2, <1>4 DEF D!NoSettle
  <2> QED
    BY <1>3, <2>1 DEF Flags, Settles, InFlight
<1>5. CASE l # "after"
  <2>1. UNCHANGED <<settling, settle>> /\ load'["after"] = load["after"]
    BY <1>1, <1>2, <1>5, ConsoleAssumption
  <2> QED
    BY <1>3, <2>1 DEF Flags, Settles, InFlight
<1> QED
  BY <1>4, <1>5

LEMMA NextFlags ==
  ASSUME LoadsInv, Flags, [Next]_vars
  PROVE  Flags'
<1>1. ASSUME UNCHANGED <<load, loading, settling, settle>> PROVE Flags'
  BY <1>1 DEF Flags, Waits, Settles, InFlight
<1>2. CASE UNCHANGED vars \/ OfTariff(P!Next) \/ OfWallet(W!Next)
  BY <1>1, <1>2 DEF OfTariff, OfWallet, vars, dashVars
<1>3. CASE OfDashboard(D!Next)
  <2>1. D!Next /\ Remember /\ tariff' = tariff
    BY <1>3 DEF OfDashboard, tariffVars
  <2>2. CASE (\E m \in D!Listed, wh \in Deltas : D!AcceptReading(m, wh)) \/ D!SettleElsewhere
    BY <1>1, <2>2 DEF D!AcceptReading, D!SettleElsewhere, D!page
  <2>3. ASSUME NEW l \in Loads, D!Server(l) PROVE Flags'
    <3>1. UNCHANGED <<loading, settling, settle>>
      BY <2>3 DEF D!Server, D!ReadConfig, D!ReadMeter, D!ReadNet, D!page
    <3>2. /\ DOMAIN load' = Loads /\ \A k \in Loads \ {l} : load'[k] = load[k]
          /\ load[l].stage # "idle" /\ load'[l].stage # "idle"
      BY <2>1, <2>3, ServerServes
    <3> QED
      BY <3>1, <3>2, LoadGoesOn
  <2>4. ASSUME NEW l \in Loads, D!LoseLoad(l) \/ D!CutLoad(l) PROVE Flags'
    <3>1. PICK r \in {[stage |-> "failed"], [stage |-> "cut"]} : load' = [load EXCEPT ![l] = r]
      BY <2>4 DEF D!LoseLoad, D!CutLoad
    <3>2. /\ DOMAIN load' = Loads /\ load'[l].stage # "idle"
          /\ \A k \in Loads \ {l} : load'[k] = load[k]
      BY <3>1 DEF LoadsInv
    <3>3. load[l].stage # "idle" /\ UNCHANGED <<loading, settling, settle>>
      BY <2>4 DEF D!LoseLoad, D!CutLoad, D!page
    <3> QED
      BY <3>2, <3>3, LoadGoesOn
  <2>5. ASSUME NEW l \in Loads, D!ClickLoad(l) PROVE Flags'
    <3>1. /\ l # "after" /\ load' = [load EXCEPT ![l] = D!NewLoad]
          /\ UNCHANGED <<settle, settling>>
      BY <2>5 DEF D!ClickLoad, D!Begins
    <3>2. load'[l].stage = "config" /\ load'["after"] = load["after"]
      BY <3>1, ConsoleAssumption DEF LoadsInv, D!NewLoad
    <3>3. Waits'
      BY <3>2 DEF Waits, InFlight
    <3>4. Settles'
      BY <3>1, <3>2 DEF Flags, Settles, InFlight
    <3> QED
      BY <3>3, <3>4 DEF Flags
  <2>6. ASSUME NEW l \in Loads, D!Arrives(l) PROVE Flags'
    BY <2>6, LoadEnds DEF D!Arrives, D!Loaded, D!LoadFailed, D!Breaks
  <2>7. CASE D!ClickSettle
    <3>1. /\ settling' = TRUE /\ settle' = [stage |-> "sent"] /\ ~settling
          /\ UNCHANGED <<load, loading>>
      BY <2>7 DEF D!ClickSettle
    <3> QED
      BY <3>1 DEF Flags, Waits, Settles, InFlight
  <2>8. CASE D!LandSettle \/ D!LoseSettle \/ D!CutSettle
    <3>1. /\ settle.stage \in {"sent", "settled"} /\ settle'.stage \in {"settled", "failed", "cut"}
          /\ UNCHANGED <<load, loading, settling>>
      BY <2>8 DEF D!LandSettle, D!LoseSettle, D!CutSettle, D!page
    <3> QED
      BY <3>1 DEF Flags, Waits, Settles, InFlight
  <2>9. CASE D!Settled
    <3>1. /\ settle.stage \in {"settled", "cut"} /\ settle' = [stage |-> "loading"]
          /\ load' = [load EXCEPT !["after"] = D!NewLoad] /\ settling' = settling
      BY <2>9 DEF D!Settled, D!ShowsReport, D!Begins
    <3>2. load'["after"].stage = "config" /\ "after" \in Loads
      BY <3>1, ConsoleAssumption DEF LoadsInv, D!NewLoad
    <3> QED
      BY <3>1, <3>2 DEF Flags, Waits, Settles, InFlight
  <2>10. CASE D!SettleFailed
    <3>1. /\ settle.stage = "failed" /\ settling' = FALSE /\ settle' = [stage |-> "idle"]
          /\ UNCHANGED <<load, loading>>
      BY <2>10 DEF D!SettleFailed, D!NoSettle
    <3> QED
      BY <3>1 DEF Flags, Waits, Settles, InFlight
  <2> QED
    BY <2>1, <2>2, <2>3, <2>4, <2>5, <2>6, <2>7, <2>8, <2>9, <2>10 DEF D!Next, D!SettleGoesOn
<1> QED
  BY <1>2, <1>3 DEF Next

LEMMA NextApproves ==
  ASSUME WalletInv, Approves, [Next]_vars
  PROVE  Approves'
<1>1. ASSUME UNCHANGED <<busy, approval>> PROVE Approves'
  BY <1>1 DEF Approves
<1>2. ASSUME busy' = busy, approval.stage # "idle", approval'.stage # "idle" PROVE Approves'
  BY <1>2 DEF Approves
<1>3. CASE UNCHANGED vars \/ OfTariff(P!Next) \/ OfDashboard(D!Next)
  BY <1>1, <1>3 DEF OfTariff, OfDashboard, vars, walletVars
<1>4. CASE OfWallet(W!Next)
  <2>1. CASE W!LookedUp \/ W!ClickConnect \/ W!Grant \/ W!Connected \/ W!ConnectFailed
             \/ W!SwitchNetwork \/ (\E a \in Homes : W!Select(a))
             \/ \E tx \in taken : W!Apply(tx) \/ W!Drop(tx)
    BY <1>1, <2>1
       DEF W!LookedUp, W!ClickConnect, W!Grant, W!Connected, W!ConnectFailed, W!SwitchNetwork,
           W!Select, W!Apply, W!Drop, W!panel, W!tasks
  <2>2. CASE W!ClickApprove
    BY <2>2 DEF W!ClickApprove, Approves
  <2>3. CASE W!CheckNetwork \/ W!ReadAccount
    BY <1>2, <2>3 DEF W!CheckNetwork, W!ReadAccount, W!panel
  <2>4. CASE W!Sign
    <3>1. approval.stage # "idle" /\ approval'.stage = "sending" /\ busy' = busy
      BY <2>4 DEF W!Sign, W!panel, WalletInv, ApprovalType
    <3> QED
      BY <1>2, <3>1
  <2>5. ASSUME NEW status, W!Submit(status) PROVE Approves'
    BY <1>2, <2>5 DEF W!Submit, W!panel
  <2>6. CASE W!Approved \/ W!ApproveFailed \/ W!ApproveLost
    <3>1. busy' = FALSE /\ approval' = [stage |-> "idle"]
      BY <2>6 DEF W!Approved, W!ApproveFailed, W!ApproveLost, W!Ends, W!NoTask
    <3> QED
      BY <3>1 DEF Approves
  <2> QED
    BY <1>4, <2>1, <2>2, <2>3, <2>4, <2>5, <2>6 DEF OfWallet, W!Next, W!ApprovalGoesOn
<1> QED
  BY <1>3, <1>4 DEF Next

(* The page's flags and its tasks go together, for any number of loads and *)
(* requests: "Loading" has a load to wait for, settle is disabled exactly  *)
(* while a settlement or the load after it runs, approve while an approval *)
(* does (dashboard.tsx:51-80, wallet-panel.tsx:37-54).                     *)
THEOREM ConsoleTypeOK == Spec => []TypeOK
<1> DEFINE Inv == TariffInv /\ WalletInv /\ LoadsInv /\ Flags /\ Approves
<1>1. Init => Inv
  BY InitTariffInv, InitWalletInv, InitDashInv, InitFlags DEF DashInv
<1>2. Inv /\ [Next]_vars => Inv'
  BY NextTariffInv, NextWalletInv, NextLoads, NextFlags, NextApproves
<1>3. ASSUME Inv PROVE TypeOK
  <2>1. tariff \in [price : Nat, fee_bps : 0 .. 10000]
    <3> DEFINE most == 10000
    <3>1. tariff \in [price : Nat, fee_bps : Nat] /\ tariff.fee_bps <= most /\ most \in Nat
      BY <1>3 DEF TariffInv, TariffType
    <3> HIDE DEF most
    <3>2. tariff \in [price : Nat, fee_bps : 0 .. most]
      BY <3>1
    <3> QED
      BY <3>2 DEF most
  <2>2. late \subseteq [field : {"price", "fee_bps"}, body : Patches, request : 0 .. MaxEvents]
    BY <1>3 DEF TariffInv, TariffType, Sent
  <2>3. settling = (settle.stage # "idle")
    BY <1>3 DEF Flags, Settles
  <2>4. InFlight("after") = (settle.stage = "loading")
    BY <1>3 DEF Flags, Settles, InFlight
  <2>5. busy = (approval.stage # "idle")
    BY <1>3 DEF Approves
  <2>6. events \in 0 .. MaxEvents /\ (loading => \E l \in Loads : InFlight(l))
    BY <1>3 DEF WalletInv, Counted, Flags, Waits
  <2> QED
    BY <2>1, <2>2, <2>3, <2>4, <2>5, <2>6 DEF TypeOK
<1> QED
  BY <1>1, <1>2, <1>3, PTL DEF Spec

=============================================================================
