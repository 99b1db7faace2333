-------------------------------- MODULE Tariff --------------------------------
(***************************************************************************)
(* PATCH /api/admin/config (routes.ts, admin.ts, chain.ts): one request,   *)
(* up to two transactions.  The price is sent first; the fee is validated  *)
(* and sent once the price's transaction was answered.  A transaction      *)
(* whose answer was lost may have landed, may land later, or never.        *)
(***************************************************************************)
EXTENDS Integers

CONSTANTS
  Patches,    \* the bodies: [price, fee_bps], Absent for a missing field
  Absent,
  Operators,  \* the requests that may run at once
  MaxEvents   \* bound: the requests

VARIABLES
  tariff,  \* the contract's Config: price, fee_bps
  patch,   \* the requests
  late,    \* transactions given up on that may still land
  events,  \* the requests so far
  set      \* history: what has landed, and of which request

NoPatch == [stage |-> "idle"]

InitialTariff == [price |-> 1, fee_bps |-> 0]

Init ==
  /\ tariff = InitialTariff
  /\ patch = [o \in Operators |-> NoPatch]
  /\ late = {} /\ set = {}

(* What Admin.setFeeBps accepts. *)
IsFee(fee_bps) == 0 <= fee_bps /\ fee_bps <= 10000

FeeStage(body) ==
  IF body.fee_bps # Absent /\ IsFee(body.fee_bps) THEN "fee_bps" ELSE "over"

(* Mutant: the fee is sent first. *)
FeeFirst(body) == IF FeeStage(body) = "over" THEN "price" ELSE "fee_bps"

(* What the handler sends first; "over": it only answers, 200 or 400. *)
FirstStage(body) == IF body.price # Absent THEN "price" ELSE FeeStage(body)

(* A request is known by the number of events before it. *)
Request(stage, body, id) ==
  IF stage = "over" THEN NoPatch
  ELSE [stage |-> stage, body |-> body, request |-> id, answer |-> "awaited"]

Transaction(field, body, id) == [field |-> field, body |-> body, request |-> id]

PatchConfig(o, body) ==
  /\ patch[o] = NoPatch /\ events < MaxEvents
  /\ events' = events + 1
  /\ patch' = [patch EXCEPT ![o] = Request(FirstStage(body), body, events)]
  /\ UNCHANGED <<tariff, late, set>>

(* set_price or set_fee_bps of the contract. *)
Put(x) ==
  /\ tariff' = [tariff EXCEPT ![x.field] = x.body[x.field]]
  /\ set' = set \cup {x}

TransactionOf(o) == Transaction(patch[o].stage, patch[o].body, patch[o].request)

Land(o) ==
  /\ patch[o] # NoPatch /\ patch[o].answer = "awaited"
  /\ Put(TransactionOf(o))
  /\ patch' = [patch EXCEPT ![o].answer = "given"]
  /\ UNCHANGED <<late, events>>

(* The handler goes on, with the fee after the price, or is done. *)
Answer(o) ==
  /\ patch[o] # NoPatch /\ patch[o].answer = "given"
  /\ patch' = [patch EXCEPT ![o] =
                 IF @.stage = "price" THEN Request(FeeStage(@.body), @.body, @.request)
                 ELSE NoPatch]
  /\ UNCHANGED <<tariff, late, set, events>>

(* The call throws: the request ends where it is. *)
Fail(o) ==
  /\ patch[o] # NoPatch
  /\ late' = IF patch[o].answer = "given" THEN late ELSE late \cup {TransactionOf(o)}
  /\ patch' = [patch EXCEPT ![o] = NoPatch]
  /\ UNCHANGED <<tariff, set, events>>

LandLate ==
  \E x \in late :
    /\ Put(x)
    /\ late' = late \ {x}
    /\ UNCHANGED <<patch, events>>

Next ==
  \/ \E o \in Operators, body \in Patches : PatchConfig(o, body)
  \/ \E o \in Operators : Land(o) \/ Answer(o) \/ Fail(o)
  \/ LandLate

=============================================================================
