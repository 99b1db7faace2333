------------------------------ MODULE GridPulse ------------------------------
(***************************************************************************)
(* The GridPulse contract (contracts/gridpulse/src): its storage and one   *)
(* action per entry point that writes it.  An invocation is atomic, and    *)
(* one that returns an error or traps changes nothing, so the actions are  *)
(* the invocations that succeed; SubmitResult and the guards of Settle say *)
(* which those are.                                                        *)
(*                                                                         *)
(* Admin operations are taken by the admin: the host checks require_auth.  *)
(* A net position is a temporary storage entry: the host gives it a        *)
(* lifetime of TempTtl ledgers when it is created, write_net never extends *)
(* it, and a lapsed entry reads as 0.                                      *)
(***************************************************************************)
EXTENDS Settlement

CONSTANTS
  Accounts,    \* the token accounts
  Keys,        \* the Ed25519 keys of the devices
  Readings,    \* the readings a caller may submit
  Signatures,  \* the signatures the devices have made, of readings
  Lists,       \* the lists of meter ids a caller may settle
  Prices, Fees, Allowances,  \* the arguments of the other entry points
  Funds,       \* the balances of the accounts
  TempTtl,     \* the ledgers a temporary entry lives
  MaxMeters    \* bound: the meters registered

ReadingType ==
  [meter_id : Nat, timestamp : Nat, generation_wh : Nat, consumption_wh : Nat, nonce : Nat]

ASSUME ReadingsAssumption == Readings \subseteq ReadingType

ASSUME CallersAssumption ==
  /\ Signatures \subseteq [key : Keys, reading : ReadingType]
  /\ Lists \subseteq Seq(Nat)
  /\ Prices \subseteq Nat /\ Fees \subseteq Nat /\ Allowances \subseteq Nat

ASSUME LedgerAssumption ==
  /\ Admin \in Accounts /\ Funds \in [Accounts -> Nat]
  /\ TempTtl \in Nat \ {0} /\ MaxMeters \in Nat /\ I128Max \in Nat

MeterIds == 1 .. MaxMeters

VARIABLES
  config, next_id, meters,  \* Config, NextId and the Meter entries
  entries,                  \* the Net entries: watt-hours, and ledgers to live
  bal, allow,               \* the token: balances, and what the contract may spend
  accepted,                 \* history: the readings of a meter, in order
  metered, settled, lapsed  \* history: net watt-hours accepted, cleared and lost

contract == <<config, next_id, meters, entries>>
token    == <<bal, allow>>
history  == <<accepted, metered, settled, lapsed>>
vars     == <<contract, token, history>>

Put(f, x, v) == [y \in DOMAIN f \cup {x} |-> IF y = x THEN v ELSE f[y]]

Position(m) == IF m \in DOMAIN entries THEN entries[m].wh ELSE 0

-----------------------------------------------------------------------------
Init ==
  /\ config \in [price : Prices, fee_bps : {f \in Fees : f <= BPS}]
  /\ next_id = 1 /\ meters = <<>> /\ entries = <<>>
  /\ bal = Funds /\ allow = [a \in Accounts |-> 0]
  /\ accepted = [m \in MeterIds |-> <<>>]
  /\ metered = [m \in MeterIds |-> 0]
  /\ settled = [m \in MeterIds |-> 0]
  /\ lapsed = [m \in MeterIds |-> 0]

NewMeter(owner, signer) ==
  [owner |-> owner, signer |-> signer, active |-> TRUE, nonce |-> 0, last_ts |-> 0]

RegisterMeter(owner, signer) ==
  /\ next_id <= MaxMeters
  /\ meters' = Put(meters, next_id, NewMeter(owner, signer))
  /\ next_id' = next_id + 1
  /\ UNCHANGED <<config, entries, token, history>>

(* Mutant: a meter that is switched starts its replay protection afresh. *)
RestartedMeter(m, active) ==
  [meters[m] EXCEPT !.active = active, !.nonce = 0, !.last_ts = 0]

SwitchedMeter(m, active) == [meters[m] EXCEPT !.active = active]

SetMeterActive(m, active) ==
  /\ m \in DOMAIN meters
  /\ meters' = Put(meters, m, SwitchedMeter(m, active))
  /\ UNCHANGED <<config, next_id, entries, token, history>>

(* Mutant: a reassigned meter is registered anew. *)
ReplacedMeter(m, owner) == NewMeter(owner, meters[m].signer)

ReassignedMeter(m, owner) == [meters[m] EXCEPT !.owner = owner]

UpdateMeterOwner(m, owner) ==
  /\ m \in DOMAIN meters
  /\ meters' = Put(meters, m, ReassignedMeter(m, owner))
  /\ UNCHANGED <<config, next_id, entries, token, history>>

SetPrice(price) ==
  /\ config' = [config EXCEPT !.price = price]
  /\ UNCHANGED <<next_id, meters, entries, token, history>>

(* Mutant: any fee is taken. *)
AnyFee(fee_bps) == TRUE

GoodFee(fee_bps) == fee_bps <= BPS

SetFeeBps(fee_bps) ==
  /\ GoodFee(fee_bps)
  /\ config' = [config EXCEPT !.fee_bps = fee_bps]
  /\ UNCHANGED <<next_id, meters, entries, token, history>>

-----------------------------------------------------------------------------
(* submit_reading *)

(* Mutant: the signed payload leaves the meter id out. *)
VerifiesFields(signer, r, sig) ==
  sig.key = signer /\ [sig.reading EXCEPT !.meter_id = r.meter_id] = r

(* ed25519_verify, over the canonical payload of all five fields. *)
Verifies(signer, r, sig) == sig.key = signer /\ sig.reading = r

Delta(r) == r.generation_wh - r.consumption_wh

IsI128(x) == -I128Max - 1 <= x /\ x <= I128Max

(* What a submission returns; the checks are made in this order. *)
SubmitResult(r, sig) ==
  IF r.meter_id \notin DOMAIN meters THEN "MeterNotFound"
  ELSE LET meter == meters[r.meter_id]
       IN  CASE ~meter.active -> "MeterInactive"
             [] meter.active /\ r.nonce <= meter.nonce -> "StaleNonce"
             [] meter.active /\ r.nonce > meter.nonce /\ r.timestamp < meter.last_ts ->
                  "StaleTimestamp"
             [] OTHER ->
                  IF ~Verifies(meter.signer, r, sig) THEN "trap"
                  ELSE IF ~IsI128(Position(r.meter_id) + Delta(r)) THEN "Overflow"
                  ELSE "ok"

(* The entry keeps the lifetime it was created with. *)
WriteNet(m, delta) ==
  Put(entries, m,
      [wh  |-> Position(m) + delta,
       ttl |-> IF m \in DOMAIN entries THEN entries[m].ttl ELSE TempTtl])

SubmitReading(r, sig) ==
  LET m == r.meter_id
  IN  /\ SubmitResult(r, sig) = "ok"
      /\ entries' = WriteNet(m, Delta(r))
      /\ meters' = Put(meters, m,
                       [meters[m] EXCEPT !.nonce = r.nonce, !.last_ts = r.timestamp])
      /\ accepted' = [accepted EXCEPT ![m] = Append(@, r)]
      /\ metered' = [metered EXCEPT ![m] = @ + Delta(r)]
      /\ UNCHANGED <<config, next_id, token, settled, lapsed>>

-----------------------------------------------------------------------------
(* settle *)

Window(ids) ==
  [ids |-> ids, owner |-> [m \in DOMAIN meters |-> meters[m].owner],
   net |-> [m \in DOMAIN meters |-> Position(m)],
   price |-> config.price, fee_bps |-> config.fee_bps]

Purse == [ok |-> TRUE, bal |-> bal, allow |-> allow]

(* The window has two sides, nothing overflows and no transfer is refused: *)
(* the token is then as the swap leaves it.                                *)
Swaps(w) ==
  /\ TwoSided(w)
  /\ \E c \in {Clearing(w)} : \E purse \in {Swap(Purse, w, c)} :
       /\ Fits(w, c) /\ purse.ok
       /\ bal' = purse.bal /\ allow' = purse.allow

(* Mutant: the positions outlive the settlement. *)
KeptNet(ids) == entries

ClearedNet(ids) == [m \in DOMAIN entries \ ToSet(ids) |-> entries[m]]

Settle(ids) ==
  /\ ToSet(ids) \subseteq DOMAIN meters
  /\ \E w \in {Window(ids)} : Swaps(w)
  /\ entries' = ClearedNet(ids)
  /\ settled' = [m \in MeterIds |->
                   IF m \in ToSet(ids) THEN settled[m] + Position(m) ELSE settled[m]]
  /\ UNCHANGED <<config, next_id, meters, accepted, metered, lapsed>>

-----------------------------------------------------------------------------
(* The world: an account approves the contract, and a ledger closes. *)

Approve(a, amount) ==
  /\ allow' = [allow EXCEPT ![a] = amount]
  /\ UNCHANGED <<contract, bal, history>>

Lasting == {m \in DOMAIN entries : entries[m].ttl > 1}

CloseLedger ==
  /\ DOMAIN entries # {}
  /\ entries' = [m \in Lasting |-> [entries[m] EXCEPT !.ttl = @ - 1]]
  /\ lapsed' = [m \in MeterIds |->
                  IF m \in Lasting THEN lapsed[m] ELSE lapsed[m] + Position(m)]
  /\ UNCHANGED <<config, next_id, meters, token, accepted, metered, settled>>

Next ==
  \/ \E owner \in Accounts, signer \in Keys : RegisterMeter(owner, signer)
  \/ \E m \in MeterIds, active \in BOOLEAN : SetMeterActive(m, active)
  \/ \E m \in MeterIds, owner \in Accounts : UpdateMeterOwner(m, owner)
  \/ \E price \in Prices : SetPrice(price)
  \/ \E fee_bps \in Fees : SetFeeBps(fee_bps)
  \/ \E r \in Readings, sig \in Signatures : SubmitReading(r, sig)
  \/ \E ids \in Lists : Settle(ids)
  \/ \E a \in Accounts, amount \in Allowances : Approve(a, amount)
  \/ CloseLedger

Spec == Init /\ [][Next]_vars

=============================================================================
