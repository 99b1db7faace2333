--------------------------- MODULE GridPulseProofs ---------------------------
(***************************************************************************)
(* Proofs about the contract for every set of accounts, devices, readings  *)
(* and callers, and every number of meters.                                *)
(***************************************************************************)
EXTENDS GridPulseProps, SettlementProofs

(* The inductive invariant: storage and history agree. *)
GInv ==
  /\ StorageOK /\ HistoryOK /\ Remembers
  /\ NoReplay /\ DeviceBinding /\ EnergyLedger

LEMMA Arguments == Prices \subseteq Nat /\ Fees \subseteq Nat
  BY CallersAssumption

LEMMA FeeRange ==
  ASSUME NEW f \in Nat, f <= BPS
  PROVE  f \in 0 .. BPS
  BY DEF BPS

LEMMA PutFacts ==
  ASSUME NEW f, NEW x, NEW v
  PROVE  /\ DOMAIN Put(f, x, v) = DOMAIN f \cup {x}
         /\ Put(f, x, v)[x] = v
         /\ \A y \in DOMAIN f : y # x => Put(f, x, v)[y] = f[y]
  BY DEF Put

LEMMA PositionInt ==
  ASSUME StorageOK
  PROVE  \A m : Position(m) \in Int
  BY DEF StorageOK, EntryType, Position

LEMMA MeterFields ==
  ASSUME NEW x \in MeterType
  PROVE  /\ x.owner \in Accounts /\ x.signer \in Keys /\ x.active \in BOOLEAN
         /\ x.nonce \in Nat /\ x.last_ts \in Nat
  BY DEF MeterType

LEMMA ReadingFields ==
  ASSUME NEW r \in ReadingType
  PROVE  /\ r.meter_id \in Nat /\ r.timestamp \in Nat /\ r.nonce \in Nat
         /\ r.generation_wh \in Nat /\ r.consumption_wh \in Nat /\ Delta(r) \in Int
  BY DEF ReadingType, Delta

LEMMA Registered ==
  ASSUME StorageOK, NEW m \in DOMAIN meters
  PROVE  m \in MeterIds /\ m \in Nat /\ meters[m] \in MeterType
<1>1. MaxMeters \in Nat
  BY LedgerAssumption
<1>2. next_id \in 1 .. MaxMeters + 1 /\ DOMAIN meters = 1 .. next_id - 1
  BY DEF StorageOK
<1>3. m \in MeterIds /\ m \in Nat
  BY <1>1, <1>2 DEF MeterIds
<1> QED
  BY <1>3 DEF StorageOK

LEMMA InitGInv == Init => GInv
<1> SUFFICES ASSUME Init PROVE GInv
  OBVIOUS
<1>1. /\ config \in [price : Prices, fee_bps : {f \in Fees : f <= BPS}]
      /\ next_id = 1 /\ meters = <<>> /\ entries = <<>>
      /\ accepted = [m \in MeterIds |-> <<>>] /\ metered = [m \in MeterIds |-> 0]
      /\ settled = [m \in MeterIds |-> 0] /\ lapsed = [m \in MeterIds |-> 0]
  BY DEF Init
<1>2. DOMAIN meters = {} /\ DOMAIN entries = {}
  BY <1>1
<1>3. StorageOK
  <2>1. config \in ConfigType
    <3>1. config.price \in Prices /\ config.fee_bps \in Fees /\ config.fee_bps <= BPS
      BY <1>1
    <3>2. config = [price |-> config.price, fee_bps |-> config.fee_bps]
      BY <1>1
    <3>3. config.price \in Nat /\ config.fee_bps \in 0 .. BPS
      BY <3>1, Arguments, FeeRange
    <3> QED
      BY <3>2, <3>3 DEF ConfigType
  <2>2. next_id \in 1 .. MaxMeters + 1 /\ 1 .. next_id - 1 = {}
    BY <1>1, LedgerAssumption
  <2> QED
    BY <1>2, <2>1, <2>2 DEF StorageOK
<1>4. HistoryOK
  BY <1>1 DEF HistoryOK
<1>5. \A m \in MeterIds : DOMAIN accepted[m] = {}
  BY <1>1
<1>6. Remembers /\ NoReplay /\ DeviceBinding
  BY <1>5 DEF Remembers, NoReplay, DeviceBinding
<1>7. EnergyLedger
  BY <1>1, <1>2 DEF EnergyLedger, Position
<1> QED
  BY <1>3, <1>4, <1>6, <1>7 DEF GInv

(* An admin call writes at most one Meter entry; whatever it writes keeps  *)
(* the key, the nonce and the time of a meter that is already there.       *)
LEMMA MeterWritten ==
  ASSUME GInv, NEW m \in Nat, NEW new \in MeterType,
         next_id' \in 1 .. MaxMeters + 1,
         DOMAIN meters \cup {m} = 1 .. next_id' - 1,
         meters' = Put(meters, m, new),
         m \in DOMAIN meters => /\ new.signer = meters[m].signer
                                /\ new.nonce = meters[m].nonce
                                /\ new.last_ts = meters[m].last_ts,
         UNCHANGED <<config, entries, history>>
  PROVE  GInv'
<1>1. /\ DOMAIN meters' = DOMAIN meters \cup {m} /\ meters'[m] = new
      /\ \A y \in DOMAIN meters : y # m => meters'[y] = meters[y]
  BY DEF Put
<1>2. StorageOK'
  <2>1. \A y \in DOMAIN meters' : meters'[y] \in MeterType
    BY <1>1, Registered DEF GInv
  <2>2. DOMAIN meters' = 1 .. next_id' - 1
    BY <1>1
  <2>3. /\ config \in ConfigType /\ DOMAIN entries \subseteq DOMAIN meters
        /\ \A y \in DOMAIN entries : entries[y] \in EntryType
    BY DEF GInv, StorageOK
  <2> QED
    BY <1>1, <2>1, <2>2, <2>3 DEF StorageOK
<1>3. \A y \in DOMAIN meters :
        /\ y \in DOMAIN meters' /\ meters'[y].signer = meters[y].signer
        /\ meters'[y].nonce = meters[y].nonce /\ meters'[y].last_ts = meters[y].last_ts
  BY <1>1
<1>4. HistoryOK' /\ NoReplay'
  BY DEF GInv, HistoryOK, NoReplay, history
<1>5. Remembers'
  BY <1>3 DEF GInv, Remembers, history
<1>6. DeviceBinding'
  BY <1>3 DEF GInv, DeviceBinding, history
<1>7. EnergyLedger'
  BY DEF GInv, EnergyLedger, Position, history
<1> QED
  BY <1>2, <1>4, <1>5, <1>6, <1>7 DEF GInv

LEMMA RegisterMeterStep ==
  ASSUME GInv, NEW owner \in Accounts, NEW signer \in Keys, RegisterMeter(owner, signer)
  PROVE  GInv'
<1>1. /\ next_id <= MaxMeters /\ next_id' = next_id + 1
      /\ meters' = Put(meters, next_id, NewMeter(owner, signer))
      /\ UNCHANGED <<config, entries, history>>
  BY DEF RegisterMeter
<1>2. /\ next_id \in 1 .. MaxMeters + 1 /\ DOMAIN meters = 1 .. next_id - 1
      /\ MaxMeters \in Nat
  BY LedgerAssumption DEF GInv, StorageOK
<1>3. /\ next_id \in Nat /\ next_id \notin DOMAIN meters
      /\ next_id' \in 1 .. MaxMeters + 1
      /\ DOMAIN meters \cup {next_id} = 1 .. next_id' - 1
  BY <1>1, <1>2
<1>4. NewMeter(owner, signer) \in MeterType
  BY DEF NewMeter, MeterType
<1> QED
  BY <1>1, <1>3, <1>4, MeterWritten

LEMMA SetMeterActiveStep ==
  ASSUME GInv, NEW m \in MeterIds, NEW active \in BOOLEAN, SetMeterActive(m, active)
  PROVE  GInv'
<1>1. /\ m \in DOMAIN meters /\ meters' = Put(meters, m, SwitchedMeter(m, active))
      /\ UNCHANGED <<config, next_id, entries, history>>
  BY DEF SetMeterActive
<1>2. /\ m \in Nat /\ meters[m] \in MeterType
      /\ next_id \in 1 .. MaxMeters + 1 /\ DOMAIN meters = 1 .. next_id - 1
  BY <1>1, Registered DEF GInv, StorageOK
<1>3. /\ SwitchedMeter(m, active) \in MeterType
      /\ SwitchedMeter(m, active).signer = meters[m].signer
      /\ SwitchedMeter(m, active).nonce = meters[m].nonce
      /\ SwitchedMeter(m, active).last_ts = meters[m].last_ts
  BY <1>2 DEF SwitchedMeter, MeterType
<1>4. DOMAIN meters \cup {m} = 1 .. next_id' - 1 /\ next_id' \in 1 .. MaxMeters + 1
  BY <1>1, <1>2
<1> QED
  BY <1>1, <1>2, <1>3, <1>4, MeterWritten

LEMMA UpdateMeterOwnerStep ==
  ASSUME GInv, NEW m \in MeterIds, NEW owner \in Accounts, UpdateMeterOwner(m, owner)
  PROVE  GInv'
<1>1. /\ m \in DOMAIN meters /\ meters' = Put(meters, m, ReassignedMeter(m, owner))
      /\ UNCHANGED <<config, next_id, entries, history>>
  BY DEF UpdateMeterOwner
<1>2. /\ m \in Nat /\ meters[m] \in MeterType
      /\ next_id \in 1 .. MaxMeters + 1 /\ DOMAIN meters = 1 .. next_id - 1
  BY <1>1, Registered DEF GInv, StorageOK
<1>3. /\ ReassignedMeter(m, owner) \in MeterType
      /\ ReassignedMeter(m, owner).signer = meters[m].signer
      /\ ReassignedMeter(m, owner).nonce = meters[m].nonce
      /\ ReassignedMeter(m, owner).last_ts = meters[m].last_ts
  BY <1>2 DEF ReassignedMeter, MeterType
<1>4. DOMAIN meters \cup {m} = 1 .. next_id' - 1 /\ next_id' \in 1 .. MaxMeters + 1
  BY <1>1, <1>2
<1> QED
  BY <1>1, <1>2, <1>3, <1>4, MeterWritten

(* Calls that leave meters, positions and history alone. *)
LEMMA ConfigStep ==
  ASSUME GInv, config' \in ConfigType, UNCHANGED <<next_id, meters, entries, history>>
  PROVE  GInv'
<1>1. StorageOK' /\ HistoryOK' /\ NoReplay'
  BY DEF GInv, StorageOK, HistoryOK, NoReplay, history
<1>2. Remembers' /\ DeviceBinding'
  BY DEF GInv, Remembers, DeviceBinding, history
<1>3. EnergyLedger'
  BY DEF GInv, EnergyLedger, Position, history
<1> QED
  BY <1>1, <1>2, <1>3 DEF GInv

LEMMA SetPriceStep ==
  ASSUME GInv, NEW price \in Prices, SetPrice(price)
  PROVE  GInv'
<1>1. config' = [config EXCEPT !.price = price] /\ price \in Nat /\ config \in ConfigType
  BY Arguments DEF GInv, StorageOK, SetPrice
<1>2. config' \in ConfigType
  BY <1>1 DEF ConfigType
<1> QED
  BY <1>2, ConfigStep DEF SetPrice

LEMMA SetFeeBpsStep ==
  ASSUME GInv, NEW fee_bps \in Fees, SetFeeBps(fee_bps)
  PROVE  GInv'
<1>1. fee_bps \in 0 .. BPS
  <2>1. fee_bps \in Nat /\ fee_bps <= BPS
    BY Arguments DEF SetFeeBps, GoodFee
  <2> QED
    BY <2>1, FeeRange
<1>2. config' = [config EXCEPT !.fee_bps = fee_bps] /\ config \in ConfigType
  BY DEF GInv, StorageOK, SetFeeBps
<1>3. config' \in ConfigType
  BY <1>1, <1>2 DEF ConfigType
<1> QED
  BY <1>3, ConfigStep DEF SetFeeBps

LEMMA ApproveStep ==
  ASSUME GInv, NEW a, NEW amount, Approve(a, amount)
  PROVE  GInv'
<1>1. UNCHANGED <<config, next_id, meters, entries, history>>
  BY DEF Approve, contract
<1>2. config' \in ConfigType
  BY <1>1 DEF GInv, StorageOK
<1> QED
  BY <1>1, <1>2, ConfigStep

(* What an accepted submission has passed. *)
LEMMA Passed ==
  ASSUME GInv, NEW r \in ReadingType, NEW sig, SubmitResult(r, sig) = "ok"
  PROVE  /\ r.meter_id \in DOMAIN meters
         /\ meters[r.meter_id].nonce < r.nonce
         /\ meters[r.meter_id].last_ts <= r.timestamp
         /\ sig.key = meters[r.meter_id].signer /\ sig.reading = r
<1>1. r.meter_id \in DOMAIN meters
  BY DEF SubmitResult
<1> DEFINE meter == meters[r.meter_id]
<1>2. meter \in MeterType
  BY <1>1, Registered DEF GInv
<1>3. /\ meter.nonce \in Nat /\ meter.last_ts \in Nat /\ meter.active \in BOOLEAN
      /\ r.nonce \in Nat /\ r.timestamp \in Nat
  BY <1>2, MeterFields, ReadingFields
<1>4. /\ meter.active /\ ~(r.nonce <= meter.nonce) /\ ~(r.timestamp < meter.last_ts)
      /\ Verifies(meter.signer, r, sig)
  BY <1>1, <1>3 DEF SubmitResult
<1> QED
  BY <1>1, <1>3, <1>4 DEF Verifies

(* The history of the meter grows by a reading newer than all before. *)
LEMMA Grown ==
  ASSUME HistoryOK, NEW m \in MeterIds, NEW r \in ReadingType,
         accepted' = [accepted EXCEPT ![m] = Append(@, r)]
  PROVE  /\ accepted' \in [MeterIds -> Seq(ReadingType)]
         /\ \A y \in MeterIds : y # m => accepted'[y] = accepted[y]
         /\ Len(accepted[m]) \in Nat /\ DOMAIN accepted[m] = 1 .. Len(accepted[m])
         /\ DOMAIN accepted'[m] = 1 .. Len(accepted[m]) + 1
         /\ \A i \in DOMAIN accepted[m] : accepted'[m][i] = accepted[m][i]
         /\ \A i \in DOMAIN accepted[m] : accepted[m][i] \in ReadingType
         /\ accepted'[m][Len(accepted[m]) + 1] = r
<1>1. accepted \in [MeterIds -> Seq(ReadingType)] /\ accepted[m] \in Seq(ReadingType)
  BY DEF HistoryOK
<1>2. accepted'[m] = Append(accepted[m], r) /\ Append(accepted[m], r) \in Seq(ReadingType)
  BY <1>1
<1>3. accepted' \in [MeterIds -> Seq(ReadingType)]
  BY <1>1, <1>2
<1> QED
  BY <1>1, <1>2, <1>3

LEMMA SubmitReadingStep ==
  ASSUME GInv, NEW r \in Readings, NEW sig \in Signatures, SubmitReading(r, sig)
  PROVE  GInv'
<1> DEFINE m == r.meter_id
<1> DEFINE last == Len(accepted[m]) + 1
<1> DEFINE new == [meters[m] EXCEPT !.nonce = r.nonce, !.last_ts = r.timestamp]
<1>1. /\ SubmitResult(r, sig) = "ok"
      /\ entries' = WriteNet(m, Delta(r)) /\ meters' = Put(meters, m, new)
      /\ accepted' = [accepted EXCEPT ![m] = Append(@, r)]
      /\ metered' = [metered EXCEPT ![m] = @ + Delta(r)]
      /\ UNCHANGED <<config, next_id, token, settled, lapsed>>
  BY DEF SubmitReading
<1>2. r \in ReadingType
  BY ReadingsAssumption
<1>3. /\ m \in DOMAIN meters /\ meters[m].nonce < r.nonce /\ meters[m].last_ts <= r.timestamp
      /\ sig.key = meters[m].signer /\ sig.reading = r
  BY <1>1, <1>2, Passed
<1>4. m \in MeterIds /\ m \in Nat /\ meters[m] \in MeterType
  BY <1>3, Registered DEF GInv
<1>5. /\ r.nonce \in Nat /\ r.timestamp \in Nat /\ Delta(r) \in Int
      /\ meters[m].nonce \in Nat /\ meters[m].last_ts \in Nat
  BY <1>2, <1>4, MeterFields, ReadingFields
<1>6. /\ new \in MeterType /\ new.signer = meters[m].signer
      /\ new.nonce = r.nonce /\ new.last_ts = r.timestamp
  BY <1>4, <1>5 DEF MeterType
<1> HIDE DEF new
<1>7. /\ DOMAIN meters' = DOMAIN meters /\ meters'[m] = new
      /\ \A y \in DOMAIN meters : y # m => meters'[y] = meters[y]
  BY <1>1, <1>3 DEF Put
<1>8. /\ accepted' \in [MeterIds -> Seq(ReadingType)]
      /\ \A y \in MeterIds : y # m => accepted'[y] = accepted[y]
      /\ Len(accepted[m]) \in Nat /\ DOMAIN accepted[m] = 1 .. Len(accepted[m])
      /\ DOMAIN accepted'[m] = 1 .. last
      /\ \A i \in DOMAIN accepted[m] : accepted'[m][i] = accepted[m][i]
      /\ \A i \in DOMAIN accepted[m] : accepted[m][i] \in ReadingType
      /\ accepted'[m][last] = r
  BY <1>1, <1>2, <1>4, Grown DEF GInv
<1>9. ASSUME NEW i \in DOMAIN accepted'[m]
      PROVE  (i \in DOMAIN accepted[m] /\ i < last) \/ i = last
  BY <1>8
<1>10. ASSUME NEW i \in DOMAIN accepted[m]
       PROVE  /\ accepted'[m][i] = accepted[m][i]
              /\ accepted[m][i].nonce < r.nonce /\ accepted[m][i].timestamp <= r.timestamp
  <2>1. accepted[m][i].nonce <= meters[m].nonce /\ accepted[m][i].timestamp <= meters[m].last_ts
    BY <1>4 DEF GInv, Remembers
  <2>2. accepted[m][i].nonce \in Nat /\ accepted[m][i].timestamp \in Nat
    BY <1>8, ReadingFields
  <2>3. accepted[m][i].nonce < r.nonce /\ accepted[m][i].timestamp <= r.timestamp
    BY <1>3, <1>5, <2>1, <2>2
  <2> QED
    BY <1>8, <2>3
<1> HIDE DEF last
<1>11. /\ DOMAIN entries' = DOMAIN entries \cup {m}
       /\ entries'[m].wh = Position(m) + Delta(r) /\ entries'[m] \in EntryType
       /\ \A y \in DOMAIN entries : y # m => entries'[y] = entries[y]
  <2> DEFINE entry == [wh  |-> Position(m) + Delta(r),
                       ttl |-> IF m \in DOMAIN entries THEN entries[m].ttl ELSE TempTtl]
  <2>1. entries' = Put(entries, m, entry)
    BY <1>1 DEF WriteNet
  <2>2. entry.wh = Position(m) + Delta(r) /\ entry \in EntryType
    <3>1. TempTtl \in 1 .. TempTtl
      BY LedgerAssumption
    <3>2. m \in DOMAIN entries => entries[m].ttl \in 1 .. TempTtl
      BY DEF GInv, StorageOK, EntryType
    <3>3. Position(m) + Delta(r) \in Int
      BY <1>5, PositionInt DEF GInv
    <3> QED
      BY <3>1, <3>2, <3>3 DEF EntryType
  <2> HIDE DEF entry
  <2> QED
    BY <2>1, <2>2 DEF Put
<1>12. Position(m)' = Position(m) + Delta(r) /\ \A y : y # m => Position(y)' = Position(y)
  BY <1>11 DEF Position
<1>13. \A y : Position(y) \in Int
  BY PositionInt DEF GInv
<1>14. StorageOK'
  <2>1. \A y \in DOMAIN meters' : meters'[y] \in MeterType
    BY <1>6, <1>7 DEF GInv, StorageOK
  <2>2. \A y \in DOMAIN entries' : entries'[y] \in EntryType
    BY <1>11 DEF GInv, StorageOK
  <2>3. DOMAIN entries' \subseteq DOMAIN meters'
    BY <1>3, <1>7, <1>11 DEF GInv, StorageOK
  <2> QED
    BY <1>1, <1>7, <2>1, <2>2, <2>3 DEF GInv, StorageOK
<1>15. HistoryOK'
  BY <1>1, <1>5, <1>8 DEF GInv, HistoryOK
<1>16. Remembers'
  <2>1. ASSUME NEW y \in MeterIds, NEW i \in DOMAIN accepted'[y]
        PROVE  /\ y \in DOMAIN meters'
               /\ accepted'[y][i].nonce <= meters'[y].nonce
               /\ accepted'[y][i].timestamp <= meters'[y].last_ts
    <3>1. CASE y # m
      BY <1>7, <1>8, <3>1 DEF GInv, Remembers
    <3>2. CASE y = m /\ i \in DOMAIN accepted[m]
      <4>1. /\ accepted'[m][i] = accepted[m][i] /\ accepted[m][i].nonce \in Nat
            /\ accepted[m][i].nonce < r.nonce /\ accepted[m][i].timestamp <= r.timestamp
        BY <1>8, <1>10, <3>2, ReadingFields
      <4> QED
        BY <1>3, <1>5, <1>6, <1>7, <3>2, <4>1
    <3>3. CASE y = m /\ i = last
      BY <1>3, <1>5, <1>6, <1>7, <1>8, <3>3
    <3> QED
      BY <1>9, <3>1, <3>2, <3>3
  <2> QED
    BY <2>1 DEF Remembers
<1>17. NoReplay'
  <2>1. ASSUME NEW y \in MeterIds, NEW i \in DOMAIN accepted'[y], NEW j \in DOMAIN accepted'[y],
               i < j
        PROVE  /\ accepted'[y][i].nonce < accepted'[y][j].nonce
               /\ accepted'[y][i].timestamp <= accepted'[y][j].timestamp
    <3>1. CASE y # m
      BY <1>8, <2>1, <3>1 DEF GInv, NoReplay
    <3>2. CASE y = m /\ i \in DOMAIN accepted[m] /\ j \in DOMAIN accepted[m]
      BY <1>4, <1>8, <2>1, <3>2 DEF GInv, NoReplay
    <3>3. CASE y = m /\ i \in DOMAIN accepted[m] /\ j = last
      BY <1>8, <1>10, <3>3
    <3>4. CASE y = m /\ i = last
      <4>1. j \in 1 .. last /\ last \in Nat
        BY <1>8, <3>4 DEF last
      <4> QED
        BY <2>1, <3>4, <4>1
    <3> QED
      BY <1>9, <3>1, <3>2, <3>3, <3>4
  <2> QED
    BY <2>1 DEF NoReplay
<1>18. DeviceBinding'
  <2>1. [key |-> meters[m].signer, reading |-> r] \in Signatures /\ r.meter_id = m
    <3>1. sig = [key |-> sig.key, reading |-> sig.reading]
      BY CallersAssumption
    <3> QED
      BY <1>3, <3>1
  <2>2. ASSUME NEW y \in MeterIds, NEW i \in DOMAIN accepted'[y]
        PROVE  /\ y \in DOMAIN meters' /\ accepted'[y][i].meter_id = y
               /\ [key |-> meters'[y].signer, reading |-> accepted'[y][i]] \in Signatures
    <3>1. CASE y # m
      BY <1>7, <1>8, <3>1 DEF GInv, DeviceBinding
    <3>2. CASE y = m /\ i \in DOMAIN accepted[m]
      <4>1. /\ accepted[m][i].meter_id = m
            /\ [key |-> meters[m].signer, reading |-> accepted[m][i]] \in Signatures
        BY <1>4, <3>2 DEF GInv, DeviceBinding
      <4> QED
        BY <1>3, <1>6, <1>7, <1>8, <3>2, <4>1
    <3>3. CASE y = m /\ i = last
      BY <1>3, <1>6, <1>7, <1>8, <2>1, <3>3
    <3> QED
      BY <1>9, <3>1, <3>2, <3>3
  <2> QED
    BY <2>2 DEF DeviceBinding
<1>19. EnergyLedger'
  <2>1. ASSUME NEW y \in MeterIds
        PROVE  metered'[y] = Position(y)' + settled'[y] + lapsed'[y]
    <3>1. /\ metered \in [MeterIds -> Int] /\ settled[y] \in Int /\ lapsed[y] \in Int
          /\ metered[y] = Position(y) + settled[y] + lapsed[y] /\ Position(y) \in Int
      BY <1>13 DEF GInv, HistoryOK, EnergyLedger
    <3>2. CASE y = m
      BY <1>1, <1>4, <1>5, <1>12, <3>1, <3>2
    <3>3. CASE y # m
      BY <1>1, <1>4, <1>12, <3>1, <3>3
    <3> QED
      BY <3>2, <3>3
  <2> QED
    BY <2>1 DEF EnergyLedger
<1> QED
  BY <1>14, <1>15, <1>16, <1>17, <1>18, <1>19 DEF GInv

LEMMA SettleStep ==
  ASSUME GInv, NEW ids, Settle(ids)
  PROVE  GInv'
<1> DEFINE listed == ToSet(ids)
<1>1. /\ entries' = ClearedNet(ids)
      /\ settled' = [m \in MeterIds |->
                       IF m \in listed THEN settled[m] + Position(m) ELSE settled[m]]
      /\ UNCHANGED <<config, next_id, meters, accepted, metered, lapsed>>
  BY DEF Settle
<1> HIDE DEF listed
<1>2. /\ DOMAIN entries' = DOMAIN entries \ listed
      /\ \A m \in DOMAIN entries \ listed : entries'[m] = entries[m]
  BY <1>1 DEF ClearedNet, listed
<1>3. \A m : Position(m)' = IF m \in listed THEN 0 ELSE Position(m)
  BY <1>2 DEF Position
<1>4. \A m : Position(m) \in Int
  BY PositionInt DEF GInv
<1>5. StorageOK'
  BY <1>1, <1>2 DEF GInv, StorageOK
<1>6. HistoryOK'
  <2>1. settled' \in [MeterIds -> Int]
    BY <1>1, <1>4 DEF GInv, HistoryOK
  <2> QED
    BY <1>1, <2>1 DEF GInv, HistoryOK
<1>7. Remembers' /\ NoReplay' /\ DeviceBinding'
  BY <1>1 DEF GInv, Remembers, NoReplay, DeviceBinding
<1>8. EnergyLedger'
  <2>1. ASSUME NEW m \in MeterIds
        PROVE  metered'[m] = Position(m)' + settled'[m] + lapsed'[m]
    <3>1. /\ settled[m] \in Int /\ lapsed[m] \in Int /\ Position(m) \in Int
          /\ metered[m] = Position(m) + settled[m] + lapsed[m]
      BY <1>4 DEF GInv, HistoryOK, EnergyLedger
    <3> QED
      BY <1>1, <1>3, <3>1
  <2> QED
    BY <2>1 DEF EnergyLedger
<1> QED
  BY <1>5, <1>6, <1>7, <1>8 DEF GInv

LEMMA CloseLedgerStep ==
  ASSUME GInv, CloseLedger
  PROVE  GInv'
<1>1. /\ entries' = [m \in Lasting |-> [entries[m] EXCEPT !.ttl = @ - 1]]
      /\ lapsed' = [m \in MeterIds |->
                      IF m \in Lasting THEN lapsed[m] ELSE lapsed[m] + Position(m)]
      /\ UNCHANGED <<config, next_id, meters, token, accepted, metered, settled>>
  BY DEF CloseLedger
<1>2. /\ Lasting \subseteq DOMAIN entries
      /\ \A m \in DOMAIN entries : m \in Lasting <=> entries[m].ttl > 1
  BY DEF Lasting
<1>3. ASSUME NEW m \in Lasting
      PROVE  entries'[m].wh = Position(m) /\ entries'[m] \in EntryType
  <2>1. entries[m] \in EntryType /\ entries[m].ttl > 1
    BY <1>2 DEF GInv, StorageOK
  <2>2. Position(m) = entries[m].wh
    BY <1>2 DEF Position
  <2>3. entries'[m] = [entries[m] EXCEPT !.ttl = @ - 1]
    BY <1>1
  <2>4. entries[m].ttl - 1 \in 1 .. TempTtl
    BY <2>1, LedgerAssumption DEF EntryType
  <2> QED
    BY <2>1, <2>2, <2>3, <2>4 DEF EntryType
<1>4. DOMAIN entries' = Lasting
  BY <1>1
<1>5. \A m : Position(m)' = IF m \in Lasting THEN Position(m) ELSE 0
  BY <1>3, <1>4 DEF Position
<1>6. \A m : Position(m) \in Int
  BY PositionInt DEF GInv
<1>7. StorageOK'
  BY <1>1, <1>2, <1>3, <1>4 DEF GInv, StorageOK
<1>8. HistoryOK'
  <2>1. lapsed' \in [MeterIds -> Int]
    BY <1>1, <1>6 DEF GInv, HistoryOK
  <2> QED
    BY <1>1, <2>1 DEF GInv, HistoryOK
<1>9. Remembers' /\ NoReplay' /\ DeviceBinding'
  BY <1>1 DEF GInv, Remembers, NoReplay, DeviceBinding
<1>10. EnergyLedger'
  <2>1. ASSUME NEW m \in MeterIds
        PROVE  metered'[m] = Position(m)' + settled'[m] + lapsed'[m]
    <3>1. /\ settled[m] \in Int /\ lapsed[m] \in Int /\ Position(m) \in Int
          /\ metered[m] = Position(m) + settled[m] + lapsed[m]
      BY <1>6 DEF GInv, HistoryOK, EnergyLedger
    <3> QED
      BY <1>1, <1>5, <3>1
  <2> QED
    BY <2>1 DEF EnergyLedger
<1> QED
  BY <1>7, <1>8, <1>9, <1>10 DEF GInv

LEMMA NextGInv == GInv /\ [Next]_vars => GInv'
<1> SUFFICES ASSUME GInv, [Next]_vars PROVE GInv'
  OBVIOUS
<1>1. ASSUME NEW owner \in Accounts, NEW signer \in Keys, RegisterMeter(owner, signer)
      PROVE  GInv'
  BY <1>1, RegisterMeterStep
<1>2. ASSUME NEW m \in MeterIds, NEW active \in BOOLEAN, SetMeterActive(m, active)
      PROVE  GInv'
  BY <1>2, SetMeterActiveStep
<1>3. ASSUME NEW m \in MeterIds, NEW owner \in Accounts, UpdateMeterOwner(m, owner)
      PROVE  GInv'
  BY <1>3, UpdateMeterOwnerStep
<1>4. ASSUME NEW price \in Prices, SetPrice(price) PROVE GInv'
  BY <1>4, SetPriceStep
<1>5. ASSUME NEW fee_bps \in Fees, SetFeeBps(fee_bps) PROVE GInv'
  BY <1>5, SetFeeBpsStep
<1>6. ASSUME NEW r \in Readings, NEW sig \in Signatures, SubmitReading(r, sig) PROVE GInv'
  BY <1>6, SubmitReadingStep
<1>7. ASSUME NEW ids \in Lists, Settle(ids) PROVE GInv'
  BY <1>7, SettleStep
<1>8. ASSUME NEW a \in Accounts, NEW amount \in Allowances, Approve(a, amount) PROVE GInv'
  BY <1>8, ApproveStep
<1>9. CASE CloseLedger
  BY <1>9, CloseLedgerStep
<1>10. CASE UNCHANGED vars
  <2>1. UNCHANGED <<config, next_id, meters, entries, history>>
    BY <1>10 DEF vars, contract
  <2>2. config' \in ConfigType
    BY <2>1 DEF GInv, StorageOK
  <2> QED
    BY <2>1, <2>2, ConfigStep
<1> QED
  BY <1>1, <1>2, <1>3, <1>4, <1>5, <1>6, <1>7, <1>8, <1>9, <1>10 DEF Next

-----------------------------------------------------------------------------
(* In every state of every history of calls, the contract's storage agrees *)
(* with the readings it accepted.                                          *)
THEOREM GridInvariant == Spec => []GInv
<1> QED
  BY InitGInv, NextGInv, PTL DEF Spec

(* No reading counts twice, for any number of meters and any calls of the  *)
(* admin in between.                                                       *)
THEOREM GridNoReplay == Spec => []NoReplay
<1>1. GInv => NoReplay
  BY DEF GInv
<1> QED
  BY <1>1, GridInvariant, PTL

(* No caller can make up energy for a meter: every accepted reading was    *)
(* signed by the meter's device.                                           *)
THEOREM GridDeviceBinding == Spec => []DeviceBinding
<1>1. GInv => DeviceBinding
  BY DEF GInv
<1> QED
  BY <1>1, GridInvariant, PTL

(* Every watt-hour is accounted for: accepted net energy is in a position, *)
(* was cleared by a settlement, or lapsed with its entry.                  *)
THEOREM GridEnergyLedger == Spec => []EnergyLedger
<1>1. GInv => EnergyLedger
  BY DEF GInv
<1> QED
  BY <1>1, GridInvariant, PTL

-----------------------------------------------------------------------------
(* The token's part of the type: no balance and no allowance ever falls    *)
(* below zero.  Settle is the step that needs the settlement lemmas.       *)
TokenOK == bal \in [Accounts -> Nat] /\ allow \in [Accounts -> Nat]

LEMMA InitTokenOK == Init => TokenOK
<1> SUFFICES ASSUME Init PROVE TokenOK
  OBVIOUS
<1>1. bal = Funds /\ allow = [a \in Accounts |-> 0]
  BY DEF Init
<1> QED
  BY <1>1, LedgerAssumption DEF TokenOK

(* The window of a settlement lists registered meters only. *)
LEMMA WindowSound ==
  ASSUME StorageOK, NEW ids \in Lists, ToSet(ids) \subseteq DOMAIN meters
  PROVE  /\ Sound(Window(ids), DOMAIN meters)
         /\ Window(ids).owner \in [DOMAIN meters -> Accounts]
<1>1. ids \in Seq(Nat)
  BY CallersAssumption
<1>2. ids \in Seq(DOMAIN meters)
  <2>1. \A i \in 1 .. Len(ids) : ids[i] \in DOMAIN meters
    BY <1>1 DEF ToSet
  <2>2. Len(ids) \in Nat /\ ids \in [1 .. Len(ids) -> DOMAIN meters]
    BY <1>1, <2>1
  <2> QED
    BY <2>2, IsSequence
<1>3. \A m \in DOMAIN meters : Position(m) \in Int /\ meters[m].owner \in Accounts
  <2>1. \A m \in DOMAIN meters : meters[m] \in MeterType
    BY DEF StorageOK
  <2> QED
    BY <2>1, PositionInt, MeterFields
<1>4. config.price \in Nat /\ config.fee_bps \in Nat /\ config.fee_bps <= BPS
  <2>1. config \in [price : Nat, fee_bps : 0 .. BPS]
    BY DEF StorageOK, ConfigType
  <2>2. config.price \in Nat /\ config.fee_bps \in 0 .. BPS
    BY <2>1
  <2>3. BPS \in Nat
    BY DEF BPS
  <2> QED
    BY <2>2, <2>3
<1> DEFINE w == Window(ids)
<1>5. /\ w.ids = ids /\ w.owner = [m \in DOMAIN meters |-> meters[m].owner]
      /\ w.net = [m \in DOMAIN meters |-> Position(m)]
      /\ w.price = config.price /\ w.fee_bps = config.fee_bps
  BY DEF Window
<1> HIDE DEF w
<1>6. w.net \in [DOMAIN meters -> Int] /\ w.owner \in [DOMAIN meters -> Accounts]
  BY <1>3, <1>5
<1>7. Sound(w, DOMAIN meters)
  BY <1>2, <1>4, <1>5, <1>6 DEF Sound
<1> QED
  BY <1>6, <1>7 DEF w

LEMMA SettleToken ==
  ASSUME GInv, TokenOK, NEW ids \in Lists, Settle(ids)
  PROVE  TokenOK'
<1> DEFINE w == Window(ids)  c == Clearing(w)  purse == Swap(Purse, w, c)
<1>1. ToSet(ids) \subseteq DOMAIN meters /\ Swaps(w)
  BY DEF Settle
<1>2. bal' = purse.bal /\ allow' = purse.allow
  BY <1>1 DEF Swaps
<1>3. Sound(w, DOMAIN meters) /\ w.owner \in [DOMAIN meters -> Accounts]
  BY <1>1, WindowSound DEF GInv
<1>4. Purse.bal \in [Accounts -> Nat] /\ Purse.allow \in [Accounts -> Nat] /\ Admin \in Accounts
  BY LedgerAssumption DEF TokenOK, Purse
<1> HIDE DEF w
<1>5. purse.bal \in [Accounts -> Nat] /\ purse.allow \in [Accounts -> Nat]
  BY <1>3, <1>4, SwapTyped
<1> QED
  BY <1>2, <1>5 DEF TokenOK

LEMMA NextTokenOK == GInv /\ TokenOK /\ [Next]_vars => TokenOK'
<1> SUFFICES ASSUME GInv, TokenOK, [Next]_vars PROVE TokenOK'
  OBVIOUS
<1>1. CASE UNCHANGED token
  BY <1>1 DEF TokenOK, token
<1>2. ASSUME NEW ids \in Lists, Settle(ids) PROVE TokenOK'
  BY <1>2, SettleToken
<1>3. ASSUME NEW a \in Accounts, NEW amount \in Allowances, Approve(a, amount) PROVE TokenOK'
  <2>1. amount \in Nat /\ bal' = bal /\ allow' = [allow EXCEPT ![a] = amount]
    BY <1>3, CallersAssumption DEF Approve
  <2> QED
    BY <2>1 DEF TokenOK
<1> QED
  BY <1>1, <1>2, <1>3
     DEF Next, vars, RegisterMeter, SetMeterActive, UpdateMeterOwner, SetPrice, SetFeeBps,
         SubmitReading, CloseLedger

(* The contract's storage, its history and the token stay well-typed,      *)
(* whoever calls: ids are handed out in order, the fee stays within bounds *)
(* and no transfer of a settlement overdraws an account or an allowance.   *)
THEOREM GridTypeOK == Spec => []TypeOK
<1>1. GInv /\ TokenOK => TypeOK
  BY DEF GInv, TokenOK, TypeOK
<1>2. Spec => []TokenOK
  BY InitTokenOK, NextTokenOK, GridInvariant, PTL DEF Spec
<1> QED
  BY <1>1, <1>2, GridInvariant, PTL

-----------------------------------------------------------------------------
(* Who pays and who is paid. *)
Holds(owners, sign) ==
  [m \in DOMAIN meters |->
     IF meters[m].owner \in owners /\ sign * Position(m) > 0 THEN sign * Position(m) ELSE 0]

LEMMA HoldsFacts ==
  ASSUME StorageOK, NEW owners, NEW sign \in {-1, 1}
  PROVE  /\ next_id - 1 \in Nat /\ DOMAIN meters = 1 .. next_id - 1
         /\ Holds(owners, sign) \in Seq(Nat) /\ Len(Holds(owners, sign)) = next_id - 1
         /\ HeldBy(owners, sign) = Tally(Holds(owners, sign)) /\ HeldBy(owners, sign) \in Nat
<1> DEFINE f == Holds(owners, sign)
<1>1. next_id - 1 \in Nat /\ DOMAIN meters = 1 .. next_id - 1
  <2>1. next_id \in 1 .. MaxMeters + 1 /\ DOMAIN meters = 1 .. next_id - 1
    BY DEF StorageOK
  <2> QED
    BY <2>1, LedgerAssumption
<1>2. \A m \in DOMAIN meters : sign * Position(m) \in Int
  BY PositionInt
<1>3. f \in [1 .. next_id - 1 -> Nat]
  BY <1>1, <1>2 DEF Holds
<1> HIDE DEF f
<1>4. f \in Seq(Nat) /\ Len(f) = next_id - 1
  BY <1>1, <1>3, IsSequence
<1>5. Tally(f) \in Nat
  BY <1>4, TallyNat
<1>6. HeldBy(owners, sign) = Tally(f)
  BY DEF HeldBy, Holds, f
<1> QED
  BY <1>1, <1>4, <1>5, <1>6 DEF f

(* In a list without repetition every meter draws once. *)
LEMMA DrawnHeld ==
  ASSUME StorageOK, NEW ids \in Lists, Once(ids), ToSet(ids) \subseteq DOMAIN meters, NEW owners
  PROVE  /\ Tally(DrawnBy(Window(ids), owners)) <= HeldBy(owners, -1)
         /\ Tally(DrawnBy(Window(ids), owners)) \in Nat
<1> DEFINE w == Window(ids)
           f == Holds(owners, -1)
           I == Importers(w)
           N == next_id - 1
           drawn == [i \in DOMAIN I |-> f[I[i]]]
<1>1. Sound(w, DOMAIN meters)
  BY WindowSound
<1>2. /\ N \in Nat /\ DOMAIN meters = 1 .. N /\ f \in Seq(Nat) /\ Len(f) = N
      /\ HeldBy(owners, -1) = Tally(f)
  BY HoldsFacts
<1>3. /\ w.ids = ids /\ w.owner = [m \in DOMAIN meters |-> meters[m].owner]
      /\ w.net = [m \in DOMAIN meters |-> Position(m)]
  BY DEF Window
<1> HIDE DEF w
<1>4. I \in Seq(DOMAIN meters) /\ \A i \in DOMAIN I : w.net[I[i]] \in Int /\ w.net[I[i]] < 0
  BY <1>1, SidesFacts
<1>5. Once(I)
  <2>1. ids \in Seq(DOMAIN meters)
    BY <1>1, <1>3 DEF Sound
  <2>2. Once(Among(ids, InDeficit(w), Len(ids)))
    BY <2>1, AmongOnce
  <2> QED
    BY <1>3, <2>2 DEF Importers
<1>6. DrawnBy(w, owners) = drawn
  <2>1. ASSUME NEW i \in DOMAIN I
        PROVE  (IF w.owner[I[i]] \in owners THEN Size(w.net[I[i]]) ELSE 0) = f[I[i]]
    <3> DEFINE m == I[i]
    <3>1. m \in DOMAIN meters /\ w.net[m] \in Int /\ w.net[m] < 0
      BY <1>4, ElementIn
    <3> HIDE DEF m
    <3>2. w.owner[m] = meters[m].owner /\ w.net[m] = Position(m)
      BY <1>3, <3>1
    <3>3. Size(w.net[m]) = -1 * Position(m) /\ -1 * Position(m) > 0
      BY <3>1, <3>2 DEF Size
    <3>4. f[m] = IF meters[m].owner \in owners /\ -1 * Position(m) > 0
                   THEN -1 * Position(m) ELSE 0
      BY <3>1, <3>2 DEF Holds
    <3>5. f[m] = IF meters[m].owner \in owners THEN Size(w.net[m]) ELSE 0
      BY <3>3, <3>4
    <3>6. (IF w.owner[m] \in owners THEN Size(w.net[m]) ELSE 0) = f[m]
      BY <3>2, <3>5
    <3> QED
      BY <3>6 DEF m
  <2> QED
    BY <2>1 DEF DrawnBy
<1> HIDE DEF I, f, N
<1>7. I \in Seq(1 .. N)
  BY <1>2, <1>4
<1>8. drawn \in Seq(Nat) /\ Tally(drawn) <= Tally(f)
  BY <1>2, <1>5, <1>7, SumOnce
<1>9. Tally(drawn) \in Nat
  BY <1>8, TallyNat
<1> QED
  BY <1>2, <1>6, <1>8, <1>9 DEF w

(* What an account and the others owe, at the tariff. *)
LEMMA DuesHeld ==
  ASSUME StorageOK, NEW ids \in Lists, Once(ids), ToSet(ids) \subseteq DOMAIN meters, NEW owners,
         NEW x \in Int, x <= Tally(DuesOf(Window(ids), owners))
  PROVE  x * WhPerKwh <= HeldBy(owners, -1) * config.price
<1> DEFINE w == Window(ids)
           dues == Tally(DuesOf(w, owners))
           drawn == Tally(DrawnBy(w, owners))
           held == HeldBy(owners, -1)
           p == config.price
<1>1. Sound(w, DOMAIN meters)
  BY WindowSound
<1>2. w.price = p
  BY DEF Window
<1>3. drawn <= held /\ drawn \in Nat /\ held \in Nat
  BY DrawnHeld, HoldsFacts
<1>4. x <= dues
  OBVIOUS
<1> HIDE DEF w
<1>5. p \in Nat
  BY <1>1, <1>2 DEF Sound
<1>6. dues \in Nat
  <2>1. DuesOf(w, owners) \in Seq(Nat)
    BY <1>1, DuesNat
  <2> QED
    BY <2>1, TallyNat
<1>7. dues * WhPerKwh <= w.price * drawn
  BY <1>1, DuesAtTariff
<1> HIDE DEF dues, drawn, held, p
<1>8. x * WhPerKwh <= dues * WhPerKwh /\ x * WhPerKwh \in Int /\ dues * WhPerKwh \in Nat
  BY <1>4, <1>6 DEF WhPerKwh
<1>9. drawn * p <= held * p /\ drawn * p \in Nat /\ held * p \in Nat /\ drawn * p = p * drawn
  BY <1>3, <1>5, ProductMonotone, ProductNat
<1> QED
  BY <1>2, <1>7, <1>8, <1>9 DEF held, p

LEMMA SettleOwnEnergy ==
  ASSUME GInv, TokenOK, NEW ids \in Lists, Once(ids), Settle(ids), NEW a \in Accounts
  PROVE  /\ (bal[a] - bal'[a]) * WhPerKwh <= HeldBy({a}, -1) * config.price
         /\ (bal'[a] - bal[a]) * WhPerKwh <= HeldBy(Accounts \ {a}, -1) * config.price
         /\ bal'[a] > bal[a] => a = Admin \/ HeldBy({a}, 1) > 0
<1> DEFINE w == Window(ids)  legs == Legs(w, Clearing(w))
<1>1. ToSet(ids) \subseteq DOMAIN meters /\ Swaps(w) /\ StorageOK
  BY DEF Settle, GInv
<1>2. bal' = Swap(Purse, w, Clearing(w)).bal
  BY <1>1 DEF Swaps
<1>3. Sound(w, DOMAIN meters) /\ w.owner \in [DOMAIN meters -> Accounts]
  BY <1>1, WindowSound
<1>4. /\ Purse.bal = bal /\ bal \in [Accounts -> Nat]
      /\ Purse.allow \in [Accounts -> Nat] /\ Admin \in Accounts
  BY LedgerAssumption DEF TokenOK, Purse
<1>5. bal[a] \in Nat /\ bal'[a] \in Nat
  <2>1. TokenOK'
    BY SettleToken
  <2> QED
    BY <1>4, <2>1 DEF TokenOK
<1>6. /\ w.owner = [m \in DOMAIN meters |-> meters[m].owner]
      /\ w.net = [m \in DOMAIN meters |-> Position(m)]
  BY DEF Window
<1> HIDE DEF w
<1>7. /\ bal[a] - bal'[a] <= Tally(DuesOf(w, {a}))
      /\ bal'[a] - bal[a] <= Tally(DuesOf(w, Accounts \ {a}))
      /\ (\A n \in 1 .. Len(legs) : legs[n].to # a) => bal'[a] <= bal[a]
  <2> DEFINE purse == Purse
  <2>1. /\ purse.bal \in [Accounts -> Nat] /\ purse.allow \in [Accounts -> Nat]
        /\ purse.bal = bal /\ bal' = Swap(purse, w, Clearing(w)).bal
    BY <1>2, <1>4
  <2> HIDE DEF purse
  <2>2. /\ purse.bal[a] - Swap(purse, w, Clearing(w)).bal[a] <= Tally(DuesOf(w, {a}))
        /\ Swap(purse, w, Clearing(w)).bal[a] - purse.bal[a] <= Tally(DuesOf(w, Accounts \ {a}))
        /\ (\A n \in 1 .. Len(legs) : legs[n].to # a)
              => Swap(purse, w, Clearing(w)).bal[a] <= purse.bal[a]
    BY <1>3, <1>4, <2>1, SwapMoves
  <2> QED
    BY <2>1, <2>2
<1>8. (bal[a] - bal'[a]) * WhPerKwh <= HeldBy({a}, -1) * config.price
  BY <1>1, <1>5, <1>7, DuesHeld DEF w
<1>9. (bal'[a] - bal[a]) * WhPerKwh <= HeldBy(Accounts \ {a}, -1) * config.price
  BY <1>1, <1>5, <1>7, DuesHeld DEF w
<1>10. ASSUME bal'[a] > bal[a], a # Admin PROVE HeldBy({a}, 1) > 0
  <2>1. PICK n \in 1 .. Len(legs) : legs[n].to = a
    BY <1>5, <1>7, <1>10
  <2>2. PICK j \in DOMAIN Exporters(w) : a = w.owner[Exporters(w)[j]]
    BY <1>3, <1>10, <2>1, LegTo
  <2> DEFINE m == Exporters(w)[j]  f == Holds({a}, 1)
  <2>3. m \in DOMAIN meters /\ w.net[m] \in Int /\ w.net[m] > 0
    BY <1>3, SidesFacts, ElementIn
  <2>4. meters[m].owner \in {a} /\ Position(m) \in Int /\ Position(m) > 0
    <3> HIDE DEF m
    <3> QED
      BY <1>6, <2>2, <2>3 DEF m
  <2> HIDE DEF m
  <2>5. /\ f \in Seq(Nat) /\ DOMAIN f = DOMAIN meters
        /\ HeldBy({a}, 1) = Tally(f) /\ f[m] = Position(m)
    <3>1. f \in Seq(Nat) /\ HeldBy({a}, 1) = Tally(f)
      BY <1>1, HoldsFacts
    <3>2. DOMAIN f = DOMAIN meters /\ f[m] = 1 * Position(m)
      BY <2>3, <2>4 DEF Holds
    <3> QED
      BY <2>4, <3>1, <3>2
  <2> HIDE DEF f
  <2>6. f[m] <= Tally(f) /\ Tally(f) \in Nat
    BY <2>3, <2>5, TallyNat
  <2> QED
    BY <2>4, <2>5, <2>6
<1> QED
  BY <1>8, <1>9, <1>10

(* Where no list names a meter twice, a settlement charges no account more *)
(* than the tariff for its own deficit, brings it no more than the others' *)
(* deficits cost, and but for the operator pays only who exported.         *)
THEOREM GridOwnEnergyOnly ==
  ASSUME \A ids \in Lists : Once(ids)
  PROVE  Spec => OwnEnergyOnly
<1> DEFINE Fair(a) == /\ (bal[a] - bal'[a]) * WhPerKwh <= HeldBy({a}, -1) * config.price
                      /\ (bal'[a] - bal[a]) * WhPerKwh <= HeldBy(Accounts \ {a}, -1) * config.price
                      /\ bal'[a] > bal[a] => a = Admin \/ HeldBy({a}, 1) > 0
<1>1. ASSUME GInv, TokenOK, [Next]_vars, NEW a \in Accounts PROVE Fair(a)
  <2>1. CASE UNCHANGED bal
    <3>1. /\ bal'[a] = bal[a] /\ bal[a] \in Nat /\ config.price \in Nat
          /\ HeldBy({a}, -1) \in Nat /\ HeldBy(Accounts \ {a}, -1) \in Nat
      <4>1. StorageOK
        BY <1>1 DEF GInv
      <4>2. config \in [price : Nat, fee_bps : 0 .. BPS]
        BY <4>1 DEF StorageOK, ConfigType
      <4>3. config.price \in Nat
        BY <4>2
      <4> QED
        BY <1>1, <2>1, <4>1, <4>3, HoldsFacts DEF TokenOK
    <3>2. /\ HeldBy({a}, -1) * config.price \in Nat
          /\ HeldBy(Accounts \ {a}, -1) * config.price \in Nat
      BY <3>1, ProductNat
    <3>3. (bal[a] - bal'[a]) * WhPerKwh = 0 /\ (bal'[a] - bal[a]) * WhPerKwh = 0
      BY <3>1 DEF WhPerKwh
    <3> QED
      BY <3>1, <3>2, <3>3
  <2>2. ASSUME NEW ids \in Lists, Settle(ids) PROVE Fair(a)
    BY <1>1, <2>2, SettleOwnEnergy
  <2> QED
    BY <1>1, <2>1, <2>2
       DEF Next, vars, token, RegisterMeter, SetMeterActive, UpdateMeterOwner, SetPrice,
           SetFeeBps, SubmitReading, Approve, CloseLedger
<1>2. GInv /\ TokenOK /\ [Next]_vars => [\A a \in Accounts : Fair(a)]_vars
  BY <1>1
<1>3. Spec => []TokenOK
  BY InitTokenOK, NextTokenOK, GridInvariant, PTL DEF Spec
<1> QED
  BY <1>2, <1>3, GridInvariant, PTL DEF Spec, OwnEnergyOnly

-----------------------------------------------------------------------------
(* A Meter entry never forgets: its nonce and its time only grow. *)
Forgets ==
  \E m \in DOMAIN meters :
    ~ /\ m \in DOMAIN meters'
      /\ meters[m].nonce <= meters'[m].nonce /\ meters[m].last_ts <= meters'[m].last_ts

LEMMA NumbersNat ==
  ASSUME GInv, NEW m \in DOMAIN meters
  PROVE  meters[m].nonce \in Nat /\ meters[m].last_ts \in Nat
  BY Registered, MeterFields DEF GInv

LEMMA WrittenRemembers ==
  ASSUME GInv, NEW m, NEW new, meters' = Put(meters, m, new),
         m \in DOMAIN meters => meters[m].nonce <= new.nonce /\ meters[m].last_ts <= new.last_ts
  PROVE  ~Forgets
<1>1. /\ DOMAIN meters' = DOMAIN meters \cup {m} /\ meters'[m] = new
      /\ \A y \in DOMAIN meters : y # m => meters'[y] = meters[y]
  BY DEF Put
<1>2. ASSUME NEW y \in DOMAIN meters
      PROVE  /\ y \in DOMAIN meters'
             /\ meters[y].nonce <= meters'[y].nonce /\ meters[y].last_ts <= meters'[y].last_ts
  <2>1. CASE y = m
    BY <1>1, <2>1
  <2>2. CASE y # m
    BY <1>1, <2>2, NumbersNat
  <2> QED
    BY <2>1, <2>2
<1> QED
  BY <1>2 DEF Forgets

LEMMA NextRemembers == GInv /\ [Next]_vars => ~Forgets
<1> SUFFICES ASSUME GInv, [Next]_vars PROVE ~Forgets
  OBVIOUS
<1>1. CASE UNCHANGED meters
  BY <1>1, NumbersNat DEF Forgets
<1>2. ASSUME NEW owner, NEW signer, RegisterMeter(owner, signer) PROVE ~Forgets
  <2>1. meters' = Put(meters, next_id, NewMeter(owner, signer))
    BY <1>2 DEF RegisterMeter
  <2>2. next_id \notin DOMAIN meters
    <3>1. next_id \in 1 .. MaxMeters + 1 /\ DOMAIN meters = 1 .. next_id - 1
      BY DEF GInv, StorageOK
    <3> QED
      BY <3>1, LedgerAssumption
  <2> QED
    BY <2>1, <2>2, WrittenRemembers
<1>3. ASSUME NEW m \in MeterIds, NEW active, SetMeterActive(m, active) PROVE ~Forgets
  <2>1. /\ m \in DOMAIN meters /\ meters[m] \in MeterType
        /\ meters' = Put(meters, m, SwitchedMeter(m, active))
    BY <1>3, Registered DEF SetMeterActive, GInv
  <2>2. /\ SwitchedMeter(m, active).nonce = meters[m].nonce
        /\ SwitchedMeter(m, active).last_ts = meters[m].last_ts
    BY <2>1 DEF SwitchedMeter, MeterType
  <2>3. /\ meters[m].nonce <= SwitchedMeter(m, active).nonce
        /\ meters[m].last_ts <= SwitchedMeter(m, active).last_ts
    BY <2>1, <2>2, NumbersNat
  <2> QED
    BY <2>1, <2>3, WrittenRemembers
<1>4. ASSUME NEW m \in MeterIds, NEW owner, UpdateMeterOwner(m, owner) PROVE ~Forgets
  <2>1. /\ m \in DOMAIN meters /\ meters[m] \in MeterType
        /\ meters' = Put(meters, m, ReassignedMeter(m, owner))
    BY <1>4, Registered DEF UpdateMeterOwner, GInv
  <2>2. /\ ReassignedMeter(m, owner).nonce = meters[m].nonce
        /\ ReassignedMeter(m, owner).last_ts = meters[m].last_ts
    BY <2>1 DEF ReassignedMeter, MeterType
  <2>3. /\ meters[m].nonce <= ReassignedMeter(m, owner).nonce
        /\ meters[m].last_ts <= ReassignedMeter(m, owner).last_ts
    BY <2>1, <2>2, NumbersNat
  <2> QED
    BY <2>1, <2>3, WrittenRemembers
<1>5. ASSUME NEW r \in Readings, NEW sig \in Signatures, SubmitReading(r, sig) PROVE ~Forgets
  <2> DEFINE m == r.meter_id
  <2> DEFINE new == [meters[m] EXCEPT !.nonce = r.nonce, !.last_ts = r.timestamp]
  <2>1. r \in ReadingType /\ SubmitResult(r, sig) = "ok" /\ meters' = Put(meters, m, new)
    BY <1>5, ReadingsAssumption DEF SubmitReading
  <2>2. /\ m \in DOMAIN meters /\ meters[m].nonce < r.nonce /\ meters[m].last_ts <= r.timestamp
    BY <2>1, Passed
  <2>3. meters[m] \in MeterType /\ r.nonce \in Nat /\ meters[m].nonce \in Nat
    BY <2>1, <2>2, Registered, ReadingFields, NumbersNat DEF GInv
  <2>4. new.nonce = r.nonce /\ new.last_ts = r.timestamp
    BY <2>3 DEF MeterType
  <2> HIDE DEF new
  <2>5. meters[m].nonce <= new.nonce /\ meters[m].last_ts <= new.last_ts
    BY <2>2, <2>3, <2>4
  <2> QED
    BY <2>1, <2>5, WrittenRemembers
<1> QED
  BY <1>1, <1>2, <1>3, <1>4, <1>5
     DEF Next, vars, contract, SetPrice, SetFeeBps, Settle, Approve, CloseLedger

(* A reading that is out of date stays so: no sequence of calls reopens    *)
(* the way for a replay.                                                   *)
THEOREM GridStaleForGood == Spec => StaleForGood
<1>1. ASSUME GInv, [Next]_vars, NEW r \in Readings, Outdated(r)
      PROVE  Outdated(r)'
  <2> DEFINE m == r.meter_id
  <2>1. /\ m \in DOMAIN meters
        /\ r.nonce <= meters[m].nonce \/ r.timestamp < meters[m].last_ts
    BY <1>1 DEF Outdated
  <2>2. /\ m \in DOMAIN meters' /\ meters[m].nonce <= meters'[m].nonce
        /\ meters[m].last_ts <= meters'[m].last_ts
    BY <1>1, <2>1, NextRemembers DEF Forgets
  <2>3. /\ meters[m].nonce \in Nat /\ meters[m].last_ts \in Nat
        /\ r.nonce \in Nat /\ r.timestamp \in Nat
    BY <1>1, <2>1, NumbersNat, ReadingsAssumption, ReadingFields
  <2>4. meters'[m].nonce \in Nat /\ meters'[m].last_ts \in Nat
    <3>1. GInv'
      BY <1>1, NextGInv
    <3>2. meters'[m] \in MeterType
      BY <2>2, <3>1 DEF GInv, StorageOK
    <3> QED
      BY <3>2, MeterFields
  <2> QED
    BY <2>1, <2>2, <2>3, <2>4 DEF Outdated
<1>2. GInv /\ [Next]_vars => [\A r \in Readings : Outdated(r) => Outdated(r)']_vars
  BY <1>1
<1> QED
  BY <1>2, GridInvariant, PTL DEF Spec, StaleForGood

-----------------------------------------------------------------------------
(* The contract and the gate: as the mapping of KeepsTheGate has it. *)
Gates == [m \in MeterIds |-> GateOf(m)]

Counts == [m \in MeterIds |-> Len(accepted[m])]

LEMMA GateFields ==
  ASSUME NEW m \in DOMAIN meters
  PROVE  /\ GateOf(m) \in [active : {meters[m].active}, nonce : {meters[m].nonce},
                           last_ts : {meters[m].last_ts}]
         /\ GateOf(m).active = meters[m].active /\ GateOf(m).nonce = meters[m].nonce
         /\ GateOf(m).last_ts = meters[m].last_ts
  BY DEF GateOf

(* Where a Meter entry is written, the other gates stay. *)
LEMMA OtherGates ==
  ASSUME NEW m, NEW new, meters' = Put(meters, m, new)
  PROVE  /\ \A y : y # m => GateOf(y)' = GateOf(y)
         /\ GateOf(m)' = [active |-> new.active, nonce |-> new.nonce, last_ts |-> new.last_ts]
<1>1. /\ DOMAIN meters' = DOMAIN meters \cup {m} /\ meters'[m] = new
      /\ \A y \in DOMAIN meters : y # m => meters'[y] = meters[y]
  BY DEF Put
<1> QED
  BY <1>1 DEF GateOf

LEMMA InitGate == Init => Gate!Init
<1>1. ASSUME Init PROVE /\ Gates = [m \in MeterIds |-> Gate!Fresh]
                       /\ Counts = [m \in MeterIds |-> 0]
  BY <1>1 DEF Init, Gates, Counts, GateOf, Gate!Fresh
<1> QED
  BY <1>1 DEF Gate!Init, Gates, Counts

(* A step that leaves every gate and the readings alone is a stutter. *)
LEMMA GateStutters ==
  ASSUME \A m \in MeterIds : GateOf(m)' = GateOf(m), UNCHANGED accepted
  PROVE  UNCHANGED Gate!vars
<1>1. Gates' = Gates /\ Counts' = Counts
  BY DEF Gates, Counts
<1> QED
  BY <1>1 DEF Gate!vars, Gates, Counts

LEMMA RegisterMeterGate ==
  ASSUME GInv, NEW owner, NEW signer, RegisterMeter(owner, signer)
  PROVE  UNCHANGED Gate!vars
<1>1. PICK m : m = next_id
  OBVIOUS
<1>2. /\ meters' = Put(meters, m, NewMeter(owner, signer)) /\ UNCHANGED accepted
  BY <1>1 DEF RegisterMeter, history
<1>3. m \notin DOMAIN meters
  <2>1. next_id \in 1 .. MaxMeters + 1 /\ DOMAIN meters = 1 .. next_id - 1
    BY DEF GInv, StorageOK
  <2> QED
    BY <1>1, <2>1, LedgerAssumption
<1>4. GateOf(m)' = GateOf(m)
  <2>1. GateOf(m)' = [active |-> TRUE, nonce |-> 0, last_ts |-> 0]
    BY <1>2, OtherGates DEF NewMeter
  <2>2. GateOf(m) = [active |-> TRUE, nonce |-> 0, last_ts |-> 0]
    BY <1>3 DEF GateOf
  <2> QED
    BY <2>1, <2>2
<1> QED
  BY <1>2, <1>4, OtherGates, GateStutters

LEMMA SetMeterActiveGate ==
  ASSUME GInv, NEW m \in MeterIds, NEW active \in BOOLEAN, SetMeterActive(m, active)
  PROVE  [Gate!Next]_(Gate!vars)
<1>1. /\ m \in DOMAIN meters /\ meters[m] \in MeterType /\ UNCHANGED accepted
      /\ meters' = Put(meters, m, SwitchedMeter(m, active))
  BY Registered DEF SetMeterActive, history, GInv
<1>2. GateOf(m)' = [GateOf(m) EXCEPT !.active = active]
  BY <1>1, OtherGates DEF SwitchedMeter, MeterType, GateOf
<1>3. Gates' = [Gates EXCEPT ![m].active = active] /\ Counts' = Counts
  BY <1>1, <1>2, OtherGates DEF Gates, Counts
<1>4. GateOf(m).active \in BOOLEAN
  BY <1>1 DEF MeterType, GateOf
<1>5. CASE active = GateOf(m).active
  <2>1. GateOf(m)' = GateOf(m)
    BY <1>1, <1>2, <1>5 DEF GateOf
  <2> QED
    BY <1>1, <2>1, OtherGates, GateStutters
<1>6. CASE active # GateOf(m).active
  <2>1. active = ~Gates[m].active
    BY <1>4, <1>6 DEF Gates
  <2>2. Gates' = [Gates EXCEPT ![m].active = ~@]
    BY <1>3, <2>1
  <2> QED
    BY <1>3, <2>2 DEF Gate!Next, Gate!Switch, Gates, Counts
<1> QED
  BY <1>5, <1>6

LEMMA UpdateMeterOwnerGate ==
  ASSUME GInv, NEW m \in MeterIds, NEW owner, UpdateMeterOwner(m, owner)
  PROVE  UNCHANGED Gate!vars
<1>1. /\ m \in DOMAIN meters /\ meters[m] \in MeterType /\ UNCHANGED accepted
      /\ meters' = Put(meters, m, ReassignedMeter(m, owner))
  BY Registered DEF UpdateMeterOwner, history, GInv
<1>2. GateOf(m)' = GateOf(m)
  BY <1>1, OtherGates DEF ReassignedMeter, MeterType, GateOf
<1> QED
  BY <1>1, <1>2, OtherGates, GateStutters

(* A reading is counted where its meter's gate rises, and nowhere else. *)
LEMMA SubmitReadingGate ==
  ASSUME GInv, NEW r \in Readings, NEW sig \in Signatures, SubmitReading(r, sig)
  PROVE  Gate!Next
<1>0. PICK m : m = r.meter_id
  OBVIOUS
<1> DEFINE new == [meters[m] EXCEPT !.nonce = r.nonce, !.last_ts = r.timestamp]
<1>1. /\ r \in ReadingType /\ SubmitResult(r, sig) = "ok" /\ meters' = Put(meters, m, new)
      /\ accepted' = [accepted EXCEPT ![m] = Append(@, r)]
  BY <1>0, ReadingsAssumption DEF SubmitReading
<1>2. /\ m \in DOMAIN meters /\ meters[m].nonce < r.nonce /\ meters[m].last_ts <= r.timestamp
  BY <1>0, <1>1, Passed
<1>3. m \in MeterIds /\ meters[m] \in MeterType
  BY <1>2, Registered DEF GInv
<1>4. /\ meters[m].nonce \in Nat /\ meters[m].last_ts \in Nat
      /\ r.nonce \in Nat /\ r.timestamp \in Nat
  BY <1>1, <1>3, MeterFields, ReadingFields
<1>5. meters[m].active
  BY <1>0, <1>1, <1>2, <1>3, MeterFields DEF SubmitResult
<1>6. /\ new.active = meters[m].active /\ new.nonce = r.nonce /\ new.last_ts = r.timestamp
  BY <1>3 DEF MeterType
<1> HIDE DEF new
<1>7. GateOf(m)' = [active |-> TRUE, nonce |-> r.nonce, last_ts |-> r.timestamp]
  <2>1. GateOf(m)' = [active |-> new.active, nonce |-> new.nonce, last_ts |-> new.last_ts]
    BY <1>1, OtherGates
  <2>2. new.active = TRUE
    BY <1>3, <1>5, <1>6, MeterFields
  <2> QED
    BY <1>6, <2>1, <2>2
<1>8. Gates' = [Gates EXCEPT ![m] = [active |-> TRUE, nonce |-> r.nonce,
                                    last_ts |-> r.timestamp]]
  BY <1>1, <1>3, <1>7, OtherGates DEF Gates
<1>9. Counts' = [Counts EXCEPT ![m] = @ + 1]
  <2>1. accepted \in [MeterIds -> Seq(ReadingType)]
    BY DEF GInv, HistoryOK
  <2>2. Len(accepted'[m]) = Len(accepted[m]) + 1
    BY <1>1, <1>3, <2>1
  <2>3. \A y \in MeterIds : y # m => accepted'[y] = accepted[y]
    BY <1>1, <2>1
  <2> QED
    BY <1>3, <2>2, <2>3 DEF Counts
<1>10. /\ Gates[m].active /\ Gates'[m].nonce = r.nonce /\ Gates'[m].last_ts = r.timestamp
       /\ Gates[m].nonce = meters[m].nonce /\ Gates[m].last_ts = meters[m].last_ts
  BY <1>2, <1>3, <1>5, <1>7 DEF Gates, GateOf
<1>11. /\ Gates'[m].nonce > Gates[m].nonce /\ Gates'[m].last_ts >= Gates[m].last_ts
       /\ Gates' = [Gates EXCEPT ![m] = [active |-> TRUE, nonce |-> Gates'[m].nonce,
                                         last_ts |-> Gates'[m].last_ts]]
  BY <1>2, <1>4, <1>8, <1>10
<1> QED
  BY <1>3, <1>9, <1>10, <1>11 DEF Gate!Next, Gate!Rises, Gates, Counts

(* The contract implements the gate: every call maps to a reading let      *)
(* through, a switch, or a stutter.                                        *)
THEOREM GridKeepsTheGate == Spec => KeepsTheGate
<1>1. ASSUME GInv, [Next]_vars PROVE [Gate!Next]_(Gate!vars)
  <2>1. CASE UNCHANGED <<meters, accepted>>
    <3>1. \A m \in MeterIds : GateOf(m)' = GateOf(m)
      BY <2>1 DEF GateOf
    <3> QED
      BY <2>1, <3>1, GateStutters
  <2>2. ASSUME NEW owner, NEW signer, RegisterMeter(owner, signer)
        PROVE  [Gate!Next]_(Gate!vars)
    BY <1>1, <2>2, RegisterMeterGate
  <2>3. ASSUME NEW m \in MeterIds, NEW active \in BOOLEAN, SetMeterActive(m, active)
        PROVE  [Gate!Next]_(Gate!vars)
    BY <1>1, <2>3, SetMeterActiveGate
  <2>4. ASSUME NEW m \in MeterIds, NEW owner, UpdateMeterOwner(m, owner)
        PROVE  [Gate!Next]_(Gate!vars)
    BY <1>1, <2>4, UpdateMeterOwnerGate
  <2>5. ASSUME NEW r \in Readings, NEW sig \in Signatures, SubmitReading(r, sig)
        PROVE  [Gate!Next]_(Gate!vars)
    BY <1>1, <2>5, SubmitReadingGate
  <2> QED
    BY <1>1, <2>1, <2>2, <2>3, <2>4, <2>5
       DEF Next, vars, contract, history, SetPrice, SetFeeBps, Settle, Approve, CloseLedger
<1>2. GInv /\ [Next]_vars => [Gate!Next]_(Gate!vars)
  BY <1>1
<1> QED
  BY <1>2, InitGate, GridInvariant, PTL DEF Spec, KeepsTheGate, Gate!Spec

=============================================================================
