---------------------------- MODULE GridPulseProps ----------------------------
(***************************************************************************)
(* What the contract must guarantee, whoever calls it and in any order.    *)
(***************************************************************************)
EXTENDS GridPulse

MeterType ==
  [owner : Accounts, signer : Keys, active : BOOLEAN, nonce : Nat, last_ts : Nat]

EntryType == [wh : Int, ttl : 1 .. TempTtl]

ConfigType == [price : Nat, fee_bps : 0 .. BPS]

StorageOK ==
  /\ config \in ConfigType
  /\ next_id \in 1 .. MaxMeters + 1
  /\ DOMAIN meters = 1 .. next_id - 1
  /\ \A m \in DOMAIN meters : meters[m] \in MeterType
  /\ DOMAIN entries \subseteq DOMAIN meters
  /\ \A m \in DOMAIN entries : entries[m] \in EntryType

HistoryOK ==
  /\ accepted \in [MeterIds -> Seq(ReadingType)]
  /\ metered \in [MeterIds -> Int] /\ settled \in [MeterIds -> Int]
  /\ lapsed \in [MeterIds -> Int]

(* The contract's storage is well-typed: the fee stays within 10000 basis  *)
(* points, ids are handed out once and in order (contract.rs:42-49,        *)
(* 97-103), and only registered meters hold positions.                     *)
TypeOK ==
  /\ StorageOK /\ HistoryOK
  /\ bal \in [Accounts -> Nat] /\ allow \in [Accounts -> Nat]

(* No reading counts twice: the nonces a meter gets accepted strictly      *)
(* increase and its time never runs backwards, whatever the admin does to  *)
(* the meter in between (meter.rs:52-60, 75-78 and the writers of the      *)
(* Meter entry, contract.rs:66-85).                                        *)
NoReplay ==
  \A m \in MeterIds : \A i, j \in DOMAIN accepted[m] :
    i < j => /\ accepted[m][i].nonce < accepted[m][j].nonce
             /\ accepted[m][i].timestamp <= accepted[m][j].timestamp

(* No relayer can make up energy: every accepted reading of a meter was    *)
(* signed, for that meter, by the key it is registered with                *)
(* (meter.rs:22-33, 62-67).                                                *)
DeviceBinding ==
  \A m \in MeterIds : \A i \in DOMAIN accepted[m] :
    /\ m \in DOMAIN meters /\ accepted[m][i].meter_id = m
    /\ [key |-> meters[m].signer, reading |-> accepted[m][i]] \in Signatures

(* Where the strengthening of NoReplay is: the Meter entry remembers the   *)
(* last accepted reading.                                                  *)
Remembers ==
  \A m \in MeterIds : \A i \in DOMAIN accepted[m] :
    /\ m \in DOMAIN meters
    /\ accepted[m][i].nonce <= meters[m].nonce
    /\ accepted[m][i].timestamp <= meters[m].last_ts

(* Every watt-hour is accounted for: the net a meter got accepted is its   *)
(* position, what settlements cleared, and what lapsed with its entry.     *)
(* meter.rs:69-73 adds to the position, settle.rs:178-180 clears it.       *)
EnergyLedger ==
  \A m \in MeterIds : metered[m] = Position(m) + settled[m] + lapsed[m]

(* A reading that is out of date when it is submitted stays so: no call    *)
(* turns a replay into a fresh reading (meter.rs:55-60).                   *)
Outdated(r) ==
  /\ r.meter_id \in DOMAIN meters
  /\ \/ r.nonce <= meters[r.meter_id].nonce
     \/ r.timestamp < meters[r.meter_id].last_ts

StaleForGood == [][\A r \in Readings : Outdated(r) => Outdated(r)']_vars

(* A meter that is not registered yet has the gate of a new one. *)
GateOf(m) ==
  IF m \in DOMAIN meters
    THEN [active |-> meters[m].active, nonce |-> meters[m].nonce, last_ts |-> meters[m].last_ts]
    ELSE [active |-> TRUE, nonce |-> 0, last_ts |-> 0]

Gate == INSTANCE ReplayGate WITH
  Meters  <- MeterIds,
  gate    <- [m \in MeterIds |-> GateOf(m)],
  counted <- [m \in MeterIds |-> Len(accepted[m])]

(* The contract implements the gate: whatever is called, a reading that is *)
(* counted raises its meter's nonce, and nothing but such a reading moves  *)
(* the nonce or the time of a meter, of that meter alone (meter.rs:52-78,  *)
(* contract.rs:42-85).                                                     *)
KeepsTheGate == Gate!Spec

(* The energy the meters of some accounts export (sign 1) or import (-1).  *)
HeldBy(owners, sign) ==
  Tally([m \in DOMAIN meters |->
           IF meters[m].owner \in owners /\ sign * Position(m) > 0
             THEN sign * Position(m) ELSE 0])

(* A settlement charges an account at most the tariff for the deficit of   *)
(* its own meters: "consumer pays matched_wh * price / 1000, where         *)
(* matched_wh = deficit * T / D" and T <= D (README.md:52-53), in          *)
(* settle.rs:38-106; and what an account gains, the others have paid for   *)
(* energy they drew, and, but for the operator, only who exported gains.   *)
(* It must hold of every account and for every list the caller passes.     *)
OwnEnergyOnly ==
  [][\A a \in Accounts :
       /\ (bal[a] - bal'[a]) * WhPerKwh <= HeldBy({a}, -1) * config.price
       /\ (bal'[a] - bal[a]) * WhPerKwh <= HeldBy(Accounts \ {a}, -1) * config.price
       /\ bal'[a] > bal[a] => a = Admin \/ HeldBy({a}, 1) > 0]_vars

=============================================================================
