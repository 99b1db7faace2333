----------------------------- MODULE MCGridPulse -----------------------------
(***************************************************************************)
(* The contract with two meters, two devices and two homes besides the     *)
(* operator.                                                               *)
(***************************************************************************)
EXTENDS GridPulseProps

CONSTANTS ana, ben, grid, k1, k2

Reading(m, timestamp, generation_wh, consumption_wh, nonce) ==
  [meter_id |-> m, timestamp |-> timestamp, generation_wh |-> generation_wh,
   consumption_wh |-> consumption_wh, nonce |-> nonce]

Signed(key, r) == [key |-> key, reading |-> r]

(* Meter 1 exports, then imports; meter 2 imports twice, the second time   *)
(* also with a timestamp that lies before the first.                       *)
DeviceSignatures ==
  {Signed(k1, Reading(1, 1, 4, 0, 1)), Signed(k1, Reading(1, 2, 0, 5, 2)),
   Signed(k2, Reading(2, 2, 0, 2, 1)), Signed(k2, Reading(2, 1, 4, 0, 2)),
   Signed(k2, Reading(2, 2, 4, 0, 2))}

(* A caller may also submit what no device signed: the fields of meter 1's *)
(* reading under the id of meter 2.                                        *)
SubmittedReadings ==
  {sig.reading : sig \in DeviceSignatures} \cup {Reading(2, 1, 4, 0, 1)}

(* One device key for both meters; each exports or imports, then turns. *)
HomeSignatures ==
  {Signed(k1, Reading(1, 1, 5, 0, 1)), Signed(k1, Reading(1, 2, 0, 5, 2)),
   Signed(k1, Reading(2, 1, 0, 2, 1)), Signed(k1, Reading(2, 2, 4, 0, 2))}

HomeReadings == {sig.reading : sig \in HomeSignatures}

EachOnce == {<<1, 2>>, <<1>>}

Repeated == EachOnce \cup {<<1, 2, 2>>}

Tens == [a \in Accounts |-> 10]

=============================================================================
