------------------------------ MODULE MCRelayer ------------------------------
(***************************************************************************)
(* Two meters, the first with two readings.                                *)
(***************************************************************************)
EXTENDS RelayerProps

CONSTANTS attic, barn

Reading(meter, nonce, timestamp) ==
  [meter |-> meter, nonce |-> nonce, timestamp |-> timestamp]

ThreeReadings == {Reading(attic, 1, 1), Reading(attic, 2, 1), Reading(barn, 1, 1)}

(* A reading somebody else made up for the barn. *)
MadeUp == {Reading(barn, 2, 1)}

AtticReadings == {Reading(attic, 1, 1), Reading(attic, 2, 1)}

WithForgery == AtticReadings \cup MadeUp

=============================================================================
