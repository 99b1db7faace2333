------------------------------ MODULE ReplayGate ------------------------------
(***************************************************************************)
(* What a meter's entry promises to whoever submits readings               *)
(* (contracts/gridpulse/src/meter.rs:52-78): a gate that lets a reading    *)
(* through while the meter is active, and each time rises to that          *)
(* reading's nonce and time.  Nothing else moves it; the admin opens and   *)
(* shuts it.  The contract keeps this promise (module GridPulse), and it   *)
(* is all the relayer is told about the contract (module Relayer).         *)
(***************************************************************************)
EXTENDS Integers

CONSTANT Meters

VARIABLES gate,    \* by meter: active, nonce, last_ts
          counted  \* by meter: how many readings it let through

vars == <<gate, counted>>

Fresh == [active |-> TRUE, nonce |-> 0, last_ts |-> 0]

Init ==
  /\ gate = [m \in Meters |-> Fresh]
  /\ counted = [m \in Meters |-> 0]

Rises(m) ==
  /\ gate[m].active
  /\ gate'[m].nonce > gate[m].nonce /\ gate'[m].last_ts >= gate[m].last_ts
  /\ gate' = [gate EXCEPT ![m] = [active |-> TRUE, nonce |-> gate'[m].nonce,
                                  last_ts |-> gate'[m].last_ts]]
  /\ counted' = [counted EXCEPT ![m] = @ + 1]

Switch(m) ==
  /\ gate' = [gate EXCEPT ![m].active = ~@]
  /\ UNCHANGED counted

Next == \E m \in Meters : Rises(m) \/ Switch(m)

Spec == Init /\ [][Next]_vars

=============================================================================
