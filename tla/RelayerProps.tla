----------------------------- MODULE RelayerProps -----------------------------
(***************************************************************************)
(* What the backend promises to a device whose reading it acknowledged.    *)
(***************************************************************************)
EXTENDS Relayer

MeterType == [active : BOOLEAN, nonce : Nat, last_ts : Nat]

FlushType ==
  [stage : {"sent", "accepted", "rejected", "trapped"}, batch : Seq(Readings),
   submitted : Nat, dropped : Nat]

PostType ==
  [stage : {"asked"}, reading : Readings]
    \cup [stage : {"read"}, reading : Readings, meter : MeterType]

(* The scheduler is busy exactly while its flush runs, memory and disk     *)
(* agree while the process runs, and a running flush always has a reading  *)
(* to wait for (relayer.ts:119-148, scheduler.ts:72-88, queue.ts:66-114).  *)
TypeOK ==
  /\ chain \in [Meters -> MeterType]
  /\ late \subseteq Readings /\ acked \subseteq Readings /\ rejected \subseteq Readings
  /\ landed \in Seq(Readings) /\ items \in Seq(Readings)
  /\ disk \in [torn : BOOLEAN, readings : Seq(Readings)]
  /\ faults \in 0 .. MaxFaults
  /\ post \in [Handlers -> {NoPost} \cup PostType]
  /\ flushing \in [Flushers -> {NoFlush} \cup FlushType]
  /\ flushBusy = ("tick" \in Flushers /\ flushing["tick"].stage # "idle")
  /\ up => disk = [torn |-> FALSE, readings |-> items]
  /\ \A f \in Flushers :
       flushing[f].stage # "idle" => Done(flushing[f]) < Len(flushing[f].batch)

(* No acknowledged reading is lost: it is in the queue file, or the        *)
(* contract accepted it, or rejected it after it was queued, whatever      *)
(* failed in between.  A flush removes readings by their number, not by    *)
(* their identity (queue.ts:110-114, relayer.ts:146).  Only a crash in the *)
(* middle of a write, which truncates the file first (queue.ts:79), takes  *)
(* the queue with it.                                                      *)
NothingLost ==
  disk.torn \/ acked \subseteq ToSet(disk.readings) \cup ToSet(landed) \cup rejected

(* No reading counts twice, though the relayer submits again after a lost  *)
(* answer or a crash (relayer.ts:124-144 over meter.rs:55-60).             *)
NothingTwice == \A i, j \in DOMAIN landed : i # j => landed[i] # landed[j]

Gate == INSTANCE ReplayGate WITH
  gate    <- chain,
  counted <- [m \in Meters |-> Cardinality({i \in DOMAIN landed : landed[i].meter = m})]

(* What the relayer believes of the contract is no more than the contract  *)
(* keeps (GridPulseProps.KeepsTheGate): its submissions, first ones, late  *)
(* ones and repeated ones, move a meter as the gate says                   *)
(* (relayer.ts:119-148 over meter.rs:52-78).                               *)
KeepsTheGate == Gate!Spec

(* The queue holds the readings of a meter in the order of their nonces,   *)
(* each once, however the requests that brought them overlap and whatever  *)
(* a restart brings back (relayer.ts:186-189, queue.ts:95-107).            *)
QueueInOrder ==
  \A i, j \in DOMAIN items :
    i < j /\ items[i].meter = items[j].meter => items[i].nonce < items[j].nonce

(* Every acknowledged reading is eventually accepted or rejected by the    *)
(* contract, once calls stop failing, unless a write that was cut off took *)
(* the queue and keeps the process down (scheduler.ts:46-88).              *)
Delivered ==
  \A r \in Readings : r \in acked ~> r \in ToSet(landed) \cup rejected \/ disk.torn

(* "A contract rejection (stale nonce, inactive meter, ...) is dropped -   *)
(* it can never succeed later" (relayer.ts:115-116): the contract would    *)
(* still reject a reading the relayer has dropped.                         *)
NeverLater == \A r \in rejected : ~Accepts(r)

=============================================================================
