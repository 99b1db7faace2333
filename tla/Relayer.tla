------------------------------- MODULE Relayer -------------------------------
(***************************************************************************)
(* The path of a reading through the backend (backend/src): an HTTP        *)
(* handler validates and queues it (relayer.ts, queue.ts), the scheduler   *)
(* (scheduler.ts) and POST /api/flush (routes.ts) submit the queue to the  *)
(* contract.  Node runs one callback at a time: a step is what runs        *)
(* between two calls to the chain.  What a handler or a flush has read     *)
(* before such a call it still uses after it, and others run in between.   *)
(*                                                                         *)
(* The contract is seen through `submit_reading` and `meter` only; module  *)
(* GridPulse has the rest of it.  A submission that fails for the client   *)
(* may have landed, may land later, or never.                              *)
(***************************************************************************)
EXTENDS Integers, Sequences, SequencesExt

CONSTANTS
  Meters,      \* the registered meters
  Readings,    \* the readings that are posted: [meter, nonce, timestamp]
  Forged,      \* those of them whose signature does not verify
  Handlers,    \* the POST /api/readings requests that may run at once
  Flushers,    \* the flushes that may run at once: "tick" is the scheduler's
  Switched,    \* the meters the operator switches on and off
  BatchSize,   \* BATCH_SIZE
  MaxFaults,   \* bound: failed calls and crashes
  TornWrites   \* whether a crash may interrupt a write of the queue file

ReadingType == [meter : Meters, nonce : Nat \ {0}, timestamp : Nat]

ASSUME RelayerAssumption ==
  /\ Readings \subseteq ReadingType /\ Forged \subseteq Readings
  /\ BatchSize \in Nat \ {0} /\ MaxFaults \in Nat /\ TornWrites \in BOOLEAN
  /\ Switched \subseteq Meters

VARIABLES
  chain,      \* the contract's meters: active, nonce, last_ts
  late,       \* submissions the client gave up on that may still land
  up,         \* whether the process runs
  items,      \* ReadingQueue.items
  disk,       \* readings.json
  post,       \* the handlers: the reading, and the meter as they read it
  flushing,   \* the flushes: batch, submitted, dropped, the call in flight
  flushBusy,  \* RelayScheduler.flushBusy
  faults,     \* faults so far
  acked, landed, rejected  \* history: readings queued, accepted and dropped

process == <<up, items, disk, post, flushing, flushBusy>>
history == <<acked, landed, rejected>>
vars    == <<chain, late, process, faults, history>>

NoPost == [stage |-> "idle"]

NoFlush == [stage |-> "idle"]

Init ==
  /\ chain = [m \in Meters |-> [active |-> TRUE, nonce |-> 0, last_ts |-> 0]]
  /\ late = {} /\ up = TRUE
  /\ items = <<>> /\ disk = [torn |-> FALSE, readings |-> <<>>]
  /\ post = [h \in Handlers |-> NoPost]
  /\ flushing = [f \in Flushers |-> NoFlush] /\ flushBusy = FALSE
  /\ faults = 0
  /\ acked = {} /\ landed = <<>> /\ rejected = {}

-----------------------------------------------------------------------------
(* The contract. *)

(* Mutant: the nonce of the last reading is taken again. *)
StaleBelow(meter, r) == r.nonce < meter.nonce \/ r.timestamp < meter.last_ts

Stale(meter, r) == r.nonce <= meter.nonce \/ r.timestamp < meter.last_ts

(* The signature of the device verifies over the five fields. *)
Authentic(r) == r \notin Forged

Rejects(r) == ~chain[r.meter].active \/ Stale(chain[r.meter], r)

(* The signature is checked last, and a bad one traps: to the client that  *)
(* is not a ContractError.                                                 *)
Accepts(r) == ~Rejects(r) /\ Authentic(r)

(* A submission reaches the contract. *)
Apply(r) ==
  /\ chain' = IF Accepts(r)
                THEN [chain EXCEPT ![r.meter] =
                        [@ EXCEPT !.nonce = r.nonce, !.last_ts = r.timestamp]]
                ELSE chain
  /\ landed' = IF Accepts(r) THEN Append(landed, r) ELSE landed

LandLate(r) ==
  /\ r \in late
  /\ late' = late \ {r}
  /\ Apply(r)
  /\ UNCHANGED <<process, faults, acked, rejected>>

SetMeterActive(m, active) ==
  /\ chain' = [chain EXCEPT ![m].active = active]
  /\ UNCHANGED <<late, process, faults, history>>

-----------------------------------------------------------------------------
(* POST /api/readings: enqueueReading. *)

(* The handler asks the chain for the meter ... *)
Post(h, r) ==
  /\ up /\ post[h].stage = "idle"
  /\ post' = [post EXCEPT ![h] = [stage |-> "asked", reading |-> r]]
  /\ UNCHANGED <<chain, late, up, items, disk, flushing, flushBusy, faults, history>>

(* ... the chain answers as it is now ... *)
ReadMeter(h) ==
  /\ post[h].stage = "asked"
  /\ post' = [post EXCEPT ![h] = [stage |-> "read", reading |-> post[h].reading,
                                  meter |-> chain[post[h].reading.meter]]]
  /\ UNCHANGED <<chain, late, up, items, disk, flushing, flushBusy, faults, history>>

Queued(m) == {items[i].nonce : i \in {j \in DOMAIN items : items[j].meter = m}}

(* Mutant: the readings that are queued already are not looked at. *)
FreshOnChain(meter, r) == meter.active /\ ~Stale(meter, r) /\ Authentic(r)

(* Mutant: the signature is left to the contract. *)
FreshUnsigned(meter, r) ==
  meter.active /\ ~Stale(meter, r) /\ \A nonce \in Queued(r.meter) : r.nonce > nonce

Fresh(meter, r) ==
  /\ meter.active /\ ~Stale(meter, r)
  /\ \A nonce \in Queued(r.meter) : r.nonce > nonce
  /\ Authentic(r)

(* ... and the handler resumes some time later: it validates the reading   *)
(* and queues it, in memory and on disk, or answers with an error.         *)
Enqueue(h) ==
  LET r == post[h].reading
  IN  /\ post[h].stage = "read"
      /\ Fresh(post[h].meter, r)
      /\ items' = Append(items, r)
      /\ disk' = [torn |-> FALSE, readings |-> Append(items, r)]
      /\ post' = [post EXCEPT ![h] = NoPost]
      /\ acked' = acked \cup {r} /\ rejected' = rejected \ {r}
      /\ UNCHANGED <<chain, late, up, flushing, flushBusy, faults, landed>>

Refuse(h) ==
  /\ post[h].stage = "read"
  /\ ~Fresh(post[h].meter, post[h].reading)
  /\ post' = [post EXCEPT ![h] = NoPost]
  /\ UNCHANGED <<chain, late, up, items, disk, flushing, flushBusy, faults, history>>

-----------------------------------------------------------------------------
(* Relayer.flush, from the scheduler's timer or from POST /api/flush. *)

Peek == SubSeq(items, 1, IF BatchSize < Len(items) THEN BatchSize ELSE Len(items))

(* Only the scheduler's own flush looks at flushBusy. *)
Flush(f) ==
  /\ up /\ flushing[f].stage = "idle" /\ items # <<>>
  /\ f = "tick" => ~flushBusy
  /\ flushBusy' = IF f = "tick" THEN TRUE ELSE flushBusy
  /\ flushing' = [flushing EXCEPT ![f] =
                    [stage |-> "sent", batch |-> Peek, submitted |-> 0, dropped |-> 0]]
  /\ UNCHANGED <<chain, late, up, items, disk, post, faults, history>>

Done(fl) == fl.submitted + fl.dropped

Current(f) == flushing[f].batch[Done(flushing[f]) + 1]

Land(f) ==
  /\ flushing[f].stage = "sent"
  /\ Apply(Current(f))
  /\ flushing' = [flushing EXCEPT ![f].stage =
                    CASE Accepts(Current(f)) -> "accepted"
                      [] Rejects(Current(f)) -> "rejected"
                      [] OTHER -> "trapped"]
  /\ UNCHANGED <<late, up, items, disk, post, flushBusy, faults, acked, rejected>>

(* Mutant: the reading the batch stopped at is removed as well. *)
RemovedOneMore(count) == SubSeq(items, count + 2, Len(items))

RemovedFirst(count) == SubSeq(items, count + 1, Len(items))

(* Mutant: the guard is only cleared by a flush that was not cut short. *)
ClearsIfWhole(f, fl) ==
  IF f = "tick" /\ Done(fl) = Len(fl.batch) THEN FALSE ELSE flushBusy

Clears(f, fl) == IF f = "tick" THEN FALSE ELSE flushBusy

(* The end of a flush that got as far as fl: it removes as many readings   *)
(* from the front of the queue as it has dealt with.                       *)
Finish(f, fl) ==
  /\ items' = IF Done(fl) = 0 THEN items ELSE RemovedFirst(Done(fl))
  /\ disk' = IF Done(fl) = 0 THEN disk ELSE [torn |-> FALSE, readings |-> items']
  /\ flushing' = [flushing EXCEPT ![f] = NoFlush]
  /\ flushBusy' = Clears(f, fl)

(* The flush with the answer it is waiting for counted. *)
Counted(f) ==
  CASE flushing[f].stage = "accepted" -> [flushing[f] EXCEPT !.stage = "sent", !.submitted = @ + 1]
    [] flushing[f].stage = "rejected" -> [flushing[f] EXCEPT !.stage = "sent", !.dropped = @ + 1]
    [] OTHER -> flushing[f]

GoesOn(f) ==
  flushing[f].stage # "trapped" /\ Done(Counted(f)) < Len(flushing[f].batch)

(* Any error that is not a ContractError stops the batch; the reading      *)
(* stays at the head of the queue.                                         *)
Answer(f) ==
  /\ flushing[f].stage \in {"accepted", "rejected", "trapped"}
  /\ rejected' = IF flushing[f].stage = "rejected" THEN rejected \cup {Current(f)} ELSE rejected
  /\ IF GoesOn(f)
       THEN /\ flushing' = [flushing EXCEPT ![f] = Counted(f)]
            /\ UNCHANGED <<items, disk, flushBusy>>
       ELSE Finish(f, Counted(f))
  /\ UNCHANGED <<chain, late, up, post, faults, acked, landed>>

(* A network error or a timeout, before or after the submission landed,    *)
(* is such an error too.                                                   *)
Fail(f) ==
  /\ flushing[f].stage # "idle" /\ faults < MaxFaults
  /\ faults' = faults + 1
  /\ late' = IF flushing[f].stage = "sent" THEN late \cup {Current(f)} ELSE late
  /\ Finish(f, flushing[f])
  /\ UNCHANGED <<chain, up, post, history>>

-----------------------------------------------------------------------------
(* The process dies, and is started again. *)

InFlight == {f \in Flushers : flushing[f].stage = "sent"}

Dies ==
  /\ up /\ faults < MaxFaults
  /\ up' = FALSE /\ faults' = faults + 1
  /\ items' = <<>> /\ flushBusy' = FALSE
  /\ post' = [h \in Handlers |-> NoPost] /\ flushing' = [f \in Flushers |-> NoFlush]
  /\ late' = late \cup {Current(f) : f \in InFlight}
  /\ UNCHANGED <<chain, history>>

Crash == Dies /\ UNCHANGED disk

(* writeFileSync truncates the file before it writes it: when a reading is *)
(* queued, at the end of a batch, and when a batch stops half-way.         *)
Saving ==
  \/ \E h \in Handlers : post[h].stage = "read" /\ Fresh(post[h].meter, post[h].reading)
  \/ \E f \in Flushers :
       \/ flushing[f].stage \in {"accepted", "rejected"} /\ ~GoesOn(f)
       \/ flushing[f].stage # "idle" /\ Done(flushing[f]) > 0

CrashInSave ==
  /\ TornWrites /\ Saving
  /\ Dies
  /\ disk' = [torn |-> TRUE, readings |-> <<>>]

(* load throws on a file that is not JSON, and the server does not start.  *)
Restart ==
  /\ ~up /\ ~disk.torn
  /\ up' = TRUE /\ items' = disk.readings
  /\ UNCHANGED <<chain, late, disk, post, flushing, flushBusy, faults, history>>

Next ==
  \/ \E r \in Readings : LandLate(r)
  \/ \E m \in Switched, active \in BOOLEAN : SetMeterActive(m, active)
  \/ \E h \in Handlers, r \in Readings : Post(h, r)
  \/ \E h \in Handlers : ReadMeter(h) \/ Enqueue(h) \/ Refuse(h)
  \/ \E f \in Flushers : Flush(f) \/ Land(f) \/ Answer(f) \/ Fail(f)
  \/ Crash \/ CrashInSave \/ Restart

(* The timer keeps firing, a call to the chain is answered or fails, and   *)
(* the process is started again.                                           *)
Fairness ==
  /\ \A f \in Flushers : WF_vars(Flush(f)) /\ WF_vars(Land(f)) /\ WF_vars(Answer(f))
  /\ WF_vars(Restart)

Spec == Init /\ [][Next]_vars /\ Fairness

=============================================================================
