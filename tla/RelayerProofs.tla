---------------------------- MODULE RelayerProofs ----------------------------
(***************************************************************************)
(* Proofs about the path of a reading, for every set of meters, readings,  *)
(* requests and flushes, every batch size and every number of faults.      *)
(***************************************************************************)
EXTENDS RelayerProps, FiniteSetTheorems, TLAPS

LEMMA ReadingFields ==
  ASSUME NEW r \in Readings
  PROVE  r.meter \in Meters /\ r.nonce \in Nat \ {0} /\ r.timestamp \in Nat
  BY RelayerAssumption DEF ReadingType

LEMMA MeterFields ==
  ASSUME NEW x \in MeterType
  PROVE  x.active \in BOOLEAN /\ x.nonce \in Nat /\ x.last_ts \in Nat
  BY DEF MeterType

LEMMA FlushFields ==
  ASSUME NEW fl \in {NoFlush} \cup FlushType, fl.stage # "idle"
  PROVE  /\ fl \in FlushType /\ fl.batch \in Seq(Readings)
         /\ fl.stage \in {"sent", "accepted", "rejected", "trapped"}
         /\ fl.submitted \in Nat /\ fl.dropped \in Nat /\ Done(fl) \in Nat
  BY DEF NoFlush, FlushType, Done

LEMMA FlushStage ==
  ASSUME NEW fl \in FlushType
  PROVE  fl.stage # "idle"
  BY DEF FlushType

LEMMA PostFields ==
  ASSUME NEW p \in {NoPost} \cup PostType, p.stage # "idle"
  PROVE  /\ p.reading \in Readings
         /\ p.stage = "read" => p.meter \in MeterType
  BY DEF NoPost, PostType

LEMMA CurrentIn ==
  ASSUME TypeOK, NEW f \in Flushers, flushing[f].stage # "idle"
  PROVE  Current(f) \in Readings
<1>1. /\ flushing[f].batch \in Seq(Readings) /\ Done(flushing[f]) \in Nat
      /\ Done(flushing[f]) < Len(flushing[f].batch)
  BY FlushFields DEF TypeOK
<1> QED
  BY <1>1 DEF Current

LEMMA PrefixRemoved ==
  ASSUME NEW n \in Nat, items \in Seq(Readings)
  PROVE  RemovedFirst(n) \in Seq(Readings)
  BY DEF RemovedFirst

(* What a submission makes of the contract. *)
LEMMA Applied ==
  ASSUME TypeOK, NEW r \in Readings, Apply(r)
  PROVE  chain' \in [Meters -> MeterType] /\ landed' \in Seq(Readings)
<1>1. chain \in [Meters -> MeterType] /\ landed \in Seq(Readings)
  BY DEF TypeOK
<1>2. r.meter \in Meters /\ r.nonce \in Nat /\ r.timestamp \in Nat
  BY ReadingFields
<1>3. CASE Accepts(r)
  <2>1. [chain[r.meter] EXCEPT !.nonce = r.nonce, !.last_ts = r.timestamp] \in MeterType
    BY <1>1, <1>2 DEF MeterType
  <2> QED
    BY <1>1, <1>2, <1>3, <2>1 DEF Apply
<1>4. CASE ~Accepts(r)
  BY <1>1, <1>4 DEF Apply
<1> QED
  BY <1>3, <1>4

(* What the end of a flush leaves. *)
LEMMA Finished ==
  ASSUME TypeOK, NEW f \in Flushers, NEW fl \in FlushType, Finish(f, fl)
  PROVE  /\ items' \in Seq(Readings)
         /\ disk' \in [torn : BOOLEAN, readings : Seq(Readings)]
         /\ flushing' = [flushing EXCEPT ![f] = NoFlush]
         /\ flushBusy' = ("tick" \in Flushers /\ flushing'["tick"].stage # "idle")
         /\ up => disk' = [torn |-> FALSE, readings |-> items']
<1>1. Done(fl) \in Nat
  BY FlushStage, FlushFields
<1>2. /\ items \in Seq(Readings) /\ disk \in [torn : BOOLEAN, readings : Seq(Readings)]
      /\ flushBusy = ("tick" \in Flushers /\ flushing["tick"].stage # "idle")
      /\ up => disk = [torn |-> FALSE, readings |-> items]
      /\ DOMAIN flushing = Flushers
  BY DEF TypeOK
<1>3. NoFlush.stage = "idle"
  BY DEF NoFlush
<1>4. flushing' = [flushing EXCEPT ![f] = NoFlush] /\ flushBusy' = Clears(f, fl)
  BY DEF Finish
<1>5. flushBusy' = ("tick" \in Flushers /\ flushing'["tick"].stage # "idle")
  <2>1. CASE f = "tick"
    BY <1>2, <1>3, <1>4, <2>1 DEF Clears
  <2>2. CASE f # "tick"
    BY <1>2, <1>4, <2>2 DEF Clears
  <2> QED
    BY <2>1, <2>2
<1>6. /\ items' \in Seq(Readings)
      /\ disk' \in [torn : BOOLEAN, readings : Seq(Readings)]
      /\ up => disk' = [torn |-> FALSE, readings |-> items']
  BY <1>1, <1>2, PrefixRemoved DEF Finish
<1> QED
  BY <1>4, <1>5, <1>6

-----------------------------------------------------------------------------
(* Type correctness. *)

LEMMA InitTypeOK == Init => TypeOK
<1> SUFFICES ASSUME Init PROVE TypeOK
  OBVIOUS
<1>1. /\ chain \in [Meters -> MeterType] /\ post \in [Handlers -> {NoPost} \cup PostType]
      /\ flushing \in [Flushers -> {NoFlush} \cup FlushType]
  BY DEF Init, MeterType
<1>2. \A f \in Flushers : flushing[f].stage = "idle"
  BY DEF Init, NoFlush
<1>3. faults \in 0 .. MaxFaults
  BY RelayerAssumption DEF Init
<1>4. /\ landed \in Seq(Readings) /\ items \in Seq(Readings)
      /\ disk = [torn |-> FALSE, readings |-> items]
      /\ late \subseteq Readings /\ acked \subseteq Readings /\ rejected \subseteq Readings
  BY DEF Init
<1>5. flushBusy = ("tick" \in Flushers /\ flushing["tick"].stage # "idle")
  BY <1>2 DEF Init
<1> QED
  BY <1>1, <1>2, <1>3, <1>4, <1>5 DEF TypeOK

LEMMA LandLateTypeOK ==
  ASSUME TypeOK, NEW r \in Readings, LandLate(r)
  PROVE  TypeOK'
<1>1. chain' \in [Meters -> MeterType] /\ landed' \in Seq(Readings)
  BY Applied DEF LandLate
<1> QED
  BY <1>1 DEF LandLate, TypeOK, process

LEMMA SetMeterActiveTypeOK ==
  ASSUME TypeOK, NEW m \in Switched, NEW active \in BOOLEAN, SetMeterActive(m, active)
  PROVE  TypeOK'
<1>1. chain' \in [Meters -> MeterType]
  BY RelayerAssumption DEF SetMeterActive, TypeOK, MeterType
<1> QED
  BY <1>1 DEF SetMeterActive, TypeOK, process, history

LEMMA PostStepTypeOK ==
  ASSUME TypeOK, NEW h \in Handlers,
         \/ \E r \in Readings : Post(h, r)
         \/ ReadMeter(h) \/ Refuse(h)
  PROVE  TypeOK'
<1>1. ASSUME NEW r \in Readings, Post(h, r)
      PROVE  post' \in [Handlers -> {NoPost} \cup PostType]
  BY <1>1 DEF Post, TypeOK, PostType
<1>2. ASSUME ReadMeter(h) PROVE post' \in [Handlers -> {NoPost} \cup PostType]
  <2>1. post[h].stage = "asked"
    BY <1>2 DEF ReadMeter
  <2>2. post[h].reading \in Readings /\ chain[post[h].reading.meter] \in MeterType
    BY <2>1, PostFields, ReadingFields DEF TypeOK
  <2>3. [stage |-> "read", reading |-> post[h].reading,
         meter |-> chain[post[h].reading.meter]] \in PostType
    BY <2>2 DEF PostType
  <2> QED
    BY <1>2, <2>3 DEF ReadMeter, TypeOK
<1>3. ASSUME Refuse(h) PROVE post' \in [Handlers -> {NoPost} \cup PostType]
  BY <1>3 DEF Refuse, TypeOK
<1>4. UNCHANGED <<chain, late, up, items, disk, flushing, flushBusy, faults, history>>
  BY DEF Post, ReadMeter, Refuse
<1>5. post' \in [Handlers -> {NoPost} \cup PostType]
  BY <1>1, <1>2, <1>3
<1> QED
  BY <1>4, <1>5 DEF TypeOK, history

LEMMA EnqueueTypeOK ==
  ASSUME TypeOK, NEW h \in Handlers, Enqueue(h)
  PROVE  TypeOK'
<1>1. post[h].reading \in Readings
  BY PostFields DEF Enqueue, TypeOK
<1>2. post' \in [Handlers -> {NoPost} \cup PostType]
  BY DEF Enqueue, TypeOK
<1>3. /\ items' \in Seq(Readings) /\ disk' = [torn |-> FALSE, readings |-> items']
      /\ acked' \subseteq Readings /\ rejected' \subseteq Readings
  BY <1>1 DEF Enqueue, TypeOK
<1>4. UNCHANGED <<chain, late, up, flushing, flushBusy, faults, landed>>
  BY DEF Enqueue
<1> QED
  BY <1>2, <1>3, <1>4 DEF TypeOK

(* The batch of a flush is a first part of the queue, and not empty.       *)
LEMMA PeekFacts ==
  ASSUME items \in Seq(Readings), items # <<>>
  PROVE  /\ Peek \in Seq(Readings) /\ Len(Peek) \in Nat \ {0} /\ Len(Peek) <= Len(items)
         /\ \A i \in 1 .. Len(Peek) : Peek[i] = items[i]
<1> DEFINE n == IF BatchSize < Len(items) THEN BatchSize ELSE Len(items)
<1>1. Len(items) \in Nat \ {0} /\ BatchSize \in Nat \ {0}
  BY RelayerAssumption
<1>2. n \in Nat \ {0} /\ n <= Len(items) /\ Peek = SubSeq(items, 1, n)
  BY <1>1 DEF Peek
<1> HIDE DEF n
<1> QED
  BY <1>1, <1>2

LEMMA FlushTypeOK ==
  ASSUME TypeOK, NEW f \in Flushers, Flush(f)
  PROVE  TypeOK'
<1> DEFINE new == [stage |-> "sent", batch |-> Peek, submitted |-> 0, dropped |-> 0]
<1>1. /\ Peek \in Seq(Readings) /\ Len(Peek) \in Nat \ {0}
  BY PeekFacts DEF Flush, TypeOK
<1>2. new \in FlushType /\ new.stage = "sent" /\ Done(new) = 0 /\ new.batch = Peek
  BY <1>1 DEF FlushType, Done
<1>3. flushing' = [flushing EXCEPT ![f] = new]
  BY DEF Flush
<1> HIDE DEF new
<1>4. flushing' \in [Flushers -> {NoFlush} \cup FlushType]
  BY <1>2, <1>3 DEF TypeOK
<1>5. \A g \in Flushers : flushing'[g].stage # "idle"
                          => Done(flushing'[g]) < Len(flushing'[g].batch)
  BY <1>1, <1>2, <1>3 DEF TypeOK
<1>6. flushBusy' = ("tick" \in Flushers /\ flushing'["tick"].stage # "idle")
  BY <1>2, <1>3 DEF Flush, TypeOK
<1> QED
  BY <1>4, <1>5, <1>6 DEF Flush, TypeOK, history

(* A flush that goes on waits for a reading of its batch. *)
LEMMA GoesOnTypeOK ==
  ASSUME TypeOK, NEW f \in Flushers, flushing[f].stage # "idle",
         NEW fl \in FlushType, Done(fl) < Len(fl.batch),
         flushing' = [flushing EXCEPT ![f] = fl], UNCHANGED <<post, faults, disk, items, up>>,
         chain' \in [Meters -> MeterType], landed' \in Seq(Readings),
         rejected' \subseteq Readings, UNCHANGED <<late, flushBusy, acked>>
  PROVE  TypeOK'
<1>1. fl.stage # "idle"
  BY FlushStage
<1>2. flushing' \in [Flushers -> {NoFlush} \cup FlushType]
  BY DEF TypeOK
<1>3. \A g \in Flushers : flushing'[g].stage # "idle"
                          => Done(flushing'[g]) < Len(flushing'[g].batch)
  BY DEF TypeOK
<1>4. flushBusy' = ("tick" \in Flushers /\ flushing'["tick"].stage # "idle")
  BY <1>1 DEF TypeOK
<1> QED
  BY <1>2, <1>3, <1>4 DEF TypeOK

LEMMA LandTypeOK ==
  ASSUME TypeOK, NEW f \in Flushers, Land(f)
  PROVE  TypeOK'
<1>1. PICK s \in {"accepted", "rejected", "trapped"} :
        flushing' = [flushing EXCEPT ![f].stage = s]
  <2>1. CASE Accepts(Current(f))
    BY <2>1 DEF Land, Accepts
  <2>2. CASE ~Accepts(Current(f)) /\ Rejects(Current(f))
    BY <2>2 DEF Land
  <2>3. CASE ~Accepts(Current(f)) /\ ~Rejects(Current(f))
    BY <2>3 DEF Land
  <2> QED
    BY <2>1, <2>2, <2>3
<1> DEFINE fl == [flushing[f] EXCEPT !.stage = s]
<1>2. flushing[f].stage # "idle" /\ flushing[f] \in FlushType
  BY FlushFields DEF Land, TypeOK
<1>3. fl \in FlushType /\ Done(fl) < Len(fl.batch)
  BY <1>2 DEF FlushType, Done, TypeOK
<1>4. flushing' = [flushing EXCEPT ![f] = fl]
  BY <1>1 DEF TypeOK
<1>5. chain' \in [Meters -> MeterType] /\ landed' \in Seq(Readings)
  BY <1>2, CurrentIn, Applied DEF Land
<1>6. rejected' \subseteq Readings
  BY DEF Land, TypeOK
<1> HIDE DEF fl
<1> QED
  BY <1>2, <1>3, <1>4, <1>5, <1>6, GoesOnTypeOK DEF Land

LEMMA OneSubmitted ==
  ASSUME NEW x \in FlushType, NEW n \in Nat, n = x.submitted + 1, NEW y,
         y = [x EXCEPT !.stage = "sent", !.submitted = n]
  PROVE  y \in FlushType /\ y.batch = x.batch /\ Done(y) = Done(x) + 1
<1>1. y \in FlushType
  BY DEF FlushType
<1>2. y.batch = x.batch /\ y.submitted = n /\ y.dropped = x.dropped
  BY DEF FlushType
<1>3. x.submitted \in Nat /\ x.dropped \in Nat
  BY DEF FlushType
<1>4. Done(y) = n + x.dropped /\ Done(x) = x.submitted + x.dropped
  BY <1>2 DEF Done
<1> QED
  BY <1>1, <1>2, <1>3, <1>4

LEMMA OneDropped ==
  ASSUME NEW x \in FlushType, NEW n \in Nat, n = x.dropped + 1, NEW y,
         y = [x EXCEPT !.stage = "sent", !.dropped = n]
  PROVE  y \in FlushType /\ y.batch = x.batch /\ Done(y) = Done(x) + 1
<1>1. y \in FlushType
  BY DEF FlushType
<1>2. y.batch = x.batch /\ y.dropped = n /\ y.submitted = x.submitted
  BY DEF FlushType
<1>3. x.submitted \in Nat /\ x.dropped \in Nat
  BY DEF FlushType
<1>4. Done(y) = x.submitted + n /\ Done(x) = x.submitted + x.dropped
  BY <1>2 DEF Done
<1> QED
  BY <1>1, <1>2, <1>3, <1>4

LEMMA CountedIn ==
  ASSUME TypeOK, NEW f \in Flushers, flushing[f].stage # "idle"
  PROVE  /\ Counted(f) \in FlushType /\ Counted(f).batch = flushing[f].batch
         /\ flushing[f].stage \in {"accepted", "rejected"}
              => Done(Counted(f)) = Done(flushing[f]) + 1
         /\ flushing[f].stage \notin {"accepted", "rejected"}
              => Done(Counted(f)) = Done(flushing[f])
<1>1. flushing[f] \in FlushType
  BY FlushFields DEF TypeOK
<1>2. CASE flushing[f].stage = "accepted"
  <2>1. PICK n \in Nat : n = flushing[f].submitted + 1
    BY <1>1 DEF FlushType
  <2>2. Counted(f) = [flushing[f] EXCEPT !.stage = "sent", !.submitted = n]
    BY <1>2, <2>1 DEF Counted
  <2>3. /\ Counted(f) \in FlushType /\ Counted(f).batch = flushing[f].batch
        /\ Done(Counted(f)) = Done(flushing[f]) + 1
    BY <1>1, <2>1, <2>2, OneSubmitted
  <2> QED
    BY <1>2, <2>3
<1>3. CASE flushing[f].stage = "rejected"
  <2>1. PICK n \in Nat : n = flushing[f].dropped + 1
    BY <1>1 DEF FlushType
  <2>2. Counted(f) = [flushing[f] EXCEPT !.stage = "sent", !.dropped = n]
    BY <1>3, <2>1 DEF Counted
  <2>3. /\ Counted(f) \in FlushType /\ Counted(f).batch = flushing[f].batch
        /\ Done(Counted(f)) = Done(flushing[f]) + 1
    BY <1>1, <2>1, <2>2, OneDropped
  <2> QED
    BY <1>3, <2>3
<1>4. CASE flushing[f].stage \notin {"accepted", "rejected"}
  <2>1. Counted(f) = flushing[f]
    BY <1>4 DEF Counted
  <2> QED
    BY <1>1, <1>4, <2>1
<1> QED
  BY <1>2, <1>3, <1>4

(* A flush that is over leaves the scheduler free and the file written.    *)
LEMMA FinishTypeOK ==
  ASSUME TypeOK, NEW f \in Flushers, NEW fl \in FlushType, Finish(f, fl),
         faults' \in 0 .. MaxFaults, late' \subseteq Readings, rejected' \subseteq Readings,
         UNCHANGED <<chain, up, post, acked, landed>>
  PROVE  TypeOK'
<1>1. /\ items' \in Seq(Readings)
      /\ disk' \in [torn : BOOLEAN, readings : Seq(Readings)]
      /\ flushing' = [flushing EXCEPT ![f] = NoFlush]
      /\ flushBusy' = ("tick" \in Flushers /\ flushing'["tick"].stage # "idle")
      /\ up => disk' = [torn |-> FALSE, readings |-> items']
  BY Finished
<1>2. flushing' \in [Flushers -> {NoFlush} \cup FlushType]
  BY <1>1 DEF TypeOK
<1>3. \A g \in Flushers : flushing'[g].stage # "idle"
                          => Done(flushing'[g]) < Len(flushing'[g].batch)
  BY <1>1 DEF TypeOK, NoFlush
<1> QED
  BY <1>1, <1>2, <1>3 DEF TypeOK

LEMMA AnswerTypeOK ==
  ASSUME TypeOK, NEW f \in Flushers, Answer(f)
  PROVE  TypeOK'
<1>1. flushing[f].stage # "idle" /\ Current(f) \in Readings
  BY CurrentIn DEF Answer
<1>2. Counted(f) \in FlushType
  BY <1>1, CountedIn
<1>3. rejected' \subseteq Readings /\ UNCHANGED <<chain, late, up, post, faults, acked, landed>>
  BY <1>1 DEF Answer, TypeOK
<1>4. CASE GoesOn(f)
  <2>1. flushing' = [flushing EXCEPT ![f] = Counted(f)] /\ UNCHANGED <<items, disk, flushBusy>>
    BY <1>4 DEF Answer
  <2>2. Done(Counted(f)) < Len(Counted(f).batch)
    BY <1>1, <1>4, CountedIn DEF GoesOn
  <2>3. chain' \in [Meters -> MeterType] /\ landed' \in Seq(Readings)
    BY <1>3 DEF TypeOK
  <2> QED
    BY <1>1, <1>2, <1>3, <2>1, <2>2, <2>3, GoesOnTypeOK
<1>5. CASE ~GoesOn(f)
  <2>1. Finish(f, Counted(f))
    BY <1>5 DEF Answer
  <2>2. faults' \in 0 .. MaxFaults /\ late' \subseteq Readings
    BY <1>3 DEF TypeOK
  <2> QED
    BY <1>2, <1>3, <2>1, <2>2, FinishTypeOK
<1> QED
  BY <1>4, <1>5

LEMMA FailTypeOK ==
  ASSUME TypeOK, NEW f \in Flushers, Fail(f)
  PROVE  TypeOK'
<1>1. flushing[f].stage # "idle" /\ Current(f) \in Readings /\ flushing[f] \in FlushType
  BY CurrentIn, FlushFields DEF Fail, TypeOK
<1>2. faults' \in 0 .. MaxFaults
  BY RelayerAssumption DEF Fail, TypeOK
<1>3. /\ late' \subseteq Readings /\ rejected' \subseteq Readings
      /\ UNCHANGED <<chain, up, post, acked, landed>> /\ Finish(f, flushing[f])
  BY <1>1 DEF Fail, TypeOK, history
<1> QED
  BY <1>1, <1>2, <1>3, FinishTypeOK

LEMMA DiesTypeOK ==
  ASSUME TypeOK, Dies, disk' \in [torn : BOOLEAN, readings : Seq(Readings)]
  PROVE  TypeOK'
<1>1. faults' \in 0 .. MaxFaults
  BY RelayerAssumption DEF Dies, TypeOK
<1>2. \A f \in InFlight : Current(f) \in Readings
  BY CurrentIn DEF InFlight
<1>3. late' \subseteq Readings
  BY <1>2 DEF Dies, TypeOK
<1>4. /\ post' \in [Handlers -> {NoPost} \cup PostType]
      /\ flushing' \in [Flushers -> {NoFlush} \cup FlushType]
      /\ \A f \in Flushers : flushing'[f].stage = "idle"
  BY DEF Dies, NoFlush
<1>5. flushBusy' = ("tick" \in Flushers /\ flushing'["tick"].stage # "idle")
  BY <1>4 DEF Dies
<1>6. /\ items' = <<>> /\ ~up' /\ UNCHANGED <<chain, acked, rejected, landed>>
  BY DEF Dies, history
<1> QED
  BY <1>1, <1>3, <1>4, <1>5, <1>6 DEF TypeOK

LEMMA RestartTypeOK ==
  ASSUME TypeOK, Restart
  PROVE  TypeOK'
<1>1. items' = disk.readings /\ disk' = disk /\ disk.torn = FALSE
  BY DEF Restart, TypeOK
<1>2. items' \in Seq(Readings) /\ disk' = [torn |-> FALSE, readings |-> items']
  BY <1>1 DEF TypeOK
<1> QED
  BY <1>2 DEF Restart, TypeOK, history

LEMMA NextTypeOK == TypeOK /\ [Next]_vars => TypeOK'
<1> SUFFICES ASSUME TypeOK, [Next]_vars PROVE TypeOK'
  OBVIOUS
<1>1. ASSUME NEW r \in Readings, LandLate(r) PROVE TypeOK'
  BY <1>1, LandLateTypeOK
<1>2. ASSUME NEW m \in Switched, NEW active \in BOOLEAN, SetMeterActive(m, active)
      PROVE  TypeOK'
  BY <1>2, SetMeterActiveTypeOK
<1>3. ASSUME NEW h \in Handlers, NEW r \in Readings, Post(h, r) PROVE TypeOK'
  BY <1>3, PostStepTypeOK
<1>4. ASSUME NEW h \in Handlers, ReadMeter(h) \/ Enqueue(h) \/ Refuse(h) PROVE TypeOK'
  BY <1>4, PostStepTypeOK, EnqueueTypeOK
<1>5. ASSUME NEW f \in Flushers, Flush(f) \/ Land(f) \/ Answer(f) \/ Fail(f) PROVE TypeOK'
  BY <1>5, FlushTypeOK, LandTypeOK, AnswerTypeOK, FailTypeOK
<1>6. ASSUME Crash \/ CrashInSave PROVE TypeOK'
  <2>1. disk' \in [torn : BOOLEAN, readings : Seq(Readings)] /\ Dies
    <3>1. CASE Crash
      BY <3>1 DEF Crash, TypeOK
    <3>2. CASE CrashInSave
      BY <3>2 DEF CrashInSave
    <3> QED
      BY <1>6, <3>1, <3>2
  <2> QED
    BY <2>1, DiesTypeOK
<1>7. CASE Restart
  BY <1>7, RestartTypeOK
<1>8. CASE UNCHANGED vars
  BY <1>8 DEF vars, process, history, TypeOK
<1> QED
  BY <1>1, <1>2, <1>3, <1>4, <1>5, <1>6, <1>7, <1>8 DEF Next

(* The scheduler is busy exactly while its flush runs, memory and file     *)
(* agree while the process runs, and no flush runs past its batch.         *)
THEOREM RelayerTypeOK == Spec => []TypeOK
<1> QED
  BY InitTypeOK, NextTypeOK, PTL DEF Spec

-----------------------------------------------------------------------------
(* No reading counts twice.                                                *)
(*                                                                         *)
(* A meter's nonce on the contract is never below that of a reading that   *)
(* landed, so whatever is accepted next is none of them.                   *)

NonceCovers ==
  \A i \in DOMAIN landed : landed[i].nonce <= chain[landed[i].meter].nonce

LEMMA ApplyNothingTwice ==
  ASSUME TypeOK, NothingTwice, NonceCovers, NEW r \in Readings, Apply(r)
  PROVE  NothingTwice' /\ NonceCovers'
<1>1. /\ r.meter \in Meters /\ r.nonce \in Nat /\ landed \in Seq(Readings)
      /\ chain \in [Meters -> MeterType] /\ chain[r.meter].nonce \in Nat
  BY ReadingFields, MeterFields DEF TypeOK
<1>2. CASE ~Accepts(r)
  BY <1>2 DEF Apply, NothingTwice, NonceCovers
<1>3. CASE Accepts(r)
  <2>1. /\ landed' = Append(landed, r)
        /\ chain' = [chain EXCEPT ![r.meter] =
                       [@ EXCEPT !.nonce = r.nonce, !.last_ts = r.timestamp]]
    BY <1>3 DEF Apply
  <2>2. r.nonce > chain[r.meter].nonce
    BY <1>1, <1>3 DEF Accepts, Rejects, Stale
  <2>3. /\ Len(landed) \in Nat /\ DOMAIN landed = 1 .. Len(landed)
        /\ DOMAIN landed' = 1 .. Len(landed) + 1 /\ landed'[Len(landed) + 1] = r
        /\ \A i \in DOMAIN landed : landed'[i] = landed[i] /\ landed[i] \in Readings
    BY <1>1, <2>1
  <2>4. \A i \in DOMAIN landed : landed[i] # r
    BY <1>1, <2>2, <2>3, ReadingFields DEF NonceCovers
  <2>5. NothingTwice'
    BY <2>3, <2>4 DEF NothingTwice
  <2>6. /\ chain'[r.meter].nonce = r.nonce
        /\ \A m \in Meters : m # r.meter => chain'[m] = chain[m]
    BY <1>1, <2>1 DEF MeterType
  <2>7. ASSUME NEW i \in DOMAIN landed
        PROVE  landed[i].nonce <= chain'[landed[i].meter].nonce
    <3>1. /\ landed[i].meter \in Meters /\ landed[i].nonce \in Nat
          /\ landed[i].nonce <= chain[landed[i].meter].nonce
      BY <2>3, ReadingFields DEF NonceCovers
    <3> QED
      BY <1>1, <2>2, <2>6, <3>1
  <2>8. NonceCovers'
    BY <1>1, <2>3, <2>6, <2>7 DEF NonceCovers
  <2> QED
    BY <2>5, <2>8
<1> QED
  BY <1>2, <1>3

LEMMA NextNothingTwice ==
  TypeOK /\ NothingTwice /\ NonceCovers /\ [Next]_vars => NothingTwice' /\ NonceCovers'
<1> SUFFICES ASSUME TypeOK, NothingTwice, NonceCovers, [Next]_vars
             PROVE  NothingTwice' /\ NonceCovers'
  OBVIOUS
<1>1. CASE UNCHANGED <<chain, landed>>
  BY <1>1 DEF NothingTwice, NonceCovers
<1>2. ASSUME NEW r \in Readings, LandLate(r) PROVE NothingTwice' /\ NonceCovers'
  BY <1>2, ApplyNothingTwice DEF LandLate
<1>3. ASSUME NEW f \in Flushers, Land(f) PROVE NothingTwice' /\ NonceCovers'
  <2>1. Current(f) \in Readings /\ Apply(Current(f))
    BY <1>3, CurrentIn DEF Land
  <2> QED
    BY <2>1, ApplyNothingTwice
<1>4. ASSUME NEW m \in Switched, NEW active \in BOOLEAN, SetMeterActive(m, active)
      PROVE  NothingTwice' /\ NonceCovers'
  <2>1. landed' = landed /\ \A n \in Meters : chain'[n].nonce = chain[n].nonce
    BY <1>4, RelayerAssumption DEF SetMeterActive, history, TypeOK, MeterType
  <2>2. \A i \in DOMAIN landed : landed[i].meter \in Meters
    BY ReadingFields DEF TypeOK
  <2> QED
    BY <2>1, <2>2 DEF NothingTwice, NonceCovers
<1> QED
  BY <1>1, <1>2, <1>3, <1>4
  DEF Next, Post, ReadMeter, Enqueue, Refuse, Flush, Answer, Fail, Crash, CrashInSave, Dies,
      Restart, history, vars

(* However often the relayer submits a reading, it counts once.            *)
THEOREM RelayerNothingTwice == Spec => []NothingTwice
<1>1. Init => NothingTwice /\ NonceCovers
  BY DEF Init, NothingTwice, NonceCovers
<1> QED
  BY <1>1, NextNothingTwice, RelayerTypeOK, PTL DEF Spec

-----------------------------------------------------------------------------
(* The queue is in order, and so is the file it may be read back from.     *)

InOrder(s) ==
  \A i, j \in DOMAIN s : i < j /\ s[i].meter = s[j].meter => s[i].nonce < s[j].nonce

LEMMA SuffixInOrder ==
  ASSUME items \in Seq(Readings), InOrder(items), NEW n \in Nat
  PROVE  InOrder(RemovedFirst(n))
<1> DEFINE s == SubSeq(items, n + 1, Len(items))
<1>1. ASSUME NEW i \in DOMAIN s PROVE i \in Nat /\ i + n \in DOMAIN items /\ s[i] = items[i + n]
  BY <1>1
<1> HIDE DEF s
<1>2. InOrder(s)
  BY <1>1 DEF InOrder
<1> QED
  BY <1>2 DEF s, RemovedFirst

LEMMA AppendInOrder ==
  ASSUME items \in Seq(Readings), InOrder(items), NEW r \in Readings,
         \A nonce \in Queued(r.meter) : r.nonce > nonce
  PROVE  InOrder(Append(items, r))
<1>1. ASSUME NEW i \in DOMAIN items, items[i].meter = r.meter
      PROVE  items[i].nonce < r.nonce
  <2>1. items[i].nonce \in Queued(r.meter) /\ items[i] \in Readings
    BY <1>1 DEF Queued
  <2> QED
    BY <2>1, ReadingFields
<1> QED
  BY <1>1 DEF InOrder

LEMMA FinishInOrder ==
  ASSUME TypeOK, InOrder(items), InOrder(disk.readings), NEW f, NEW fl \in FlushType,
         Finish(f, fl)
  PROVE  InOrder(items') /\ InOrder(disk'.readings)
<1>1. Done(fl) \in Nat /\ items \in Seq(Readings)
  BY FlushStage, FlushFields DEF TypeOK
<1>2. CASE Done(fl) = 0
  BY <1>2 DEF Finish
<1>3. CASE Done(fl) # 0
  BY <1>1, <1>3, SuffixInOrder DEF Finish
<1> QED
  BY <1>2, <1>3

LEMMA NextInOrder ==
  TypeOK /\ InOrder(items) /\ InOrder(disk.readings) /\ [Next]_vars
    => InOrder(items)' /\ InOrder(disk.readings)'
<1> SUFFICES ASSUME TypeOK, InOrder(items), InOrder(disk.readings), [Next]_vars
             PROVE  InOrder(items') /\ InOrder(disk'.readings)
  BY DEF InOrder
<1>1. CASE UNCHANGED <<items, disk>>
  BY <1>1
<1>2. ASSUME NEW h \in Handlers, Enqueue(h)
      PROVE  InOrder(items') /\ InOrder(disk'.readings)
  <2>1. /\ post[h].reading \in Readings /\ items \in Seq(Readings)
        /\ \A nonce \in Queued(post[h].reading.meter) : post[h].reading.nonce > nonce
    BY <1>2, PostFields DEF Enqueue, TypeOK, Fresh
  <2> QED
    BY <1>2, <2>1, AppendInOrder DEF Enqueue
<1>3. ASSUME NEW f \in Flushers, Answer(f)
      PROVE  InOrder(items') /\ InOrder(disk'.readings)
  <2>1. CASE GoesOn(f)
    BY <1>3, <2>1 DEF Answer
  <2>2. CASE ~GoesOn(f)
    BY <1>3, <2>2, CountedIn, FinishInOrder DEF Answer
  <2> QED
    BY <2>1, <2>2
<1>4. ASSUME NEW f \in Flushers, Fail(f)
      PROVE  InOrder(items') /\ InOrder(disk'.readings)
  BY <1>4, FlushFields, FinishInOrder DEF Fail, TypeOK
<1>5. CASE Crash \/ CrashInSave
  <2>1. items' = <<>> /\ (disk' = disk \/ disk'.readings = <<>>)
    BY <1>5 DEF Crash, CrashInSave, Dies
  <2> QED
    BY <2>1 DEF InOrder
<1>6. CASE Restart
  BY <1>6 DEF Restart
<1> QED
  BY <1>1, <1>2, <1>3, <1>4, <1>5, <1>6
  DEF Next, LandLate, SetMeterActive, Post, ReadMeter, Refuse, Flush, Land, process, vars

(* The readings of a meter stay in the order of their nonces.              *)
THEOREM RelayerQueueInOrder == Spec => []QueueInOrder
<1>1. Init => InOrder(items) /\ InOrder(disk.readings)
  BY DEF Init, InOrder
<1>2. InOrder(items) => QueueInOrder
  BY DEF InOrder, QueueInOrder
<1> QED
  BY <1>1, <1>2, NextInOrder, RelayerTypeOK, PTL DEF Spec

-----------------------------------------------------------------------------
(* No acknowledged reading is lost, while no two flushes overlap.          *)
(*                                                                         *)
(* A flush removes as many readings from the front of the queue as it has  *)
(* dealt with: those are the right ones because its batch is still what    *)
(* the queue begins with.                                                  *)

Settled == ToSet(landed) \cup rejected

AtFront(f) ==
  /\ Len(flushing[f].batch) <= Len(items)
  /\ \A i \in 1 .. Len(flushing[f].batch) : flushing[f].batch[i] = items[i]

DealtWith(f) ==
  /\ \A i \in 1 .. Done(flushing[f]) : flushing[f].batch[i] \in Settled
  /\ flushing[f].stage = "accepted" => Current(f) \in ToSet(landed)

Asleep ==
  ~up => /\ \A h \in Handlers : post[h].stage = "idle"
         /\ \A f \in Flushers : flushing[f].stage = "idle"

SafeInv ==
  /\ NothingLost /\ Asleep
  /\ \A f \in Flushers : flushing[f].stage # "idle" => AtFront(f) /\ DealtWith(f)

LEMMA ApplySettles ==
  ASSUME TypeOK, NEW r \in Readings, Apply(r)
  PROVE  /\ ToSet(landed) \subseteq ToSet(landed')
         /\ Accepts(r) => r \in ToSet(landed')
<1>1. landed \in Seq(Readings)
  BY DEF TypeOK
<1>2. CASE Accepts(r)
  <2>1. landed' = Append(landed, r)
    BY <1>2 DEF Apply
  <2>2. /\ Len(landed) \in Nat /\ DOMAIN landed = 1 .. Len(landed)
        /\ DOMAIN landed' = 1 .. Len(landed) + 1 /\ landed'[Len(landed) + 1] = r
        /\ \A i \in DOMAIN landed : landed'[i] = landed[i]
    BY <1>1, <2>1
  <2> QED
    BY <2>2 DEF ToSet
<1>3. CASE ~Accepts(r)
  BY <1>3 DEF Apply
<1> QED
  BY <1>2, <1>3

(* What is settled stays so when only the contract moves. *)
LEMMA MoreLanded ==
  ASSUME TypeOK, SafeInv, ToSet(landed) \subseteq ToSet(landed'),
         UNCHANGED <<process, acked, rejected>>
  PROVE  SafeInv'
<1>1. NothingLost'
  BY DEF SafeInv, NothingLost, process
<1>2. Asleep'
  BY DEF SafeInv, Asleep, process
<1>3. Settled \subseteq Settled'
  BY DEF Settled
<1>4. \A f \in Flushers : flushing'[f].stage # "idle" => AtFront(f)' /\ DealtWith(f)'
  BY <1>3 DEF SafeInv, AtFront, DealtWith, process, Current, Done
<1> QED
  BY <1>1, <1>2, <1>4 DEF SafeInv

LEMMA EnqueueSafe ==
  ASSUME TypeOK, SafeInv, NEW h \in Handlers, Enqueue(h)
  PROVE  SafeInv'
<1> DEFINE r == post[h].reading
<1>1. /\ r \in Readings /\ items \in Seq(Readings) /\ post[h].stage = "read"
      /\ \A nonce \in Queued(r.meter) : r.nonce > nonce
      /\ DOMAIN flushing = Flushers
  BY PostFields DEF Enqueue, TypeOK, Fresh
<1>2. /\ items' = Append(items, r) /\ disk' = [torn |-> FALSE, readings |-> items']
      /\ acked' = acked \cup {r} /\ rejected' = rejected \ {r}
      /\ post' = [post EXCEPT ![h] = NoPost] /\ UNCHANGED <<up, landed, flushing>>
  BY DEF Enqueue
<1> HIDE DEF r
<1>3. up /\ disk = [torn |-> FALSE, readings |-> items]
  BY <1>1 DEF SafeInv, Asleep, TypeOK
<1>4. /\ Len(items') = Len(items) + 1 /\ items'[Len(items) + 1] = r /\ Len(items) \in Nat
      /\ \A i \in 1 .. Len(items) : items'[i] = items[i]
      /\ ToSet(items') = ToSet(items) \cup {r}
  <2>1. /\ Len(items) \in Nat /\ Len(items') = Len(items) + 1 /\ items'[Len(items) + 1] = r
        /\ \A i \in 1 .. Len(items) : items'[i] = items[i]
        /\ DOMAIN items = 1 .. Len(items) /\ DOMAIN items' = 1 .. Len(items) + 1
    BY <1>1, <1>2
  <2>2. ToSet(items') = ToSet(items) \cup {r}
    BY <2>1 DEF ToSet
  <2> QED
    BY <2>1, <2>2
<1>5. NothingLost'
  BY <1>2, <1>3, <1>4 DEF SafeInv, NothingLost
<1>6. Asleep'
  BY <1>2, <1>3 DEF Asleep
<1>7. \A i \in 1 .. Len(items) : items[i] # r
  <2> SUFFICES ASSUME NEW i \in 1 .. Len(items), items[i] = r PROVE FALSE
    OBVIOUS
  <2>1. r.nonce \in Queued(r.meter)
    BY <1>1 DEF Queued
  <2> QED
    BY <1>1, <2>1, ReadingFields
<1>8. ASSUME NEW f \in Flushers, flushing[f].stage # "idle"
      PROVE  AtFront(f)' /\ DealtWith(f)'
  <2>1. AtFront(f) /\ DealtWith(f)
    BY <1>8 DEF SafeInv
  <2>2. /\ Len(flushing[f].batch) \in Nat /\ Done(flushing[f]) \in Nat
        /\ Done(flushing[f]) < Len(flushing[f].batch)
    BY <1>8, FlushFields DEF TypeOK
  <2>3. AtFront(f)'
    BY <1>2, <1>4, <2>1, <2>2 DEF AtFront
  <2>4. ASSUME NEW i \in 1 .. Done(flushing[f])
        PROVE  flushing[f].batch[i] \in Settled'
    <3>1. flushing[f].batch[i] \in Settled /\ flushing[f].batch[i] # r
      BY <1>4, <1>7, <2>1, <2>2 DEF AtFront, DealtWith
    <3> QED
      BY <1>2, <3>1 DEF Settled
  <2>5. DealtWith(f)'
    BY <1>2, <2>1, <2>4 DEF DealtWith, Current, Done
  <2> QED
    BY <2>3, <2>5
<1> QED
  BY <1>2, <1>5, <1>6, <1>8 DEF SafeInv

LEMMA FlushSafe ==
  ASSUME TypeOK, SafeInv, NEW f \in Flushers, Flush(f)
  PROVE  SafeInv'
<1> DEFINE new == [stage |-> "sent", batch |-> Peek, submitted |-> 0, dropped |-> 0]
<1>1. /\ Peek \in Seq(Readings) /\ Len(Peek) \in Nat /\ Len(Peek) <= Len(items)
      /\ \A i \in 1 .. Len(Peek) : Peek[i] = items[i]
  BY PeekFacts DEF Flush, TypeOK
<1>2. new.stage = "sent" /\ new.batch = Peek /\ Done(new) = 0
  BY DEF Done
<1>3. /\ flushing' = [flushing EXCEPT ![f] = new] /\ up /\ DOMAIN flushing = Flushers
      /\ UNCHANGED <<up, items, disk, post, acked, landed, rejected>>
  BY DEF Flush, TypeOK, history
<1> HIDE DEF new
<1>4. NothingLost' /\ Asleep'
  BY <1>3 DEF SafeInv, NothingLost, Asleep
<1>5. AtFront(f)' /\ DealtWith(f)'
  BY <1>1, <1>2, <1>3 DEF AtFront, DealtWith
<1>6. ASSUME NEW g \in Flushers, g # f, flushing'[g].stage # "idle"
      PROVE  AtFront(g)' /\ DealtWith(g)'
  BY <1>3, <1>6 DEF SafeInv, AtFront, DealtWith, Current, Settled
<1> QED
  BY <1>4, <1>5, <1>6 DEF SafeInv

LEMMA LandSafe ==
  ASSUME TypeOK, SafeInv, NEW f \in Flushers, Land(f)
  PROVE  SafeInv'
<1>1. Current(f) \in Readings /\ Apply(Current(f)) /\ flushing[f].stage = "sent"
  BY CurrentIn DEF Land
<1>2. /\ ToSet(landed) \subseteq ToSet(landed')
      /\ Accepts(Current(f)) => Current(f) \in ToSet(landed')
  BY <1>1, ApplySettles
<1>3. PICK s \in {"accepted", "rejected", "trapped"} :
        /\ flushing' = [flushing EXCEPT ![f].stage = s]
        /\ s = "accepted" => Accepts(Current(f))
  <2>1. CASE Accepts(Current(f))
    BY <2>1 DEF Land, Accepts
  <2>2. CASE ~Accepts(Current(f)) /\ Rejects(Current(f))
    BY <2>2 DEF Land
  <2>3. CASE ~Accepts(Current(f)) /\ ~Rejects(Current(f))
    BY <2>3 DEF Land
  <2> QED
    BY <2>1, <2>2, <2>3
<1>4. UNCHANGED <<up, items, disk, post, acked, rejected>> /\ DOMAIN flushing = Flushers
  BY DEF Land, TypeOK
<1>5. NothingLost'
  BY <1>2, <1>4 DEF SafeInv, NothingLost
<1>6. Asleep'
  BY <1>1, <1>4 DEF SafeInv, Asleep
<1>7. Settled \subseteq Settled'
  BY <1>2, <1>4 DEF Settled
<1>8. ASSUME NEW g \in Flushers, g # f, flushing'[g].stage # "idle"
      PROVE  AtFront(g)' /\ DealtWith(g)'
  BY <1>2, <1>3, <1>4, <1>7, <1>8 DEF SafeInv, AtFront, DealtWith, Current
<1>9. AtFront(f)' /\ DealtWith(f)'
  <2>1. flushing[f] \in FlushType
    BY <1>1, FlushFields DEF TypeOK
  <2>2. /\ flushing'[f].batch = flushing[f].batch /\ flushing'[f].stage = s
        /\ Done(flushing'[f]) = Done(flushing[f])
    BY <1>3, <1>4, <2>1 DEF FlushType, Done
  <2>3. Current(f)' = Current(f)
    BY <2>2 DEF Current
  <2>4. AtFront(f) /\ DealtWith(f)
    BY <1>1 DEF SafeInv
  <2> QED
    BY <1>2, <1>3, <1>4, <1>7, <2>2, <2>3, <2>4 DEF AtFront, DealtWith
<1> QED
  BY <1>5, <1>6, <1>8, <1>9 DEF SafeInv

(* The readings a flush removes are those it dealt with. *)
LEMMA FinishSafe ==
  ASSUME TypeOK, SafeInv, \A f, g \in Flushers : f = g,
         NEW f \in Flushers, flushing[f].stage # "idle",
         NEW fl \in FlushType, Finish(f, fl), fl.batch = flushing[f].batch,
         Done(fl) <= Len(fl.batch), \A i \in 1 .. Done(fl) : fl.batch[i] \in Settled',
         Settled \subseteq Settled', UNCHANGED <<up, post, acked>>
  PROVE  SafeInv'
<1>1. /\ Done(fl) \in Nat /\ fl.batch \in Seq(Readings) /\ items \in Seq(Readings)
      /\ Len(items) \in Nat /\ Len(fl.batch) \in Nat
  BY FlushStage, FlushFields DEF TypeOK
<1>2. AtFront(f) /\ up /\ disk = [torn |-> FALSE, readings |-> items]
  BY DEF SafeInv, Asleep, TypeOK
<1>3. \A g \in Flushers : flushing'[g].stage = "idle"
  BY DEF Finish, NoFlush, TypeOK
<1>4. acked \subseteq ToSet(items) \cup Settled
  BY <1>2 DEF SafeInv, NothingLost, Settled
<1>5. ToSet(items) \subseteq ToSet(disk'.readings) \cup Settled'
  <2>1. CASE Done(fl) = 0
    BY <1>2, <2>1 DEF Finish
  <2>2. CASE Done(fl) # 0
    <3> DEFINE s == SubSeq(items, Done(fl) + 1, Len(items))
    <3>1. disk'.readings = s
      BY <2>2 DEF Finish, RemovedFirst
    <3>2. /\ DOMAIN s = 1 .. Len(items) - Done(fl)
          /\ \A j \in 1 .. Len(items) - Done(fl) : s[j] = items[j + Done(fl)]
      BY <1>1, <1>2 DEF AtFront
    <3> HIDE DEF s
    <3>3. ASSUME NEW i \in DOMAIN items PROVE items[i] \in ToSet(s) \cup Settled'
      <4>1. i \in 1 .. Len(items)
        BY <1>1
      <4>2. CASE i <= Done(fl)
        BY <1>1, <1>2, <4>1, <4>2 DEF AtFront
      <4>3. CASE i > Done(fl)
        <5>1. i - Done(fl) \in DOMAIN s /\ s[i - Done(fl)] = items[i]
          BY <1>1, <3>2, <4>1, <4>3
        <5> QED
          BY <5>1 DEF ToSet
      <4> QED
        BY <1>1, <4>1, <4>2, <4>3
    <3> QED
      BY <3>1, <3>3 DEF ToSet
  <2> QED
    BY <2>1, <2>2
<1>6. NothingLost'
  <2>1. acked' \subseteq ToSet(disk'.readings) \cup Settled'
    BY <1>4, <1>5
  <2> QED
    BY <2>1 DEF NothingLost, Settled
<1> QED
  BY <1>2, <1>3, <1>6 DEF SafeInv, Asleep

LEMMA AnswerSafe ==
  ASSUME TypeOK, SafeInv, \A f, g \in Flushers : f = g, NEW f \in Flushers, Answer(f)
  PROVE  SafeInv'
<1> DEFINE fl == Counted(f)
<1>1. flushing[f].stage \in {"accepted", "rejected", "trapped"}
  BY DEF Answer
<1>2. /\ fl \in FlushType /\ fl.batch = flushing[f].batch
      /\ flushing[f].stage \in {"accepted", "rejected"} => Done(fl) = Done(flushing[f]) + 1
      /\ flushing[f].stage \notin {"accepted", "rejected"} => Done(fl) = Done(flushing[f])
  BY <1>1, CountedIn
<1>3. /\ Done(flushing[f]) \in Nat /\ Done(flushing[f]) < Len(flushing[f].batch)
      /\ Len(flushing[f].batch) \in Nat
  BY <1>1, FlushFields DEF TypeOK
<1>4. AtFront(f) /\ DealtWith(f)
  BY <1>1 DEF SafeInv
<1>5. /\ rejected' = IF flushing[f].stage = "rejected" THEN rejected \cup {Current(f)}
                     ELSE rejected
      /\ UNCHANGED <<chain, late, up, post, faults, acked, landed>>
  BY DEF Answer
<1>6. Settled \subseteq Settled'
  BY <1>5 DEF Settled
<1>7. flushing[f].stage \in {"accepted", "rejected"} => Current(f) \in Settled'
  BY <1>4, <1>5 DEF DealtWith, Settled
<1> HIDE DEF fl
<1>8. Done(fl) <= Len(fl.batch) /\ \A i \in 1 .. Done(fl) : fl.batch[i] \in Settled'
  <2>1. \A i \in 1 .. Done(flushing[f]) : fl.batch[i] \in Settled'
    BY <1>2, <1>4, <1>6 DEF DealtWith
  <2>2. CASE flushing[f].stage \in {"accepted", "rejected"}
    <3>1. fl.batch[Done(fl)] \in Settled'
      BY <1>2, <1>7, <2>2 DEF Current
    <3> QED
      BY <1>2, <1>3, <2>1, <2>2, <3>1
  <2>3. CASE flushing[f].stage \notin {"accepted", "rejected"}
    BY <1>2, <1>3, <2>1, <2>3
  <2> QED
    BY <2>2, <2>3
<1>9. CASE GoesOn(f)
  <2>1. /\ flushing' = [flushing EXCEPT ![f] = fl] /\ UNCHANGED <<items, disk>>
        /\ DOMAIN flushing = Flushers
    BY <1>9 DEF Answer, fl, TypeOK
  <2>2. NothingLost'
    BY <1>5, <1>6, <2>1 DEF SafeInv, NothingLost, Settled
  <2>3. up /\ Asleep'
    BY <1>1, <1>5 DEF SafeInv, Asleep
  <2>4. fl.stage # "accepted"
    BY <1>1, <1>9 DEF fl, Counted, GoesOn, TypeOK, FlushType, NoFlush
  <2>5. AtFront(f)' /\ DealtWith(f)'
    BY <1>2, <1>4, <1>8, <2>1, <2>4 DEF AtFront, DealtWith
  <2> QED
    BY <2>2, <2>3, <2>5 DEF SafeInv
<1>10. CASE ~GoesOn(f)
  <2>1. Finish(f, fl)
    BY <1>10 DEF Answer, fl
  <2> QED
    BY <1>1, <1>2, <1>5, <1>6, <1>8, <2>1, FinishSafe
<1> QED
  BY <1>9, <1>10

LEMMA FailSafe ==
  ASSUME TypeOK, SafeInv, \A f, g \in Flushers : f = g, NEW f \in Flushers, Fail(f)
  PROVE  SafeInv'
<1>1. flushing[f] \in FlushType /\ flushing[f].stage # "idle" /\ DealtWith(f)
  BY FlushFields DEF Fail, TypeOK, SafeInv
<1>2. Done(flushing[f]) <= Len(flushing[f].batch)
  BY <1>1, FlushFields DEF TypeOK
<1>3. UNCHANGED <<up, post, acked, landed, rejected>> /\ Finish(f, flushing[f])
  BY DEF Fail, history
<1>4. Settled' = Settled
  BY <1>3 DEF Settled
<1>5. \A i \in 1 .. Done(flushing[f]) : flushing[f].batch[i] \in Settled'
  BY <1>1, <1>4 DEF DealtWith
<1> QED
  BY <1>1, <1>2, <1>3, <1>4, <1>5, FinishSafe

LEMMA DiesSafe ==
  ASSUME TypeOK, SafeInv, Dies, disk'.torn \/ disk' = disk
  PROVE  SafeInv'
<1>1. UNCHANGED <<acked, landed, rejected>> /\ \A f \in Flushers : flushing'[f].stage = "idle"
  BY DEF Dies, history, NoFlush
<1>2. NothingLost'
  BY <1>1 DEF SafeInv, NothingLost
<1>3. Asleep'
  BY <1>1 DEF Asleep, Dies, NoPost
<1> QED
  BY <1>1, <1>2, <1>3 DEF SafeInv

LEMMA QuietSafe ==
  ASSUME TypeOK, SafeInv, NEW h \in Handlers,
         \/ \E r \in Readings : Post(h, r)
         \/ ReadMeter(h) \/ Refuse(h)
  PROVE  SafeInv'
<1>1. UNCHANGED <<chain, late, up, items, disk, flushing, flushBusy, faults, history>>
  BY DEF Post, ReadMeter, Refuse
<1>2. up
  BY DEF Post, ReadMeter, Refuse, SafeInv, Asleep
<1>3. NothingLost' /\ Asleep'
  BY <1>1, <1>2 DEF SafeInv, NothingLost, Asleep, history
<1>4. \A f \in Flushers : flushing'[f].stage # "idle" => AtFront(f)' /\ DealtWith(f)'
  BY <1>1 DEF SafeInv, AtFront, DealtWith, Current, Settled, history
<1> QED
  BY <1>3, <1>4 DEF SafeInv

LEMMA NextSafe ==
  ASSUME \A f, g \in Flushers : f = g
  PROVE  TypeOK /\ SafeInv /\ [Next]_vars => SafeInv'
<1> SUFFICES ASSUME TypeOK, SafeInv, [Next]_vars PROVE SafeInv'
  OBVIOUS
<1>1. ASSUME NEW r \in Readings, LandLate(r) PROVE SafeInv'
  <2>1. ToSet(landed) \subseteq ToSet(landed') /\ UNCHANGED <<process, acked, rejected>>
    BY <1>1, ApplySettles DEF LandLate
  <2> QED
    BY <2>1, MoreLanded
<1>2. ASSUME NEW m \in Switched, NEW active \in BOOLEAN, SetMeterActive(m, active)
      PROVE  SafeInv'
  BY <1>2, MoreLanded DEF SetMeterActive, history
<1>3. ASSUME NEW h \in Handlers, NEW r \in Readings, Post(h, r) PROVE SafeInv'
  BY <1>3, QuietSafe
<1>4. ASSUME NEW h \in Handlers, ReadMeter(h) \/ Enqueue(h) \/ Refuse(h) PROVE SafeInv'
  BY <1>4, QuietSafe, EnqueueSafe
<1>5. ASSUME NEW f \in Flushers, Flush(f) \/ Land(f) \/ Answer(f) \/ Fail(f) PROVE SafeInv'
  BY <1>5, FlushSafe, LandSafe, AnswerSafe, FailSafe
<1>6. CASE Crash \/ CrashInSave
  <2>1. Dies /\ (disk'.torn \/ disk' = disk)
    BY <1>6 DEF Crash, CrashInSave
  <2> QED
    BY <2>1, DiesSafe
<1>7. CASE Restart
  <2>1. /\ \A f \in Flushers : flushing'[f].stage = "idle"
        /\ up' /\ UNCHANGED <<disk, acked, landed, rejected>>
    BY <1>7 DEF Restart, SafeInv, Asleep, history
  <2> QED
    BY <2>1 DEF SafeInv, Asleep, NothingLost
<1>8. CASE UNCHANGED vars
  BY <1>8, MoreLanded DEF vars, history
<1> QED
  BY <1>1, <1>2, <1>3, <1>4, <1>5, <1>6, <1>7, <1>8 DEF Next

(* While flushes do not overlap, no acknowledged reading is lost, however  *)
(* many calls fail and crashes happen outside a write of the queue file.   *)
THEOREM RelayerNothingLost ==
  ASSUME \A f, g \in Flushers : f = g
  PROVE  Spec => []NothingLost
<1>1. Init => SafeInv
  BY DEF Init, SafeInv, NothingLost, Asleep, NoPost, NoFlush
<1>2. SafeInv => NothingLost
  BY DEF SafeInv
<1> QED
  BY <1>1, <1>2, NextSafe, RelayerTypeOK, PTL DEF Spec

-----------------------------------------------------------------------------
(* What the relayer is told of the contract: the gate. *)

LandedOf(m) == {i \in DOMAIN landed : landed[i].meter = m}

Counts == [m \in Meters |-> Cardinality(LandedOf(m))]

LEMMA InitGate == Init => Gate!Init
<1> SUFFICES ASSUME Init PROVE Gate!Init
  OBVIOUS
<1>1. \A m \in Meters : LandedOf(m) = {}
  BY DEF Init, LandedOf
<1>2. Cardinality({}) = 0
  BY FS_EmptySet
<1>3. Counts = [m \in Meters |-> 0]
  BY <1>1, <1>2 DEF Counts
<1>4. chain = [m \in Meters |-> Gate!Fresh]
  BY DEF Init, Gate!Fresh
<1> QED
  BY <1>3, <1>4 DEF Gate!Init, Counts, LandedOf

LEMMA GateStutters ==
  ASSUME UNCHANGED <<chain, landed>>
  PROVE  UNCHANGED Gate!vars
<1>1. Counts' = Counts
  BY DEF Counts, LandedOf
<1> QED
  BY <1>1 DEF Gate!vars, Counts, LandedOf

LEMMA OneMoreLanded ==
  ASSUME TypeOK, NEW r \in Readings, landed' = Append(landed, r)
  PROVE  Counts' = [Counts EXCEPT ![r.meter] = @ + 1]
<1> DEFINE n == Len(landed)
<1>1. /\ n \in Nat /\ DOMAIN landed = 1 .. n /\ DOMAIN landed' = 1 .. n + 1
      /\ landed'[n + 1] = r /\ \A i \in 1 .. n : landed'[i] = landed[i]
      /\ r.meter \in Meters
  BY ReadingFields DEF TypeOK
<1> HIDE DEF n
<1>2. ASSUME NEW m \in Meters, m # r.meter PROVE LandedOf(m)' = LandedOf(m)
  BY <1>1, <1>2 DEF LandedOf
<1>3. LandedOf(r.meter)' = LandedOf(r.meter) \cup {n + 1}
  BY <1>1 DEF LandedOf
<1>4. /\ IsFiniteSet(LandedOf(r.meter)) /\ n + 1 \notin LandedOf(r.meter)
  <2>1. IsFiniteSet(1 .. n)
    BY <1>1, FS_Interval
  <2>2. LandedOf(r.meter) \in SUBSET (1 .. n) /\ n + 1 \notin 1 .. n
    BY <1>1 DEF LandedOf
  <2> QED
    BY <2>1, <2>2, FS_Subset
<1>5. Cardinality(LandedOf(r.meter)') = Cardinality(LandedOf(r.meter)) + 1
  BY <1>3, <1>4, FS_AddElement
<1>6. \A m \in Meters : Counts'[m] = IF m = r.meter THEN Counts[m] + 1 ELSE Counts[m]
  BY <1>2, <1>5 DEF Counts
<1>7. /\ Counts' = [m \in Meters |-> Counts'[m]] /\ Counts = [m \in Meters |-> Counts[m]]
  BY DEF Counts
<1> QED
  BY <1>1, <1>6, <1>7

LEMMA ApplyGate ==
  ASSUME TypeOK, NEW r \in Readings, Apply(r)
  PROVE  [Gate!Next]_(Gate!vars)
<1>1. CASE ~Accepts(r)
  BY <1>1, GateStutters DEF Apply
<1>2. CASE Accepts(r)
  <2>1. PICK m \in Meters : m = r.meter
    BY ReadingFields
  <2> DEFINE new == [chain[m] EXCEPT !.nonce = r.nonce, !.last_ts = r.timestamp]
  <2>2. /\ chain' = [chain EXCEPT ![m] = new] /\ landed' = Append(landed, r)
    BY <1>2, <2>1 DEF Apply
  <2>3. /\ chain \in [Meters -> MeterType] /\ chain[m] \in MeterType
        /\ chain[m].nonce \in Nat /\ chain[m].last_ts \in Nat
        /\ r.nonce \in Nat /\ r.timestamp \in Nat
    BY MeterFields, ReadingFields DEF TypeOK
  <2>4. /\ chain[m].active = TRUE /\ r.nonce > chain[m].nonce
        /\ r.timestamp >= chain[m].last_ts
    BY <1>2, <2>1, <2>3, MeterFields DEF Accepts, Rejects, Stale
  <2>5. /\ new.active = TRUE /\ new.nonce = r.nonce /\ new.last_ts = r.timestamp
        /\ new = [active |-> new.active, nonce |-> new.nonce, last_ts |-> new.last_ts]
    <3>1. new \in MeterType /\ new.active = chain[m].active /\ new.nonce = r.nonce
          /\ new.last_ts = r.timestamp
      BY <2>3 DEF MeterType
    <3> HIDE DEF new
    <3>2. new = [active |-> new.active, nonce |-> new.nonce, last_ts |-> new.last_ts]
      BY <3>1 DEF MeterType
    <3> QED
      BY <2>4, <3>1, <3>2
  <2> HIDE DEF new
  <2>6. chain'[m] = new
    BY <2>2, <2>3
  <2>7. /\ chain'[m].nonce > chain[m].nonce /\ chain'[m].last_ts >= chain[m].last_ts
        /\ chain' = [chain EXCEPT ![m] = [active |-> TRUE, nonce |-> chain'[m].nonce,
                                          last_ts |-> chain'[m].last_ts]]
    BY <2>2, <2>3, <2>4, <2>5, <2>6
  <2>8. Counts' = [Counts EXCEPT ![m] = @ + 1]
    BY <2>1, <2>2, OneMoreLanded
  <2> QED
    BY <2>4, <2>7, <2>8 DEF Gate!Next, Gate!Rises, Counts, LandedOf
<1> QED
  BY <1>1, <1>2

LEMMA SetMeterActiveGate ==
  ASSUME TypeOK, NEW m \in Switched, NEW active \in BOOLEAN, SetMeterActive(m, active)
  PROVE  [Gate!Next]_(Gate!vars)
<1>1. m \in Meters /\ chain \in [Meters -> MeterType] /\ chain[m].active \in BOOLEAN
  BY RelayerAssumption, MeterFields DEF TypeOK
<1>2. chain' = [chain EXCEPT ![m].active = active] /\ landed' = landed
  BY DEF SetMeterActive, history
<1>3. CASE active = chain[m].active
  <2>1. chain' = chain
    BY <1>1, <1>2, <1>3 DEF MeterType
  <2> QED
    BY <1>2, <2>1, GateStutters
<1>4. CASE active # chain[m].active
  <2>1. active = ~chain[m].active
    BY <1>1, <1>4
  <2>2. chain' = [chain EXCEPT ![m].active = ~@]
    BY <1>2, <2>1
  <2>3. Counts' = Counts
    BY <1>2 DEF Counts, LandedOf
  <2> QED
    BY <1>1, <2>2, <2>3 DEF Gate!Next, Gate!Switch, Counts, LandedOf
<1> QED
  BY <1>3, <1>4

(* Whatever the relayer submits, repeats or gives up on, the meters it     *)
(* talks to move as the gate does, which is all the contract promises.     *)
THEOREM RelayerKeepsTheGate == Spec => KeepsTheGate
<1>1. TypeOK /\ [Next]_vars => [Gate!Next]_(Gate!vars)
  <2> SUFFICES ASSUME TypeOK, [Next]_vars PROVE [Gate!Next]_(Gate!vars)
    OBVIOUS
  <2>1. CASE UNCHANGED <<chain, landed>>
    BY <2>1, GateStutters
  <2>2. ASSUME NEW r \in Readings, LandLate(r) PROVE [Gate!Next]_(Gate!vars)
    BY <2>2, ApplyGate DEF LandLate
  <2>3. ASSUME NEW f \in Flushers, Land(f) PROVE [Gate!Next]_(Gate!vars)
    <3>1. Current(f) \in Readings /\ Apply(Current(f))
      BY <2>3, CurrentIn DEF Land
    <3> QED
      BY <3>1, ApplyGate
  <2>4. ASSUME NEW m \in Switched, NEW active \in BOOLEAN, SetMeterActive(m, active)
        PROVE  [Gate!Next]_(Gate!vars)
    BY <2>4, SetMeterActiveGate
  <2> QED
    BY <2>1, <2>2, <2>3, <2>4
    DEF Next, Post, ReadMeter, Enqueue, Refuse, Flush, Answer, Fail, Crash, CrashInSave, Dies,
        Restart, history, vars
<1> QED
  BY <1>1, InitGate, RelayerTypeOK, PTL DEF Spec, KeepsTheGate, Gate!Spec

=============================================================================
