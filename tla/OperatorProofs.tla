---------------------------- MODULE OperatorProofs ----------------------------
(***************************************************************************)
(* Proofs about the operator's side, for every number of meters and of     *)
(* faults, whether or not fetching the contract's spec may fail.           *)
(***************************************************************************)
EXTENDS OperatorProps, TLAPS

Stages == {"idle", "dialling", "sent"} \cup Landed

CallType == [stage : Stages, ids : SUBSET MeterIds]

DiskType(meters) == [torn : BOOLEAN, meters : SUBSET meters]

ClientType == [{"relayer", "admin"} -> {"none", "pending", "ready", "rejected"}]

(* The admin's call has a meter in hand only once it was registered, and   *)
(* nothing runs in a process that is down.                                 *)
InHand ==
  /\ call["admin"].ids \subseteq 1 .. known
  /\ call["admin"].stage \notin Landed => call["admin"].ids = {}

Asleep == ~up => \A c \in Callers : call[c].stage = "idle"

OInv == TypeOK /\ NoneForgotten /\ NoneBetween /\ InHand /\ Asleep

LEMMA IdleCall == Idle \in CallType /\ Idle.stage = "idle" /\ Idle.ids = {} /\ "idle" \notin Landed
  BY DEF Idle, CallType, Stages, Landed

LEMMA CallFields ==
  ASSUME TypeOK
  PROVE  /\ call \in [Callers -> CallType]
         /\ \A c \in Callers : /\ call[c] \in CallType /\ call[c].stage \in Stages
                               /\ call[c].ids \subseteq MeterIds
<1>1. call \in [Callers -> CallType]
  BY DEF TypeOK, CallType, Stages
<1> QED
  BY <1>1 DEF CallType

LEMMA Callees == "admin" \in Callers /\ "job" \in Callers /\ "http" \in Callers
                 /\ "admin" # "job" /\ "admin" # "http" /\ "job" # "http"
  BY DEF Callers

LEMMA Bounds ==
  ASSUME TypeOK
  PROVE  /\ MaxMeters \in Nat /\ MaxFaults \in Nat
         /\ known \in Nat /\ known <= MaxMeters /\ faults \in Nat /\ faults <= MaxFaults
         /\ late \in Nat /\ late <= faults
  BY OperatorAssumption DEF TypeOK

LEMMA InitOInv == Init => OInv
<1> SUFFICES ASSUME Init PROVE OInv
  OBVIOUS
<1>1. \A c \in Callers : call[c] = Idle
  BY DEF Init
<1>2. call \in [Callers -> CallType]
  BY IdleCall DEF Init
<1>3. TypeOK
  <2>1. /\ known \in 0 .. MaxMeters /\ faults \in 0 .. MaxFaults /\ late \in 0 .. faults
    BY OperatorAssumption DEF Init
  <2>2. /\ position \in [MeterIds -> {-1, 0, 1}]
        /\ client \in ClientType
    BY DEF Init, ClientType
  <2>3. /\ settleBusy = (call["job"].stage # "idle") /\ call["job"].ids \subseteq 1 .. known
    BY <1>1, IdleCall, Callees DEF Init
  <2>4. /\ short \subseteq Poor /\ registry \subseteq 1 .. known /\ ~closing
        /\ disk \in DiskType(1 .. known) /\ disk.meters \subseteq registry
    BY DEF Init, Whole, DiskType
  <2> QED
    BY <1>2, <2>1, <2>2, <2>3, <2>4 DEF TypeOK, CallType, Stages, DiskType, ClientType
<1>4. NoneForgotten /\ NoneBetween
  <2>1. answered = {} /\ 1 .. known = {}
    BY DEF Init
  <2> QED
    BY <2>1 DEF NoneForgotten, NoneBetween, Remembered
<1>5. InHand /\ Asleep
  BY <1>1, IdleCall, Callees DEF Init, InHand, Asleep
<1> QED
  BY <1>3, <1>4, <1>5 DEF OInv

(* A step that leaves the calls, the registrations and the host alone.     *)
LEMMA ClientStep ==
  ASSUME OInv, UNCHANGED <<known, host, call, settleBusy, late, history>>,
         client' \in ClientType,
         position' \in [MeterIds -> {-1, 0, 1}], short' \subseteq Poor,
         faults' \in 0 .. MaxFaults, faults <= faults'
  PROVE  OInv'
<1>1. late' \in 0 .. faults'
  BY Bounds DEF OInv
<1>2. TypeOK'
  BY <1>1 DEF OInv, TypeOK, host, ClientType
<1>3. NoneForgotten' /\ NoneBetween' /\ InHand' /\ Asleep'
  BY DEF OInv, NoneForgotten, NoneBetween, Remembered, InHand, Asleep, host, history
<1> QED
  BY <1>2, <1>3 DEF OInv

(* A call that begins, or goes on to its next stage. *)
LEMMA CallStep ==
  ASSUME OInv, NEW c \in Callers, NEW new \in CallType, new.stage # "idle",
         call' = [call EXCEPT ![c] = new],
         c = "job" => new.ids \subseteq 1 .. known /\ settleBusy' = TRUE,
         c # "job" => settleBusy' = settleBusy,
         c = "admin" => new.ids = {} /\ call["admin"].ids = {},
         up, UNCHANGED <<known, short, host, late, faults, history>>,
         position' \in [MeterIds -> {-1, 0, 1}],
         client' \in ClientType
  PROVE  OInv'
<1>1. call \in [Callers -> CallType]
  BY CallFields DEF OInv
<1>2. call' \in [Callers -> CallType] /\ \A d \in Callers : d # c => call'[d] = call[d]
  BY <1>1
<1>3. call'[c] = new
  BY <1>1
<1>4. /\ settleBusy' = (call'["job"].stage # "idle") /\ call'["job"].ids \subseteq 1 .. known
  BY <1>2, <1>3, Callees DEF OInv, TypeOK
<1>5. call'["admin"].ids = call["admin"].ids
  BY <1>2, <1>3, Callees
<1>6. TypeOK'
  BY <1>2, <1>4 DEF OInv, TypeOK, host, CallType, Stages, ClientType
<1>7. NoneForgotten' /\ NoneBetween' /\ Asleep'
  BY <1>5 DEF OInv, NoneForgotten, NoneBetween, Remembered, Asleep, host, history
<1>8. InHand'
  BY <1>2, <1>3, <1>5, Callees DEF OInv, InHand
<1> QED
  BY <1>6, <1>7, <1>8 DEF OInv

LEMMA DialType ==
  ASSUME TypeOK, NEW c \in Callers, Dial(Of(c))
  PROVE  client' \in ClientType
  BY DEF TypeOK, Dial, Of, ClientType

LEMMA BeginOInv ==
  ASSUME OInv, NEW c \in Callers, NEW ids \in SUBSET MeterIds, Begin(c, ids),
         c = "job" => ids \subseteq 1 .. known /\ settleBusy' = TRUE,
         c # "job" => settleBusy' = settleBusy,
         c = "admin" => ids = {}
  PROVE  OInv'
<1> DEFINE new == [stage |-> "dialling", ids |-> ids]
<1>1. /\ new \in CallType /\ new.stage = "dialling" /\ new.ids = ids
  BY DEF CallType, Stages
<1>2. /\ call' = [call EXCEPT ![c] = new] /\ up /\ call[c].stage = "idle"
      /\ UNCHANGED <<world, host, late, faults, history>> /\ Dial(Of(c))
  BY DEF Begin
<1> HIDE DEF new
<1>3. c = "admin" => call["admin"].ids = {}
  BY <1>2, IdleCall DEF OInv, InHand
<1>4. position' \in [MeterIds -> {-1, 0, 1}]
  BY <1>2 DEF OInv, TypeOK, world
<1>5. client' \in ClientType
  BY <1>2, DialType DEF OInv
<1>6. UNCHANGED <<known, short>>
  BY <1>2 DEF world
<1> QED
  BY <1>1, <1>2, <1>3, <1>4, <1>5, <1>6, CallStep

(* A call that is over: what it leaves in memory and in the file, and what *)
(* of it is written down as missed.                                        *)
LEMMA EndStep ==
  ASSUME OInv, NEW c \in Callers, End(c), up,
         UNCHANGED <<world, up, closing, client>>,
         faults' \in 0 .. MaxFaults, late' \in 0 .. faults',
         registry \subseteq registry', registry' \subseteq 1 .. known,
         disk' \in DiskType(registry'),
         disk' = disk \/ disk'.torn \/ disk'.meters = registry',
         NoneForgotten', missed \subseteq missed',
         c = "admin" => \/ call["admin"].ids \subseteq missed'
                        \/ call["admin"].ids \subseteq registry' /\ disk'.meters = registry'
  PROVE  OInv'
<1>1. call \in [Callers -> CallType]
  BY CallFields DEF OInv
<1>2. /\ call' = [call EXCEPT ![c] = Idle] /\ settleBusy' = Freed(c)
      /\ call' \in [Callers -> CallType] /\ \A d \in Callers : d # c => call'[d] = call[d]
      /\ call'[c].stage = "idle" /\ call'[c].ids = {}
  BY <1>1, IdleCall DEF End
<1>3. settleBusy' = (call'["job"].stage # "idle") /\ call'["job"].ids \subseteq 1 .. known
  <2>1. CASE c = "job"
    BY <1>2, <2>1 DEF Freed
  <2>2. CASE c # "job"
    BY <1>2, <2>2, Callees DEF OInv, TypeOK, Freed
  <2> QED
    BY <2>1, <2>2
<1>4. UNCHANGED <<known, position, short>>
  BY DEF world
<1>5. TypeOK'
  <2>1. disk' \in DiskType(1 .. known) /\ disk'.meters \subseteq registry'
    BY DEF DiskType
  <2> QED
    BY <1>2, <1>3, <1>4, <2>1 DEF OInv, TypeOK, CallType, Stages, DiskType
<1>6. NoneBetween'
  <2>1. 1 .. known \subseteq registry \cup (call["admin"].ids \cup missed)
    BY DEF OInv, NoneBetween, Remembered
  <2>2. CASE c = "admin"
    <3>1. 1 .. known \subseteq registry' \cup missed'
      BY <2>1, <2>2
    <3>2. ~disk'.torn => 1 .. known \subseteq disk'.meters \cup missed'
      BY <2>2, <3>1 DEF OInv, NoneBetween, Remembered
    <3> QED
      BY <1>4, <3>1, <3>2 DEF NoneBetween, Remembered
  <2>3. CASE c # "admin"
    <3>1. call'["admin"] = call["admin"]
      BY <1>2, <2>3, Callees
    <3> QED
      BY <1>4, <2>1, <3>1 DEF OInv, NoneBetween, Remembered
  <2> QED
    BY <2>2, <2>3
<1>7. InHand'
  BY <1>2, <1>4, Callees DEF OInv, InHand
<1>8. Asleep'
  BY DEF Asleep
<1> QED
  BY <1>5, <1>6, <1>7, <1>8 DEF OInv

(* What holds of the registry and of the file while the process runs.      *)
LEMMA Running ==
  ASSUME OInv, up
  PROVE  /\ registry \subseteq 1 .. known /\ disk \in DiskType(registry)
         /\ answered \subseteq registry /\ (~disk.torn => answered \subseteq disk.meters)
         /\ call["admin"].ids \subseteq 1 .. known
         /\ faults \in 0 .. MaxFaults /\ late \in 0 .. faults
  BY DEF OInv, TypeOK, NoneForgotten, Remembered, InHand, DiskType

LEMMA FileWhole ==
  ASSUME NEW meters
  PROVE  Whole(meters) \in DiskType(meters) /\ Whole(meters).meters = meters
         /\ ~Whole(meters).torn
  BY DEF Whole, DiskType

LEMMA FileTorn == \A meters : Torn \in DiskType(meters) /\ Torn.torn
  BY DEF Torn, DiskType

LEMMA ReturnOInv ==
  ASSUME OInv, NEW c \in Callers, Return(c)
  PROVE  OInv'
<1>1. /\ End(c) /\ call[c].stage \in Landed
      /\ UNCHANGED <<world, up, closing, client, late, faults, missed>>
      /\ registry' = IF c = "admin" THEN Added(call[c].ids) ELSE registry
      /\ disk' = IF c = "admin" THEN Saved ELSE disk
      /\ answered' = IF c = "admin" THEN answered \cup call[c].ids ELSE answered
  BY DEF Return
<1>2. up
  BY <1>1, IdleCall DEF OInv, Asleep
<1>3. CASE c = "admin"
  <2>1. /\ registry' = registry \cup call["admin"].ids /\ disk' = Whole(registry')
        /\ answered' = answered \cup call["admin"].ids
    BY <1>1, <1>3 DEF Added, Saved
  <2>2. NoneForgotten'
    BY <1>2, <2>1, Running, FileWhole DEF NoneForgotten, Remembered
  <2> QED
    BY <1>1, <1>2, <1>3, <2>1, <2>2, Running, FileWhole, EndStep
<1>4. CASE c # "admin"
  <2>1. registry' = registry /\ disk' = disk /\ answered' = answered
    BY <1>1, <1>4
  <2>2. NoneForgotten'
    BY <1>1, <2>1 DEF OInv, NoneForgotten, Remembered
  <2> QED
    BY <1>1, <1>2, <1>4, <2>1, <2>2, Running, EndStep
<1> QED
  BY <1>3, <1>4

LEMMA SaveFailsOInv ==
  ASSUME OInv, SaveFails
  PROVE  OInv'
<1>1. /\ End("admin") /\ call["admin"].stage = "ok" /\ faults < MaxFaults
      /\ faults' = faults + 1 /\ registry' = registry \cup call["admin"].ids
      /\ disk' = disk \/ disk' = Torn
      /\ missed' = missed \cup call["admin"].ids
      /\ UNCHANGED <<world, up, closing, client, late, answered>>
  BY DEF SaveFails, Added
<1>2. up /\ "admin" \in Callers
  BY <1>1, Callees DEF OInv, Asleep
<1>3. registry \subseteq registry' /\ registry' \subseteq 1 .. known
  BY <1>1, <1>2, Running
<1>4. disk' \in DiskType(registry') /\ (disk' = disk \/ disk'.torn)
  BY <1>1, <1>2, <1>3, Running, FileTorn DEF DiskType
<1>5. NoneForgotten'
  BY <1>1, <1>2, <1>3, Running, FileTorn DEF NoneForgotten, Remembered
<1>6. faults' \in 0 .. MaxFaults /\ late' \in 0 .. faults'
  BY <1>1, Bounds DEF OInv
<1> QED
  BY <1>1, <1>2, <1>3, <1>4, <1>5, <1>6, EndStep

LEMMA RejectedOInv ==
  ASSUME OInv, NEW c \in Callers, Rejected(c)
  PROVE  OInv'
<1>1. /\ End(c) /\ call[c].stage = "dialling" /\ "dialling" \notin Landed
      /\ UNCHANGED <<world, up, closing, registry, disk, client, late, faults,
                     answered, missed>>
  BY DEF Rejected, host, history, Landed
<1>2. up /\ (c = "admin" => call["admin"].ids = {})
  BY <1>1 DEF OInv, Asleep, InHand
<1>3. NoneForgotten'
  BY <1>1 DEF OInv, NoneForgotten, Remembered
<1> QED
  BY <1>1, <1>2, <1>3, Running, EndStep

LEMMA FailOInv ==
  ASSUME OInv, NEW c \in Callers, Fail(c)
  PROVE  OInv'
<1>1. /\ End(c) /\ call[c].stage \in {"sent"} \cup Landed /\ faults < MaxFaults
      /\ faults' = faults + 1
      /\ UNCHANGED <<world, up, closing, registry, disk, client, answered>>
      /\ IF c = "admin" THEN GiveUp ELSE UNCHANGED <<late, missed>>
  BY DEF Fail, host
<1>2. up
  BY <1>1, IdleCall DEF OInv, Asleep
<1>3. NoneForgotten'
  BY <1>1 DEF OInv, NoneForgotten, Remembered
<1>4. faults' \in 0 .. MaxFaults /\ late' \in 0 .. faults'
  BY <1>1, Bounds DEF OInv, GiveUp
<1>5. missed \subseteq missed' /\ (c = "admin" => call["admin"].ids \subseteq missed')
  BY <1>1 DEF GiveUp
<1> QED
  BY <1>1, <1>2, <1>3, <1>4, <1>5, Running, EndStep

(* The contract registers a meter: for a call that waits for it, or for    *)
(* one that was given up.                                                  *)
LEMMA LandRegisterOInv ==
  ASSUME OInv, LandRegister
  PROVE  OInv'
<1> DEFINE new == [stage |-> "ok", ids |-> {known + 1}]
<1>1. /\ call["admin"].stage = "sent" /\ known < MaxMeters /\ known' = known + 1
      /\ call' = [call EXCEPT !["admin"] = new]
      /\ UNCHANGED <<position, short, host, client, settleBusy, late, faults, history>>
  BY DEF LandRegister
<1>2. /\ call \in [Callers -> CallType] /\ known \in Nat /\ MaxMeters \in Nat
  BY CallFields, Bounds DEF OInv
<1>3. 1 .. known' = (1 .. known) \cup {known + 1}
  BY <1>1, <1>2
<1>4. new \in CallType /\ new.stage = "ok" /\ new.ids = {known + 1} /\ "ok" \in Landed
  BY <1>1, <1>2 DEF CallType, Stages, MeterIds, Landed
<1> HIDE DEF new
<1>5. /\ call' \in [Callers -> CallType] /\ call'["admin"] = new
      /\ \A d \in Callers : d # "admin" => call'[d] = call[d]
  BY <1>1, <1>2, <1>4, Callees
<1>6. "sent" \notin Landed /\ call["admin"].ids = {}
  BY <1>1 DEF OInv, InHand, Landed
<1>7. TypeOK'
  <2>1. known' \in 0 .. MaxMeters
    BY <1>1, <1>2
  <2>2. settleBusy' = (call'["job"].stage # "idle") /\ call'["job"].ids \subseteq 1 .. known'
    BY <1>1, <1>3, <1>5, Callees DEF OInv, TypeOK
  <2> QED
    BY <1>1, <1>3, <1>5, <2>1, <2>2 DEF OInv, TypeOK, host, CallType, Stages
<1>8. NoneForgotten'
  BY <1>1 DEF OInv, NoneForgotten, Remembered, host, history
<1>9. NoneBetween'
  BY <1>1, <1>3, <1>4, <1>5, <1>6 DEF OInv, NoneBetween, Remembered, host, history
<1>10. InHand'
  BY <1>3, <1>4, <1>5 DEF InHand
<1>11. Asleep'
  <2>1. up
    BY <1>1, Callees DEF OInv, Asleep
  <2> QED
    BY <1>1, <2>1 DEF Asleep, host
<1> QED
  BY <1>7, <1>8, <1>9, <1>10, <1>11 DEF OInv

LEMMA LandLateOInv ==
  ASSUME OInv, LandLate
  PROVE  OInv'
<1>1. /\ late > 0 /\ known < MaxMeters /\ known' = known + 1 /\ late' = late - 1
      /\ missed' = missed \cup {known + 1}
      /\ UNCHANGED <<position, short, host, client, call, settleBusy, faults, answered>>
  BY DEF LandLate, process
<1>2. /\ known \in Nat /\ MaxMeters \in Nat /\ late \in Nat /\ late <= faults /\ faults \in Nat
  BY Bounds DEF OInv
<1>3. 1 .. known' = (1 .. known) \cup {known + 1}
  BY <1>1, <1>2
<1>4. known' \in 0 .. MaxMeters /\ late' \in 0 .. faults
  BY <1>1, <1>2
<1>5. TypeOK'
  BY <1>1, <1>3, <1>4 DEF OInv, TypeOK, host
<1>6. NoneForgotten' /\ NoneBetween'
  BY <1>1, <1>3 DEF OInv, NoneForgotten, NoneBetween, Remembered, host
<1>7. InHand' /\ Asleep'
  BY <1>1, <1>3 DEF OInv, InHand, Asleep, host
<1> QED
  BY <1>5, <1>6, <1>7 DEF OInv

(* A settlement lands, and leaves the registry alone. *)
LEMMA LandSettleOInv ==
  ASSUME OInv, NEW c \in Callers, LandSettle(c)
  PROVE  OInv'
<1> DEFINE s == SettleResult(call[c].ids)
           new == [call[c] EXCEPT !.stage = s]
<1>1. /\ c # "admin" /\ call[c].stage = "sent"
      /\ call' = [call EXCEPT ![c].stage = s]
      /\ UNCHANGED <<known, short, host, client, settleBusy, late, faults, history>>
      /\ position' = IF s = "ok"
                       THEN [m \in MeterIds |-> IF m \in call[c].ids THEN 0 ELSE position[m]]
                       ELSE position
  BY DEF LandSettle
<1>2. s \in Landed /\ "idle" \notin Landed
  BY DEF SettleResult, Landed
<1> HIDE DEF s
<1>3. /\ call \in [Callers -> CallType] /\ call[c] \in CallType
      /\ position \in [MeterIds -> {-1, 0, 1}]
  BY CallFields DEF OInv, TypeOK
<1>4. new \in CallType /\ new.stage = s /\ new.ids = call[c].ids
  BY <1>2, <1>3 DEF CallType, Stages
<1>5. call' = [call EXCEPT ![c] = new]
  BY <1>1, <1>3
<1> HIDE DEF new
<1>6. position' \in [MeterIds -> {-1, 0, 1}]
  BY <1>1, <1>3
<1>7. client' \in ClientType
  BY <1>1 DEF OInv, TypeOK, ClientType
<1>8. up
  BY <1>1 DEF OInv, Asleep
<1>9. c = "job" => new.ids \subseteq 1 .. known /\ settleBusy' = TRUE
  BY <1>1, <1>4 DEF OInv, TypeOK
<1> QED
  BY <1>1, <1>2, <1>4, <1>5, <1>6, <1>7, <1>8, <1>9, CallStep

LEMMA SendOInv ==
  ASSUME OInv, NEW c \in Callers, Send(c)
  PROVE  OInv'
<1> DEFINE new == [call[c] EXCEPT !.stage = "sent"]
<1>1. /\ call[c].stage = "dialling" /\ call' = [call EXCEPT ![c].stage = "sent"]
      /\ UNCHANGED <<world, host, client, settleBusy, late, faults, history>>
  BY DEF Send
<1>2. call \in [Callers -> CallType] /\ call[c] \in CallType
  BY CallFields DEF OInv
<1>3. /\ new \in CallType /\ new.stage = "sent" /\ new.ids = call[c].ids
  BY <1>2 DEF CallType, Stages
<1>4. call' = [call EXCEPT ![c] = new]
  BY <1>1, <1>2
<1> HIDE DEF new
<1>5. up
  BY <1>1 DEF OInv, Asleep
<1>6. c = "admin" => new.ids = {} /\ call["admin"].ids = {}
  BY <1>1, <1>3 DEF OInv, InHand, Landed
<1>7. c = "job" => new.ids \subseteq 1 .. known /\ settleBusy' = TRUE
  BY <1>1, <1>3 DEF OInv, TypeOK
<1>8. /\ position' \in [MeterIds -> {-1, 0, 1}]
      /\ client' \in ClientType
  BY <1>1 DEF OInv, TypeOK, world, ClientType
<1>9. UNCHANGED <<known, short>>
  BY <1>1 DEF world
<1> QED
  BY <1>1, <1>3, <1>4, <1>5, <1>6, <1>7, <1>8, <1>9, CallStep

(* The process goes: what the handler had in hand is missed by a crash,    *)
(* and an exit waits until it has nothing in hand.                         *)
LEMMA GoneOInv ==
  ASSUME OInv, Gone, faults' \in 0 .. MaxFaults, late' \in 0 .. faults',
         missed \subseteq missed', call["admin"].ids \subseteq missed',
         disk' \in DiskType(1 .. known),
         \/ disk' = disk \/ disk'.torn
         \/ up /\ registry \subseteq disk'.meters
  PROVE  OInv'
<1>1. /\ ~up' /\ ~closing' /\ ~settleBusy' /\ registry' = {}
      /\ UNCHANGED <<known, position, short, answered>>
      /\ client' = [u \in {"relayer", "admin"} |-> "none"]
      /\ call' = [c \in Callers |-> Idle]
  BY DEF Gone, world
<1>2. \A c \in Callers : call'[c].stage = "idle" /\ call'[c].ids = {}
  BY <1>1, IdleCall
<1>3. TypeOK'
  <2>1. call' \in [Callers -> CallType]
    BY <1>1, IdleCall
  <2>2. client' \in ClientType
    BY <1>1 DEF ClientType
  <2>3. settleBusy' = (call'["job"].stage # "idle") /\ call'["job"].ids \subseteq 1 .. known
    BY <1>1, <1>2, Callees DEF Gone
  <2>4. /\ known \in 0 .. MaxMeters /\ position \in [MeterIds -> {-1, 0, 1}]
        /\ short \subseteq Poor
    BY DEF OInv, TypeOK
  <2> QED
    BY <1>1, <2>1, <2>2, <2>3, <2>4 DEF TypeOK, CallType, Stages, DiskType
<1>4. ~disk'.torn => /\ answered \subseteq disk'.meters
                     /\ 1 .. known \subseteq disk'.meters \cup missed'
  BY DEF OInv, NoneForgotten, NoneBetween, Remembered
<1>5. NoneForgotten' /\ NoneBetween'
  BY <1>1, <1>4 DEF NoneForgotten, NoneBetween, Remembered
<1>6. InHand' /\ Asleep'
  BY <1>2, Callees DEF InHand, Asleep
<1> QED
  BY <1>3, <1>5, <1>6 DEF OInv

LEMMA RegistryKnown ==
  ASSUME TypeOK, up
  PROVE  registry \subseteq 1 .. known /\ registry \in SUBSET MeterIds
<1>1. registry \subseteq 1 .. known
  BY DEF TypeOK
<1>2. 1 .. known \subseteq MeterIds
  BY Bounds DEF MeterIds
<1> QED
  BY <1>1, <1>2

LEMMA NextOInv == OInv /\ [Next]_vars => OInv'
<1> SUFFICES ASSUME OInv, [Next]_vars PROVE OInv'
  OBVIOUS
<1>0. /\ position \in [MeterIds -> {-1, 0, 1}] /\ short \subseteq Poor
      /\ client \in ClientType
      /\ faults \in Nat /\ MaxFaults \in Nat /\ faults <= MaxFaults /\ late \in Nat
      /\ late <= faults /\ disk \in DiskType(1 .. known)
  BY Bounds DEF OInv, TypeOK, DiskType, ClientType
<1>1. ASSUME NEW u \in {"relayer", "admin"}, Fetched(u) \/ FetchFailed(u) PROVE OInv'
  <2>1. /\ UNCHANGED <<known, position, short, host, call, settleBusy, late, history>>
        /\ client' \in ClientType
    BY <1>0, <1>1 DEF Fetched, FetchFailed, world, ClientType
  <2>2. faults' \in 0 .. MaxFaults /\ faults <= faults'
    BY <1>0, <1>1 DEF Fetched, FetchFailed
  <2> QED
    BY <1>0, <2>1, <2>2, ClientStep
<1>2. CASE RegisterMeter
  BY <1>2, BeginOInv, Callees DEF RegisterMeter
<1>3. CASE SettleJob
  <2>1. Begin("job", registry) /\ up /\ settleBusy' = TRUE
    BY <1>3 DEF SettleJob, Begin
  <2>2. registry \subseteq 1 .. known /\ registry \in SUBSET MeterIds
    BY <2>1, RegistryKnown DEF OInv
  <2> QED
    BY <2>1, <2>2, BeginOInv, Callees
<1>4. ASSUME NEW ids \in Lists \cup {registry}, SettleNow(ids) PROVE OInv'
  <2>1. Begin("http", ids) /\ up /\ settleBusy' = settleBusy
    BY <1>4 DEF SettleNow, Begin
  <2>2. registry \in SUBSET MeterIds
    BY <2>1, RegistryKnown DEF OInv
  <2>3. ids \in SUBSET MeterIds
    BY <2>2, OperatorAssumption
  <2> QED
    BY <2>1, <2>3, BeginOInv, Callees
<1>5. CASE LandRegister \/ LandLate \/ SaveFails
  BY <1>5, LandRegisterOInv, LandLateOInv, SaveFailsOInv
<1>6. ASSUME NEW c \in Callers,
             Send(c) \/ LandSettle(c) \/ Return(c) \/ Rejected(c) \/ Fail(c)
      PROVE  OInv'
  BY <1>6, SendOInv, LandSettleOInv, ReturnOInv, RejectedOInv, FailOInv
<1>7. ASSUME NEW m \in MeterIds, NEW sign \in {-1, 0, 1}, Move(m, sign) PROVE OInv'
  <2>1. /\ UNCHANGED <<known, short, host, client, call, settleBusy, late, faults, history>>
        /\ position' \in [MeterIds -> {-1, 0, 1}]
    BY <1>0, <1>7 DEF Move, process
  <2> QED
    BY <1>0, <2>1, ClientStep
<1>8. ASSUME NEW m \in MeterIds, Spend(m) PROVE OInv'
  <2>1. /\ UNCHANGED <<known, position, host, client, call, settleBusy, late, faults, history>>
        /\ short' \subseteq Poor
    BY <1>0, <1>8 DEF Spend, process
  <2> QED
    BY <1>0, <2>1, ClientStep
<1>9. CASE Crash
  <2>1. /\ Gone /\ GiveUp /\ faults' \in 0 .. MaxFaults /\ late' \in 0 .. faults'
        /\ disk' = disk
    BY <1>0, <1>9 DEF Crash, GiveUp
  <2> QED
    BY <1>0, <2>1, GoneOInv DEF GiveUp
<1>10. CASE CrashInSave
  <2>1. /\ Gone /\ GiveUp /\ faults' \in 0 .. MaxFaults /\ late' \in 0 .. faults'
        /\ disk' = Torn \/ disk' = Whole(registry \cup call["admin"].ids)
    BY <1>0, <1>10 DEF CrashInSave, GiveUp, Saved, Added
  <2>2. up
    BY <1>10, Callees DEF CrashInSave, OInv, Asleep
  <2>3. CASE disk' = Torn
    BY <2>1, <2>3, FileTorn, GoneOInv DEF GiveUp
  <2>4. CASE disk' = Whole(registry \cup call["admin"].ids)
    <3>1. registry \cup call["admin"].ids \subseteq 1 .. known
      BY <2>2, Running
    <3>2. disk' \in DiskType(1 .. known) /\ registry \subseteq disk'.meters
      BY <2>4, <3>1, FileWhole DEF DiskType
    <3> QED
      BY <2>1, <2>2, <3>2, GoneOInv DEF GiveUp
  <2> QED
    BY <2>1, <2>3, <2>4
<1>11. CASE Shutdown
  <2>1. /\ up /\ closing' /\ faults' \in 0 .. MaxFaults /\ late' \in 0 .. faults'
        /\ UNCHANGED <<known, position, short, up, registry, disk, client, call, settleBusy,
                       history>>
    BY <1>0, <1>11 DEF Shutdown, world
  <2>2. TypeOK'
    BY <2>1 DEF OInv, TypeOK
  <2>3. NoneForgotten' /\ NoneBetween' /\ InHand' /\ Asleep'
    BY <2>1 DEF OInv, NoneForgotten, NoneBetween, Remembered, InHand, Asleep, history
  <2> QED
    BY <2>2, <2>3 DEF OInv
<1>12. CASE Exit
  <2>1. call["admin"].ids = {} /\ Gone /\ UNCHANGED <<disk, late, faults, missed>>
    BY <1>12, IdleCall DEF Exit, Answered
  <2> QED
    BY <1>0, <2>1, GoneOInv
<1>13. CASE Restart
  <2>1. /\ ~up /\ up' /\ registry' = disk.meters /\ ~disk.torn /\ ~closing
        /\ UNCHANGED <<known, position, short, closing, disk, client, call, settleBusy, late,
                       faults, history>>
    BY <1>13 DEF Restart, OInv, TypeOK, world
  <2>2. TypeOK'
    BY <2>1 DEF OInv, TypeOK
  <2>3. NoneForgotten' /\ NoneBetween' /\ InHand' /\ Asleep'
    BY <2>1 DEF OInv, NoneForgotten, NoneBetween, Remembered, InHand, Asleep, history
  <2> QED
    BY <2>2, <2>3 DEF OInv
<1>14. CASE UNCHANGED vars
  BY <1>0, <1>14, ClientStep DEF vars, world, process
<1> QED
  BY <1>1, <1>2, <1>3, <1>4, <1>5, <1>6, <1>7, <1>8, <1>9, <1>10, <1>11, <1>12, <1>13, <1>14
     DEF Next

(* The job's flag agrees with what runs, and the registry in memory and    *)
(* the one on disk list only meters the contract knows.                    *)
THEOREM OperatorTypeOK == Spec => []TypeOK
<1>1. OInv => TypeOK
  BY DEF OInv
<1> QED
  BY <1>1, InitOInv, NextOInv, PTL DEF Spec

(* A meter the operator was told of stays in memory as long as the process *)
(* runs, and in the file unless a write to it was cut off.                 *)
THEOREM OperatorNoneForgotten == Spec => []NoneForgotten
<1>1. OInv => NoneForgotten
  BY DEF OInv
<1> QED
  BY <1>1, InitOInv, NextOInv, PTL DEF Spec

(* No registration falls between the contract and the registry, however    *)
(* the process is stopped, unless its answer was lost or a write to the    *)
(* file was cut off.                                                       *)
THEOREM OperatorNoneBetween == Spec => []NoneBetween
<1>1. OInv => NoneBetween
  BY DEF OInv
<1> QED
  BY <1>1, InitOInv, NextOInv, PTL DEF Spec

=============================================================================
