------------------------------- MODULE Operator -------------------------------
(***************************************************************************)
(* The operator's side of the backend (backend/src): registering meters    *)
(* (admin.ts), the local registry that remembers them (registry.ts), the   *)
(* job and the endpoint that settle them (scheduler.ts, routes.ts), and    *)
(* the lazily made contract clients all of them share (chain.ts).          *)
(*                                                                         *)
(* A call first waits for its client, then for its transaction.  It throws *)
(* when either fails; a transaction may have landed all the same, or land   *)
(* later (for a settlement, Move covers that).  Of a net position only the *)
(* sign matters here; module GridPulse has the contract.                   *)
(***************************************************************************)
EXTENDS Integers, FiniteSets

CONSTANTS
  MaxMeters,   \* bound: the meters registered
  Lists,       \* the sets of meters POST /api/settle is called with
  Poor,        \* bound: the meters whose home may run out of allowance or balance
  MaxFaults,   \* bound: failed calls and writes, crashes and shutdowns
  FetchFails   \* whether fetching the contract's spec may fail

MeterIds == 1 .. MaxMeters

ASSUME OperatorAssumption ==
  /\ MaxMeters \in Nat /\ MaxFaults \in Nat /\ FetchFails \in BOOLEAN
  /\ Lists \subseteq SUBSET MeterIds /\ Poor \subseteq MeterIds

VARIABLES
  known,       \* the contract: the meters registered are 1 .. known
  position,    \* the contract: the sign of every net position
  short,       \* the token: the meters whose home cannot pay its deficit now
  up, closing, \* whether the process runs, and whether it is shutting down
  registry,    \* MeterRegistry.meters
  disk,        \* registry.json: what it lists, or torn by a write that was cut off
  client,      \* GridPulse.client of the relayer and of the admin: a promise
  call,        \* the calls in progress
  settleBusy,  \* RelayScheduler.settleBusy
  late,        \* the registrations given up on that may still land
  faults,      \* faults so far
  answered,    \* history: the meters a caller was told were registered
  missed       \* history: those answered by an error, or by nothing

world   == <<known, position, short>>
history == <<answered, missed>>
host    == <<up, closing, registry, disk>>
process == <<host, client, call, settleBusy>>
vars    == <<world, process, late, faults, history>>

Callers == {"job", "http", "admin"}

Of(c) == IF c = "admin" THEN "admin" ELSE "relayer"

Idle == [stage |-> "idle", ids |-> {}]

Whole(meters) == [torn |-> FALSE, meters |-> meters]

Torn == [torn |-> TRUE, meters |-> {}]

Init ==
  /\ known = 0 /\ position = [m \in MeterIds |-> 0] /\ short = {}
  /\ up = TRUE /\ closing = FALSE /\ registry = {} /\ disk = Whole({})
  /\ client = [u \in {"relayer", "admin"} |-> "none"]
  /\ call = [c \in Callers |-> Idle]
  /\ settleBusy = FALSE /\ late = 0 /\ faults = 0
  /\ answered = {} /\ missed = {}

-----------------------------------------------------------------------------
(* The clients. *)

(* c(): the first call makes the client, every other takes what is there.  *)
Dial(u) == client' = [client EXCEPT ![u] = IF @ = "none" THEN "pending" ELSE @]

Fetched(u) ==
  /\ client[u] = "pending"
  /\ client' = [client EXCEPT ![u] = "ready"]
  /\ UNCHANGED <<world, host, call, settleBusy, late, faults, history>>

(* The RPC is unreachable: the promise is rejected, and kept. *)
FetchFailed(u) ==
  /\ FetchFails /\ client[u] = "pending" /\ faults < MaxFaults
  /\ client' = [client EXCEPT ![u] = "rejected"]
  /\ faults' = faults + 1
  /\ UNCHANGED <<world, host, call, settleBusy, late, history>>

-----------------------------------------------------------------------------
(* The calls: begin, send, land, return. *)

Begin(c, ids) ==
  /\ up /\ call[c].stage = "idle" /\ (c = "job" \/ ~closing)
  /\ call' = [call EXCEPT ![c] = [stage |-> "dialling", ids |-> ids]]
  /\ Dial(Of(c))
  /\ UNCHANGED <<world, host, late, faults, history>>

RegisterMeter == Begin("admin", {}) /\ UNCHANGED settleBusy

(* The settle job, unless it runs already or nothing is registered.        *)
SettleJob ==
  /\ ~settleBusy /\ registry # {}
  /\ Begin("job", registry)
  /\ settleBusy' = TRUE

(* POST /api/settle, with a list or for the whole registry; no guard.      *)
SettleNow(ids) ==
  /\ ids # {}
  /\ Begin("http", ids)
  /\ UNCHANGED settleBusy

Send(c) ==
  /\ call[c].stage = "dialling" /\ client[Of(c)] = "ready"
  /\ call' = [call EXCEPT ![c].stage = "sent"]
  /\ UNCHANGED <<world, host, client, settleBusy, late, faults, history>>

LandRegister ==
  /\ call["admin"].stage = "sent" /\ known < MaxMeters
  /\ known' = known + 1
  /\ call' = [call EXCEPT !["admin"] = [stage |-> "ok", ids |-> {known + 1}]]
  /\ UNCHANGED <<position, short, host, client, settleBusy, late, faults, history>>

Opposite(ids) ==
  (\E m \in ids : position[m] > 0) /\ (\E m \in ids : position[m] < 0)

(* A home whose deficit cannot be charged: its allowance or its balance is *)
(* too small, or the amount overflows.                                     *)
Unpayable(ids) == \E m \in ids \cap short : position[m] < 0

(* One transfer that is refused undoes the whole settlement.               *)
SettleResult(ids) ==
  CASE ~(ids \subseteq 1 .. known) -> "MeterNotFound"
    [] ids \subseteq 1 .. known /\ ~Opposite(ids) -> "NothingToSettle"
    [] ids \subseteq 1 .. known /\ Opposite(ids) /\ Unpayable(ids) -> "trapped"
    [] OTHER -> "ok"

LandSettle(c) ==
  LET ids == call[c].ids
  IN  /\ c # "admin" /\ call[c].stage = "sent"
      /\ position' = IF SettleResult(ids) = "ok"
                       THEN [m \in MeterIds |-> IF m \in ids THEN 0 ELSE position[m]]
                       ELSE position
      /\ call' = [call EXCEPT ![c].stage = SettleResult(ids)]
      /\ UNCHANGED <<known, short, host, client, settleBusy, late, faults, history>>

(* How a call the contract has run is answered. *)
Landed == {"ok", "MeterNotFound", "NothingToSettle", "trapped"}

(* Mutant: a job that found nothing to settle stays busy. *)
FreedIfSettled(c) == IF c = "job" /\ call[c].stage # "NothingToSettle" THEN FALSE ELSE settleBusy

(* Mutant: the flag is reset after the call, not in a `finally`. *)
FreedIfAnswered(c) == IF c = "job" /\ call[c].stage \in Landed THEN FALSE ELSE settleBusy

Freed(c) == IF c = "job" THEN FALSE ELSE settleBusy

(* The call is over; the job's `finally` makes it ready to run again.      *)
End(c) ==
  /\ call' = [call EXCEPT ![c] = Idle]
  /\ settleBusy' = Freed(c)

(* Mutant: the registry numbers the meters itself. *)
AddedInOrder(ids) == registry \cup {Cardinality(registry) + 1}

Added(ids) == registry \cup ids

(* Mutant: the file is written before the meter is added. *)
SavedFirst == Whole(registry)

(* The file once the admin's meter is written to it. *)
Saved == Whole(Added(call["admin"].ids))

(* The answer arrives; the admin handler adds the meter and saves.         *)
Return(c) ==
  /\ call[c].stage \in Landed
  /\ End(c)
  /\ registry' = IF c = "admin" THEN Added(call[c].ids) ELSE registry
  /\ disk' = IF c = "admin" THEN Saved ELSE disk
  /\ answered' = IF c = "admin" THEN answered \cup call[c].ids ELSE answered
  /\ UNCHANGED <<world, up, closing, client, late, faults, missed>>

(* The write throws, before it began or half-way: the caller gets an       *)
(* error, and the meter stays in memory.                                   *)
SaveFails ==
  /\ call["admin"].stage = "ok" /\ faults < MaxFaults
  /\ faults' = faults + 1
  /\ registry' = Added(call["admin"].ids)
  /\ disk' \in {disk, Torn}
  /\ missed' = missed \cup call["admin"].ids
  /\ End("admin")
  /\ UNCHANGED <<world, up, closing, client, late, answered>>

(* The client's promise was rejected: so is the call. *)
Rejected(c) ==
  /\ call[c].stage = "dialling" /\ client[Of(c)] = "rejected"
  /\ End(c)
  /\ UNCHANGED <<world, host, client, late, faults, history>>

(* What becomes of the admin's registration when its call is given up.     *)
GiveUp ==
  /\ missed' = missed \cup call["admin"].ids
  /\ late' = IF call["admin"].stage = "sent" THEN late + 1 ELSE late

LandLate ==
  /\ late > 0 /\ known < MaxMeters
  /\ known' = known + 1 /\ late' = late - 1
  /\ missed' = missed \cup {known + 1}
  /\ UNCHANGED <<position, short, process, faults, answered>>

(* The network fails before the transaction lands, or its answer is lost.  *)
Fail(c) ==
  /\ call[c].stage \in {"sent"} \cup Landed /\ faults < MaxFaults
  /\ faults' = faults + 1
  /\ IF c = "admin" THEN GiveUp ELSE UNCHANGED <<late, missed>>
  /\ End(c)
  /\ UNCHANGED <<world, host, client, answered>>

-----------------------------------------------------------------------------
(* The world: readings move positions, the process dies and is restarted.  *)

Move(m, sign) ==
  /\ m <= known
  /\ position' = [position EXCEPT ![m] = sign]
  /\ UNCHANGED <<known, short, process, late, faults, history>>

(* A home spends or withdraws its allowance or its money, or tops it up.   *)
Spend(m) ==
  /\ m \in Poor
  /\ short' = IF m \in short THEN short \ {m} ELSE short \cup {m}
  /\ UNCHANGED <<known, position, process, late, faults, history>>

(* The process is gone, and what it had in memory. *)
Gone ==
  /\ up' = FALSE /\ closing' = FALSE
  /\ registry' = {} /\ settleBusy' = FALSE
  /\ client' = [u \in {"relayer", "admin"} |-> "none"]
  /\ call' = [c \in Callers |-> Idle]
  /\ UNCHANGED <<world, answered>>

Crash ==
  /\ up /\ faults < MaxFaults
  /\ faults' = faults + 1
  /\ GiveUp
  /\ Gone /\ UNCHANGED disk

(* A crash inside save: the file is rewritten in place.                    *)
CrashInSave ==
  /\ call["admin"].stage = "ok" /\ faults < MaxFaults
  /\ faults' = faults + 1
  /\ disk' \in {Torn, Saved}
  /\ GiveUp
  /\ Gone

(* SIGTERM (index.ts): no request is taken any more, ... *)
Shutdown ==
  /\ up /\ ~closing /\ faults < MaxFaults
  /\ closing' = TRUE /\ faults' = faults + 1
  /\ UNCHANGED <<world, up, registry, disk, client, call, settleBusy, late, history>>

(* Mutant: the process exits at once. *)
AtOnce == TRUE

(* ... and the process exits when the last one was answered; the job's     *)
(* call is not waited for.                                                 *)
Answered == call["http"] = Idle /\ call["admin"] = Idle

Exit ==
  /\ closing /\ Answered
  /\ Gone
  /\ UNCHANGED <<disk, late, faults, missed>>

(* A torn file makes load throw: the server does not start again.          *)
Restart ==
  /\ ~up /\ ~disk.torn
  /\ up' = TRUE /\ registry' = disk.meters
  /\ UNCHANGED <<world, closing, disk, client, call, settleBusy, late, faults, history>>

Next ==
  \/ \E u \in {"relayer", "admin"} : Fetched(u) \/ FetchFailed(u)
  \/ RegisterMeter \/ SettleJob \/ \E ids \in Lists \cup {registry} : SettleNow(ids)
  \/ LandRegister \/ LandLate \/ SaveFails
  \/ \E c \in Callers : Send(c) \/ LandSettle(c) \/ Return(c) \/ Rejected(c) \/ Fail(c)
  \/ \E m \in MeterIds, sign \in {-1, 0, 1} : Move(m, sign)
  \/ \E m \in MeterIds : Spend(m)
  \/ Crash \/ CrashInSave \/ Shutdown \/ Exit \/ Restart

(* The settle timer keeps firing, what is awaited settles, and the process *)
(* is started again.                                                       *)
Fairness ==
  /\ WF_vars(SettleJob) /\ WF_vars(Restart) /\ WF_vars(Exit)
  /\ \A u \in {"relayer", "admin"} : WF_vars(Fetched(u))
  /\ \A c \in Callers : WF_vars(Send(c)) /\ WF_vars(LandSettle(c)) /\ WF_vars(Return(c))
                        /\ WF_vars(Rejected(c))

Spec == Init /\ [][Next]_vars /\ Fairness

=============================================================================
