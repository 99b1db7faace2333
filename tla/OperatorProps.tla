---------------------------- MODULE OperatorProps ----------------------------
(***************************************************************************)
(* What the operator's side must guarantee.                                *)
(***************************************************************************)
EXTENDS Operator

(* The job is busy exactly while its call runs; memory and file list only  *)
(* meters the contract knows, so that no unknown id makes a whole          *)
(* settlement fail; and the file lists no meter that is not in memory      *)
(* (scheduler.ts:90-113, admin.ts:38-45, settle.rs:44).                    *)
TypeOK ==
  /\ known \in 0 .. MaxMeters /\ position \in [MeterIds -> {-1, 0, 1}]
  /\ short \subseteq Poor
  /\ client \in [{"relayer", "admin"} -> {"none", "pending", "ready", "rejected"}]
  /\ call \in [Callers -> [stage : {"idle", "dialling", "sent"} \cup Landed,
                           ids : SUBSET MeterIds]]
  /\ settleBusy = (call["job"].stage # "idle")
  /\ disk \in [torn : BOOLEAN, meters : SUBSET (1 .. known)]
  /\ registry \subseteq 1 .. known /\ (up => disk.meters \subseteq registry)
  /\ closing => up
  /\ call["job"].ids \subseteq 1 .. known
  /\ faults \in 0 .. MaxFaults /\ late \in 0 .. faults

(* The two places a meter is remembered in, each as far as it goes: memory *)
(* while the process runs, the file unless a write to it was cut off.      *)
Remembered(meters, exempt) ==
  /\ up => meters \subseteq registry \cup exempt
  /\ ~disk.torn => meters \subseteq disk.meters \cup exempt

(* A meter the service has told its operator is registered stays           *)
(* registered, whatever other registrations lost their answer and through  *)
(* every failed write, shutdown and crash, with one exception: a save that *)
(* is cut off tears the file, and then the service, once down, does not    *)
(* start (admin.ts:38-47, registry.ts:39-56, 68, 79-87).                   *)
NoneForgotten == Remembered(answered, {})

(* No registration falls between the contract and the registry, with the   *)
(* same exception: a meter the contract knows is remembered, or the        *)
(* handler has it in hand, or whoever asked for it never had an answer but *)
(* an error.  A shutdown adds nothing to that, since it waits for the      *)
(* handler (index.ts:15-19, admin.ts:38-47).                               *)
NoneBetween == Remembered(1 .. known, call["admin"].ids \cup missed)

(* The market keeps clearing: the surplus and the deficit of registered    *)
(* meters do not stay side by side for ever, once calls stop failing       *)
(* (scheduler.ts:46-63, 90-113).  Three things hold it up: one home in the *)
(* registry that cannot pay, for all the others; a client lost for good    *)
(* (see ClientRecovers); and a torn file the service does not start from.  *)
MarketClears ==
  []<>(\/ ~Opposite(answered)
       \/ Unpayable(registry)
       \/ client["relayer"] = "rejected"
       \/ ~up /\ disk.torn)

(* The settle job is never busy for good, whatever fails: a rejected       *)
(* client, a settlement refused or trapped, a lost answer, a crash         *)
(* (scheduler.ts:90-113).                                                  *)
JobEnds == []<>~settleBusy

(* "an unreachable RPC or a spec-fetch failure surfaces as an error on the *)
(* request that needs it" (chain.ts:143-145), and on no later one: after a *)
(* failed fetch, the job gets a working client again.                      *)
ClientRecovers == client["relayer"] = "rejected" ~> client["relayer"] = "ready"

=============================================================================
