------------------------------ MODULE MCScheduler ------------------------------
(***************************************************************************)
(* A service that settles every thirty days; nothing else is set but what  *)
(* is required.                                                            *)
(***************************************************************************)
EXTENDS Scheduler

CONSTANTS deployed, secret

ThirtyDays == 30 * 24 * 3600

Names ==
  {"PORT", "NETWORK", "RPC_URL", "NETWORK_PASSPHRASE", "CONTRACT_ID", "RELAYER_SECRET",
   "ADMIN_SECRET", "SCHEDULER_ENABLED", "BATCH_INTERVAL_SECONDS", "BATCH_SIZE",
   "AUTO_SETTLE", "SETTLE_INTERVAL_SECONDS"}

Monthly ==
  {[name \in Names |->
      CASE name = "CONTRACT_ID" -> deployed
        [] name = "RELAYER_SECRET" -> secret
        [] name = "SETTLE_INTERVAL_SECONDS" -> ThirtyDays
        [] OTHER -> Unset]}

=============================================================================
