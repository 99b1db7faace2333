-------------------------------- MODULE Settings --------------------------------
(***************************************************************************)
(* loadConfig (backend/src/config.ts): what the service makes of its       *)
(* environment.  An environment is a function on the names below; a value  *)
(* is Unset, Blank (empty or spaces), a number, or something else, a       *)
(* Boolean for the words the service knows.                                *)
(***************************************************************************)
EXTENDS Integers

CONSTANTS Unset, Blank, Invalid

MaxPort == 65535

(* Trimmed; a variable that is blank counts as not set. *)
Given(env, key) == env[key] \notin {Unset, Blank}

Or(env, key, fallback) == IF Given(env, key) THEN env[key] ELSE fallback

required(env, key) == Or(env, key, Invalid)

parseBool(env, key, fallback) ==
  IF Or(env, key, fallback) \in BOOLEAN THEN Or(env, key, fallback) ELSE Invalid

parsePositiveInt(env, key, fallback) ==
  IF Or(env, key, fallback) \in Nat \ {0} THEN Or(env, key, fallback) ELSE Invalid

(* The port is not trimmed, and Number("") is 0. *)
Port(env) ==
  LET port == CASE env["PORT"] = Unset -> 4000 [] env["PORT"] = Blank -> 0 [] OTHER -> env["PORT"]
  IN  IF port \in 1 .. MaxPort THEN port ELSE Invalid

(* NETWORK is not trimmed either: with a space it means the testnet. *)
Preset(env) == IF env["NETWORK"] = "mainnet" THEN "mainnet" ELSE "testnet"

Parsed(env) ==
  [port                  |-> Port(env),
   rpcUrl                |-> Or(env, "RPC_URL", Preset(env)),
   networkPassphrase     |-> Or(env, "NETWORK_PASSPHRASE", Preset(env)),
   contractId            |-> required(env, "CONTRACT_ID"),
   relayerSecret         |-> required(env, "RELAYER_SECRET"),
   adminSecret           |-> Or(env, "ADMIN_SECRET", Unset),
   schedulerEnabled      |-> parseBool(env, "SCHEDULER_ENABLED", TRUE),
   batchIntervalSeconds  |-> parsePositiveInt(env, "BATCH_INTERVAL_SECONDS", 15),
   batchSize             |-> parsePositiveInt(env, "BATCH_SIZE", 50),
   autoSettle            |-> parseBool(env, "AUTO_SETTLE", TRUE),
   settleIntervalSeconds |-> parsePositiveInt(env, "SETTLE_INTERVAL_SECONDS", 300)]

(* One value that cannot be used, and the service does not start. *)
loadConfig(env) ==
  IF \E key \in DOMAIN Parsed(env) : Parsed(env)[key] = Invalid THEN Invalid ELSE Parsed(env)

=============================================================================
