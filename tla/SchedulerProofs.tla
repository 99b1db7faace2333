--------------------------- MODULE SchedulerProofs ---------------------------
(***************************************************************************)
(* Proofs about Scheduler.                                                 *)
(***************************************************************************)
EXTENDS Scheduler, TLAPS

Interval == <<"every", "settle">>

(* The clock goes forward, and no environment asks for an interval that    *)
(* does not fit in the delay of a timer.                                   *)
Fits ==
  /\ Jumps \subseteq Nat \ {0}
  /\ \A env \in Environments :
       /\ loadConfig(env) # Unset
       /\ loadConfig(env) # Invalid => loadConfig(env).settleIntervalSeconds <= MaxSeconds

(* What has passed and what is left make up the interval. *)
IInv ==
  /\ elapsed \in Nat
  /\ timer \in [Timers -> Int]
  /\ ~Running => \A t \in Timers : timer[t] = Off
  /\ Running => /\ settings.settleIntervalSeconds \in Nat \ {0}
                /\ settings.settleIntervalSeconds <= MaxSeconds
                /\ settings.batchIntervalSeconds \in Nat \ {0}
                /\ \/ timer[Interval] = Off
                   \/ /\ timer[Interval] \in Nat
                      /\ elapsed + timer[Interval] >= 1000 * settings.settleIntervalSeconds

(* A configuration that is not refused has a positive settle interval      *)
(* (config.ts:64-72, 93).                                                  *)
LEMMA PositiveInterval ==
  ASSUME NEW env, loadConfig(env) # Invalid
  PROVE  /\ loadConfig(env).settleIntervalSeconds \in Nat \ {0}
         /\ loadConfig(env).batchIntervalSeconds \in Nat \ {0}
<1>1. loadConfig(env) = Parsed(env) /\ \A key \in DOMAIN Parsed(env) : Parsed(env)[key] # Invalid
  BY Zenon DEF loadConfig
<1>2. /\ "settleIntervalSeconds" \in DOMAIN Parsed(env)
      /\ "batchIntervalSeconds" \in DOMAIN Parsed(env)
      /\ Parsed(env)["settleIntervalSeconds"]
           = parsePositiveInt(env, "SETTLE_INTERVAL_SECONDS", 300)
      /\ Parsed(env)["batchIntervalSeconds"]
           = parsePositiveInt(env, "BATCH_INTERVAL_SECONDS", 15)
  BY DEF Parsed
<1>3. \A key, n : \/ parsePositiveInt(env, key, n) \in Nat \ {0}
                  \/ parsePositiveInt(env, key, n) = Invalid
  BY Zenon DEF parsePositiveInt
<1>4. /\ parsePositiveInt(env, "SETTLE_INTERVAL_SECONDS", 300) # Invalid
      /\ parsePositiveInt(env, "BATCH_INTERVAL_SECONDS", 15) # Invalid
  BY <1>1, <1>2, SMT
<1>5. /\ parsePositiveInt(env, "SETTLE_INTERVAL_SECONDS", 300) \in Nat \ {0}
      /\ parsePositiveInt(env, "BATCH_INTERVAL_SECONDS", 15) \in Nat \ {0}
  BY <1>3, <1>4, SMT
<1>6. QED
  BY <1>1, <1>2, <1>5, SMT

(* The timers of a service that has just started (scheduler.ts:46-63). *)
LEMMA StartedInterval ==
  ASSUME NEW cfg,
         cfg.settleIntervalSeconds \in Nat \ {0}, cfg.settleIntervalSeconds <= MaxSeconds,
         cfg.batchIntervalSeconds \in Nat \ {0}
  PROVE  /\ Started(cfg) \in [Timers -> Int]
         /\ Started(cfg)[Interval] \in {Off, 1000 * cfg.settleIntervalSeconds}
<1>1. Interval \in Timers /\ Interval[1] = "every" /\ Interval[2] = "settle"
  BY DEF Interval, Timers, Jobs
<1>2. MaxSeconds \in Nat
  BY SMT DEF MaxSeconds
<1>3. \A j \in Jobs : Delay(Seconds(cfg, j)) \in Int
  BY <1>2, SMT DEF Delay, Seconds, Jobs
<1>4. \A t \in Timers : t[2] \in Jobs
  BY DEF Timers
<1>5. Started(cfg) \in [Timers -> Int]
  BY <1>3, <1>4, SMT DEF Started, Off
<1>6. Delay(Seconds(cfg, "settle")) = 1000 * cfg.settleIntervalSeconds
  BY <1>2, SMT DEF Delay, Seconds
<1>7. QED
  BY <1>1, <1>5, <1>6, SMT DEF Started

LEMMA Initially == Init => IInv
BY SMT DEF Init, IInv, Running, Interval, Timers, Jobs, Off

(* A step keeps the account of the interval. *)
LEMMA Preserved == ASSUME Fits, IInv, [Next]_vars PROVE IInv'
<1>0. Interval \in Timers /\ Off = -1 /\ MaxSeconds \in Nat
  BY SMT DEF Interval, Timers, Jobs, Off, MaxSeconds
<1>1. ASSUME NEW env \in Environments, Boot(env) PROVE IInv'
  <2>1. CASE settings' = Invalid
    BY <1>1, <2>1, SMT DEF Boot, IInv, Running
  <2>2. CASE settings' # Invalid
    <3>1. /\ settings' = loadConfig(env) /\ settings' # Unset
          /\ timer' = Started(settings') /\ elapsed' = elapsed
      BY <1>1, <2>2, Zenon DEF Boot, Fits
    <3>2. /\ loadConfig(env).settleIntervalSeconds \in Nat \ {0}
          /\ loadConfig(env).batchIntervalSeconds \in Nat \ {0}
      <4>1. loadConfig(env) # Invalid
        BY <3>1, <2>2
      <4>2. QED
        BY <4>1, PositiveInterval
    <3>3. loadConfig(env).settleIntervalSeconds <= MaxSeconds
      BY <3>1, <2>2, Zenon DEF Fits
    <3>4. /\ timer' \in [Timers -> Int]
          /\ timer'[Interval] \in {Off, 1000 * loadConfig(env).settleIntervalSeconds}
      <4>1. /\ Started(loadConfig(env)) \in [Timers -> Int]
            /\ Started(loadConfig(env))[Interval]
                 \in {Off, 1000 * loadConfig(env).settleIntervalSeconds}
        BY <3>2, <3>3, StartedInterval
      <4>2. QED
        BY <3>1, <4>1, Zenon
    <3>5. elapsed' \in Nat /\ Running'
      BY <3>1, <2>2, Zenon DEF IInv, Running
    <3>6. QED
      BY <1>0, <3>1, <3>2, <3>3, <3>4, <3>5, SMT DEF IInv
  <2>3. QED
    BY <2>1, <2>2
<1>2. ASSUME NEW ms \in Jumps, Pass(ms) PROVE IInv'
  BY <1>0, <1>2, SMT DEF Pass, IInv, Running, Fits
<1>3. ASSUME NEW t \in Timers, Fire(t) PROVE IInv'
  <2>1. /\ timer[t] = 0 /\ settings' = settings
        /\ timer' = [timer EXCEPT ![t] = timer'[t]]
        /\ t[1] = "every" => timer'[t] = Delay(Seconds(settings, t[2]))
        /\ t[1] # "every" => timer'[t] = Off
        /\ elapsed' = IF t = Interval THEN 0 ELSE elapsed
    BY <1>3, SMT DEF Fire, IInv, Interval
  <2>2. Interval[1] = "every" /\ Interval[2] = "settle"
    BY DEF Interval
  <2>3. CASE t = Interval
    <3>1. Running
      BY <2>1, <2>3, <1>0, SMT DEF IInv
    <3>2. timer'[Interval] = 1000 * settings.settleIntervalSeconds
      BY <1>0, <2>1, <2>2, <2>3, <3>1, SMT DEF IInv, Delay, Seconds
    <3>3. QED
      BY <1>0, <2>1, <2>3, <3>1, <3>2, SMT DEF IInv, Running
  <2>4. CASE t # Interval
    <3>1. timer'[t] \in Int
      <4>1. Running /\ t[2] \in Jobs
        BY <1>0, <2>1, SMT DEF IInv, Timers
      <4>2. Delay(Seconds(settings, t[2])) \in Int
        BY <4>1, SMT DEF IInv, Delay, Seconds
      <4>3. QED
        BY <1>0, <2>1, <4>2
    <3>2. timer'[Interval] = timer[Interval]
      BY <1>0, <2>1, <2>4, SMT DEF IInv
    <3>3. QED
      BY <1>0, <1>3, <2>1, <2>4, <3>1, <3>2, SMT DEF IInv, Running
  <2>5. QED
    BY <2>3, <2>4
<1>4. ASSUME NEW whole \in BOOLEAN, FlushEnds(whole) PROVE IInv'
  BY <1>4, SMT DEF FlushEnds, IInv, Running
<1>5. ASSUME NEW result, SettleEnds(result) PROVE IInv'
  BY <1>5, SMT DEF SettleEnds, IInv, Running
<1>6. CASE Close
  BY <1>0, <1>6, SMT DEF Close, IInv, Running, Interval
<1>7. CASE UNCHANGED vars
  BY <1>7, SMT DEF vars, IInv, Running
<1>8. QED
  BY <1>1, <1>2, <1>3, <1>4, <1>5, <1>6, <1>7, Zenon DEF Next

(* For every environment whose intervals fit in 31 bits of milliseconds,   *)
(* the settle interval keeps its cadence; SchedulerMonthly shows that the  *)
(* bound is needed (scheduler.ts:46-63).                                   *)
THEOREM Cadence == ASSUME Fits PROVE Spec => OnCadence
<1> DEFINE Kept == elapsed' < elapsed => elapsed \div 1000 >= settings.settleIntervalSeconds
<1>1. ASSUME Fits, IInv, Next PROVE Kept
  <2>1. SUFFICES ASSUME elapsed' < elapsed
                 PROVE  elapsed \div 1000 >= settings.settleIntervalSeconds
    OBVIOUS
  <2>2. ASSUME NEW env \in Environments, Boot(env) PROVE FALSE
    BY <1>1, <2>1, <2>2, SMT DEF Boot, IInv
  <2>3. ASSUME NEW ms \in Jumps, Pass(ms) PROVE FALSE
    BY <1>1, <2>1, <2>3, SMT DEF Pass, IInv, Fits
  <2>4. ASSUME NEW whole, FlushEnds(whole) PROVE FALSE
    BY <1>1, <2>1, <2>4, SMT DEF FlushEnds, IInv
  <2>5. ASSUME NEW result, SettleEnds(result) PROVE FALSE
    BY <1>1, <2>1, <2>5, SMT DEF SettleEnds, IInv
  <2>6. CASE Close
    BY <1>1, <2>1, <2>6, SMT DEF Close, IInv
  <2>7. ASSUME NEW t \in Timers, Fire(t)
        PROVE  elapsed \div 1000 >= settings.settleIntervalSeconds
    <3>1. t = Interval /\ timer[Interval] = 0
      BY <1>1, <2>1, <2>7, SMT DEF Fire, IInv, Interval
    <3>2. Running
      BY <1>1, <3>1, <2>7, SMT DEF IInv, Off
    <3>3. elapsed \in Nat /\ settings.settleIntervalSeconds \in Nat
          /\ elapsed >= 1000 * settings.settleIntervalSeconds
      BY <1>1, <3>1, <3>2, SMT DEF IInv, Off
    <3>4. QED
      BY <3>3, SMT
  <2>8. QED
    BY <1>1, <2>2, <2>3, <2>4, <2>5, <2>6, <2>7, Zenon DEF Next
<1>2. IInv /\ [Next]_vars => IInv'
  BY Preserved
<1>3. IInv /\ [Next]_vars => [Kept]_vars
  BY <1>1
<1>4. QED
  BY Initially, <1>2, <1>3, PTL DEF Spec, OnCadence

=============================================================================
