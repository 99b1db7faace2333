------------------------------- MODULE Scheduler -------------------------------
(***************************************************************************)
(* The timers of the service in time: from boot (index.ts, server.ts) to   *)
(* the end of the process, the jobs of scheduler.ts are begun by two       *)
(* intervals and, a second after boot, by two one-shot timers.  A clock    *)
(* counts milliseconds; a timer may run late, never early.  What the jobs  *)
(* do is in modules Relayer and Operator.                                  *)
(*                                                                         *)
(* External: Node runs an interval every millisecond when its delay does   *)
(* not fit in 31 bits.                                                     *)
(***************************************************************************)
EXTENDS Settings, FiniteSetsExt

CONSTANTS Environments,  \* what the process may be started with
          Jumps          \* the steps of the clock, in milliseconds

VARIABLES settings,  \* the AppConfig, Unset before boot, Invalid if refused
          timer,     \* the milliseconds left on each timer, Off if not set
          busy,      \* flushBusy, settleBusy
          closed,    \* whether the server has closed
          status,    \* last_flush_at, last_settle_at, last_settle_error: set or not
          elapsed    \* the milliseconds since the settle interval was set or ran

vars == <<settings, timer, busy, closed, status, elapsed>>

Jobs == {"flush", "settle"}

Timers == {"every", "once"} \X Jobs

Off == -1

Init ==
  /\ settings = Unset /\ closed = FALSE
  /\ timer = [t \in Timers |-> Off] /\ busy = [j \in Jobs |-> FALSE]
  /\ status = [flushed |-> FALSE, settled |-> FALSE, error |-> FALSE]
  /\ elapsed = 0

-----------------------------------------------------------------------------
(* External: setInterval's and setTimeout's delay, of a number of seconds. *)
MaxSeconds == 2147483

Delay(seconds) == IF seconds > MaxSeconds THEN 1 ELSE 1000 * seconds

Wanted(cfg) ==
  IF ~cfg.schedulerEnabled THEN {} ELSE IF cfg.autoSettle THEN Jobs ELSE {"flush"}

Seconds(cfg, job) ==
  IF job = "flush" THEN cfg.batchIntervalSeconds ELSE cfg.settleIntervalSeconds

(* start(), of a scheduler that is not running. *)
Started(cfg) ==
  [t \in Timers |-> IF t[2] \notin Wanted(cfg) THEN Off
                    ELSE IF t[1] = "every" THEN Delay(Seconds(cfg, t[2])) ELSE 1000]

(* loadConfig, buildServer: the process ends on a bad environment.         *)
Boot(env) ==
  /\ settings = Unset
  /\ settings' = loadConfig(env)
  /\ timer' = IF settings' = Invalid THEN timer ELSE Started(settings')
  /\ UNCHANGED <<busy, closed, status, elapsed>>

Running == settings \notin {Unset, Invalid}

(* A due timer waits while another callback runs. *)
Pass(ms) ==
  /\ Running
  /\ timer' = [t \in Timers |-> IF timer[t] > ms THEN timer[t] - ms
                                ELSE IF timer[t] = Off THEN Off ELSE 0]
  /\ elapsed' = elapsed + ms
  /\ UNCHANGED <<settings, busy, closed, status>>

(* flush() and settle(): nothing is done while the job runs already.       *)
Fire(t) ==
  /\ timer[t] = 0
  /\ timer' = [timer EXCEPT ![t] =
                 IF t[1] = "every" THEN Delay(Seconds(settings, t[2])) ELSE Off]
  /\ busy' = [busy EXCEPT ![t[2]] = TRUE]
  /\ elapsed' = IF t = <<"every", "settle">> THEN 0 ELSE elapsed
  /\ UNCHANGED <<settings, closed, status>>

FlushEnds(whole) ==
  /\ busy["flush"]
  /\ busy' = [busy EXCEPT !["flush"] = FALSE]
  /\ status' = [status EXCEPT !.flushed = @ \/ whole]
  /\ UNCHANGED <<settings, timer, closed, elapsed>>

(* "empty": no meter is registered; "nothing": NothingToSettle.            *)
SettleEnds(result) ==
  /\ busy["settle"]
  /\ busy' = [busy EXCEPT !["settle"] = FALSE]
  /\ status' = CASE result = "closed"  -> [status EXCEPT !.settled = TRUE, !.error = FALSE]
                 [] result = "nothing" -> [status EXCEPT !.error = FALSE]
                 [] result = "failed"  -> [status EXCEPT !.error = TRUE]
                 [] OTHER              -> status
  /\ UNCHANGED <<settings, timer, closed, elapsed>>

(* SIGTERM: the onClose hook stops the intervals; the one-shot timers stay *)
(* until the process exits.                                                *)
Close ==
  /\ Running /\ ~closed
  /\ closed' = TRUE
  /\ timer' = [t \in Timers |-> IF t[1] = "every" THEN Off ELSE timer[t]]
  /\ UNCHANGED <<settings, busy, status, elapsed>>

Next ==
  \/ \E env \in Environments : Boot(env)
  \/ \E ms \in Jumps : Pass(ms)
  \/ \E t \in Timers : Fire(t)
  \/ \E whole \in BOOLEAN : FlushEnds(whole)
  \/ \E result \in {"closed", "nothing", "failed", "empty"} : SettleEnds(result)
  \/ Close

Spec == Init /\ [][Next]_vars

-----------------------------------------------------------------------------
(* "Close a settlement window on a fixed cadence." (config.ts:32): the     *)
(* settle interval runs its job SETTLE_INTERVAL_SECONDS after it did so    *)
(* before, or later, never earlier (scheduler.ts:46-63).                   *)
OnCadence ==
  [][elapsed' < elapsed => elapsed \div 1000 >= settings.settleIntervalSeconds]_vars

=============================================================================
