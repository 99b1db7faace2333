------------------------------- MODULE Dashboard -------------------------------
(***************************************************************************)
(* The dashboard (frontend: dashboard.tsx, api.ts) and what it asks of the *)
(* backend: GET /api/overview (relayer.ts), which reads the configuration, *)
(* then meter by meter the entry and the position, a call to the chain     *)
(* each, and POST /api/settle.  A load in flight is not cancelled by the   *)
(* next one: they may overlap and their answers arrive in any order.       *)
(*                                                                         *)
(* The contract is seen through its views and `settle`; readings and       *)
(* settlements of others change it at any time.                            *)
(***************************************************************************)
EXTENDS Integers, Sequences, FiniteSets, SequencesExt

CONSTANTS
  Registry,     \* the local registry: meter ids, in order
  Deployments,  \* the sets of meters the contract may know
  Openings,     \* the positions the page may find
  Deltas,       \* the net watt-hours of a reading
  Loads,        \* the loads that may overlap; "after" is settle's own
  Absent,       \* no value
  Broken,       \* an overview that cannot be rendered
  MaxEvents,    \* bound: clicks, and failed or truncated answers
  MaxChanges    \* bound: what others do to the contract

VARIABLES
  tariff,            \* the contract: price and fee; see module Tariff
  known, nonce, net, \* the contract: meters, their nonces, their positions
  load,              \* the loads: server side, then the answer
  settle,            \* the settlement the page waits for
  overview, loading, error, settling, report,  \* the state of the component
  events,  \* clicks and faults so far
  changes, \* changes by others so far
  since,   \* history: the contract's states since a load began
  shown    \* history: those of the load whose answer is on the page

grid      == <<known, nonce, net>>
page      == <<overview, loading, error, settling, report>>

NoLoad == [stage |-> "idle"]

NoSettle == [stage |-> "idle"]

NewLoad == [stage |-> "config", config |-> Absent, at |-> 1, nonce |-> Absent, cards |-> <<>>]

Listed == ToSet(Registry)

(* The page is mounted and loads. *)
Init ==
  /\ known \in Deployments /\ net \in Openings
  /\ nonce = [m \in Listed |-> 1]
  /\ load = [l \in Loads |-> IF l = "view" THEN NewLoad ELSE NoLoad]
  /\ settle = NoSettle
  /\ overview = Absent /\ loading = TRUE /\ error = "none"
  /\ settling = FALSE /\ report = Absent
  /\ changes = 0 /\ shown = {}

-----------------------------------------------------------------------------
(* What others do: submit readings, settle. *)

Cleared == [m \in Listed |-> IF m \in known THEN 0 ELSE net[m]]

AcceptReading(m, wh) ==
  /\ m \in known /\ changes < MaxChanges
  /\ changes' = changes + 1
  /\ nonce' = [nonce EXCEPT ![m] = @ + 1]
  /\ net' = [net EXCEPT ![m] = @ + wh]
  /\ UNCHANGED <<known, events, load, settle, page, shown>>

Opposite == (\E m \in known : net[m] > 0) /\ (\E m \in known : net[m] < 0)

SettleElsewhere ==
  /\ Opposite /\ changes < MaxChanges
  /\ changes' = changes + 1
  /\ net' = Cleared
  /\ UNCHANGED <<known, nonce, events, load, settle, page, shown>>

-----------------------------------------------------------------------------
(* Relayer.overview, a call to the chain at a time. *)

ReadConfig(l) ==
  /\ load[l].stage = "config"
  /\ load' = [load EXCEPT ![l] =
                [@ EXCEPT !.stage = IF Registry = <<>> THEN "answered" ELSE "meter",
                          !.config = tariff]]
  /\ UNCHANGED <<grid, changes, settle, page, shown, events>>

Entry(l) == Registry[load[l].at]

Further(l) == IF load[l].at = Len(Registry) THEN "answered" ELSE "meter"

(* A meter the contract does not know is left out. *)
ReadMeter(l) ==
  /\ load[l].stage = "meter"
  /\ load' = [load EXCEPT ![l] =
                IF Entry(l) \in known
                  THEN [@ EXCEPT !.stage = "net", !.nonce = nonce[Entry(l)]]
                  ELSE [@ EXCEPT !.stage = Further(l), !.at = load[l].at + 1]]
  /\ UNCHANGED <<grid, changes, settle, page, shown, events>>

(* Mutant: the position of the meter with the number of the turn. *)
NetOfTurn(l) == net[Cardinality(Listed) + 1 - load[l].at]

NetOf(l) == net[Entry(l)]

ReadNet(l) ==
  /\ load[l].stage = "net"
  /\ load' = [load EXCEPT ![l] =
                [@ EXCEPT !.stage = Further(l), !.at = load[l].at + 1, !.nonce = Absent,
                          !.cards = Append(load[l].cards,
                                         [id |-> Entry(l), nonce |-> load[l].nonce,
                                          net_wh |-> NetOf(l)])]]
  /\ UNCHANGED <<grid, changes, settle, page, shown, events>>

(* A call to the chain or the request fails, ... *)
LoseLoad(l) ==
  /\ load[l].stage \notin {"idle", "failed", "cut"} /\ events < MaxEvents
  /\ events' = events + 1
  /\ load' = [load EXCEPT ![l] = [stage |-> "failed"]]
  /\ UNCHANGED <<grid, changes, settle, page, shown>>

(* ... or the body of a 200 is cut off: `request` takes {} for it.         *)
CutLoad(l) ==
  /\ load[l].stage = "answered" /\ events < MaxEvents
  /\ events' = events + 1
  /\ load' = [load EXCEPT ![l] = [stage |-> "cut"]]
  /\ UNCHANGED <<grid, changes, settle, page, shown>>

-----------------------------------------------------------------------------
(* load() in the page. *)

Free(l) == load[l] = NoLoad

Begins(l, base) == load' = [base EXCEPT ![l] = NewLoad]

(* Refresh, or Retry while there is nothing to show.  Neither button is    *)
(* disabled during a load; nothing is rendered but "Loading" before the    *)
(* first one ends.                                                         *)
ClickLoad(l) ==
  /\ l # "after" /\ Free(l) /\ events < MaxEvents
  /\ overview # Broken /\ ~(loading /\ overview = Absent)
  /\ events' = events + 1
  /\ Begins(l, load) /\ loading' = TRUE /\ error' = "none"
  /\ UNCHANGED <<grid, changes, settle, overview, settling, report, shown>>

(* Mutant: the flag is reset after the call, not in a `finally`. *)
LoadingIfFailed(l) == load[l].stage = "failed"

StillLoading(l) == FALSE

(* settle() awaits its load; its `finally` follows.                        *)
EndsLoad(l) ==
  /\ load' = [load EXCEPT ![l] = NoLoad]
  /\ loading' = StillLoading(l)
  /\ settling' = IF l = "after" THEN FALSE ELSE settling
  /\ settle' = IF l = "after" THEN NoSettle ELSE settle
  /\ UNCHANGED <<grid, changes, report, events>>

Loaded(l) ==
  /\ load[l].stage = "answered" /\ overview # Broken
  /\ overview' = [config |-> load[l].config, meters |-> load[l].cards]
  /\ shown' = since[l]
  /\ EndsLoad(l)
  /\ UNCHANGED error

LoadFailed(l) ==
  /\ load[l].stage = "failed" /\ overview # Broken
  /\ error' = "load"
  /\ EndsLoad(l)
  /\ UNCHANGED <<overview, shown>>

(* The empty object has no meters: rendering throws, the page is gone.     *)
Breaks(l) ==
  /\ load[l].stage = "cut" /\ overview # Broken
  /\ overview' = Broken /\ shown' = {}
  /\ EndsLoad(l)
  /\ UNCHANGED error

-----------------------------------------------------------------------------
(* settle() in the page, and POST /api/settle. *)

ClickSettle ==
  /\ overview \notin {Absent, Broken} /\ overview.meters # <<>>
  /\ ~settling /\ events < MaxEvents
  /\ events' = events + 1
  /\ settling' = TRUE /\ error' = "none" /\ report' = Absent
  /\ settle' = [stage |-> "sent"]
  /\ UNCHANGED <<grid, changes, load, overview, loading, shown>>

(* The whole registry is settled: an id the contract does not know, or a   *)
(* market with one side, is refused.                                       *)
Settles == Listed \subseteq known /\ Opposite

LandSettle ==
  /\ settle.stage = "sent"
  /\ net' = IF Settles THEN Cleared ELSE net
  /\ settle' = [stage |-> IF Settles THEN "settled" ELSE "failed"]
  /\ UNCHANGED <<known, nonce, changes, load, page, shown, events>>

(* The call fails before it lands, a transfer that is refused and undoes   *)
(* it all included, or its answer is lost, or cut off.                     *)
LoseSettle ==
  /\ settle.stage \in {"sent", "settled"} /\ events < MaxEvents
  /\ events' = events + 1
  /\ settle' = [stage |-> "failed"]
  /\ UNCHANGED <<grid, changes, load, page, shown>>

CutSettle ==
  /\ settle.stage = "settled" /\ events < MaxEvents
  /\ events' = events + 1
  /\ settle' = [stage |-> "cut"]
  /\ UNCHANGED <<grid, changes, load, page, shown>>

(* Mutant: the page is not loaded again. *)
ShowsReportOnly ==
  /\ settle' = NoSettle /\ settling' = FALSE
  /\ UNCHANGED <<load, loading, error>>

ShowsReport ==
  /\ settle' = [stage |-> "loading"]
  /\ Begins("after", load) /\ loading' = TRUE /\ error' = "none"
  /\ UNCHANGED settling

(* The report is shown, the page loaded again.  Of a truncated answer the  *)
(* report is undefined, and not shown.                                     *)
Settled ==
  /\ settle.stage \in {"settled", "cut"} /\ overview # Broken
  /\ report' = IF settle.stage = "cut" THEN Absent ELSE "report"
  /\ ShowsReport
  /\ UNCHANGED <<grid, changes, overview, shown, events>>

SettleFailed ==
  /\ settle.stage = "failed" /\ overview # Broken
  /\ error' = "settle" /\ settling' = FALSE
  /\ settle' = NoSettle
  /\ UNCHANGED <<grid, changes, load, overview, loading, report, shown, events>>

-----------------------------------------------------------------------------
Server(l) == ReadConfig(l) \/ ReadMeter(l) \/ ReadNet(l)

Arrives(l) == Loaded(l) \/ LoadFailed(l) \/ Breaks(l)

SettleGoesOn == LandSettle \/ Settled \/ SettleFailed

Next ==
  \/ \E m \in Listed, wh \in Deltas : AcceptReading(m, wh)
  \/ SettleElsewhere
  \/ \E l \in Loads : Server(l) \/ LoseLoad(l) \/ CutLoad(l) \/ ClickLoad(l) \/ Arrives(l)
  \/ ClickSettle \/ SettleGoesOn \/ LoseSettle \/ CutSettle

=============================================================================
