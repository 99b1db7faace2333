# GridPulse: specification and proofs

TLA+ models of the GridPulse energy market, TLC configurations that check
them on small instances, and TLAPS proofs of the properties that matter most.
The models are translated from the code: the Soroban contract
(`contracts/gridpulse/src`), the relayer (`backend/src`) and the dashboard
(`frontend/src`). `PROJECT.json`
names, for every definition, the lines it stands for.

## The system

GridPulse settles energy between homes. Meters sign readings; a relayer
checks and queues them and submits them to a contract; the contract keeps one
net position per meter and, when somebody calls `settle`, moves tokens from
the homes in deficit to the homes in surplus.

| part | state | operations | interacts with |
| --- | --- | --- | --- |
| contract (`contract.rs`, `meter.rs`, `storage.rs`) | config, next id, meters (persistent), net positions (temporary) | constructor, register, switch, reassign, price, fee, submit, settle | token (calls), host (auth, atomicity, lifetimes) |
| settlement engine (`settle.rs`) | local to one call | `run` | positions, token |
| token (external) | balances, allowances | `approve`, `transfer_from` | homes, contract |
| relayer and queue (`relayer.ts`, `queue.ts`) | queue in memory and in `readings.json` | `enqueueReading`, `flush`, `load`, `save` | chain client (awaits), HTTP, scheduler |
| scheduler (`scheduler.ts`) | two intervals and two one-shot timers, two busy flags, the last results | `start`, `stop`, `flush`, `settle` | relayer |
| admin and registry (`admin.ts`, `registry.ts`) | meters in memory and in `registry.json` | `registerMeter`, three forwarding calls | chain client |
| chain client (`chain.ts`) | one lazily made client (a promise) | one method per entry point | RPC node |
| routes (`routes.ts`) | requests in progress | HTTP handlers; one of them sends two transactions | all of the backend |
| wiring, config (`server.ts`, `index.ts`, `config.ts`) | the settings | boot, shutdown on a signal | scheduler, HTTP server, environment |
| dashboard (`dashboard.tsx`, `api.ts`) | overview, report, three flags and an error | load, refresh, settle | HTTP API |
| wallet panel (`wallet-panel.tsx`, `stellar.ts`) | address, busy, message | connect, approve | the wallet extension, the network |

What is hard about it:

* money: three divisions round one after the other, and a two-pointer loop
  with zero amounts has to move exactly what was computed (`settle.rs:69-175`);
* all or nothing: errors, traps and refused transfers in the middle of a
  settlement (`settle.rs:117-175`);
* replay protection lives in an entry that the admin's operations rewrite
  (`meter.rs:52-78`, `contract.rs:66-85`), positions in entries that expire
  (`storage.rs:50-65`);
* the backend is one thread, but every call to the chain is an `await` during
  which everything else runs; what was read before is used after it
  (`relayer.ts:119-200`);
* calls fail before or after their transaction landed, the process dies
  between two steps, both files are rewritten in place (`queue.ts:66-80`,
  `registry.ts:58-69`), a signal stops the process while requests and jobs run
  (`index.ts:15-22`), and one home that cannot pay undoes the settlement of all;
* the page's loads overlap and none is cancelled, the overview is read in many
  calls, and the wallet may change account between two of them
  (`dashboard.tsx:51-80`, `relayer.ts:71-87`, `stellar.ts:83-129`).

`PROJECT.json` lists these as hazards, each at its line, with the properties
that would catch it.

## The modules

| module | what it is |
| --- | --- |
| `Settlement` | the amounts and transfers of a settlement in closed form; the token's `transfer_from` |
| `SettlementProofs` | lemmas about the closed form, for windows of any length |
| `AtomicSettle` | abstract specification: `settle` is one step, all or nothing, with the closed-form amounts |
| `SettleRun` | `settle::run`, one action per loop iteration, with overflow and refused transfers |
| `SettleRunProps`, `SettleRunProofs` | its properties; its theorems |
| `SettleAtomicProofs` | the loops implement `AtomicSettle` |
| `GridPulse` | the contract: one action per entry point that writes, approvals, closing ledgers |
| `GridPulseProps`, `GridPulseProofs` | its properties; its theorems |
| `ReplayGate` | abstract specification: what a meter's entry promises to whoever submits readings |
| `Relayer`, `RelayerProps`, `RelayerProofs` | a reading from `POST /api/readings` to the contract; its properties; its theorems |
| `Operator`, `OperatorProps`, `OperatorProofs` | registration, the registry, settling jobs, the shared clients, shutdown; its properties; its theorems |
| `Settings` | `loadConfig`, field by field, as operators |
| `Scheduler`, `SchedulerProofs` | boot, the four timers in time, the two jobs' flags, `stop`; its theorem |
| `Tariff` | `PATCH /api/admin/config`: requests of two transactions each |
| `Dashboard` | the page, its loads and its settlement, and `Relayer.overview` behind them |
| `Wallet` | the wallet panel, the extension, the network that takes an approval |
| `Console`, `ConsoleProps`, `ConsoleProofs` | `Tariff`, `Dashboard` and `Wallet` composed; their properties; its theorems |
| `MCSettleRun`, `MCGridPulse`, `MCRelayer`, `MCOperator`, `MCConsole`, `MCScheduler` | small values for TLC |

`GridPulse` and `AtomicSettle` both use `Settlement`: in the contract a
settlement is one step (`Settle`); `SettleSwap` shows on small windows, and
`SettleAtomicProofs` proves for all, that the loops of the code are that step. `Relayer` sees of the contract only the meters' entries.
`ReplayGate` is what the two have in common: `GridPulseProps.KeepsTheGate`
says that the whole contract implements it, `RelayerProps.KeepsTheGate` that
the contract as `Relayer` has it does no more. `Console` instantiates its three
parts; a step is a step of one of them.

### How state and actions correspond to the code

**Settlement and SettleRun.** In closed form a listed meter is `Among` the
exporters or the importers as often as it is listed, `Upto` are the values an
accumulator passes through, and the swap is a line: payments are laid end to
end from 0 to `total_paid`, nets end to end from 0, and each stretch between two
neighbouring ends (`Cut`) is one transfer, from the consumer to the producer
that cover it (`Covering`), or to the admin beyond `total_net`. A window `w` is
what a call reads: the list, the owners, the positions, the price and the fee.
`prods` and `cons` are the
vectors of the code, `paid`, `matched` and `netted` the successive values of
the accumulators, `ci`, `pi`, `pay_left`, `net_left` the swap's variables with
indices from 1. `purse` is the token during the call. The ledger (`net`,
`bal`, `allow`, `payments`, `report`) changes only in `Return`: an error, an
overflow or a refused transfer leaves it alone, as the host reverts the call.
The build keeps overflow checks on, so a result beyond `I128Max` traps
(`InRange`). `charged`, `received` and `to_admin` are history.

**GridPulse.** Actions are the calls that succeed; a failing call changes
nothing. `SubmitResult` returns what `meter::submit` returns, in its order of
checks. `ed25519_verify` is an exact match of key and all five fields: what a
device signed is the constant `Signatures`. A net position is a temporary
entry with a lifetime counted in ledgers; `CloseLedger` ages entries and
drops the expired ones. `metered`, `settled`, `lapsed` and `accepted` are
history. Admin operations are taken by the admin only (`require_auth`).

**Relayer.** One step is what runs between two awaits. A request is
*asked* (waiting for the meter), *read* (the chain has answered; the handler
has not resumed), then refused or queued. Validation and queueing are one
step: no I/O is awaited between them. A flush is *sent* (a submission is on
its way), then *accepted*, *rejected* or *trapped* (the chain has decided; the
answer is on its way). `Fail` loses either the submission or the answer; a
submission that was given up on may still land (`late`). `Crash` loses memory,
`CrashInSave` also leaves a truncated file.

**Operator.** A call waits for the client (*dialling*), then for its
transaction (*sent*), then for the answer. Of a position only the sign is
kept. `SettleJob` is guarded by `settleBusy`, `SettleNow` (the endpoint) is not.
A registration that was given up on may land later (`late`). Adding the meter
and writing the file are one step with the answer, as nothing is awaited between
them; `SaveFails` is a write that throws after the meter was added, before it
began or half-way, and `CrashInSave` a crash in it. Either may leave `disk` torn,
since the file is truncated and rewritten in place, and `load` throws on such a
file: there is no `Restart` from it. A settlement is `"trapped"` when a home of
the list that is in deficit is `short` of allowance or balance (`Spend` changes
which are, among `Poor`): the contract reverts it, and the call throws with no
network fault at all. `Shutdown` is a
signal: no request is taken any more, and `Exit` comes when the requests in
progress were answered (Fastify's `close`); the job is not waited for.

**Settings and Scheduler.** An environment is a function on the variables'
names; a value is unset, blank, a number or a word, since that is all
`loadConfig` tells apart. `timer` holds the milliseconds left; `Pass` lets time
go by, and a due timer may wait for as long as other callbacks run. That a
delay beyond 31 bits becomes a millisecond is Node's doing, hence external.

**Tariff.** A request is at `price`, then at `fee_bps`, or over.
`FirstStage` and `FeeStage` are the two `if`s and the validation in front of
the second transaction. A transaction carries the identity of its request, the
number of events before it, so that two PATCHes with the same body are told
apart. What `set` holds, the transactions that have landed, is history.

**Dashboard.** `load[l]` is first the handler of `GET /api/overview` on the
server (*config*, then *meter* and *net* in turn), then the answer on its way
(*answered*, *failed*, or *cut* off: `res.json()` fails and `{}` is taken for
the body of a 200). `Loaded`, `LoadFailed` and `Breaks` are the rest of
`load()` with its `finally`; the load called `after` is the one `settle()`
awaits, whose `finally` follows. Which buttons there are is the guard of
`ClickLoad` and `ClickSettle`. `since`, `shown` and `after` are history: states
of the contract, to compare figures with, since each load began, for the figures
on the page, and since the reported settlement landed. `early` is history too,
the loads that had begun before that, and `overtaken` is whether the page shows
the answer of one of them.

**Wallet.** One step per call of `approveToken` to the extension or the
network. The account of the approval is the one `getAddress` returned, whatever
the panel shows. `taken`, `allowed` and `dropped` are the transactions the
network has. Of the statuses of `sendTransaction` only PENDING puts one there:
TRY_AGAIN_LATER and ERROR both mean that it was not taken, and `IsSent`, which
the panel goes by, is false for ERROR alone.

## The runs

| run | instance | shows |
| --- | --- | --- |
| `SettleSwap` | 4 meters, five positions each, 2 orders, 2 prices, 2 fees; odd lists, shared owners, short wallets, integers up to 2500000 | `IInv`, `ExactSwap`, `RoundedFairly`, `TradedAtTariff`, `DustOnly`; `Terminates`; refinement `RunIsAtomic`, on every failure path |
| `SettleThin` | 4 meters, each with 1 Wh of surplus or of deficit | *violation* of `ProducersGetThePool` |
| `GridSettle` | 2 meters, 5 signatures and a made-up reading, 2 keys, 3 owners, all admin operations, lists without repetition | `TypeOK`, `NoReplay`, `DeviceBinding`, `EnergyLedger`; `StaleForGood`, `OwnEnergyOnly`; refinement `KeepsTheGate` |
| `GridTwice` | two meters with one key each way, a list that repeats an id | *violation* of `OwnEnergyOnly` |
| `RelayQueue` | 2 readings of one meter and a forged one of another, 2 requests at a time, the meter switched on and off, torn writes, 2 faults | `TypeOK`, `NothingLost`, `NothingTwice`, `QueueInOrder`; `Delivered`; refinement `KeepsTheGate` |
| `RelayOverlap` | scheduler's flush and `POST /api/flush` | *violation* of `NothingLost` |
| `RelayReactivated` | a meter switched on and off | *violation* of `NeverLater` |
| `OperatorSettles` | 2 meters, one of a home that may be unable to pay, job and endpoint, 2 faults (failed calls and writes, crashes, shutdowns) | `TypeOK`, `NoneForgotten`, `NoneBetween`; `MarketClears`, `JobEnds` |
| `OperatorStuck` | 1 meter, 1 fault | *violation* of `ClientRecovers` |
| `Console` | 2 meters (one perhaps unknown to the contract), 3 loads, 2 accounts, 2 PATCHes at a time (whole, or with a bad fee), 2 events, 1 change by others | `TypeOK`, `FiguresWereTrue`, `FreshWithReport`, `FeeAfterPrice`, `ApprovesSelected`; `ButtonsReturn` |
| `ConsoleTryAgain` | no meters, 1 account, 2 events | *violation* of `AnnouncedWasSent` |
| `SchedulerMonthly` | one environment, an interval of thirty days | *violation* of `OnCadence` |

Why the bounds are enough. Two consumers and two producers with positions from
0 (a meter that sits out) to 3 reach every relative order of the two pointers,
zero payments and zero payouts (price 700 rounds a watt-hour to nothing), and
both branches after the loop. The width of 2500000 lets each product and each
sum overflow in some window while the others fit. Two readings and a batch
of two give a full and a partial batch; two requests are enough to overlap, with
the same reading or different ones; two faults allow a failure during the
recovery from another: a torn write after a lost answer, a late registration or
a failed write before a crash or a shutdown. Two meters are one on either side of
the market, and a list (`Lists`) of only one of them is the market with one side;
the home of one may be unable to pay, for a while, again and again, or for good.
In `Console`, `MaxEvents` counts clicks, failures and switches of the wallet
together, on top of the first load and the lookup at mount: two of them are a
settlement and a refresh (two loads that overlap), a settlement and a lost
answer, an approval and another account, or two PATCHes that overlap or follow
each other, with equal bodies or not; a PATCH that fails is not counted, so each of
the two may be given up on and land late. A PATCH of the fee alone is not in the
run; it sends one transaction. One change by others (`MaxChanges`) falls between
any two of the calls an overview makes. The meters' ids, nonces and positions
differ, so a figure on the wrong card is told apart. All fault bounds (`MaxFaults`) only
limit how often calls fail; `MaxMeters` bounds registrations. A run says
nothing beyond them; the theorems below have no such bounds.

Deadlock is not checked: a settlement ends, a device runs out of readings, and
faults and clicks are bounded, so the models do stop.

### What the violations show

* `SettleThin`: each producer's matched watt-hours are rounded down before
  the pool is split. When all round to 0, nobody is paid and the admin gets the
  whole pool; `settle.rs:14-15` says that producers split the remainder. In the
  trace three meters export 1 Wh each and one imports 1 Wh: a third of the one
  watt-hour traded is each producer's share, and a third is rounded to none.
  `DustOnly` states what holds otherwise.
* `GridTwice`: `settle` counts a meter once per occurrence in the list, so a
  repeated id charges or pays its owner for more than its position;
  `README.md:52-53` says an account pays for its deficit.
* `RelayOverlap`: `routes.ts:82` calls `Relayer.flush` past the guard of
  `scheduler.ts:72-76`. Two flushes submit the same batch and both remove it by
  count: readings that were never submitted are dropped.
* `RelayReactivated`: "can never succeed later" (`relayer.ts:115-116`) does
  not hold for an inactive meter.
* `OperatorStuck`: `this.client ??=` (`chain.ts:147`) keeps a rejected
  promise; one failed fetch makes every later call fail until a restart.
* `ConsoleTryAgain`: `approveToken` rejects ERROR only (`stellar.ts:130`).
  TRY_AGAIN_LATER, which says that the network did not take the transaction, is
  announced as "Approved max allowance" (`wallet-panel.tsx:48`), and a home that
  "only need[s] to approve once" (`wallet-panel.tsx:5`) has no allowance.
* `SchedulerMonthly`: `parsePositiveInt` has no upper bound. From
  `SETTLE_INTERVAL_SECONDS=2147484` on, the delay handed to `setInterval` does
  not fit in 31 bits, Node takes 1 ms for it, and the job settles without a pause
  instead of "on a fixed cadence" (`config.ts:32`). `Cadence` (below) proves
  that nothing else breaks the cadence.

Other limits seen while modelling, for which no run is kept; but for the
duplicates below, no document says otherwise:

* A crash in the middle of a write, or a write that fails half-way, leaves a
  `readings.json` or `registry.json` that `load` cannot parse, and the service
  does not start. `NothingLost`, `NoneForgotten` and `NoneBetween` hold up to
  that, and say so.
* A registration whose answer is lost, or whose write threw before a restart, is
  on chain and never in the registry (`missed`).
* The job settles the whole registry in one call. A single home without
  allowance or balance makes it throw every time, and all the others wait
  (`MarketClears`).
* "An invalid or duplicate reading is rejected for free" (`relayer.ts:93-95`) does
  not hold for a duplicate posted while the first copy is on its way: `validate`
  compares with the meter as it was before `await this.chain.meter` and with the
  queue as it is after it, and between the two the first copy may have landed and
  left the queue. The duplicate costs a transaction and does no more harm
  (`NothingTwice`).
* A reading can be queued whose timestamp is older than one queued before it,
  and is then bound to be rejected.
* A position whose entry expires is gone (`EnergyLedger` counts it as lapsed).
* A PATCH whose fee fails leaves its price in force with the old fee, and
  settlements may run between its two transactions (`FeeAfterPrice` claims only
  the order).
* Two figures of one overview may be of two moments (`FiguresWereTrue`); while
  "Settling..." lasts the report stands beside the figures from before it, and a
  load begun before the settlement may answer last and put them there again
  (`FreshWithReport` leaves both out, `overtaken` being the second).
* An answer that is cut off takes the page down (`Breaks`).

### Fairness

* `SettleRun`: weak fairness of `Next`; the host runs a call to its end.
* `Relayer`: the flush timer keeps firing (`setInterval`), a call that is
  awaited is answered, the process is restarted. Nothing is assumed about
  requests, and failures may be as frequent as `MaxFaults` allows. A truncated
  file makes `Restart` impossible, which is why `Delivered` exempts it.
* `Operator`: the settle timer keeps firing, what is awaited settles, the
  process is restarted, unless the file is torn, and exits once its requests are
  answered. Nothing is assumed of homes: `Spend` may take a home's money for good
  or again and again. `MarketClears` allows for that, for a client that is lost,
  and for a torn file.
* `Console`: as long as something is awaited, some answer arrives (`GoesOn`),
  from the backend, from the user in the extension, or from the network. That is
  one fairness condition for all tasks together: they are finite, so none waits
  for ever. People need not click, and calls may fail.
* `Scheduler`: none; `OnCadence` is about what a step may not do.
* `GridPulse`: none; it has no liveness property, as nobody is obliged to call.

## What is proved

With TLAPS, for every value of the constants that meets the named assumptions
(`WindowsAssumption`, `WalletsAssumption`, `AdminAssumption`;
`ReadingsAssumption`, `CallersAssumption`, `LedgerAssumption`;
`RelayerAssumption`; `OperatorAssumption`; `ConsoleAssumption`), all of which TLC evaluates on the
runs.

`SettleRunProofs`: `RunIInv` proves that `IInv` is an invariant, and
`RunTypeOK`, `RunExactSwap` and `RunRoundedFairly` follow. None of these is
inductive alone. That the swap charges everyone exactly needs to know that the
producers' nets never exceed the pool, or the loop could run out of consumers
with producers unpaid. The argument: the j-th accumulated net times
`matched_total` is at most the pool times the j-th accumulated share
(`PoolHolds`, by induction over the loop, from the division lemmas), so
`total_net` fits the pool; in the swap, what consumers before and at `ci` have
paid equals what producers before and at `pi` have received (`Books`), and
everybody behind the pointers is untouched (`Served`). Accumulators are kept as
sequences of their successive values, so no sum over a sequence is needed.

`RunDustOnly` and `RunTradedAtTariff`, in the same module, are about sums, and
are proved for running totals, an iteration at a time. `Dusty`: after j
producers the accumulated net lacks less than j units of its part of the pool,
the counterpart of `PoolHolds` from below. `Tariffed`: there is a sequence of
running totals of the deficits, built up by the first loop, and after i
consumers what they pay is at most the tariff for their part of the traded
energy. At the end of the loops both speak of the whole.

`SettlementProofs` holds no theorem of its own but what the next two rest on:
what the recursive functions of `Settlement` are for sequences of every length.
A recursive function is the `CHOOSE` of a function with its equation;
`Recursion` shows once that there is one, and `Inductive` is induction for a
set of naturals, which these provers can apply where they cannot instantiate a
predicate. From them: sums and their parts, subsequences, the clearing's types
and totals, that cuts have ranks and neighbours, that every cut is covered,
and what a sequence of transfers does to a purse.

`SettleAtomicProofs`: `RunAtomic` is the refinement `RunIsAtomic`. The
simulation is `AInv` (`RunAInv`): what is sorted so far is the first part of the
closed form's exporters and importers (`Sorted`); what is computed so far has
its values, and each value has passed the overflow check the closed form makes
(`Computed`); and what the consumers before the pointer and the one at it have
paid is a cut, with exactly the transfers up to that cut made (`Laid`). An
iteration of the swap moves to the next cut or stays (a zero amount); a call
that fails, for any of its reasons, fails where `AtomicSettle` may. So what is
proved of the one step in `GridPulse` is proved of the loops of the code.

`GridPulseProofs`: `GridNoReplay` needs that the meter's entry remembers the
last accepted nonce and time (`Remembers`); `GridDeviceBinding` that a key
never changes; `GridEnergyLedger` that only listed, registered meters are
cleared; `GridStaleForGood` follows from the same invariant. `GridKeepsTheGate`
is a refinement: every step of the contract is `Rises`, `Switch` or a stutter of
`ReplayGate`, a registration among them, since an id that is not registered
yet is mapped to the entry it will be registered with. `GridTypeOK` adds the
token: every leg of a swap goes between accounts, and none takes more than is
there (`SwapTyped`, by induction over the transfers). `GridOwnEnergyOnly` is the
one with a hypothesis, that no list of `Lists` names a meter twice (`Once`);
without it `GridTwice` is the counterexample. What flows out of an account is
laid against its own consumers' payments, cut by cut (`FlowOut`); a payment is
at most the tariff for its deficit (`DuesAtTariff`); and with no meter listed
twice the deficits drawn are among those held (`SumOnce`).
What the theorem says of gains is what the code keeps: that an account gains at
most the tariff for its own surplus is *not* so. Matched shares are rounded
before the pool is split, and with exporters of 3, 1, 1, 1, 1 and 1 Wh and one
importer of 5 Wh at price 1000 the first is the only one with a matched
watt-hour and gets 5 units for its 3.

`RelayerProofs`: `RelayerTypeOK` first, one lemma per action; the scheduler's
flag follows its flush, and no flush is past its batch. `RelayerNothingTwice`
needs that a meter's nonce on chain covers every reading that landed
(`NonceCovers`). `RelayerQueueInOrder` needs the order of the file as well as of
the queue, since a restart brings the file back. `RelayerNothingLost` is the
one with a hypothesis, that there is one flusher (`\A f, g \in Flushers : f =
g`); without it `RelayOverlap` is the counterexample. Its invariant: the batch
of a flush is still what the queue begins with (`AtFront`), what it has dealt
with has landed or was rejected (`DealtWith`), and nothing runs in a process
that is down (`Asleep`); then removing by count removes the right readings.
`RelayerKeepsTheGate` is the refinement of the gate by the relayer's contract.

`OperatorProofs`: `OperatorTypeOK`, `OperatorNoneForgotten` and
`OperatorNoneBetween` from one invariant, the conjunction of the three with
`InHand` (the admin's call holds an id only once it landed) and `Asleep`. What is
remembered is stated of memory and of the file separately (`Remembered`): after
a write that failed, memory is ahead of the file, and what the file lacks is in
`missed`; a restart makes memory what the file lists.

`SchedulerProofs`: `Cadence`, under the hypothesis `Fits` that time goes
forward and no environment asks for more than 2147483 seconds. The invariant:
what has passed since the interval ran and what is left on its timer make up
the interval.

`ConsoleProofs`, about as many loads, requests and clicks as one likes, where
the run has few. `ConsoleTypeOK`: no flag of the page outlives its task
(`Waits`, `Settles`, `Approves`), whichever loads overlap.
`ConsoleFeeAfterPrice`: a fee that is sent, given up on or landed is of a request
whose price has landed (`InTurn`); it holds of requests one by one, so it does not
matter how many overlap. `ConsoleApprovesSelected`: while the panel is busy, the
selected account has been remembered. `ConsoleFiguresWereTrue`: the
configuration, the half-read meter and every card of a load are of states since
it began, the present one among them (`Served`); this needs that a load reads
the registry in order. `ConsoleFreshWithReport` needs of every load in flight that it is in `early`
or has seen no state but those in `after` (`HistInv`), and that there is no report
before the settlement has landed (`SettleInv`); then each answer that the page
takes puts figures of `after` beside the report, or sets `overtaken` (`FreshInv`).

Only model-checked: all liveness under fairness (`Terminates`, `Delivered`,
`MarketClears`, `JobEnds`, `ButtonsReturn`), which needs `ENABLED` and is out of
the provers' reach; and the violations, which are single behaviours. Every
invariant and every action property of the passing runs is also a theorem:
`NothingLost` for one flusher, `OwnEnergyOnly` for lists without repetition,
which is what the runs that pass have.

## What is not modelled

* `submit-reading.tsx`: one POST and a message; repeated and overlapping POSTs
  are in `Relayer`.
* Layout, formatting and logging; HTTP error codes (`mapError`); views other
  than those of the overview; `GET /api/jobs` and `GET /api/queue`.
* The byte layout of payloads, Ed25519, and the conversions of `types.ts`: pure
  functions of strings and bytes, which the models take as names and numbers.
* Archival of persistent entries, the expiration ledger of an approval and what a
  token makes of the 0 the panel sends for it, mints and other transfers of the
  token: the host's and the token's doing, which no code here
  reacts to.
* `MeterRegistry.reconcile` and `ReadingQueue.clear`, which have no caller.
* In `Relayer`, a write of `readings.json` that throws while the process lives on
  (a crash in a write is there). `Operator` has both for `registry.json`.
* In `Relayer`, energy amounts (the contract's `Overflow` included); in
  `Operator`, everything of a position but its sign. `GridPulse` has both.

## Order of the work

The settlement engine with its abstract specification, then the contract, then
the relayer and the operator's side, each with its theorems, then the timers
and the people at their browsers. What is left is out of reach of the provers
(above), or keeps no state.
