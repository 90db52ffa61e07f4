# Aureon in TLA+

Aureon watches gold and silver, lets a human confirm a trade in Discord, sends it
to MetaTrader 5, and then follows the position until it is closed. This directory
holds TLA+ models of the parts of it that have a protocol to get wrong, the TLC runs
that check them, and TLAPS proofs of what matters most. Paths below are relative to
the repository's root; `aureon/...` is the Python package.

- [1. The system](#1-the-system)
- [2. The modules](#2-the-modules)
- [3. The runs](#3-the-runs)
- [4. What is proved](#4-what-is-proved)
- [5. Where the code and its documentation disagree](#5-where-the-code-and-its-documentation-disagree)
- [6. What is left out](#6-what-is-left-out)
- [7. Plan](#7-plan)

## 1. The system

Separate processes share one PostgreSQL database and, for two of them, one MT5
terminal. They do not call each other: every hand-over is a row.

```
 Discord bot(s) ──trade_requests──▶ executor(s) ──guard, order_send──▶ MT5
     │  ▲  ▲                          │   ▲ start-up sweep              │
     │  │  └──────── rows ────────────┘   └─ positions, orders, deals   │
     │  └─ notifications ◀─ detections, setups, fired alerts            │
     ├──control_requests──▶ control worker (in the executor) ──▶ MT5    │
     │                          ▲ exits, stop moves                     │
     └◀── trades ◀── monitor ◀──┴── positions, orders, deals, quotes ◀──┘
 observer: candles ─▶ detections ─▶ local outbox ─▶ database; setups, outcomes, alerts
 review watcher: writes the week's reviews at the close
 supervisor: starts, watches, restarts and stops all of them
```

| part | state it keeps | operations | hard behaviours | what makes it correct |
|---|---|---|---|---|
| request store (`storage/postgres/repositories/trade_requests.py`, `models/enums.py`) | status, holder, lease, deadline, token per request | create, confirm, claim, renew, resolve | racing claims, stale confirmations, writes after a lease ran out | one holder; deadline set once; terminal is terminal |
| confirmation view (`discord/views/confirm_view.py`) | live or stopped, callbacks under way | submit, confirm, cancel, time-out | duplicated clicks, callbacks interleaving at `await` | one authorisation arms one execution |
| execution worker (`execution/execution_worker.py`, `lease_manager.py`, `idempotency.py`) | request in hand, requests it has sent | poll, claim, guard, stamp, send, record, keepalive | crash between send and record, unknown outcome, lost claims | at most one order; token before the order; never "failed" when an order exists |
| execution guard and kill switch (`execution/execution_guard.py`, `models/settings.py`) | the switch, with a version | allow or refuse; enable, disable | exposure read before another order shows, old screens | limits hold but for races; off means off |
| reconciliation (`execution/reconciliation_service.py`) | the list of one sweep | sweep at start-up: list, read the broker, adopt or fail | reads at different moments, empty reads, slow brokers, the grace | "never placed" is true; nothing waits for ever |
| pending-order monitor (`positions/pending_order_monitor.py`) | none of its own | settle PENDING requests | stale reads of orders and deals, a window of deals | recorded as gone only when gone |
| position monitor (`positions/position_monitor.py`, `deal_reconciler.py`, `repositories/trades.py`) | last sync; `trades` | import, settle, close, partial close | overlapping windows of deals, missed reads, restarts | CLOSED is true and final; no exit counted twice; gone trades close |
| exit manager (`management/exit_manager.py`, `profit_guardian.py`) | phase, stop, peak of each managed trade | assess a quote | lost writes, recovering markets | the stop only tightens; an exit is not taken back |
| control requests (`repositories/control_requests.py`, `execution/control_worker.py`) | status, holder, lease per request | create, claim, perform, resolve | lost requests, unknown outcomes, order of stop moves | performed at most once; a requested exit happens |
| observer loop and cursor (`main_observer.py`, `engine/market_engine.py`, `services/observer_state.py`) | cursor in memory and in a file | load, poll, back-fill, park, stop | crash between the cursor's write and the detections', a cursor file that cannot be read | every detection behind the cursor is queued |
| outbox (`outbox/`) | local queue, its thread | append, deliver, flush | crash between write and mark, outages, stop | at least once, in the end; a clean stop leaves nothing |
| outcome tracker (`evaluation/outcome_tracker.py`) | open evaluations | start, advance, cross | gaps, replays | recorded answers are frozen and contiguous |
| price alerts (`services/alert_watcher.py`, `repositories/alerts.py`) | one row per alert | arm, cancel, fire, expire | two observers, a user between read and write | a reminder is about an alert that fired |
| notifications (`discord/notifier.py`, `repositories/notifications.py`) | one row per thing said | claim, post, mark, edit | several bots, lost answers, failing preparation | said once; nothing new is missed; the card is current |
| setup engine (`services/setup_engine.py`, `repositories/setups.py`) | open setups in memory and in rows | advance, open, observe, load | restarts, failed writes, two tables of one life | one open setup per direction; memory agrees with rows |
| supervisor, guardian, restart requests (`services/supervisor.py`, `runtime_guardian.py`, `manual_restart.py`, `main_aureon.py`) | children, request and state files, the checkout | start, watch, restart, update, roll back, stop | children that die or linger, Ctrl+C, failing files | nothing outlives the stack; one restart per reason |
| operational events (`services/ops_events.py`) | a row per condition | observe | unreadable register | every edge once |
| sleep cycle and market state (`services/sleep_cycle.py`, `market_state_service.py`) | phase, start of the run of CLOSED readings | poll | flickering readings, restarts, two clocks | parks once per close, after a confirmation |
| review watcher (`main_review.py`, `reviews/periods.py`) | none of its own | write at the close | broker midnight, slept closes | the close is followed by a review of the right week |
| excursion tracker, market days, EMA journeys, model governance | per trade, day or journey | advance per candle | replays | not modelled, see section 6 |
| heartbeats, charts, backtests, scripts, preflight | files and reports | batch | little | not modelled |

Every part, modelled or not, is listed with its reason in `PROJECT.json`, and every
behaviour of the code that is hard to test is listed there as a hazard, at its line.

## 2. The modules

| module | models | notes |
|---|---|---|
| `RequestStates` | the statuses and `TRADE_REQUEST_TRANSITIONS` | operators only |
| `RequestStore` | one row of `trade_requests` and what each repository call does to it | operators only: guards (`MayClaim`, `MayConfirm`, `Accepts`, ...) and effects (`Claimed`, `Confirmed`, `Resolved`, ...) |
| `Execution` | Discord's view, executors, their start-up sweep, the wire and the broker's book | the core state machine |
| `OneOrder` | what the execution path promises | abstract; `Execution!ImplementsOneOrder` is the refinement |
| `PendingWatch` | the monitor's settling of PENDING requests, beside everything in `Execution` | `EXTENDS Execution` |
| `Guard` | the switch, the position limits and several executors | what `GuardPasses` of `Execution` leaves free |
| `PositionMonitor` | one poll of the monitor over `trades` | its own broker: deals added up by time |
| `AtMostOnce` | what a row claimed before the deed promises | abstract; `Management!ImplementsAtMostOnce` (control requests) and `Announcements!ImplementsAtMostOnce` (posts) are the refinements |
| `ExitManager` | `DeterministicExitManager.assess` and the guardian as operators | no state |
| `Management` | monitor, exit manager, control requests, control workers | `EXTENDS ExitManager` |
| `Outcomes` | what the outcome tracker does to one evaluation | operators only |
| `Observer` | the observer's process: candles, cursor, outbox, its thread, outcomes | `EXTENDS Outcomes` |
| `AtLeastOnce` | what a durable outbox promises | abstract; `Observer!NeverDrops` is the refinement |
| `Alerts` | alert rows and the watchers over them | actions, no specification of its own |
| `Announcements` | the Discord notifier's sweeps | `EXTENDS Alerts`: what fires is announced |
| `Setups` | the setup engine and its rows | |
| `OpsRegister` | one row of the register of operational conditions | operators only |
| `Lifecycle` | launcher, supervisor, guardian, restart requests, the supervisor's row of the register | `EXTENDS OpsRegister` |
| `SleepCycle` | a service's sleep gate, the market's classification, the review watcher's close | |
| `ExecutionProofs`, `ManagementProofs`, `PositionMonitorProofs`, `SetupsProofs`, `GuardProofs`, `ObserverProofs`, `LifecycleProofs`, `AnnouncementsProofs` | theorems | `EXTENDS` the module and `TLAPS`; `ExecutionProofs` extends `PendingWatch`, and so covers both specifications; `LifecycleProofs` extends `SleepCycle` as well, whose definitions are named `Sleep...` where the two would meet |
| `MC...` | instances | |

Operators named `...Twice`, `...Never`, `...AtOnce` and so on, commented "Mutant
of", are the plausible bugs each property was seen to catch. No specification uses them.

### Execution

A step of the model is one repository transaction, one broker read, one broker
answer, or the code between two of these. The variables are the table (`req`), the
Discord message (`view`, `handling`), each executor's place in its loop (`mode`,
`batch`, `cur`, `step`, `sent`, `answer`) and in its sweep (`sweep`, `probe`), and the
world (`clock`, `wire`, `book`). An order that was sent is on `wire` until the broker
accepts it, rejects it or never gets it, and stays there when its sender dies.

| action | code |
|---|---|
| `Submit`, `PressConfirm`, `ConfirmWrite`, `ConfirmRefused`, `DisableView`, `PressCancel`, `CancelWrite`, `ViewTimeout` | `/execute` and the two button callbacks of `ConfirmTradeView`; a callback that has awaited is in `handling`, so two may be under way |
| `Poll`, `Claim`, `ClaimStale`, `ClaimLost` | `poll_once` lists once and then claims row by row |
| `GuardPasses`, `GuardRefuses` | `_guard`; what it decides is free |
| `Stamp`, `Send`, `KeepAlive`, `SendUnknown`, `Record` | `_send_and_resolve`, the lease keepalive and `_record` |
| `Crash`, `Boot`, `ReadPositions`, `Judge`, `Serve` | death, `reconcile_all` with its listing, reads and verdicts, and the start of the loop |
| `BrokerAccepts`, `BrokerRejects`, `WireLoses`, `RestingFills`, `RestingLeaves`, `PositionCloses`, `Tick` | the world |

Three facts of the code shape the model. An exception that leaves `process()` ends the
whole poll, because only `run()` has a handler. The classes `process()` catches,
`ClaimRejected` and `LeaseLost`, are imported from `storage/trade_request_repository`,
while the store the executor builds raises the classes of the same names in
`storage/postgres/repositories/trade_requests`: a refused claim therefore ends the
poll (`ClaimLost`, `ClaimStale`), and the keepalive's `lost` flag is never set, which is
why the model has none. Cancel resolves with `reconciliation=True`, so no lease
protects a request from it, only the table of transitions does.

The worker records what it was *answered*. An acceptance (`Acceptance`) says that the whole was filled, or
a part, or leaves the volume out: `mt5_broker.py:252` makes a volume of 0 None, and a market order that
was only PLACED counts as accepted (`:241`). `Outcome` then records a part as PARTIALLY_FILLED and everything else as
FILLED, and `unsized` marks the rows that hold no volume. `BrokerAccepts` therefore lets a market order rest
and be filled later. The sweep does not see it among the resting orders, since `pending_orders()` leaves market
orders out (`Listed`), and takes the volume of a position as it finds it, which a human may have reduced.

The keepalive renews while the send is under way; the code stops the thread before it
resolves, so a renewal after the resolve is not modelled.

### PendingWatch

`BeginPoll`, `ReadOrders`, `ReadDeals`, `ListPending`, `Settle`, `EndWatch`: the part of
`poll_once` that settles PENDING requests, in the code's order. `dealtAt` holds the instant of each unit filled, and
`Covers` is the window of `_recent_deals`: from the last sync less the overlap, or from a fixed time ago when there is
no last sync, to the poll's `now` plus the allowance for the clocks. Only a poll that comes to its end moves the
last sync; `WatchCrash` is a restart, which has none. `known` is a history field: the requests that were
PENDING when the orders were read.

### Guard

`Claim`, `ReadSettings`, `Allow`, `Leave`, `Send`, `Answered` and `Unanswered` are
`process()` again, at the grain of what the guard reads: the settings in one step, the
open positions in another, the send in a third. Of the twenty rules the switch and the
two limits on positions are kept; `Leave` lets any other rule refuse at will.
`place` says where a request's order is, and `Positions` is what a read of the broker
shows of it: a resting order, or one on the wire, is no position. `ByHand` is a human
at the terminal, whose positions count for the account's limit and not for Aureon's.
`Enable` is the button of a screen that may be old: no caller passes `if_version`.

### PositionMonitor

The deals of a position are kept as two functions of time, the volume that had
entered and the volume that had left, which is all `summarise_position` uses besides
money. A poll reads positions, orders and deals (three actions, the broker moving in
between) and then runs its four loops: `ResolvePending`, `Import`, `CloseVanished`,
`PartialClose`, each iteration one transaction. `PollFails` is an exception anywhere
in it, `Restart` loses the last sync. Position ids are never reused and a position
that is gone does not come back, as in a hedging account.

### ExitManager and Management

Prices are moves in the trade's favour, so one model serves both directions. A trade
without a stop is one whose `InitialStop` is below every quote. The percentages of
the policy are kept, in whole units of price. `PROTECTED` is in the table and is never reached: with
the policy's constructor Agent 14's protection begins at the activation move, where
the phase is already `TRAILING`.

`Assess` is one quote: an illegal phase transition raises and leaves no trace.
`CreateControl` and `Persist` are the two transactions that follow, the request first
and the state second. A control request's id is a hash of what it asks for, so in the
model the request is its own id. The worker's `Poll`, `Claim`, `Performs`, `Refuses`,
`PerformsUnknown`, `Resolve`, `ResolveFails` follow `process()`; whether its lease is
still live at the end is a choice, since nothing renews it. Every failure (a write,
a crash, a refusal without cause, an unknown outcome, a lease that ran out) spends one of `MaxFaults`.

### Observer and Outcomes

A candle is its number. What the agents detect on it is a function of the candles up
to it, which a restart replays, so which detections a candle has is a constant (`At`).
`Boot` reads the cursor from its file; a file that cannot be read, this time or for good, gives a process
without a cursor, which fetches the last `Reach` candles only (`Recent`) and treats them as new.
The process goes through `Boot`, `StartBackfill`, `BackfillCandle`, `EndBackfill`,
then `Poll` and, for each candle, `Analyse`, `Advance`, `Save` (or `SaveRaises`) and
`Queue` (or `QueueRaises`, `QuietCandle`), in the order of `market_engine.poll_once` and
its callbacks: the loop's cursor, the durable cursor, the outbox. `EnsureFindsDelivered`,
`BeginEnsure`, `EndEnsure` are `ensure_delivered`, which an evaluation needs of its parent row, and `Track`
starts and advances evaluations (`Outcomes`). `BeginPass`, `Deliver`, `DeliverFails`,
`MarkDelivered`, `WorkerSeesStop`, `EndPass` are a pass under the delivery lock, by the
thread, a flush or `ensure_delivered`; `Park` flushes at the market's close, `Stop` and
`Close` at shutdown. `Crash` may come between any two steps and `StoreFails` and
`StoreReturns` bound an outage. `window`, `refused`, `unreached` (detections of candles that a start without a cursor
passed over) and `exposed` (detections answered before such a start and not written since) are history. The outbox's
back-off only spaces its passes, and is left out; the order of rows is kept by `Batch`
and the smallest id first.

### Alerts and Announcements

`Alerts` has what a user does to an alert (`Arm`, `Cancel`) and the observer's two passes:
`BeginPass` reads, `Fire`, `FireRefused`, `NotCrossed`, `Expire`, `ExpireRefused` answer
one alert each in its own transaction. `Announcements` adds the bots. A sweep goes through its four
parts (`StartSweep`, `NextPart`, `EndSweep`); one thing in it is a `Claim` (or
`Claimless`, when the row exists), what is prepared between claim and post
(`PrepareRaises`), `Send` or `SendFails` (which may have posted), `Record` and `Mark`.
`OpenThread` and `PostRoot` are a journey's thread; `Edit` and `EditFails` a setup's
live card. A read that fails ends the sweep. Ages are in ticks of the sweep's cadence and
`Weight` keeps the number of things in one instance small.

### Setups

A setup is a family, the bin its anchor falls into, and its broker day. `CandleCloses`
or `CandleMissed`, then `Advance` for each setup that is held (or `Quiet`, which expires
it in the end), `OpenSetup`, `Observe`, `Goes`: the steps of `on_candle`. A family
may propose any move it has from a state (what a candle shows is free); `Record` is the
row's transaction, which accepts, refuses or fails. `Load` is the first candle of a day.
`Crash` and `Restart` lose memory, rows stay. A write that raises is taken to have
written nothing.

### OpsRegister and Lifecycle

`pc` is where the launcher is: preflight, starting services one by one, watching,
checking the guardian, recording, and the stop's three stages (ask, grace, kill).
`ManualRestart`, `FastForward`, `UpdateRestart`, `RollBack`, `StaleRestart`, `CheckBreaks`
are the guardian's poll in its order; `ManualLost` and `StaleLost` are the files that
cannot be written. `Interrupt` is Ctrl+C, which `run()` catches only around the wait and
the start. The launcher that executes itself again is a `Launch` that costs no start by hand. The
register's row is written at `RecordUp` and `RecordDown`, by `OpsRegister`'s operators.
`outage` is history: whether the stack is down by a crash, and how many times it went down. A launch that
crashes again before it recorded the stack as up prolongs the outage it was in.

### SleepCycle

Time is counted in ticks of a day from a Monday, 00:00 UTC, and the broker's clock is
ahead of it by `Winter` or `Summer` ticks. `Poll` is `SleepGate.tick` on readings that
are free in what the code takes from the broker and the feed (trade mode and silence) and
fixed in what it computes (`Classified`); its six disjuncts are the branches of
`observe`. `OnClose` is the review watcher's hook on the crossing into sleep, and
`FinishedWeek` is `previous_iso_week`. `ChangesClocks` moves the broker's clock once, on
a Sunday. `calm`, `reopened`, `early` and `failed` are history. A service polls at least
once in a tick, because it polls every minute when asleep; a restart is one step, as a
tick is longer than a start.

## 3. The runs

`Guard` is checked for deadlock. The other runs set `CHECK_DEADLOCK FALSE`: the
clock, the candles, the crashes and the faults are bounded and settled rows lead
nowhere, so these systems do stop.

| run | instance | properties |
|---|---|---|
| `Execution` | 2 executors, 1 request of either kind, volume 2, `Ttl` 2, lease 1, grace 2, clock to 3, 1 crash, reads that miss, a store that fails, slow delivery | `AtMostOneOrder`, `OnlyAuthorisedOrders`, `FailureMeansNoOrder`, `SettledStays`, `ImplementsOneOrder` |
| `ExecutionLive` | 1 executor, 2 requests, clock to 1, no crash | `ConfirmedIsDecided` |
| `PendingWatch` | 1 executor and the monitor, an order of volume 2 of either kind, clock to 1, no overlap, cold start or skew, 1 crash of either, a store that fails, prompt delivery, readable broker | `OutcomeIsTrue`, `NotFoundMeansNoOrder`, `ListedOrderIsReallyGone`, `GoneOrderIsSettled` |
| `Guard` | 2 executors, 3 market orders and 1 pending one on one symbol, 1 position by hand, limits 1 and 3 | `OnlyRacesPyramid`, `DisableBlocksTheNext` |
| `PositionMonitor` | 1 position of a pending order, volume 2, clock to 3, overlap 1, 2 faults | `ClosedIsGone`, `NoExitCountedTwice`, `ProgressIsKept`, `OneExitCloses` |
| `TradeNeverCloses` | expects a violation | `GoneTradeCloses` |
| `Management` | 1 position, 2 executors, a human, quotes from the stop to 2, activation 2, 1 fault | `ImplementsAtMostOnce`, `CompletedCloseIsTrue`, `StopNeverLoosens`, `ExitIsFinal`, `RequestedExitIsDone` |
| `Observer` | 4 candles, 2 detections on the first and 1 on the second that ends the first one's horizon, batches of 1, a cold start reaches 2 candles, 1 crash or stop, 1 outage, 1 local read or write that fails | `NeverDrops`, `OnlyTheWindowLoses`, `CleanStopLeavesNothing`, `CompleteIsContiguous`, `OutcomeIsFrozen`, `QueuedIsDelivered` |
| `Announcements` | 2 bots, 1 observer, 2 detections of which one has a journey, 1 alert, 1 setup that changes twice; things come alone or in pairs; 1 trouble | `ImplementsAtMostOnce`, `ReminderIsTrue`, `NewIsAnnounced`, `CardShowsLast`, `SweepsGoOn` |
| `Setups` | a level and a moving average in two bins, 7 candles on 2 days, expiry 2, 2 faults | `OneOpenPerDirection`, `OnlyContinuationIsRefused` |
| `Lifecycle` | 2 services, 3 versions of which the second is broken, 2 crashes, 2 starts by hand, 1 of every other kind of event, 1 fault | `NoOrphans`, `StaleRestartOnce`, `RegisterIsTrue`, `RequestIsServed` |
| `SleepCycle` | 2 symbols, from one Friday noon to the second Sunday's open, a day in 8 ticks, 1 fault, 1 restart | `CloseIsReviewed`, `ParksOncePerClose` |

What the properties say, in a sentence or two each, stands above each of them in its module.

**Bounds.** Requests do not share state except through an executor's list, so one
request shows every race and two are needed only for the property about the list
(`ExecutionLive`); the guard's limits do relate them, and `Guard` has four. Two
executors are enough for a claim race, a lost claim and a sweep
beside a live sender; the proofs cover any number. The clock must pass the
confirmation deadline, a lease and the grace: with `Ttl` and
`Grace` of at most 2 and `LeaseTime` 1, a clock of 3, in `Execution`, passes each of them with a step to spare.
In `PendingWatch` a window that begins at the last sync leaves out what was filled an instant before it, so a clock of 1
is enough for a part filled, a poll that finds the order resting, and one that finds it gone and looks too late.
Volume 2 is the smallest that can be filled, or closed, in parts.
In `PositionMonitor` three instants put a deal inside, at the edge of and outside the
overlap. In `Management` quotes reach the stop, the activation move and a stop by each of
the two percentages, which gives two stop moves that can be reordered.
In `Observer` a batch of one leaves something behind every pass, three detections give a
candle with two rows in one transaction and a pair of opposites, and four candles give a gap, a horizon
of two and a replay. A cold start that reaches two of the four passes over a candle whose detections were not queued,
and replays one that was answered. In `Announcements` one bot may hold what the other is editing, and a
setup's two versions are the least that can be shown in the wrong order; the window of
three ticks is the shortest for which a cut-short sweep, the next one and the last are distinct. In `Setups` a day
of six candles has time to open, expire and open again, and two faults are a death and a
failed write. In `Lifecycle` the third version is the repair of the second; two crashes
may fall into one outage, the second of a stack that never came up, or into two. In
`SleepCycle` a day of eight ticks keeps the order of the instants that matter: close,
confirmed close, broker's midnight in winter; in summer midnight is not after the close.
Two Fridays allow a week to be reviewed late, and the second weekend to depend on the first.

**Switches.** `ReadsMayMiss`, `StoreMayFail` and `PromptDelivery` name assumptions on
the world. `NotFoundMeansNoOrder` is checked with `ReadsMayMiss` FALSE and
`PromptDelivery` TRUE because it is false otherwise: `_safe` turns a failed read into an
empty list (see section 5), and an order later than the grace cannot be told from none.

**Fairness.** Weak fairness is put on the loops, which poll for ever, catch what a
poll raises and wait for nobody in between: the clock and each
executor's work and start-up in `Execution!FairSpec`, the monitor's in `PendingWatch`, `PositionMonitor` and
`Management`, the control workers' in `Management`, the observer's loop and its outbox
thread in `Observer`, each bot's sweeps in `Announcements`, the launcher in `Lifecycle`.
`ConfirmedIsDecided` also assumes a store that
answers and that no executor crashes: the supervisor stops everything when a child
dies and does not restart it. An outage ends: `PendingWatch` has strong fairness on the settling
write, and `Observer` weak fairness on `StoreReturns`. A process that died is started again in `Observer` and
`Announcements` (crashes are bounded), as an operator would. In `Lifecycle` the supervisor's poll has
strong fairness for the exit it sees and for the request it reads, since its loop comes back to each of
them between the guardian's other steps. `Guard`, `Setups` and `SleepCycle` state safety only. Brokers, humans and
faults have no fairness; time does where a time-out is waited for.

## 4. What is proved

Every theorem is for every value of the constants: any number of executors, requests,
symbols and faults, any deadline, lease, limit, policy or schedule. The assumptions on the
constants (`StoreAssumption`, `ExecutionAssumption`, `ExitPolicy`,
`ManagementAssumption`, `MonitorAssumption`, `SetupsAssumption`, `GuardAssumption`,
`SleepCycleAssumption`, `OutcomeAssumption`, `ObserverAssumption`, `WatchAssumption`, `LifecycleAssumption`:
naturals where there are counts, `None` none of the values it is compared with, what
the code's constructors check) are all that is assumed, and TLC evaluates them in the runs. The theorems of `ExecutionProofs` that need
more of the world (`NotFoundIsRight`, `NotFoundIsRightWatched`, `ListedIsGone`) say so in their statement, as do `CardsAreCurrent` and `ClosesAreReviewed`.

**`ExecutionProofs`**

| theorem | statement |
|---|---|
| `Invariance`, `TypeCorrect` | `Spec => []IInv`, `Spec => []TypeOK` |
| `OneOrderPerRequest` | `Spec => []AtMostOneOrder` |
| `OrdersAreAuthorised` | `Spec => []OnlyAuthorisedOrders` |
| `FailedMeansNothing` | `Spec => []FailureMeansNoOrder` |
| `SettledForGood` | `Spec => SettledStays` |
| `DeadlineNeverMoves` | `Spec => ConfirmationIsFinal` |
| `Refinement` | `Spec => ImplementsOneOrder` |
| `OutcomesAreTrue` | `Spec => []OutcomeIsTrue` |
| `NotFoundIsRight` | `Spec => []NotFoundMeansNoOrder`, if `PromptDelivery`, `~ReadsMayMiss` and `Grace > 0` |
| `WatchInvariance` | `WatchSpec => []WatchInv` |
| `OutcomesAreTrueWatched`, `SafeWatched` | `WatchSpec =>` always `OutcomeIsTrue`, `AtMostOneOrder`, `OnlyAuthorisedOrders`, `FailureMeansNoOrder` |
| `SettledForGoodWatched`, `RefinementWatched` | `WatchSpec =>` `SettledStays`, `ConfirmationIsFinal`, `ImplementsOneOrder` |
| `NotFoundIsRightWatched` | `WatchSpec => []NotFoundMeansNoOrder`, as above |
| `ListedIsGone` | `WatchSpec => ListedOrderIsReallyGone`, if `~ReadsMayMiss` |

`AtMostOneOrder` is not inductive: a state with one order placed and a
second one on the wire satisfies it and its successor does not. `IInv` says how the
parts hang together. A row nobody has taken has no `execution_started_at`, and while it
has none no process, no wire and no book knows it (`UnclaimedIsUnstarted`,
`UnstartedIsUntouched`); `claim` is the only way past that point and is taken once,
because no transition leads back to CONFIRMED. After it, whoever works on the request is
its holder (`WorkerIsHolder`); before its send nothing has been sent
(`NothingSentBefore`); an order under way is the holder's and the only one
(`WireIsHolders`); and the answer "rejected" is only given when nothing came of it
(`RejectedIsNothing`), which makes FAILED safe. `ClaimedInTime` and
`DeadlineIsConfirmations` carry the deadline from the confirmation to the claim. Each
action has a lemma that it preserves the conjuncts it can disturb; `Invariance`
puts them together. The refinement maps a request to *taken* once it has
`execution_started_at`, and its orders to what the broker accepted; every other step (a
crash, a sweep, a renewal, the answer) maps to a stutter.

*What is recorded is true.* A verdict is written from what was read some steps earlier, so `OutcomeIsTrue`
needs to know what reads are worth by then. `TruthInv` says it: deals and acceptances only add up, so
whatever an executor was answered (`AcceptedIsPlaced`) or a sweep has listed or seen (`SweepIsPast`) still
holds when it is written, and a position or a deal is evidence of a placed order (`BookIsSane`). What a row can be
true to is what the answer said: `AcceptedIsPlaced` says that "whole" and "part" have happened and that an acceptance without
a volume means an order, hence the two cases of FILLED in `OutcomeIsTrue`. Reads that
come back empty hide evidence and never invent it, so the theorem needs no readable broker.

*"Never placed" is right* is the opposite: it is written because something was *not* seen, and needs a
world in which that means something. `DeliveryInv` carries it. With `PromptDelivery` an order on its way is
younger than the grace (`WayIsShort`), so an entry the sweep has found overdue has nothing on its way any more
(`OverdueIsOver`), a market order at work included; what was filled is therefore in the reads that follow, and nothing comes after the verdict
(`NotFoundIsOver`, which `NothingComes` makes stable). With a grace of zero the invariant is false, since
the sweep is then overdue in the tick of the send; the default is 120 s (`aureon/config/config.py:168`).

*With the monitor.* Each step of `WatchSpec` is a step of `Spec`, one of the monitor's own, or `Settle`, which is one
resolution of a PENDING row. `WatchInv` adds that deals the monitor has read have happened, and
everything above is shown of the composition again. For `ListedIsGone`, `KnownIsGone` says that a request that
was PENDING when the poll began and is not among the resting orders has left the book, and that the deals read *after* the
orders are all that its window will ever hold: which is why the code reads in this order. A part filled before the window
is outside the theorem, as it is outside the code's sight (section 5).

**`ManagementProofs`**

| theorem | statement |
|---|---|
| `Invariance`, `TypeCorrect` | `Spec => []IInv`, `Spec => []TypeOK` |
| `SentAtMostOnce` | `Spec => []CalledAtMostOnce` |
| `CompletedMeansClosed` | `Spec => []CompletedCloseIsTrue` |
| `ControlsImplement` | `Spec => ImplementsAtMostOnce` |
| `StopOnlyTightens` | `Spec => StopNeverLoosens` |
| `ExitStands` | `Spec => ExitIsFinal` |

Two arguments meet in `IInv`. `MonitorIsAhead`: the lemmas about
the exit manager show that an assessment never lowers the stop (the ratchet, through a
proposal that falls with the quote) and that EXIT_PENDING is only followed by itself;
the state a poll is about to persist is therefore no looser than the recorded one, and
nothing is under way once an exit is on record. `HandsAreExclusive`: a claim is the only
way from REQUESTED to EXECUTING, so a request is in one executor's hands, and no call was
made for it before; `DoneIsDone` carries the broker's answer to the outcome, because a
position that is gone does not come back. For the refinement, every step that touches a request
is a claim, a call or an outcome of `AtMostOnce`, or leaves the three mapped variables alone; it needs
one invariant more, that what is COMPLETED was called (`DoneWasCalled`), and implies
`CalledAtMostOnce`, which the run therefore does not check again. (`ExitPolicy` also assumes that the give-backs
and the buffer are not negative, which the policy's constructor does not check.)

**`PositionMonitorProofs`**

| theorem | statement |
|---|---|
| `Invariance`, `TypesHold` | `Spec => []IInv`, `Spec => []TypeOK` |
| `ClosedForGood` | `Spec => []ClosedIsGone` |
| `NothingTwice` | `Spec => []NoExitCountedTwice` |
| `ProgressStays` | `Spec => ProgressIsKept` |

`BooksAreKept` is what deals are: they only add up, no more leaves than came, and what has left
whole stays away. The argument is `UnseenIsGone`, about a position that is not in the poll's
list. It has gone, or it came after the list was read. In the second case nothing of it was
dealt before the poll's moment, so the window, which begins before that moment and shows all
deals up to one time, has *all* of its entries and less than all of them as exits
(`AllOutIsGone`); a row there can only be the one this poll wrote from the same window, and
`_close_vanished` finds the exits short of its volume. That the window begins no later than the
moment (`DealsAreReal`) rests on the sync point being the moment of an earlier poll. The four
writes are one shape (`Writes`: keep, create, advance or shut the row of one position), and
`WritesKeep` is about that shape.

**`SetupsProofs`**

| theorem | statement |
|---|---|
| `Invariance`, `TypesHold` | `Spec => []IInv`, `Spec => []TypeOK` |
| `OnePerDirection` | `Spec => []OneOpenPerDirection` |
| `TableFitsFamilies` | `Spec => []OnlyContinuationIsRefused` |
| `YesterdayStays` | `Spec => YesterdayIsFrozen` |
| `NewSetupsWait` | `Spec => OpensThenWaits` |

The engine asks its memory whether a setup is open, and the rows are what counts: `Agrees`
(what it holds is what the row says) and `HoldsTheDay` (on a day it could read it holds
all that is open) make the memory a faithful index, through failed writes because a move
is remembered only after its row took it. `ProposedIsAccepted` goes through every move of
the four families and finds one that the table refuses.

**`GuardProofs`**

| theorem | statement |
|---|---|
| `Invariance`, `TypesHold` | `Spec => []IInv`, `Spec => []TypeOK` |
| `RacesAreBounded` | `Spec => []OnlyRacesPyramid` |
| `SwitchHolds` | `Spec => DisableBlocksTheNext` |

`Exposure` counts the market orders on a symbol that are positions or that an executor has
been allowed to send. It grows in one step only, `Allow`, where the positions
were just read and are below the limit; what it counts beyond them is in another executor's hand, one
each (`OneEach`), hence *limit - 1 + executors*. For the switch, `BarredIsOff` says that a request
claimed with the switch off is in no hand that has read it on.

**`ObserverProofs`**

| theorem | statement |
|---|---|
| `Invariance`, `TypeCorrect` | `Spec => []IInv`, `Spec => []TypeOK` |
| `OnlyTheWindowLosesAlways` | `Spec => []OnlyTheWindowLoses` |
| `StopsClean` | `Spec => []CleanStopLeavesNothing` |
| `CompleteHasNoGap` | `Spec => []CompleteIsContiguous` |
| `AnswersStay` | `Spec => OutcomeIsFrozen` |
| `OutboxImplements` | `Spec => NeverDrops` |

`OnlyTheWindowLoses` is about the cursor in the file; what keeps it is the order of the
candles in hand. `PollInv` says that the candle being worked on is the first still to do, and that those come after the
cursor in memory (candles are listed once and the poll goes through them in order). `CursorInv` says when the two
cursors may part, `SavedInv` that the file's is not moved back, not even by a process that started without one (what such a process
fetches begins after the saved cursor or includes it), and `WindowInv` is the property for the cursor in memory and for the
candles passed over on the way to those still to do, which are `unreached`, with the one candle that is between
its save and its queue as the exception: the step that moves the cursor past it is the one that queues
it. `PassInv` ties a row in the worker's hand to the queue and the store (it is written before it is
marked, which is also the refinement's only hard step) and says that a flush at shutdown only stops
short of the queue's end after a refusal, hence `StopsClean`.

For the evaluations, `MeasuredInOrder` is a strengthening of `CompleteIsContiguous` that holds at every stage,
of memory and of the rows; it needs the number of the last candle measured to be behind the loop's cursor
(`MeasureInv`), so that the next is new. `AnswerInv` is why a replay cannot take back an answer: a detection
whose row holds one is behind the *saved* cursor, so a process that has it does not track it from the start again, and what
is tracked of it agrees with the row. A process without a cursor does both; what was answered by then is
`exposed`, for which the invariant promises nothing until its row is written again. The lemmas about the first of a set of candles (`MinIsFirst`,
`MinIsUnique`) rest on the library's well-founded minimum.

**`LifecycleProofs`**

| theorem | statement |
|---|---|
| `Invariance`, `TypeCorrect` | `Spec => []IInv`, `Spec => []TypeOK` |
| `NobodyIsLeft` | `Spec => []NoOrphans` |
| `StaleOnce` | `Spec => []StaleRestartOnce` |
| `RegisterTellsTheTruth` | `Spec => []RegisterIsTrue` |

`NoOrphans` speaks of the end of a launch; `StopInv` says for each stage of the stop which states a service can
be in (after the round of requests nobody is merely running, after the grace nobody is asked and not told, after the kill
nobody is left), and that a service that may still be asked is in `left`. `StaleInv` relates the
restarts blamed on a tick to the tick the state file remembers: the file is written *before* the restart, and a
tick is only blamed when the file does not name it. `RegisterInv` says that the row is the outage (the `active` of one
is the `now` of the other, the counts agree) and that the number of edges announced is odd exactly while
it lasts. It is what refuted the first form of the history: a count of the stops by a
crash agrees with the register only up to the first crash of a stack that was not up yet.

*The sleep cycle*, whose theorems share this module:

| theorem | statement |
|---|---|
| `SleepInvariance`, `SleepTypesHold` | `SleepSpec => []SleepInv`, `SleepSpec => []SleepTypeOK` |
| `CloseIsConfirmed` | `SleepSpec => ParksOncePerClose` |
| `ClosesAreReviewed` | `SleepSpec => []CloseIsReviewed`, if `LongWeekend` |

`RunGoesOn` says that `closed_since` begins a run of CLOSED readings that is still going on and is as
long as the clock says; `AwakeHasTraded` that a service which is awake has read OPEN since
it slept.

`CloseIsReviewed` is about what has to have happened between two instants of the calendar, so its
invariant is a deadline. From a week's close until it is decided the service is awake (`Owed`), and the run of
CLOSED readings that will confirm the close has begun by `Deadline`: the close, plus `Confirm + 1` ticks for each fault or
restart spent so far (a reading that fails, or a process that forgets `closed_since`, costs the run begun
and the tick it happened in; `DeadlineMoves`). `LongWeekend` is the hypothesis that a run begun at the last of these deadlines is confirmed
before the preopen ends the weekend, so the market reads CLOSED until then (`WeekendReadsClosed`) and nothing
but a fault or a restart can stop the run. It also asks for a symbol, a broker's clock at most a day ahead, and
a start before the close of its week; with a tick a minute and the defaults
(a confirmation of 5 minutes, a preopen of 15: `aureon/services/sleep_cycle.py:86-89`) it leaves room for hundreds of faults. `MCSleepCycle` has TLC evaluate it on the instance of the run. The rest is the calendar:
lemmas on division show which week and weekday a tick belongs to (`WeekendDays`, `ClosesInOrder`) and that the week that has finished on the
broker's clock, anywhere in the weekend, is the one that closed or the one before (`ReviewsTheWeek`).

**`AnnouncementsProofs`**

| theorem | statement |
|---|---|
| `Invariance`, `TypeCorrect` | `Spec => []IInv`, `Spec => []TypeOK` |
| `SaidOnce` | `Spec => []PostedOnce` |
| `NotificationsImplement` | `Spec => ImplementsAtMostOnce` |
| `RemindersAreTrue` | `Spec => []ReminderIsTrue` |
| `NothingNewIsMissed` | `Spec => []NewIsAnnounced` |
| `CardsAreCurrent` | `Spec => []CardShowsLast`, if `MaxTroubles < Window - 1` |

The parts of `IInv` stand beside the specification, and the steps are grouped by what they change (the world, the
clock, and a bot that lists, takes up, posts, notes, edits or ends), with one lemma for the shape of each group.
`PostInv`: a claim without a message is in one sweep's hands, so a thing is posted by whoever claimed it, and
once. The refinement adds `SentIsPosted`, that a message on record was posted, and that a step claims or
posts for one row only (`OneRow`, `FirstPost`); it implies `PostedOnce`. `FreshInv` says why nothing new is missed: whatever part it belongs to, a sweep that began
after a thing came has *still to come* to it until its row is there, hence such a sweep cannot end. The clock
only moves when every bot has made a whole sweep; two ticks after a thing came no bot has finished
another one while it is unclaimed, and there is no third tick. The proof needs a bot (`Bot # {}`), and no more of the window than
three ticks; the notifier's is two minutes (`aureon/config/config.py:226`), and it sweeps every five seconds.

A card can be edited in any order by sweeps that know different versions, and an edit may fail, so a stale card is
possible for as long as failures last; `CardInv` counts them. Once a setup has rested for a tick, only a
sweep that spans that tick can write an older version (`SeenInv`); from then on the bot that wrote it meets the
card in each of its sweeps, and each of them costs a failure if the card stays stale (`Cost`).
Past the window that makes `Window - 1` failures. Hence the hypothesis of `CardsAreCurrent`, which says how many failures
the code stands: with more, a card may keep an old version for good, since nothing looks at
a setup older than the window. The run has one failure and a window of three.

**Only model-checked**: the seven liveness properties (`ConfirmedIsDecided`, `GoneOrderIsSettled`, `OneExitCloses`,
`RequestedExitIsDone`, `QueuedIsDelivered`, `SweepsGoOn`, `RequestIsServed`): fairness and ENABLED are out
of the prover's reach. Every safety property of a passing run is the subject of a theorem.

## 5. Where the code and its documentation disagree

One run shows a statement of the documentation that the code does not keep:

- **`TradeNeverCloses`**. "finish on a later poll, once the remaining deals are visible"
  (`aureon/positions/position_monitor.py:419-421`). The window's exits are compared with
  the whole volume: two exits further apart than the overlap (300 s) never add up, and the
  trade stays PARTIALLY_CLOSED until a restart within the cold-start window.

What follows was met while modelling. The models contain these behaviours, or
name them as an exemption of a property; no run states them as a violation.

*Execution.*
A market order accepted without a volume in the answer is recorded FILLED, whether or not anything was filled
(`execution/execution_worker.py:262-268`, `mt5_broker.py:241,252`); of such a row `OutcomeIsTrue` says only that there is one order.
The monitor asks for the deals since the last sync less 300 s (`position_monitor.py:241-246`): a part filled earlier, of an
order that went on resting and whose remainder then left, is not seen, and the request is recorded CANCELLED or EXPIRED, "the worst
of the three mistakes" (`pending_order_monitor.py:12-14`). The position is still imported as a trade
while it is open (`_import_open`), without the request saying so.
A sweep within the grace leaves a request EXECUTING and no other sweep follows, though
"restarting the executor is the normal repair" (`docs/RUNBOOK.md:439-442`).
A claim lost to another executor ends the poll though it is
"the normal outcome of a race" (`aureon/execution/execution_worker.py:120-121`).
The sweep's deal window ends before the orders are read, so an order filled in between is
recorded CANCELLED. An order placed between the monitor's reads and its list is
recorded CANCELLED, the same mistake.
Cancel on a live view may answer "never sent" for an order that
rests; a second executor's sweep settles a request sent under a live lease; a partly
filled resting order counts as two matches; failed broker reads past the grace write
"the order was never placed"; the pending monitor takes the confirmation's deadline for
an expiry of the order.

*Guard.* The enable button passes no version, so a press on an old screen undoes a later
disable (`aureon/discord/views/confirm_view.py:321-323`; `operations.py`'s docstring describes the
check that nobody asks for). The guard's `now` is taken before the claim, which has checked the same
deadline against it, so `rule_confirmation_fresh` cannot fire. `trades_today` and `margin_required` are never supplied
(`execution_worker.py:359`), so their rules see defaults. "V1 never pyramids"
(`execution_guard.py:453`) does not hold across a race, a resting order or a lost answer; `OnlyRacesPyramid` says by how much.

*Management.* "a lost request is retried on the next quote" (`aureon/positions/position_monitor.py:692`):
the state is persisted as EXIT_PENDING without a request, and EXIT_PENDING never asks again
(`exit_manager.py:468`). "a stop that only ever tightens" (`exit_manager.py:22`): the request is committed before
the state, and if the state is lost the next quote starts from the old stop and may request
a looser one; the *recorded* stop never loosens, the broker's may.

*Observer.* A candle's detections are lost if the process dies between the cursor's write and
the outbox's (`market_engine.py:232`); `OnlyTheWindowLoses` shows that nothing else loses one, but for the reach of a start without a cursor. Open evaluations live in memory and
are not resumed after a restart: their rows stay open. A cursor file that cannot be read is "recoverable"
(`services/observer_state.py:49-51`), and the start without it does not skip what it reaches; but it tracks again what was answered
(`main_observer.py:2328-2340`), and the upsert (`evaluations.py:53-62`) writes pending over the complete horizons, for good if they do not
complete again. What it does not reach is never analysed. In the model a candle's detections do not depend on where the
engine's window began; in the code the first ones of a cold start may differ from those of a process that ran on.

*Announcements.* `alert_watcher.py:176-181` catches the Firestore repository's
`AlertClaimRejected`; the PostgreSQL one raises its own class, and the poll ends. `fire()` does not look at `expires_at`.

*Setups.* `BREAKOUT_ACCEPTANCE` proposes CONTINUATION to FAKEOUT_RISK, which the table of
transitions refuses; the refusal is logged with the idle count already reset, so the setup neither moves nor expires while it is
proposed. `open()` returns a row that has ended as if it were new, and later events stamp its `closed_at` again. No family
proposes COMPLETED, and a setup open at the day's end stays open for ever. A failed read of the
day's open setups is not retried that day.

*Lifecycle.* Ctrl+C outside the wait and the start (while the stack is recorded as up, or during
a stop) leaves the services running in their own process groups. If the guardian cannot save its state, a silent feed
restarts the stack again and again.

*Reviews.* `previous_iso_week` and `previous_market_date` work on the broker's clock
(`reviews/periods.py:74-107`, Europe/Athens by default), the close is at 21:00 UTC. In winter it is still Friday
there when the watcher wakes its hook (`main_review.py:297-315`): it writes Thursday's daily and the
weekly of the week before, which `periods.py:91-95` warns of and `docs/RUNBOOK.md:247`
says does not happen; in summer it is right, and the tests use September. When the clocks change between two closes, a week
may be reviewed twice or never. If the broker stops before the close (a holiday), the crossing is not weekly, none follows, and the
week's reviews are not written. A review that raised is not written later. `CloseIsReviewed` says exactly this much.

## 6. What is left out

- Money, prices, symbols and texts, except the moves `ExitManager` decides on.
- Seventeen of the guard's twenty rules, which only refuse; in `Execution` all of its verdict is free.
- The audit rows and management events written in the same transactions.
- Comment tokens are distinct; a collision of two six-character tokens is arithmetic.
- A commit whose acknowledgement is lost: a transaction that raises has written nothing.
- The Firestore repositories, which the processes no longer build.
- Discord's wizard, settings and status screens, embeds and the re-prompt, which store nothing.
- Cancelling resting orders through control requests, and partial closes by volume: same
  path as a close, other effect. The broker's return codes, one by one.
- In the observer: several symbols and timeframes (the streams share the outbox, the cursor's file and,
  since `open_setups` does not filter by timeframe, the rows of a symbol's setups), a row the store refuses for ever at the outbox's head, the outcome agents, the reference block,
  EMA journeys' own state, excursions, candles that span a close.
- In the lifecycle: the notice of a restart that Discord shows, and the deployment's own supervisor;
  a child that survives SIGKILL (`supervisor.py:329-330`); a Ctrl+C between `Popen` and the registration of the child
  (`:255-258`, one step in `StartNext`), which leaves a child nobody stops; the handler of other exceptions of the start (`:359-362`), which stops what was started.
- In the sleep cycle: schedules that are always open, and what other services do when they park (`Observer!Park` models its own flush).
- Excursion tracker, market days, model governance: aggregations whose hazards are those of the trackers modelled
  here, over floating-point values; they come next (section 7).
- Indicators, charts, backtests, reviews' contents, preflight and session evidence: functions of finished
  data without a protocol, and most of the repository's lines. This is why the map covers a small share of
  the source: it covers the protocols, not the arithmetic and the wording around them.
- Floating point: volumes and moves are whole numbers of a smallest unit.

## 7. Plan

In the order of what could cost most:

1. A composition of `PositionMonitor` and `Management`: what the recorded trade and the
   managed state owe each other.
2. The excursion tracker: extremes only grow, and survive a restart.
3. Liveness of waking: a parked service is awake when the market is.
4. Model governance: one champion, no promotion without evidence.
