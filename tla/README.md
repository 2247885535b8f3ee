# Verification of the trading platform's order path

TLA+ models of the part of `src/trading_platform` that decides whether, when and
how often an order reaches a broker, what the platform then believes it
holds, and what keeps it running through a day: the watchdogs, the logins, the
feed and the agent's loop.  TLC checks them on small instances; TLAPS proves the
safety properties of all models for every value of their constants.  `PROJECT.json`
lists the runs, the negative tests (mutants), the source lines behind every
definition, the hazards and the theorems.

## 1. The system

One asyncio process.  `TradingRuntime` (api/runtime.py) wires everything
together; agents and HTTP endpoints call it; SQLite or Postgres (`data/persistence.py`)
and an append-only order log (`execution/oms_store.py`) outlive it.

| component | state | operations | correct if |
|---|---|---|---|
| Operator control plane (api/runtime.py, governance/live_readiness.py) | execution mode, broker wired into the scheduler, LIVE arming, kill switch; last `risk_events` row | `set_execution_mode`, `arm_live`, `set_kill_switch`, restore at start | never armed under an active switch or outside LIVE; a trip survives a restart; broker follows mode |
| Execution scheduler (execution/scheduler.py) | bounded priority queue, worker, instrument locks, rate limiter, kill-switch mirror | `enqueue`, `_worker`, `_process_intent`, `_submit_to_broker`, `stop` | one acknowledged order per idempotency key; no openings under the switch; exits first; nothing gets stuck |
| Order tracking (execution/scheduler.py, broker/*) | one task per acknowledged order, its last report | poll, time out, chase: cancel, resubmit, follow | books no lot that was not filled or not approved; always ends, with a record |
| OMS event log (execution/oms_store.py) | latest event per order, submitted keys | `append`, `is_duplicate`, `unresolved_orders` | the queries tell the truth about orders |
| Exit manager (exit/*) | plans, pending exits, retry counts | `register`, monitor loop, `on_exit_fill` | plans cover exactly what is held; a plan leaves only by a fill; a failed exit is retried |
| Restore (api/runtime.py `restore_state`, data/persistence.py) | `open_positions`, `active_exit_plans`, snapshots | save on fill, delete on exit, restore, settle expired options | memory after a restart is memory before it |
| Emergency square-off (execution/emergency_square_off.py) | none | one exit per open position | does not oversell together with the exit manager |
| Pre-trade gates (risk/*, domain/order_classification.py) | counters and limits | allow or reject an intent | a true opening is recognised whatever the caller claims |
| Ledger and fill processor (portfolio/ledger.py) | positions, cash, realised P&L | `apply_fill`, mark to market | quantities, cash and P&L agree |
| Multi-leg orders (execution/multi_leg_manager.py, api/runtime.py `submit_multi_leg`) | legs and their status, fill events | submit leg by leg, time out, roll back, `notify_fill` | hedges first; a leg is filled by a fill; a basket ends |
| Manual approval (risk/manual_approval.py) | pending requests and history | submit, approve, reject, expire | a request is decided once, and a refusal is final |
| Watchdogs (api/runtime.py guardian and reconciliation ticks, portfolio/reconciliation.py) | kill-switch flags, mismatch count | guardian tick, fetch, compare, trip; `set_kill_switch` and `arm_live` as other threads run them | a trip stands; a lasting loss or drift trips; a booking delay does not |
| Broker login (broker/auth_health.py) | breaker, failure count, alert flag | before each login, after success, after failure | rejected logins are few; outages are reported once; it closes again |
| Market feed (data/live_feed.py) | session, shard, socket, subscriptions | log in, connect, reconnect, heartbeat, add symbols, stop, start | no symbol gets lost; silence is noticed; quiet out of hours |
| Trading agent (agent/trading_agent.py, agent/market_hours.py) | loop task, flags of the day, baseline | start, stop, tick, square-off sweeps, restart | each market is squared off before it closes; one loop; one baseline a day |
| AI agents, orchestrator, fusion, strategies, learning, research, market data, streaming, API services, tenancy, governance | | produce intents or read state | reach the modelled system only through `enqueue` and the control plane |

How they interact: a signal becomes an `OrderIntent`, and `enqueue` checks kill
switch, duplicates and compliance and stamps the mode.  The worker takes intents by
priority, runs the gates again, waits for a rate token, calls the broker in
an executor, logs, and books a fill or starts a tracking task.  A booked fill
calls `TradingRuntime._on_fill`, which registers an exit plan (entry) or releases one
(exit), and writes rows.  The exit manager polls its plans each second and
calls `enqueue`.  The operator may change the mode, arm, trip or clear at
any `await` of all of these, and the process may stop there.

The trading agent's loop decides by the clock whether it prepares the day, scans
(candidates become intents, or baskets through `submit_multi_leg`), or squares off;
it also restarts the feed when that is down.  The feed, the broker client and the
history client share one login breaker.  Guardian and reconciliation run in threads of
their own beside the event loop, read the ledger and the broker, and call
`set_kill_switch`, as the operator's requests do from other threads.  The agent's
baseline is what the guardian measures the day's loss from.

What is hard: everything read before an `await` may be stale after it
(mode, kill switch, broker, position); the same key may be on its way twice; reports from
the broker come late, incomplete or never; cancels fail; the rows written
after a fill are written one by one and by threads; exits are retried while the first
one may still fill; flags that threads set one after another without a lock;
a socket that is replaced while symbols are added to it; a clock that is only looked
at between long sleeps.  The 40 hazards in `PROJECT.json` give the lines.

## 2. Modules

| module | models | extends |
|---|---|---|
| `ControlPlane` | mode, broker swap, arming, kill switch and its saved row | |
| `ExecutionScheduler` | enqueue, queue, worker, gates, submission, bookkeeping, restart | `ControlPlane` |
| `OrderOnce` | abstract: a key is claimed, then settled or abandoned; a settled key is never claimed | |
| `OrderLedger` | abstract: a position moves only by pieces of an order that is out, together within its quantity; nothing is sent twice | |
| `MCExecutionScheduler` | TLC instances of the scheduler | `ExecutionScheduler` |
| `ExecutionScheduler_proofs` | its theorems | `ExecutionScheduler`, `TLAPS` |
| `OrderTracking` | one acknowledged order: polls, deadlines, chase; the broker's side of it | `ControlPlane` |
| `OrderFate` | abstract: an order is booked in at most two pieces, within what was approved and filled, and never after the last | |
| `OrderTracking_proofs` | its theorems | `OrderTracking`, `TLAPS` |
| `ExitManager` | one symbol's plans, exits, fills, rows, restarts, expiry settlement | |
| `MCExitManager` | symmetry and constraint for TLC | `ExitManager` |
| `ExitManager_proofs` | its theorems | `ExitManager`, `TLAPS` |
| `Baskets` | one multi-leg order: manager or approval, queue, fills, rollback | `ControlPlane` |
| `Watchdogs` | kill switch and arming statement by statement, guardian, reconciliation, books | |
| `LoginBreaker` | the breaker and the threads that log in through it | |
| `MarketFeed` | the feed's threads, shard 0 and its socket, subscriptions, market hours | |
| `TradingAgent` | the loop through the hours of several days, its flags and baseline | |
| `Baskets_proofs`, `Watchdogs_proofs`, `LoginBreaker_proofs`, `MarketFeed_proofs`, `TradingAgent_proofs` | their theorems | the module, `TLAPS` |

A step is the code between two `await`s that really suspend; synchronous
methods are one action.  Where the code runs in threads (`Watchdogs`, `LoginBreaker`,
`MarketFeed`) a step is one assignment, one section under a lock, or one call out.  Operators introduced as *Negative test* are the plausible
bugs the mutants put in place of the definition that follows them.

**ControlPlane.**  `mode`, `kill` and `broker` are `runtime.execution_mode`,
`kill_switch_active` and `scheduler.broker`.  `arming` is `live_armed`, with the
history whether the kill switch cleared it (`frozen`).  `SetKillSwitch`
includes the write of `risk_events` and its swallowed failure (`auditLost`);
`RestartControl` is `_restore_kill_switch_from_db`.

**ExecutionScheduler.**  `where[i]` follows an intent; `wpc`/`cur` is the worker's program
counter and intent.  `EnqueueKilled`, `EnqueueDuplicate`, `EnqueueRefused` and
`EnqueueAccepted` are the exits of `enqueue` in source order, `PutResumes` an entry whose `put`
waited for room.  `RejectModeMismatch` to `SuppressDuplicate` are the returns of
`_process_intent`, `Clear` is the path that takes the lock and reaches the rate limiter,
`Submit` and `BrokerReturns`/`BrokerRaises` are the two sides of the
broker call.  `order`, `rest` and `lots` follow the order that was acknowledged: what its
tracking task knows, the lots it still waits for, the lots booked.  `TrackEnds` is the end of
the task with the lots booked then, all, some or none; `ChaseGoesOn` is a chase that
times out, books what was reported and sends the rest as MARKET.  `GateAdmits` is the
part of the risk gates that reads the kill switch and the derived
classification; the price, edge and limit arithmetic of the others is a free
verdict.  The OMS log is reduced to the latest event per order and the submitted keys.
`OrderOnce` is implemented with the worker's intent as the claim; `OrderLedger` with
`Progress`, which reads off `where`, `wpc` and `order` how far an intent has come, and
`lots` as what the intent has moved.

**OrderTracking.**  `phase` is where the task is: `track` (MARKET), or `chase`,
`cancel`, `resubmit`, `answer`, `follow` (a LIMIT entry).  `bstate` and `filled` are the
broker's, and move on their own.  `Reports` says what a poll may return:
nothing, a stale prefix, a report without price or quantity if `Lossy`.
`KeepReport` is `last_status`.  Quantities are lots.  `OrderFate` is implemented with
`Pieces`: two for a chase until its verdict, then one, and none once the task ended.
`ExitManager` takes the fate of an exit (a MARKET order) in this form.

**ExitManager.**  `plans`, `quantity`, `partialQty`, `pending` and `retries` are the exit
manager's maps and fields, `held` the ledger's position, `row` and `dbHeld` the
tables, `saving` the `save_positions` threads still to run.  `Emit`, `EmitFails`, `MonitorFlat` and
`Unhit` are the outcomes of one poll of one plan.  `ExitFills` is a fill of any part of an
exit with all that `_on_fill` does for it.  `Restart` is `restore_state` with
`_settle_expired_positions`, `RestartDeferred` its early return.
`mishaps` is history: it names what the properties set aside.

**Baskets.**  `pc` is where the caller is: `called`, then `asked` (LIVE: every leg
becomes an approval request) or through `put` and `wait` leg by leg to `done`.
`status` is `leg.status`, `told` the fill events, `order` the leg's intent on its
way through the scheduler, `held` what is booked.  `SubmitDirect`, `LegFilled` and
`LegTimesOut` are one turn each of the loop in `submit`: sorted legs, an
`enqueue` that drops, puts, waits or raises, and the wait of 75 s.  `Fail` is `_rollback`;
a reverse intent enters the queue (`reversing`) unless `oms.is_duplicate` finds the
key.  `ApproveOrder` and `Refuse` are `approve_order`, `reject_order` and
`_expire_stale`.  `Fills` is `_handle_fill` with `notify_fill`.

**Watchdogs.**  `Flag`, `Mirror`, `Disarm`, `Save` are the statements of
`set_kill_switch`, `CallArm` and `Arm` the check and the assignment of `arm_live`, each of
which any thread may run in between.  `GuardianTick` is the guardian's
condition and call; `TickBegins`, `Fetch`, `NoDrift` and `Mismatch` are
`_run_reconciliation_tick`, whose fetched positions (`snapshot`) are compared with
a ledger that moves meanwhile.  `atBroker`, `inLedger` and `unbooked` are one symbol's
quantities.  `alone`, `standing`, `late`, `excused` and `falseTrip` are history.

**LoginBreaker.**  `LetIn` is `before_login_attempt` when it lets a login through, `RecordSuccess`
and `RecordFailure` are the sections under the lock, `AlertSent` the
alert after it.  The deadline is none, in the future (`cooling`) or past (`due`).  `Accepted`,
`Refused` and `LoginFails` are the broker's answers.

**MarketFeed.**  `at[l]` is where the thread of a loop is, from `_login` through
`_run_shard`'s pause, backoff and connect to an open socket that delivers (`up`)
or not (`silent`).  `wanted`, `routed` and `carried` are the feed's list, the shard's list and what
the socket was told; symbols outside `Token` have no token, are routed and never told.
`SeesItDown` and `Start` are the check and the assignment of `start`, `AddSubscription` and
`SubscribeSymbol` the two halves of `add_subscriptions`, on either side of the lock.  The code
asks two clocks: `marketOpen` is `_market_is_open_now`, which the loops ask before they dial;
`entryHours` is `is_entry_allowed() or is_mcx_entry_allowed()`, which `CheckHeartbeat` (the
watchdog) and the agent that restarts the feed ask.

**TradingAgent.**  `PremarketRoutine`, `Sweep`, `ChainSnapshot`, `SleepUntilOpen` and
`ScanAndExecute` are the branches of `_tick` in its order, `TickEnds` what
follows the routine; `Later` holds what the branches after the sweeps share.  A sweep may
raise: its routine swallows the exception, so the day's flag is set all the same.  Hence two
histories: `tried` is the day a sweep began, `swept` the day one returned without
an error.  `watch` has the loops that were asleep when the window began.
`LoopEnds`, `CancelDelivered` and `TickRaises` are the ways out of `_run`, with
its `finally`.  `TimePasses` moves the clock only while every loop sleeps or
awaits.  `EstablishBaseline` is `_establish_session_baseline`, whose database may fail.

## 3. Runs

| run | bound | distinct states | shows |
|---|---|---|---|
| `scheduler_core` | two entries of 2 lots with one key, one protective exit; queue of 2; LIVE | 563 603 | at most one acknowledged order per key, as a refinement of `OrderOnce`; positions move only by pieces of an order that is out, within its quantity, as a refinement of `OrderLedger`; one opening at most after a trip; an exit is overtaken at most once |
| `scheduler_modes` | an entry and an exit; queue of 1; PAPER and LIVE | 407 977 | the trip survives restarts unless its row was lost; never armed under the switch; with fairness, every intent taken in is decided or lost to a restart |
| `tracking` | 3 lots, both order types, lossy reports, PAPER and LIVE | 56 554 | never books more than was filled or approved, in two pieces at most and nothing after the end, as a refinement of `OrderFate`; `filled` accounts for every lot, the task ends |
| `exits` | two plans of 3 lots, two exits outstanding, failed writes, partial fills, one restart | 1 113 225 | plans cover exactly what is held; outstanding exits never take the position through zero; a plan leaves only by its own fill or a square-off |
| `exit_retries` | one plan of 2 lots, two modes, a restart, two counted retries | 20 624 | a plan whose trigger keeps being hit is worked off |
| `baskets` | 3 legs of 2 lots, one buys; opening or closing; PAPER and LIVE | 150 024 | a leg is filled by a fill, hedges come first, each leg is queued once, a refusal is final, a basket ends |
| `watchdogs` | one operator thread beside the two watchdogs, one trade, one restart | 613 668 | a trip that nothing undoes stands; one late booking never trips; a lasting loss or drift does |
| `breaker` | 3 threads, threshold of 3 | 11 822 | the bound on rejected logins, alerts in pairs, the breaker closes again |
| `feed` | 2 loops, 2 symbols of which one has a token, a limit of one, 2 upsets | 182 890 | no symbol is lost, one connect at most after the close, in entry hours a socket delivers again |
| `agent` | three days (a holiday and two trading days) of 40 units, 2 loops, 2 commands | 4 605 478 | a loop asleep when a window begins squares the market off in it, one loop, one baseline a day |
| `frozen_exits` | violation | | tripping the switch disarms LIVE, and the final gate then rejects exits as not armed |
| `rollback_reverses` | violation | | "already-filled legs are reversed", but the reverse intents keep their legs' keys and are dropped as duplicates |

Why the bounds are enough to be interesting.  Two intents with one key are the
least that can race, and the exit makes priorities and the kill-switch
exception matter; two queue slots let one wait while another is worked on, and two lots
an entry be booked in part or in two pieces.
One slot makes `put` block and exits fail fast.  Three lots allow a partial fill,
a second one and a rest; two orders are all a chase can create.  Three lots per
plan give a partial exit of one and a rest of two, which a restart lets split
again; two plans are the least for the sharing of rows and for
`on_exit_fill`'s fallback.  Queue ticket numbers are not bounded: each intent is
enqueued once.  Three legs with the buying one in the middle of the payload make
the sort matter and leave a leg behind the one that fails; two lots make a leg
partly filled.  One trade is exactly what the reconciliation promises to stand; a
second one may trip it (section 6), and one operator thread with two watchdogs has every
pair of set, clear and arm overlap.  Three threads past the gate are one
more than a breaker of threshold 3 needs to open while others are in flight.  Two
loops are the overlap of an old and a new connection; a limit of one symbol
lets the second come in as the symbol of a position only, and one without a token is
the symbol that no socket carries.  A day without trading
before two with it makes the flags of a day meet the next one; the units of the agent's
hours keep the order of the code's clock times, and the interval lasts as long as the
shortest window, as 300 s do by default: a tick of up to two units then makes a loop
that is at work when the window begins miss it, which is why `NothingCarried` speaks of
the loops in `watch` only.

Named bounds are `MaxQueue`, `MaxOut`, `MaxRetries`, `MaxRestarts`, `MaxTrades`,
`MaxUpsets`, `MaxLoop`, `LastDay` and `MaxCommands`.  Some counts of the code have no bound; their
steps stop counting where a higher value changes nothing: `retries` at
`MaxRetries`, `failures` at `Threshold`, the mismatch count and `lateDials` at 2.  No property
rests on these stops.

`scheduler_core` leaves out failed reads and writes of the kill-switch row
(`RowsAreKept`): they are explored by `scheduler_modes`, and the theorems of
section 4 hold with them.  `exits` explores only behaviours without overlapping exits of the same
lots (`OneExitAtATime`): all its properties set the others aside, so nothing is
hidden, and the state space stays at 1.1 million.  The symmetries
(`EntriesAlike`, `PlansAlike`) are used in runs without liveness properties only.
`agent` allows deadlock because the model's last day ends.

Fairness.  The scheduler: weak fairness of the worker, of a waiting `put`, of
tracking tasks and of the broker call, because the event loop runs every ready task
and each call ends in an answer or an exception.  Nothing is assumed of gates
or operators.  Tracking: weak fairness of its deadlines and calls only; the broker is
not fair.  Exits: the monitor polls every second, so an exit that can be emitted
infinitely often is (strong, since `enqueue` may refuse any one attempt), and a
market exit that is sent again and again fills at some time; the second is an assumption on
the market and broker, without which nothing closes a position.  Baskets: weak fairness of
the wait's end and of a waiting `put`; no leg has to fill.  Watchdogs: threads and
loops go on (weak), and a fetch that is tried again and again succeeds at some time (strong);
without it the code cannot see a drift.  Breaker: cooldown, answers and records (weak), and
for each thread that it is let in and gets a proper answer at some time
(strong), since each path asks for a login again as long as it has none.  Feed:
threads and clock (weak), in entry hours also the watchdog and the agent's restart of a
feed that is down (weak: outside them the code does neither), a login and a connect that are
tried again and again succeed at some time (strong).
The agent's properties are safety only: its promise has a deadline, and a clock that
waits for whoever is due turns it into an invariant.

## 4. Proofs

`ExecutionScheduler_proofs`, for any sets of intents, keys, symbols and modes
and any queue size, from `SchedulerAssumption` and `ModeAssumption`:
`TypeCorrect`, `OncePerKey`, `TripStops`, `ExitsFirst`, `TripSurvives`,
`NeverArmed`, `BrokerFollows` (if the process does not start in a LIVE mode),
`ImplementsOnce` and `ImplementsLedger`, the refinements of `OrderOnce` and
`OrderLedger`, and `ReductionsReduce` about `derive_true_opens_position`.

None of these is inductive alone.  `IndInv` adds: the worker holds exactly the
intent that is `working` and orders exist only for intents that have left
(`WorkerInv`); the log has a key exactly if an order with it was acknowledged,
and never the key about to be submitted (`KeyInv`), which is what makes the second
`is_duplicate` under the lock sufficient; an opening that was cleared before the
trip is the first since it (`TripInv`); an order behind a less urgent one
still at the rate limiter was not overtaken yet (`OvertakeInv`); and what was
commanded is the row in the database unless it was lost (`ControlInv`).  There is
one lemma per part, with one step per action.  That the lots booked and the lots still
tracked never exceed the intent is `PiecesInv`.  `ImplementsLedger` needs it and `WorkerInv`:
`OneMoves` and `OneBooked` say how a step that touches one intent is a step of
`OrderLedger`, and there is a lemma on what each kind of step does to `Progress`.

`OrderTracking_proofs`, for any quantity, order types and reports, from
`TrackingAssumption`: `TypeCorrect`, `NoPhantomLots`, `NeverMoreThanApproved`, `FilledIsWhole`, and
`ImplementsFate`, the refinement of `OrderFate`, which says the first two step by step.
`IndInv` adds that a kept report is a lower bound of what the broker
has filled of the order it is about, and that booked, unbooked and resubmitted lots
add up to the intent in every phase of the chase.

`ExitManager_proofs`, for any plans, modes, quantities and bounds, from
`ExitAssumption`: `TypeCorrect`, `ExitsKeepTheirPlans`, `OnlyFillsRelease`,
`PlansCoverPosition`, `ExitsNeverOversell`.
`ReleasedByFill` alone is not inductive: `on_exit_fill` frees every plan of the
symbol when the plan an exit names is gone, so the proof must know that an
outstanding exit's plan is still registered.  `OrderInv` says so: unless exits
overlapped, the outstanding exits belong to different registered plans, or the
only one is a square-off.

`Covered` and `NeverThroughZero` compare the lots of several plans, or of several
exits, with the position.  What a sum over a set becomes when the set grows needs an
induction over data that the provers cannot do; so the lots are numbered: `ProtectedLots`
is the set of pairs of a plan and a number up to its quantity, `OrderedLots` the
pairs of an outstanding exit and a number, and both properties speak of the
`Cardinality` of such a set, about which the library has theorems.  The lemmas `LotsAdded`,
`LotsTaken`, `LotsClosed` and `LotsReduced` say how it changes when a plan is
registered, closed or reduced.  `PlanInv` is inductive relative to `OrderInv`, and has three
parts that hold as long as no exits overlapped and no restart lost rows: the plans never
protect more than is held, and exactly that unless an exit filled in part (`PlansWithin`);
an outstanding exit sells what `on_exit_fill` will take off its plan, or is a square-off of
everything (`OrdersMatch`); and the rows of the database are those of the plans in memory
(`RowsCurrent`), without which a restart would break `Covered`.  `NeverThroughZero`
follows: the map from the lots of the exits to the lots of their plans is an injection,
because different exits have different plans.

`Baskets_proofs`, for any number of legs, buying legs, lots and modes:
`TypeCorrect`, `FilledIsTraded`, `HedgeFirst`, `EachQueuedOnce`, `RefusedIsFinal`.
`BasketInv` adds that a leg whose event is set has lots (`FillsAreReal`), that a
pending leg or request never entered the queue (`Untouched`), that manager and approval
exclude each other (`OnePath`), and that each leg behind another went out after lots
of it were held (`InOrder`), of which `SellsFollowBuys` is the part about hedges.

`Watchdogs_proofs`, for any number of operator threads, trades and restarts: `TypeCorrect`,
`TripsStand`, `OneFillIsHarmless`.  `TripInv` says how much a trip on its way has
set already (`SetSoFar`), and that no arm or clear is under way beside it;
`Explained` accounts for the one trade: it is at the broker, and in the ledger or still to be
booked, and a mismatch was counted for it only.

`LoginBreaker_proofs`, for any finite set of threads and any threshold: `TypeCorrect`,
`QuotaIsSpared`, `AlertsPair`.  `QuotaInv` counts the logins past the gate together with the
rejections recorded; `AlertInv` counts alerts sent together with those a thread has yet to send.

`MarketFeed_proofs`, for any finite set of symbols and any loops: `TypeCorrect`,
`OneDial`, `SymbolsAreCarried`.  `CarryInv` is the reason why no symbol is lost: when
the socket in place lacks one, some loop is on its way to replace it.

`TradingAgent_proofs`, for any hours in the order of `AgentAssumption`, any holidays, interval and
number of loops and commands: `TypeCorrect`, `AlwaysOneLoop`, `BaselineIsKept`, and
`SquaredOff` from `InTime`.  `DayInv` bounds how long each loop stays where it is
(`Stay`) and hence when its next tick comes: a flag left from an earlier day falls
before the windows of today (`Flags`), a loop that was asleep when a window began and owes its
sweep still sleeps, and wakes up within the window (`Dues`), and a scan that may still send
entries has the sweep before it (`Scans`).  `InTime` asks that an interval be no longer than a
window, and that a flag not outlast a night; both are so at the code's defaults.

Only model-checked: all liveness (`EveryIntentLeaves`, `TaskEnds`,
`ExitsGetThrough`, `BasketEnds`, `BreachTrips`, `DriftTrips`, `ClosesAgain`, `FeedReturns`; temporal proofs under fairness and ENABLED are out of the prover's reach),
and the two violations.  Every safety property that a passing run checks is a theorem too.

## 5. Abstractions to keep in mind

- `ExecutionScheduler` has the pieces in which an order is booked, not the polls and
  reports that lead to them, which are the subject of `OrderTracking`.  In `ExitManager` an order's way
  through both is one step that fills any part of it or none.
- Prices do not exist.  A limit or trigger may be hit at any poll; a report is priced
  or not.
- The unpriced answer of a broker (`fill_price_missing`) is what the interface
  `BrokerResult` allows; the simulator never gives it.
- Time is only order: a deadline may pass at any poll.
- `ExitManager` has one symbol, and entries that buy.  Shorts mirror it.
- In `ExitManager` a plan's id is used once, as `uuid4` makes sure.
- `Baskets` reduces the scheduler to what the manager sees of it: any gate may reject,
  any live order may fill in parts, late or never.
- `Watchdogs` has one symbol, whose quantities only grow, and mirrors nothing of the
  guardian's arithmetic: a breach begins and ends at will.
- `LoginBreaker` sorts error texts into "rejected" and "not counted", which is what
  `record_failure` makes of them.
- `MarketFeed` has the symbols of one shard of 1000, of which those with a token are fixed, and
  two loops at a time.
- `TradingAgent` takes what a scan decides as a free choice, and what a sweep sends as
  `ExitManager`'s `SquareOff`.

## 6. Noticed without a run of its own

Order path:
- The mode stamp is compared before the rate limiter's `await`
  (execution/scheduler.py:442): a mode switch during it sends a paper intent to the live broker.
- `lock_released` (execution/scheduler.py:413) becomes an order's latest event and
  hides it from `unresolved_orders`.
- A partly filled and then cancelled order is recorded as rejected; its fill is never booked
  (execution/scheduler.py:667).
- A chase resubmits an entry after the switch was tripped (execution/scheduler.py:858), and to
  whatever broker is wired in by then; `TripStopsOpenings` counts what the worker sends, not this
  remainder.  A resting order that fills after a failed cancel, and the
  MARKET order of the chase, may together fill more than the intent; the ledger books only the intent.
- A complete order without usable fill data ends a chase without a record
  (execution/scheduler.py:825).
- The scheduler is built on the paper broker whatever the configured mode
  (api/runtime.py:360); `BrokerFollows` is proved for a start outside LIVE only.
- Two exits classified against the same unfilled position both pass as
  reductions (domain/order_classification.py:52) and may take it through zero.
- Closing one plan deletes the rows of all plans of the symbol (api/runtime.py:1185).
- A partial fill of a full exit closes the plan although lots are left
  (exit/exit_manager.py:134).
- The row of a settled option stays, and is settled again at each restart (api/runtime.py:3340).
- Plans made in PAPER emit exits under LIVE after a mode switch.

Baskets:
- The first booked lot of a leg counts as the leg: a hedge filled in part is
  followed by the whole selling leg.
- Cancelling the task that waits leaves the basket active with nothing rolled back.
- In LIVE each leg is a request of its own; one approved and one expired leave half a basket, and
  a closing basket waits for approval as an opening one does.
- After a switch of mode in mid-basket the remaining legs are stamped with the new mode.

Watchdogs:
- Two different fills, each unbooked at one of two ticks in a row, trip the
  switch: the count does not ask whether the symbols are the same.  It is not reset by a failed
  fetch, a trip or a clear either.
- An arm that passed its checks before a trip may set `live_armed` after it.  A clear and
  a trip that overlap may leave the flags apart from each other and from the row.
- Paper positions stay in the ledger and count as drift in LIVE.

Login breaker:
- Alerts leave after the lock is released, so CRITICAL and RECOVERED may arrive swapped.
- A trial that is never recorded allows another one after a cooldown; all of it is per process and
  in memory.

Feed:
- A stop followed by a start within a second leaves the old loops running beside the new one
  (the premarket routine does that daily); they share `shard.ws` and the clock.
- A call without a socket starts a loop each time, so several may be on their way.
- A loop that leaves clears `_running` of a feed that was started meanwhile; the scan loop starts it again.
- Two starts at once both find `_running` clear and start a main thread each.
- The watchdog and the agent ask for entry hours, the loops for market hours: on a weekday holiday
  and from 23:25 to 23:30 a silent socket is not judged (data/live_feed.py:750) and a feed that is
  down stays down.
- `connected_at` is not cleared by failed connects, and the watchdog clears the clock before a
  close that may have nothing to close.

Agent:
- With the default interval of 300 s and a window of 300 s, a loop at work when the window
  begins may sleep through the rest of it and never square the market off;
  scripts/daily_scheduler.py squares off at 15:20 from outside.
- A sweep that raises is logged and counts as done: it is not tried again that day
  (agent/trading_agent.py:550, 572).
- A 30-minute sleep may skip the premarket window; a later restart then takes the
  day's baseline in mid-session.
- An error that a scan lets through ends the loop until someone starts it.
- A start right after a stop overlaps the old loop, whose `finally` clears the flag of the new
  one (`hasty`).
- The premarket routine runs again after a restart between 9:00 and 9:15 and overwrites the baseline.
- Entries that a long scan enqueues after the cutoff, and entries that fill after the sweep, are carried.

## 7. Not modelled, and what could come next

- Sharding past 1000 symbols, and `subscribe`, which replaces the whole list (data/live_feed.py).
- The short-vol entry and exit at the head of a scan, and everything a scan computes
  (agent/trading_agent.py; strategies/, decision/, ai_agents/).
- `execution/reconciliation_service.py` and `BrokerPositionReconciliation`: nothing calls them, and
  the service builds `ReconciliationDiff` with an argument the class does not have.
- The tick bus and the bar builder: no consumer is started.
- Orchestrator and profit guard, the model gateway's breaker, and tenancy: the next candidates.
- `portfolio/ledger.py` `apply_fill`, the compliance order cap and the token bucket: arithmetic that
  would be checked against a reference definition over bounded inputs.

Out of scope: vendor feeds and parsing, numerical analytics, strategies, learning,
backtests, the web front end, and the SQL of tables that none of the modelled
components reads.  They keep no state that the order path depends on, or none
that TLC could tell apart.
