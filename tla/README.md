# Formal model of the BTC trading assistant

The repository is a desktop assistant for BTCUSDT futures: an Electron main
process that follows Binance market data, keeps plans, paper trades and observed
live trades in SQLite, reads an account read-only, and uploads a snapshot every
two seconds to a Cloudflare worker (`worker/`), from which a GPT reads its
context and in which its decisions are logged, replayed and scored. It never
places an order.

This directory holds TLA+ modules translated from that source, the TLC
configurations that check them on small instances, and proofs that TLAPS checks
for every instance. Paths below are relative to the repository root
(`src/main/...` is the desktop program, `worker/src/...` the worker).

Contents: 1 the system, 2 hard behaviours, 3 the modules, 4 the runs,
5 bounds, 6 fairness, 7 proofs, 8 where code and documents disagree,
9 what is not modelled, 10 the plan.

## 1. The system

| Component | Source | State | Operations | Talks to |
| --- | --- | --- | --- | --- |
| Market data service | `src/main/market/service.ts` | two sockets, reconnect and poll timers, run generation | start, stop, socket events, five REST polls | Binance, order book, cache |
| Local order book | `src/main/market/local-order-book.ts` | levels, last update id, pending snapshot, buffer, sync state | reset, initialize, ingest, mark | called by the service |
| Market cache | `src/main/market/cache.ts` | candles, depth, trades, liquidations, per-source health | set/add/mark, health | read by the snapshot builder |
| Lead, alt and Coinbase collectors | `src/main/market/multicoin/*`, `cross-venue/*` | sockets and accumulators per symbol, dynamic basket | start, stop, socket events, open-interest polls, basket changes | Binance, Coinbase, intelligence builders |
| External context | `src/main/external/*` | items, per-source health, timers | collect, merge, reload, status | public providers, context uploader |
| Snapshot builder | `src/main/market/snapshot.ts`, `compact-snapshot.ts` | none | derive gates, blockers and the compact payload | cache, trading state, relay |
| Account service | `src/main/binance/account/service.ts`, `rest.ts` | status, socket, listen key, four timers, refresh in flight | start, stop, configure, disconnect, refresh, stream events | Binance, credential store, IPC |
| Trade plan handlers | `src/main/ipc/register-handlers.ts` | (SQLite) | lock, cancel, enter paper, close paper, settings, reset | database, monitor |
| Plan monitor | `src/main/trading/approved-plan-monitor.ts` | timer | check, expire, transition | database, snapshot |
| Trading state builder | `src/main/trading/build-state.ts` | (SQLite) | bind, update and close live sessions when the state is read | account status, database |
| Database | `src/main/db/database.ts` | plans, paper trades, events, sessions, settings, candles | one method per statement or query | all of the above |
| Relay uploaders | `src/main/relay/*` | in flight, status | upload every 2 s, or when context changed | worker |
| Worker: snapshot relay | `worker/src/index.ts`, `relay-freshness.ts` | latest snapshot, trading state, context rows | PUT, GET, validate | uploader, GPT |
| Worker: decision store | `worker/src/phase13.ts`, `phase15-fingerprint.ts`, `phase16-replay.ts` | leases, decision log, fingerprints, replay cases, outcomes | record, read, follow later snapshots | GPT, research scripts |
| Worker: lineage and quality | `worker/src/phase13-lineage.ts`, `phase14-quality.ts` | decision_trade_lineage | link plans of a snapshot to decisions | uploads |
| Worker: experiments | `worker/src/phase16-eval.ts`, `evaluation-v2.ts` | experiments, runs, scores | register, start, record output, score | replay runner |
| Worker: context | `worker/src/phase17-*` to `phase23-*` | cross-market cache | build the decision context | GPT |
| Worker: research | `worker/src/research-*.ts`, `phase24-25-research.ts` | none | read-only statistics | researcher |
| Calculations | `src/shared/calculations/*` | none | position size, costs, indicators, adjustments | handlers, worker |
| Shell and UI | `src/main/app/*`, `src/preload`, `src/renderer` | window, tray, notification state | view and command | IPC |

What makes each correct, in a line: the published book equals the exchange's
book at its id; an approved plan, its trade and the observed position are one
lifecycle, at most one at a time; what is shown of an account is of the account
whose keys are stored; what the app was told is stored stays stored, and what is
filed under a decision belongs to it and was known when it was made; collectors
never mix two sockets, runs or symbols; a source that fails is asked again and
said to have failed; what a snapshot permits is right at the age at which it is
served; calculations round against the user, never for them.

## 2. Hard behaviours

The main process is one event loop. A handler or timer callback runs to its
end, but everything is awaited: REST answers arrive for sockets that have been
replaced, runs that have been stopped, accounts that have been removed. Nothing
cancels a request, and a replaced socket still has messages and a close event to
deliver. The handlers of a plan write SQLite with several statements
and no transaction, so a failing statement or the death of the process leaves
any prefix. The worker runs requests concurrently over D1, also without
transactions, and the app gives up on an upload (4.5 s) that may be served
later. `PROJECT.json` lists every such hazard at its line, with the properties
that would catch it.

## 3. The modules

An action is a turn of the event loop, or in the worker one statement of one
request. Data are what the properties tell apart: a price is the event it came
from, a sum over a window the set of trades it adds up, a book the set of update
ids applied to it. Operators that begin with the comment "Mutant" are no part of
the model: each is a plausible bug, and replacing the definition it stands before
makes TLC find a property violated.

### The order book

**`LocalOrderBook`** is the class of `local-order-book.ts`: a book is a record,
each method an operator from book to book (`ingest` and `initialize` also give a
result). Event `k` carries the update ids `2k-1` and `2k`, so "the book is exact"
is a set equality. Prices and quantities are left out: the code never branches
on them.

**`OrderBookSync`** is the part of `MarketDataService` that keeps that book in
step: the public socket, its reconnect timer, the snapshot request (and whether
the promise in flight is for this socket or an old one), the retry timer, the
REST fallback, and `cache.depth`. The exchange (`ExchangeEmits`, `SnapshotIds`)
is external. `Lossy` lets the handler drop a message, as it does when one fails
its schema.

**`DepthReplica`** is what readers of `cache.depth` rely on: a copy of the book
that is either marked out of sync or exact at its id, that moves on one event at
a time and starts anew only after it was marked. `ImplementsReplica` says that
`OrderBookSync` implements it, with `emitted` and `shown` mapped to the exchange's
last id and the cache.

### Plans and trades

**`TradePlanLifecycle`** is the plan, from approval to the end of its trade:
`register-handlers.ts` (lock, enter, close, settings, reset),
`approved-plan-monitor.ts` (expiry and the triggers), `build-state.ts` (sessions
bound to a plan by side, leverage and quantity, and the stage that is shown), and
the tables of `database.ts` as sequences in insertion order. A behaviour is of one of
`Uses`: what is planned, what the exchange may report, whether the mode may change while
something is active, and whether (`use.failures`) a handler may stop between any two of
its statements; an action then leaves one of the databases in its trail. The monitor reads a plan, reads the trading state, which
may itself write that plan, and saves the copy: the model does the same three
steps. Orders are a side and a quantity; prices, fees and leverage are abstracted
to the order they belong to.

**`LiveTradeAccounting`** is how a trade that is only observed is accounted for:
fills happen on the exchange, the position and the recent fills are two answers
that may be of different moments, `inferLiveTradeStart` walks back to the opening,
`mergeTradeAccounting` adds what came since.

**`ProtectiveCoverage`** is which open orders protect a position and how much of it
they cover, checked against an exchange that executes the orders it counted.

### Account

**`AccountService`** is `binance/account/service.ts`: the stored account, the
status, the one refresh in flight and the debounce and poll timers that ask for
another, the calls of `connectStream` that await a listen key, sockets from
connecting to ended, the keep-alive and reconnect timers. A behaviour has one of
`Users`: with `user.waits` calls and wake-ups come only when nothing is pending;
`MCAccountService` has a user of either kind.

### Market data and collectors

**`MarketData`** is the rest of `MarketDataService`: candles and trades that come
from the market socket, from polls whose answers are late, and from the database
after a restart; the recovery of gaps; statistics that fail one by one; the
clock offset. Whether an answered candle is closed is asked of the app's clock,
as `normalize.ts` does.

**`StreamChannels`** is the socket code that the collectors repeat: the socket a
collector takes for its own, the sockets whose close event is still to come, the
reconnect timer, each with the run it belongs to. **`MarketWindows`** are the
histories and windows they share.
**`LeadAccumulator`** (with the age limits by which evidence is rated) and
**`LeadCollector`** model the lead assets,
**`AltAccumulator`**, **`DynamicBasket`** (the choice of symbols: scores, residence,
margin, elective replacements) and **`AltCollector`** the alt symbols, whose scan
replaces both sockets; **`CoinbaseAccumulator`** and **`CoinbaseCollector`** the
Coinbase products, with level2 messages that may be lost, repeated or overtaken, or
come without their number, their event or some of its updates, and a heartbeat that is
watched. `flawed` is a history no step reads: the products of whose connection such a
damaged message was taken since the last whole snapshot.

### External context and the relay's prices

**`ExternalContext`** is how `external/service.ts` follows its sources: a chain of
requests and timers per polled source, the announcement socket with its ping, and
what is said of their health. Handles that are overwritten leave stray timers,
which are counted.

**`ContextUpload`** composes the items of that service, the uploader
(`context-uploader.ts`: a digest, one payload per horizon, replacement while one is
sent) and the worker's guarded rows and summary (`worker/src/index.ts`), over
requests that fail, are lost, or are served late.

**`CrossMarket`** is the worker's stored row of prices of other venues
(`phase17-cross-market.ts`): cached, fetched, fallen back on, and written with a
guard, by requests that run at the same time.

### The worker's records

**`DecisionStore`** is the decision pipeline: a PUT is the list of
statements it has still to run (snapshot row, trading row, outcomes), a GET
leases what it hands out, a record request walks `lookup`, `latest`, `insert`,
`fingerprint`, `lease`, `case`, `outcome`, and any request may end between two
statements. A snapshot is its generation time. Fingerprints are a function of
their snapshot, so attaching one is "of this snapshot, or not at all". Prices stand
for the moves in basis points that grow with them.

**`DecisionLineage`** is what an upload makes of the row that
links a decision to its plan and trade, and of how far that trade went: match by
values, insert or merge, with syncs that overlap and fail. **`Experiments`** is registration, start, output and score
of a run, statement by statement. **`PathEvaluation`** is how a path is scored: for an
entry, a trigger with its confirmation window, a management decision, and the
summary of an experiment.

### Calculations and gates

**`PositionSizing`** is sizes, costs, break-even and both validators of a plan;
**`PositionAdjustment`** partial and full exits, stops and targets;
**`SnapshotGates`** source health, blockers, gates and what is left of them at an age;
**`ManagementContext`** what the GPT is told of an open position; **`DecisionContext`**
which external items and analogs go with a snapshot, and how deep it is to be reasoned
about (a similarity is a number). They are operators
over whole numbers, quotients as pairs, checked against what their results are
for: the loss at the stop, the order that can be placed, the position that is left.

### Composition

Modules share variables only where the components share state: `OrderBookSync`
and `DepthReplica`, `ContextUpload` from the app's items to the worker's rows,
`LiveTradeAccounting` with the account's two answers. Elsewhere a component knows
another by what it is told: `account` in `TradePlanLifecycle` is any status the
account service could give, and the worker knows the app by its uploads alone. The
MC modules put independent modules side by side in one run, under a variable that
says which of them a behaviour is about; what a behaviour is not about stands still.

## 4. The runs

| Run | What it asks | Result |
| --- | --- | --- |
| `OrderBookSync` | Start, stop, reconnect, slow or failing snapshots, retries and fallbacks in every order, on a stream that loses nothing and on one that drops messages: is the published book exact, is the cache the book, are gaps seen, is there one synchronization at a time, does it implement the replica, does an attempt end? | holds |
| `TradePlan` | Paper, live, cut short anywhere, turning around, and fills that come in pieces: do plan, trade, session and events tell one story, is there one active plan and one open trade, does what ended stay ended, does an armed plan stop waiting, is what is added up for a live trade complete? | holds |
| `PlanForgotten` | A position ends while the other mode is selected | violated (8.1) |
| `FeesMisattributed` | A position turns around between two polls | violated (8.2) |
| `Account` | A user who waits: one stream, of the stored account, which comes back after every failure, and events that are fetched. A user who does not wait: no stall, and silence after stop | holds |
| `DecisionStore` | Late uploads, racing record requests, reads out of order, requests cut short: see below | holds |
| `Collectors` | Lead and Coinbase streams: one socket each, nothing shown of a lost stream, open interest that never goes back, a Coinbase book of the present connection that is exact while its messages are numbered and whole, streams that come back | holds |
| `AltCollector` | The same while scans change the basket: sockets follow the symbols of the basket, members keep their residence | holds |
| `MarketData` | Candles, trades, statistics and the clock from two sources that nothing keeps in order: no trade counts twice, ratios without an error are of one refresh, the candles a poll reaches become exact again and again | holds |
| `ExternalContext` | Sources, items on their way to the relay, and prices of other venues: health is true, sources come back, items arrive, what is served only advances | holds |
| `WorkerRecords` | Lineage, experiments, and a grid of cases of every calculation | holds |
| `OneOutputAccepted` | Two outputs of one run at once | violated (8.3) |

`DecisionStore` checks that an acknowledged upload is never replaced by an older
one and that a decision marked CURRENT was made on a snapshot no acknowledged
upload had replaced (`UploadsAreHonoured`); that case, outcome and fingerprint
belong to the decision logged under the id even when two bodies race for it, and
that `replayCaseCaptured: true` is never said of half a case (`CaseIsOfDecision`); that
a lease outlives its reader for the whole time to live; that the extremes, returns
and path of an outcome are consistent across horizons, and outcomes are only
written forward (`OutcomesHold`).

`WorkerRecords` checks calculations in states that have no successor: the initial
states are the cases. `GatesHold` says that gates, blockers and health agree in every
snapshot, at every age at which it is served, and that ageing only withdraws permissions.
`OrdersAreSafe` says that what the worker validates the app accepts; that an accepted size
can be placed (step, minimum, bracket, margin) and loses no more at the stop than was
accepted, costs included; that break-even is where nothing is made; that a rounded stop or
target is never further from the price than the one asked for, that targets do not close
more than there is, that what a partial exit leaves can be closed, and that confirming an
answer gives that answer. `TellsWhatIsSo` checks what is told of a decision and to the next
one. Scores against what they mean: the mirror image of an entry scores the same, a level is
hit exactly if the excursion reaches it, a trigger is the first sample at which its
condition has held for the window, a live decision is scored as a replayed one, and the
summary counts no run twice. Orders said to cover a position close it, in whatever order
they are executed, and what is told of a position agrees with it. How to reason about a
decision follows the gates at the age it is served, is explained by its reasons, loses no
check to the limit of eight and grows no less deep with age; and the memory told with it
holds nothing that was not final before its snapshot.

Each property of a passing run has a mutant of the code that violates it.
`Collectors` and `WorkerRecords` conjoin under one name what is said of parts that
never move together.

## 5. Bounds

Every bound is a constant of its module, named there, or a record of bounds that a
behaviour takes one of (`Bounds`, `Cases`), so that what needs many sockets, many
requests or a long time is explored in turn and not in product. What needs two of
these at once is outside the run. The bounds are chosen so that each hazard fits:

- Book: 5 events and a buffer of 3 let a snapshot fall before, inside,
  bridge and behind a full buffer that has dropped its oldest event;
  `SnapshotLag` 2 lets an answer be older than the buffer.
- Plans: 2 plans let one replace another; quantity 2 allows a partial close,
  3 sessions a turn-around twice. Where handlers are cut short there are two ledger
  entries, an entry and its close: each handler is cut at every statement all the same.
  `MCTradePlanLifecycle` lists the uses. Four fills in answers of three let the oldest
  fall out.
- Account: two sockets suffice for "an old one and a new one"; the user who does not
  wait has two `connectStream` calls in flight, the one who waits two accounts.
- Decisions: horizons 1 and 2 with one tick of grace, in four ticks, cover before,
  between, at and after the last horizon and beyond the grace; a behaviour has two
  uploads served at once, or three record requests with two bodies, or three reads.
- Collectors: two sockets per stream, two runs, two open-interest requests, two units
  of time with windows of one; the basket has one place for two symbols, of which one
  may vanish from the exchange; four level2 messages set each level and remove one, and
  in a case of their own they may come without number, event or any of the updates.
- Market data: candles of two units, one or two trades; answers take up to two
  units, so that a poll can be asked in one candle and handled in the next. Six units of
  time make four candles, one more than the three a poll asks for, so that the first of
  them, closed too early, can leave the reach of the polls. The log
  remembers trades for one unit (four hours in the code) and polls bring two, so that
  trades are cut from the log before the last one is made. The run has the constraint
  `NothingOldUnderWay`: no trade arrives that is too old to be remembered. Without it TLC
  finds a trade that was cut from the log and counted again by a poll
  (`cache.ts:281`); in the program that takes a message, or a poll of a hundred trades,
  that is four hours late.
- External context: two sockets, two chains, one stray timer; two items of which one
  is kept, two uploaders, one fault; two requests for prices and three moments.
- Records: two decisions and two plans, also of equal values. Experiments: two runs,
  trials, outputs and clients, and six requests, so that one run is asked for twice while
  another takes its trial. The grids hold a case on either side of every comparison in
  the code, both sides, and the values at the limit.

Behaviours stop at the bounds, so deadlock is not checked where they do;
`TradePlan` and `Account` check it.

## 6. Fairness

The event loop is not starved: a timer that is set fires, a socket that is
closing says so, a request is answered or fails (every request has a timeout). These
are weak fairness. Strong fairness says that a peer asked again and again
answers well at some time: REST gives a snapshot not older than the last event
(`FreshSnapshotArrives`), a listen key is granted, a socket opens (and, for the
collectors, the constructor does not throw and the subscription is accepted), a source
answers. Without it nothing can be promised, as the code retries for ever. In `MarketData`
the exchange answers a poll of the last moment at some time. `TradePlan` assumes
only that the monitor's timer fires (`MonitorExpires`, every second in the code). The
poll of the account fires now and then while no fetch is in flight: the timer is
periodic and a fetch has a timeout. Both are assumed only where their liveness is
stated: for uses in which no write fails, and for a user who waits. Nothing is assumed of the user, except that the
external service is started. In an MC module that
puts several components side by side, a fairness conjunct carries the one it is of as a
guard.

## 7. Proofs

TLAPS checks the following for all values of the constants, from the named assumptions
`MaxBufferedAssumption`, `OrderBookSyncAssumption`, `TradePlanAssumption`, `FillsAssumption`,
`AccountServiceAssumption`, `DecisionStoreAssumption`, `LeadCollectorAssumption`,
`CoinbaseAssumption`, `BasketAssumption`, `MarketDataAssumption`, `ExperimentsAssumption`,
`LineageAssumption`, `ContextUploadAssumption`, `CrossMarketAssumption`,
`ExternalContextAssumption` and `NullAssumption`: types and signs of the parameters, that no
ratio has the name of another source and no socket that of none, that the exchange lists a
symbol once, that stored prices are fresh for no longer than they can be fallen back on,
that nothing which is stored counts as an empty column, and that null is no number. TLC
evaluates them. No proof uses fairness, as
every property below is a safety property. The invariants were checked with TLC on the
instances of the runs before they were proved, and the runs check what they imply.

**The order book** (`OrderBookSyncProofs`), for every buffer size, number of events and REST delay.

- `PublishedBookIsExact`: every published depth is exact, provided messages are not
  dropped or snapshot ids never coincide with an event's last id. Exactness is not
  inductive. `IInv` adds what makes it so: the buffer holds only events this socket
  delivered, and the newest of them; while a snapshot is pending, older events are
  dropped from it; if nothing is lost it has no gaps; a synchronized book has applied
  exactly the ids up to its last one. The proof has a lemma per operator of
  `LocalOrderBook` and a step per action. The hypothesis about lost messages is used in
  one place, the replay of the buffer, and section 8 says what happens there without it.
- `DepthIsTheBook`, `SyncIsSingle`: the cache mirrors the book, and one of timer, request
  and pending snapshot is under way. They hold only together (`SyncInv`): a socket that
  opens while an older request is out leaves the cache alone, which is right because the
  book is not in use while any request is.
- `GapUnpublishes`: a step that sees a gap withdraws the published depth.
- `DepthIsAReplica`: `OrderBookSync` implements `DepthReplica` (same hypothesis as
  exactness). Initial states map to initial states; for every action the step maps to a
  publication, an advance by one event, a withdrawal or a stutter. It needs `IInv` (what
  is published is exact) and `SyncInv` (what the cache has is what the book has).

**Plans and trades** (`TradePlanLifecycleProofs`), for any uses, orders, positions and
number of plans.

- `ActivePlanIsUnique`, `OpenTradeIsUnique`, `EndedPlansStayEnded`: with handlers cut
  short and the monitor writing back what it read before. Neither of the first two is
  inductive by itself: whether an entry makes a second open trade depends on there being
  one active plan. `Good` is their conjunction with the types; every handler is shown to
  touch only the plan that is active and to keep `Good` after each of its statements, so
  being cut short needs no separate argument.
- `LedgerIsSound`: the events of a paper trade cover what it has closed, whatever fails,
  and add up to it exactly where no write fails. What events add up to is a recursive
  function over the ledger; that it exists, that its values are sums, and that an event
  appended counts for its own trade alone are proved by smallest counterexample, from
  the well-foundedness of `<`. `LedgerInv` adds that ids of trades are numbers of events
  and differ, which is why a new trade has no events yet.
- `TradesFollow`: trades, sessions and plans tell one story, for a user without positions
  (`PaperInv`: also that every plan past LOCKED has its trade) and for one who plans live
  trades and changes mode between them (`LiveInv`: also that a bound session is on its
  plan's side and as far along, and that a plan past LOCKED has a session, so that a new
  session finds only a locked plan to bind to). Section 8.1 is what happens to a user who
  changes mode during a trade: these hypotheses are needed.
- `LiveTradesAreComplete` (`LiveTradeIsComplete`), for any fills, any number of trades that
  are returned and any polls: about `MCSpec`, whose other part `LiveTradeAccounting` is. What
  fills add up to is a recursive function; used of it is that sums over sets with nothing in
  common are added (`SumOfBoth`) and that fills of one side add up to that side
  (`SumOfOneSide`). Trades of one millisecond may be taken in another order than they
  happened in, but they are of one side; so a position that is inferred there lies between
  the one before the millisecond and the one after it (`PreviousIsBetween`). Hence an end is
  never found later than the opening (`EndIsNotLater`), and one of its millisecond is found
  if the opening is among the trades (`OpeningIsFound`); if it is not, nothing is found.
  `SessionsAreKnown` is the inductive invariant: it adds that an open session has every fill
  from its opening to the last answer, and that a closed one has them up to a fill that
  ended the position.

**Account** (`AccountServiceProofs`), for any accounts, sockets and calls in flight.

- `StreamStaysAlive`, for every user: a configured service always has something that
  leads to a stream (a socket, a request for a key, a timer), and a stopped one is silent.
- `StreamIsSingle`, `ShownAccountIsStored`, for a user who waits. `Calm` adds that there
  is at most one attempt at a time (a request for a key of the stored account, a socket,
  or the timer), that what is fetched is of the stored account, and that nothing goes on
  without credentials.

**Decisions** (`DecisionStoreProofs`), for any number of decisions, clients, reads and
uploads served at once, any horizons, grace, time to live and marks.

- `AcknowledgedIsHonoured`: what was acknowledged is stored, and CURRENT and SUPERSEDED
  are true of the snapshots acknowledged when the decision was recorded. `Honoured` says
  how far an upload has come when the app hears of it, and that what a request and a
  reader carry was once the latest snapshot, which only moves on.
- `FiledIsOwn`: case, outcome and fingerprint are of the decision that is logged.
  `Filed` says that a request behind its insert carries the logged row, also if another
  request with another body has won.
- `LeaseOutlives`: a lease is kept for its time to live after every read it was given to,
  although reads overlap and clean up after each other.
- `OutcomesAreSound`: extremes, returns and path agree across horizons, and outcomes are
  only written forward (an action property). `Consistent` adds `Observed`: a snapshot old
  enough for a horizon has been taken for its return, if it was taken for any. That is
  what keeps late uploads from coming between two returns. That the longest horizon is
  the maximum of a finite set is proved by smallest counterexample too.

**Market data** (`MarketDataProofs`), for any number of trades, polls, runs and restarts,
any delay of an answer and any length of a poll and of the log.

- `PolledValuesAreRight`: the ratios that carry no error are of one refresh, and the clock
  offset is within half of its round trip. `PolledInv` adds `PastInv`: what is under way,
  a message or an answer, is of the past, and an answer of a moment after it was asked
  for. Every other step leaves what was polled alone, trades one by one by an induction
  over the batch.
- `TradesCountOnce`: no trade counts twice, in behaviours in which none arrives that is too
  old to be remembered (`NothingOldUnderWay`, see section 5; a hypothesis about every
  state, as it is about the exchange and the network). `LogOk` is the invariant: the log
  has no trade twice, and there is a set of trades as large as the count that includes the
  log and of which all others are too old. So a trade that arrives and is not in the log
  was never counted. A batch is a recursive function; that it adds one trade after the
  other is proved by smallest counterexample.

**Experiments** (`WorkerRecordsProofs`), for any registrations, cases, outputs and requests.

- `WordIsKept`: what a client was told is accepted is in the tables, and an output that
  is stored is not replaced. `Kept` adds to the types `Reliable`: a request past its first
  statement stands on what it has read there, a run that exists or an output, which no
  other request takes away. There is a lemma for each kind of acceptance. That two
  clients may both be told that their output was accepted is the finding of section 8;
  it contradicts neither part. `WordIsKeptInScenes` says it of the run's specification.

**The lineage of decisions** (`WorkerRecordsProofs`), for any decisions, values, prices,
window of time, and number of plans and uploads.

- `LineageIsSound`, and `LineageHoldsInScenes` of the run's specification: a decision is
  linked to a plan that said the same in the window after it, no plan is linked to two
  decisions, and a row only advances while plans differ and uploads do not overlap. The
  invariant `LineageInv` says of each upload what it has established so far: what it
  carries was true of its plan, whose values and time of lock no step changes, and before
  its upsert the decision it has found is one the plan may be linked to. `Apart` is what
  the last part needs. An upload that is alone knows what the row of its plan says
  (`SyncKnows`), so that its extremes grow on those; and a row is of one plan for good,
  since no other plan has the values of its decision. That the latest of the decisions
  that match is one of them is proved by smallest counterexample.

**What may be ordered** (`WorkerRecordsProofs`), for any market, account, position
and request, and not only for the cases of the run. These are not about behaviours: each
theorem takes the data apart as the code does, and the run's two invariants follow since
every case that it lists is of the kind the theorem is about (`CaseStays`, `Listed...`).

- `GatesAreRight`, and `GatesHoldInScenes`: `GatesFields` says what the gates of a fresh
  snapshot ask for, `AgedFields` what is left of them at an age, and `SeenAges` that the
  age the worker computes hides no more than the clock of the app is ahead. That an
  entry needs all that an analysis needs (`EntryNeedsMarket`) is why the quality agrees
  with both gates. Of the snapshot only the ages and the skew are assumed to be numbers.
- `PlansAreSafe`, part of `OrdersAreSafeInScenes`: a size is a quotient, and what is said
  of it is multiplied by its denominator. `FloorIsGreatest` says that rounding down to the
  step gives the largest multiple below a quotient; so the least of the rounded limits is
  the largest size that all of them allow (`OfferIsGreatest`), hence accepted, and at least
  any accepted one. That a plan loses no more at its stop uses that the cost of one
  unit is an upper bound of what is paid (`StopLoses`), as it counts the larger of the two
  slippages twice. The offer for a limit on the loss is a quotient by that cost, which
  is not zero as stop and entry differ (`UnitLoses`).
- `AdjustmentsAreSafe`, the other part: `PriceIsConservative` says that rounding goes
  towards the mark price and, done twice, changes nothing, and `Hundredth` that a share
  of a position rounded to hundredths of the step is a multiple of the step; then a lemma
  for each action. That confirming an answer gives the same answer is the part where all of
  them are needed. Up to three quantities are summed (`TotalOfFew`).

**The scores of a path** (`WorkerRecordsProofs`, last part), for any stored samples in any
order, and any plan, contract, position and horizons: `ScoresAgree`, and for the cases that
the run lists, which is the part of `TellsWhatIsSo` about them, `ScoresAgreeInScenes`.

- An entry (`EnterAgrees`): `ExcursionTells` says of the best and the worst move that no
  sample went further and which one went as far, from which it follows that a level is hit
  if and only if it was reached (`LevelsAreReached`), and no later. A target and the stop
  are on different sides of the entry, so no sample is at both (`OrderIsKnown`). That the
  mirror image scores the same needs no such argument: the moves of a path and of its
  mirror image are the same function (`MovesAreMirrored`, `HitsAreMirrored`).
- A trigger (`WaitAgrees`): the loop is a recursive function of the age, and `Waited` is its
  invariant: what it has decided is the first age at which it is sure and nothing
  invalidated it before, or neither has happened, and then the start of the window is
  the earliest from which the condition has been met ever since. The last part is what
  makes a window that is too short be too short from every start; it is also what the run's
  mutant breaks, which goes on with a window after a sample that does not match.
- A position (`ManagementAgrees`): what is seen by a horizon is seen by a longer one, and
  the moves for one side are those against the other.

Ages and prices are integers; that every age is at least 1 once the samples are normalized
(`NormalizedIsPath`) is what lets the loop start before the first of them.

**The alt collector** (`CollectorsProofs`, last part), for any basket and whatever the exchange
lists, and any number of sockets, runs, generations and messages.

- `AltStreamIsOne`: one working socket per channel or one reconnect pending, for the symbols
  that are followed, and no data of this generation but its own. `AltInv` has two parts.
  `AltChannelsInv`: a timer is pending exactly while the socket is missing, both carry the
  tag of this run and generation, and every other socket was told to close; so a timer
  that fires is never late, and a socket that is still connecting is the current one.
  `AltEventInv`: an accumulator holds only what was delivered under a generation up to this
  one, and for a followed symbol what is of this generation is of the current socket.
  It is what makes a reconnect harmless: when a socket is lost, failSocket forgets what
  it delivered, so a new one under the same generation finds nothing of that generation.
  What the basket is does not matter, only that new symbols mean a new generation.
- `BasketsReside`: a member of the basket that is still a candidate leaves it only after
  its time of residence, and one scan gives up no more of them than may be replaced by
  choice; an action property, for any size of the basket, order of the symbols and answers
  of the exchange, which lists a symbol once (`BasketAssumption`). It needs of every basket
  that it has one member per symbol and no more than its size (`BasketOk`): only then
  everything retained has a place before anyone is challenged, and the cut at the end cuts
  nothing. Sorting is a rank: that members and ranks correspond one to one (`RankGrows`,
  `NthIs`) uses that scores, and names where scores are equal, are a strict total order
  (`BetterInOrder`); that order also makes the worst settled member a single one. `Loses`
  is the invariant of the challenges: after `k` replacements no more than `k` of those the
  basket was filled with are missing, each of them settled. Both loops are recursive
  functions of the members' ranks (`Iterated`, by smallest counterexample).

**The lead and Coinbase collectors** (`CollectorsProofs`), for any symbols, products,
windows of time, and numbers of sockets, runs, requests and messages. Its first part is
about one channel of `StreamChannels`, whoever owns it: what may happen to it keeps
`ChannelInv` (a timer is pending exactly while the socket is missing, both of this run,
all other sockets closing; nothing at all while the service is stopped).

- `LeadStreamsAreOne`: one stream for each channel of the lead assets, and nothing shown
  of a lost one. The second part is not inductive as it stands, since an observation
  shows sums over windows: `LeadEvents` speaks of everything an accumulator holds, also
  what no window reaches, and a lemma for each operation on the accumulator says that it
  cuts, forgets or adds one event of the socket that delivers. A loss is harmless because
  failSocket forgets what the channel brought in this run, which is why the next socket
  finds only what is older.
- `LeadInterestLater`: open interest never goes back, although answers overtake each
  other and outlive their run. It needs that the history is in order (`InOrder`), which
  the cut at its old end and the point that replaces one of the same time both keep.
- `CoinbaseBooksAreExact`: one stream for each product, and a synchronized book that came
  by its present socket and, unless it is flawed, is the exchange's. `CoinbaseInv` ties
  the book to the channel: a product is connected exactly while its current socket works,
  and only then a book is synchronized; unless it is flawed, its number names the book it
  is. A damaged message may do anything to the levels but never makes a book of another
  connection (`AppliedIs`); a whole one brings the next book (`WholeApplied`). A gap closes
  the socket and gives the book up in one step, and what the dying socket still delivers finds a book that waits for a snapshot. The
  exchange's books are a recursive function of the number of messages (`BookAfterIs`).
- `VenueStreamsAreOne`, `VenueBookIsExact`, `VenueInterestMovesOn`: the same of
  `MCCollectors`, whose run checks these properties.

**External context and prices** (`ExternalContextProofs`), for any number of uploaders,
uploads, requests, sockets, sources and failures, and any limits of age; about the
specification of the run, which composes the three modules.

- `WhatIsServedAdvances`: what an uploader was told is served stays so, or something
  newer is, and no row is replaced by an older one. `UploadInv` says how far an upload
  has come: its first horizons are reached before it sends the next, and a request that
  is saved, or half of it, is in its row. Every row only grows, so that what was reached
  stays reached whoever wrote the row; that the summary is never ahead of the first row
  is what a request saved in two statements needs. For prices, `PricesInv` adds to the
  types that a request has read the row no later than now and that, as long as the
  database has not failed, the row is as new as what was shown when the request began
  and as what it has read. That a request which falls back on an old row is not behind
  rests on the latter; without it the invariant is not inductive.
- `HealthIsTold`: the announcements are normal only over an open socket, and no source
  is said to be normal that is neither answered nor asked. `ServiceInv` says of a running
  service that a source that is normal or starting has a request or a timer, and of one
  that was not started that nothing is under way, which is why Start may ask everything
  once. It is what `SourcesFollowed` says but for its liveness.

`TypeCorrect` is proved for `OrderBookSync`, `TradePlanLifecycle`, `AccountService`,
`DecisionStore` and `Experiments`; `TradePlan`, `Account` and `DecisionStore` leave it to
the proof.

Only model-checked: all liveness (`SynchronizationCompletes`, `WaitingEnds`,
`AccountIsServed`, ...) and `ENABLED`, for which the prover has no rules here;
what `TellsWhatIsSo` says besides the scores of a path: the summaries and columns of
an experiment, the coverage by stop orders, the memory and the routing, which fold, count
and sort sequences of any length and whose cases the run enumerates;
and the modules that are not named above. A recursive function over the numbers can be
reasoned about by smallest counterexample: `LedgerIsSound`, `LiveTradesAreComplete`,
`BasketsReside`, `ScoresAgree`, `TradesCountOnce` and `CoinbaseBooksAreExact` prove the equation of theirs
in this way and use nothing else of it.

## 8. Where code and documents disagree

Three disagreements are runs that TLC finds violated.

1. `PlanForgotten`. A live position that closes while PAPER is selected leaves its
   plan ENTERED, which blocks the next one (`build-state.ts:200`), against
   PROJECT_SPEC.md:2274.
2. `FeesMisattributed`. `mergeTradeAccounting` counts every fill since the opening of a
   session, with no end (`build-state.ts:98`): a position that turns around between two
   polls closes with fills of the next one, against PROJECT_SPEC.md:2277.
3. `OneOutputAccepted`. Two different outputs reported for a run at once are both
   answered as stored and scored (`phase16-eval.ts:944`), against
   PHASE16B_EXPERIMENT_REGISTRY.md:78.

Seen while modelling, and not checked by a run of its own.

*Order book.* The continuity test of the replay is skipped while the last applied id
equals the snapshot's id, hence also behind a bridging event that ends there
(`local-order-book.ts:174`): a message dropped at that place goes unnoticed, against
PROJECT_SPEC.md:699. This is why the lossy half of the run, and the theorem, need
snapshots inside an event.

*Plans.* The monitor saves the plan it read before `getSnapshot` entered it
(`approved-plan-monitor.ts:61`, `:198`): a cancelled plan with an open position, against
PROJECT_SPEC.md:2089. A plan of mode PAPER can be bound to a real position: the match
compares side, leverage and quantity, not the plan's mode (`build-state.ts:137`, `:323`;
PROJECT_SPEC.md:2032). Closing a paper trade that is cut short behind the plan leaves
an open trade no handler can close (`register-handlers.ts:565`).

*Live accounting.* Position and fills are answers of two requests; torn ones can give a
session that was OBSERVED_FROM_FLAT with a commission missing. Fills of the same
millisecond are walked in the order the exchange returned them (`build-state.ts:49`).
More than fifty fills between two polls are lost.

*Account.* A refresh that ends after `disconnect` restores the removed account in the
status (`account/service.ts:180`). A refresh asked for by an account event joins the one
in flight, which may have asked before the event (`:167`); the 30-second poll repairs it.
Two `connectStream` calls awaiting their listen key both open a socket (`:208`);
`configure` over an open socket keeps the old account's stream; `stop` deletes a listen
key while `start` asks for it. The run excludes the first and the last two with a user
who waits.

*Market data.* Whether a candle is closed is asked of the app's clock when the answer is
handled (`normalize.ts:32`), so an open candle may be stored as closed
(PROJECT_SPEC.md:754); only a later poll repairs it, which is why `CandlesBecomeExact`
says "again and again". A poll asks for three candles (`service.ts:632`), and all of them
are asked for at a start or when there is a gap (`:643`): a candle that was closed too
early and that an outage of REST and stream pushes out of the last three stays wrong in
the cache and the database until then, since it leaves no gap. `CandlesBecomeExact`
therefore speaks of the candles a poll reaches.
A candle from the stream clears the error of its time frame with
a gap still open; a late REST answer overwrites a newer value of the stream;
`refreshStatistics` stamps `updatedAt` although parts failed.

*Collectors.* Stop and start do not reset the lead and alt accumulators, and a change of
the basket replaces sockets without the reset that a lost socket gets
(`alt-service.ts:365`). With one value of open interest its change is measured against
itself (`lead-accumulator.ts:555`). The rating of trades takes the newer of trade and book,
which hides a dead market stream. The heartbeat time of a Coinbase socket outlives it and
may close its successor (`coinbase-spot-service.ts:448`).
A level2 message's number is taken before its events are looked at
(`coinbase-spot-service.ts:388`): an event that does not fit the schema is skipped
(`:391`), as is an update whose price or quantity does not parse (`:396`), and a message
without `sequence_num` is applied without any check (`:29`, `:386`). After each of these
the book stays synchronized, the next number continues it, and it may differ from the
exchange's until the socket is lost. `CoinbaseBookExact` promises the exchange's book only
where no such message was taken, and the present connection's in every case. That the
level2 messages of a connection have consecutive numbers is assumed as the code does.

*External context.* Credentials of Naver that are removed while a collect is in flight
are followed by NORMAL, and the chain goes on; a reload while collecting doubles the
chain. The close event of an old announcement socket clears the ping of the new one and
schedules another. The overall status may be NORMAL while sources are INITIALIZING. The
app accepts items up to five minutes ahead, the worker refuses payloads more than five
seconds ahead (`worker/src/index.ts:637`). The digest never repeats once a source has an
age.

*Prices of other venues.* A partial fetch replaces a complete row; CACHED hides that a
venue was PARTIAL or UNAVAILABLE; a request may answer UNAVAILABLE although another has
stored prices meanwhile.

*Decisions.* A lease is one row per snapshot and the decision takes the row it finds
(`phase16-replay.ts:285`): a second read before the decision is recorded replaces what
the decider was given, against PHASE16_REPLAY_EVAL_LAB.md:25. An outcome is finalized
only by a snapshot in the ten minutes after the last horizon (`:401`). Plans with the
same values take turns in one lineage row, and `COALESCE` keeps the trade of one under
the plan of the other (`phase13-lineage.ts:176`); syncs that overlap may shrink the
extremes of a trade.

*Evaluation.* A contract that had expired when it was decided never expires in the
replay. A sample exactly at the expiry may trigger there, while the live monitor expires
the plan. AMBIGUOUS_SAME_SAMPLE cannot happen for a plan whose levels are on their sides.

*Calculations.* Break-even takes funding without its sign
(`register-handlers.ts:398`, `costs.ts:333`; PROJECT_SPEC.md:832), which is wrong for a
short. `validateExactPositionSize` ignores riskPercent
(PROJECT_SPEC.md:839). The app falls back to the last bracket and does not check target
ticks (`register-handlers.ts:286`), unlike the worker (`index.ts:812`). The liquidation check is
skipped where the maintenance rate is not below 1/leverage.

*Gates.* Account positions are fresh for 45 s (`snapshot.ts:400`), PROJECT_SPEC.md 11.3 says 15;
aggregate trades 10 s for 8, candles 45 s for 15 (`cache.ts`). With the app's clock ahead by
up to 10 s an entry is served up to 25 s after the snapshot was made. The analysis gate
may be NORMAL while the quality is RED.

*Decision context.* While an entry is blocked the mode is FAST, whatever event there is
and even with a position that can be managed (`phase22-reasoning.ts:87`). The analogs are
sought among the latest 300 decisions, before they are compared (`phase21-memory.ts:272`).
The gates have the age of the start of the request: the venues are asked after it
(`decision-context-route.ts:53`), and the answer is older by the time that takes. The
source set names Coinbase whenever any venue has answered
(`phase20-context-router.ts:298`).

*Management context.* With a paper trade beside a real position, side and mark come from
the position, entry and quantity from the trade (`phase23-management.ts:307`). A paper
trade always has STOP_COVERAGE_GAP. Orders on the side of the position are listed as its
protection.

## 9. Not modelled

- Indicators and the intelligence builders: recurrences, medians and correlations over
  real numbers, without state or choices that small integers would tell apart.
- The means and medians of experiments, the research statistics, the similarity of two
  fingerprints and the payload of the decision context: read-only SQL and assembly of
  rows that the modelled parts write.
- What a provider's answer is parsed into, schemas, authorization, rate limits and
  response bodies: a message that fails its schema is an error branch of its action.
- Quotes (mark price, ticker, open interest) and the rates of the market service, the
  compact form of a snapshot, prices in the statistics of paper trades: values that are
  passed on.
- Credential stores, UI, tray, notifications and wiring: input and output. What suspend,
  resume and quit do is the start and stop of the services they call.
- Scripts, which are run by hand.

In the modelled parts: uploads of external context small enough to be sent whole; one
plan per upload in the lineage; one experiment and one replay case; the position entered
by hand in the management context; credentials that can no longer be decrypted.
`PROJECT.json` names every component with its status.

## 10. The plan

Every module of the plan is written; the core, the market data, the external context,
the experiments, the lineage, all collectors, the gates and what may be ordered are proved
about, and so is how a path is scored. What is left is the rest of `TellsWhatIsSo`: that
the memory of a decision is sorted and cut as the query says (`MemoryHolds`), for any
number of rows, which takes the ranks of a sorted set as `BasketsReside` does.
