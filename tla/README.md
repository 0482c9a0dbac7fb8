# Arbitrage bot: models, checks and proofs

TLA+ models of the arbitrage bot in `src/`, which buys on a centralised
exchange (Binance) what it sells on a decentralised one (Uniswap V2 on
Arbitrum), or the other way round. The modules are translated from the
TypeScript source; line numbers in comments and in `PROJECT.json` refer to it.
Run everything from this directory: `tlc -config X.cfg M` checks a run,
`tlapm M.tla` a proof module.

## The system

One Node.js process, one thread. Nothing preempts a handler between two
awaits; everything else interleaves: depth updates from a socket, timers
(50 ms debounce, balance sync, daily reset, heartbeat, leg timeouts), the
Telegram poll, and the continuations of every promise, among them promises
nobody waits for any more.

| Component (under `src/src/`) | State it keeps | Operations | Hard about it |
|---|---|---|---|
| `integration/arbBot` | tick lock `tickState`, `stopping`, latest books, day of the last reset | `run`, `tick`, `executeReal`, `verifyBalances`, `syncBalances`, `maybeDailyReset`, `stop` | ticks overlap at awaits; limits are read several awaits before they change; stop may come at any point |
| `executor/engine` | one `ExecutionContext` per execution | `execute` = two legs in either order, unwind | a timer gives a leg up but does not cancel it: late fills |
| `executor/recovery` | failure times, trip time, executed ids | `isOpen`, `recordFailure`, `isDuplicate`, `markExecuted` | window, cooldown and TTL boundaries; reset as a side effect of a query |
| `safety` (risk manager, absolute limits, kill switches, pre-trade validator) | capital, peak, day's PnL, streak, stamps of the hour, kill file cache, price history | `checkPreTrade`, `recordTrade`, `resetDaily`, `AutoKillSwitch.check`, `isKillSwitchActive`, `validateSignal` | rolling hours, stale cache, two sets of limits |
| `inventory/tracker` | balances by venue and asset | `updateFromCex`, `updateFromWallet`, `recordTrade`, `canExecute` | snapshots applied out of order, and beside bookings |
| `inventory/rebalancer`, `inventory/pnl` | none; list of records | `plan`; `record`, `summary` | greedy trimming at the minimum balance |
| `exchange/cexClient` | weight log; socket, callbacks, books, reconnect count | orders, balances, `checkWeight`; `connectWs`, `scheduleReconnect` | check-then-act over an await; giving up after ten attempts; a reconnect that outlives a disconnect |
| `exchange/orderBook` | none | `walkTheBook`, spreads | partial fill of the book |
| `strategy` | time of the last signal, gas cache, last logged prices | `generate`, `peek`, scorer, fees | cooldown spent on signals later refused |
| `chain` | none between calls | `withRetry`, `getNonce`, `sendTransaction`, `waitForReceipt`; `sendAndWait` | lost answers, endpoints that know different things, nonces taken twice |
| `pricing` | pools with their reserves, router, subscriptions | `startPoolMonitor`, `refreshPool`, quotes; mempool monitor; fork simulation | a refresh racing a Sync event |
| `notifications` | update offset, poll timer | `send`, commands | redelivered `/stop` |
| `core`, `configs`, `venues`, `integration/arbChecker`, `scripts` | values read at the start | types, formatting, reports | - |

Who calls whom: a depth update calls `ArbBot.tick` (debounced). The tick asks
the kill switches, takes the lock, asks `SignalGenerator` (which prices with
`PricingEngine` and the order book), checks the signal with the validator and
`RiskManager`, looks a second time (`peek`), and calls `Executor.execute`. The
executor asks its breaker and replay protection, checks the tracker, sends
orders through `ExchangeClient` and swaps through `TransactionBuilder` over
`ChainClient`, and books a done trade in the tracker. The bot then records the
PnL in `RiskManager`, syncs the balances and compares them with the booking. A
mismatch, a kill file, the automatic switch, `/stop` and signals call `stop`,
which resolves what `run` waits for; the script then exits.

## What makes each part correct, and where it is stated

- Executor: however answers, timers and late fills fall, what an execution
  holds unhedged is bounded (`ExposureBounded`); a done trade is accounted for
  (`DoneIsAccounted`) and booked once (`InventoryFollowsDone`); every execution
  ends (`EveryExecutionEnds`).
- Recovery: failure rate bounded over every window, across resets
  (`FailureRateBounded`); no trip without cause (`TripJustified`); no replay
  (`NoReplayWithinTtl`).
- Bot and limits: one tick at a time (`TickIsExclusive`); limits of the day, of
  the streak, of the drawdown and of every rolling hour
  (`DailyLossBounded`, `LossStreakBounded`, `DrawdownBounded`,
  `HourlyTradesBounded`, `ErrorRateBounded`); once a kill file is seen no tick
  begins (`NoTickAfterKill`; a tick that began before may still execute), and a
  waiting bot ends by it and by a stop (`WaitEnds`; not always one that still
  starts, `StopEndsRun`).
- Inventory: the verdict on a trade is right (`VerdictIsRight`); a wrong tracker
  does not stay wrong (`TrackerConverges`).
- Chain: a call is mined at most once (`MinedOnce`), says what happened
  (`EndIsTrue`) and ends (`CallEnds`).
- Stream: one connection at a time (`StreamIsSingle`), none after a disconnect
  (`StopIsFinal`), no cached book replaced by an older one (`BooksNeverGoBack`);
  a lost stream comes back (`StreamRecovers`) unless every attempt has failed in
  a row (`GivesUpLast`).
- Pools and prices: reserves are those on chain once the events are through
  (`PoolsSettle`); the route is the best where every way pays
  (`BestRouteIsBest`; not where one does not, `PayingRouteFound`); roundings favour the
  pool (`SwapIsSound`) and quotes agree with each other (`QuotesAgree`).
- Signals: a signal promises no more than its legs are worth (`SignalSound`).
- Commands: handled once (`CommandOnce`) and not lost (`CommandHandled`).
- Rate limiter: the budget is exceeded only for four reasons the code has
  (`OverLimitExplained`).
- Rebalancer: planning ends (`PlanningEnds`, which it does not always).

## Modules

| Module | Models | Correspondence |
|---|---|---|
| `Recovery` | `executor/recovery` | `failures` is the breaker's array as a set of numbered times, `executed` the map of ids to times. Methods are action fragments that other modules put together. |
| `GatedExecution` | `execute()` with the legs left out | one execution at a time between the checks and `markExecuted`/`recordFailure`. Abstract specification of the executor's gate. |
| `Arbitrage` | what is promised of trades | outcome and exposure only. Abstract specification of the executor. |
| `Executor` | `executor/engine` | `ctx` holds contexts; `legs` holds the three calls of each execution, which live on after `withTimeout` has given them up. An action goes from an awaited answer to the next await. |
| `Risk` | `safety` without the validator | fields of `RiskManager` and `AutoKillSwitch`; arrays of stamps only grow, and readers take the part that pruning would leave. |
| `ArbBot` | `integration/arbBot` | `ticks` are the ticks under way with the await they are at; `run` is how far `run()` is. The generator, the executor and the syncs appear through what they return. |
| `InventorySync` | tracker, `syncBalances`, `verifyBalances` | `real` is what venues hold, `tracked` what the tracker says, `syncs` the reads under way and the answers not applied yet. `abandoned` are legs that `withTimeout` gave up; nobody books them when they fill (`LateFill`). |
| `ChainClient` | `chain` | `calls` are the calls of `sendAndWait`; `pools`, `height`, `mined` are the nodes and the chain, which are external. |
| `MarketStream` | the stream in `exchange/cexClient` | `sockets` are the WebSocket objects with their state, `ws` is `this.ws`, `timers` the pending reconnects. A book is the version of the exchange's book it shows. One action per callback. |
| `PoolMonitor` | pools in `pricing/engine`, driven by `pricing/mempool` | reserves are versions; `events` are Sync events on their way, `reads` and `reading` the answers of nodes. `SubscriptionLost` is the node's. |
| `Telegram` | the listener in `notifications` | `offset`, `pollTimer` and drain as in the code; the server's memory (`forgotten`) and answers are external. A session is one life of the process. |
| `RateLimiter` | `checkWeight`, `recordWeight`, `pruneWeightLog`, and the methods around them | calls overlap between the check, the answer and the record; what a call met on the way is kept as history. |
| `Units`, `UniswapV2` | `pricing/uniswap-v2` | integer arithmetic as in the calculator; a pair that is loaded and then swapped on, which is `simulateSwap` repeated. |
| `Routing` | `pricing/routing` | `graph` is, for each token, the set of its edges, patched in place (nothing depends on their order); the search is a recursive function of the route so far. |
| `OrderBook`, `Skew` | `walkTheBook`; `skew` | pure operators. |
| `SignalGenerator` | `strategy`, the validator, the bot's filters before a trade | `bot` is one record of all fields of these classes; functions map records to records, and an action goes from one await to the next. The bot's own gas estimate uses the pool read at the start (`LoadedPool`), which nothing refreshes. |
| `Rebalancer` | `RebalancePlanner.plan` | the loop of one call, a lap an action; `laps` makes a lap that changes nothing visible. Venues with equal amounts come in any order. |
| `RecoveryProofs`, `GatedExecutionProofs`, `ExecutorProofs`, `ArbBotProofs`, `ChainClientProofs` | - | theorems about the module they are named for; `ArbBotProofs` also about `Rebalancer` |
| `MarketProofs` | - | theorems about `MarketStream`, `PoolMonitor`, `Telegram`, `RateLimiter` and `InventorySync` |
| `PricingProofs` | - | theorems about `UniswapV2`, `Routing`, `OrderBook` and `SignalGenerator` |
| `SumTheorems` | - | sums of functions over finite sets, and induction as a fact about sets |
| `MC*` | - | values a cfg cannot write; `MCBot`, `MCInventory` and `MCMarket` put components side by side; `MCRouting` runs the routes alone; `MCInventoryLatest` adds the age of a snapshot as history |

`Executor` and `GatedExecution` extend `Recovery`; `ArbBot` extends `Risk`.
`Executor` implements `GatedExecution` (`running` is the pending execution) and
`Arbitrage` (`outcome` from the state, `exposure` from the legs), both as
properties of a run and as theorems. `SignalGenerator` extends `UniswapV2`,
`OrderBook` and `Skew`, and prices with their operators (the second look, `Peek`,
prices at the newest book, since `latestBooks` is set before a tick begins); `Routing` extends
`UniswapV2`. `MCMarket` puts the components that bring the market to the bot
side by side, `MCBot` the bot and the calls of the chain client, `MCInventory` the
tracker and the gate: the variable `part` says which of them a behaviour is about. They
share no state that a property reads (a tick reads the books and reserves the others
keep as inputs), so running them together would only multiply states. `ArbBot` and `InventorySync` see the
executor only through how it ends, which is what `Arbitrage` leaves open.

Abstractions. Amounts are small integers in lots, dollars or nonces; prices,
fees, bytes, texts and logs are left out. Milliseconds are arbitrary units:
only the order of the periods matters. Fields of a context that no property reads
(prices, hashes, error texts) are not kept. `calculatePnl` is not
modelled: the bot's model takes any PnL from a set.

## Runs

| Run | Question | Distinct states |
|---|---|---|
| `executor` | Do exposure, accounts, bookings, ends and both refinements hold over late and lost legs? | 300 thousand |
| `bot` | Do lock, limits, kill switches and stop hold over overlapping ticks, resets and midnights? Is a call to the chain mined once, truthful and finite over lost answers, lagging and forgetful nodes? | 540 thousand |
| `inventory` | Does the verdict on a trade stand, and the tracker recover, over syncs in any order and legs filled late? Do breaker and replay protection keep their promises across trips, resets and boundaries? | 360 thousand |
| `market` | Do the stream, the pools, the commands, the weights, a pair, the routes and the way from a depth update to a signal each keep their promises? | 150 thousand |
| `rebalance` | Does planning end? It does not. | violation |
| `executor_unwound`, `executor_fill_check`, `bot_limits`, `bot_failures`, `bot_stop`, `inventory_latest`, `best_route` | Each shows that a sentence of the documentation or of a comment does not describe the code (see `findings`). | violations |

Bounds, and why they are enough. `MaxExecutions`, `MaxTime`, `MaxTrades`,
`MaxDay`, `MaxSurprises` and `MaxNonce` stop counters that grow without end.
- `executor`: two executions, so that a late leg of one meets the other; size
  five in steps of two with ratio 0.8 makes rounding, a fill below and a fill
  exactly at the ratio all happen. Both leg orders and simulation.
- `bot`: two places for ticks (a third adds nothing once two exclude each
  other), two trades, two days, one error: each limit is met, crossed by one
  and reset.
- `bot`, chain: two calls, two endpoints, two attempts: failover, one nonce for two
  calls, replacement, a lagging endpoint, an evicted transaction.
- `inventory`: two syncs under way, one of them a tick's, and one trade: two syncs of
  the timer overlap, and one meets the sync a tick waits for. The trade sells at the
  exchange and buys at the pool, the side on which a swap may bring what is not booked. A
  fill costs or brings what is booked, or more than a threshold beside it, at either
  venue, so that both halves of the comparison can stop the bot. `MaxSurprises` is one:
  such a fill, a transfer, or a leg given up, which is filled late or never.
- `inventory`, gate: a threshold of two, two trips and the tightest cooldown; four
  executions are enough for a window that spans a trip and a reset.
- `market`, stream: one call of `connectWs`, as the bot makes one; two sockets, so
  that a second connection would have room; two attempts, so that a count that
  is not reset shows; each book moves once. Two pairs: one subscribed to before
  and one after the connection.
- `market`, pools: one pool, as the bot loads one, two moves of it and two
  refreshes at once: a read can be overtaken by an event and by another read; one
  lost subscription.
- `market`, commands: three commands and a restart: one that waited, one handled,
  one after. `market`, weights: three calls, the smallest number that exceeds the
  limit with one light and two heavy; the clock runs past a window and a sleep.
- `market`, pair and routes: reserves from 3 to 16 and swaps up to 6 reach every
  case of the rounding, also payments of zero; four pools over three tokens give a
  direct pair, a parallel pool and a way round; three sets of reserves let the best
  route change, and a hop pay nothing.
- `market`, signals: three sizes, two books of two levels, two pool prices,
  so that either direction, both, or none pays; gas that lets a deal live or die;
  balances for which inventory is short or skewed.
- `rebalance`: two venues and at most four lots of one asset, free or locked.

The invariants of these runs are proved without the bounds. `CHECK_DEADLOCK FALSE` stands
where the process ends or a bounded clock or counter stops; `SwapIsSound` and `QuotesAgree` are
functions of reserves that `MaxSwap` and `MaxReserve` keep small.

Every property of a passing run has a mutant: a plausible bug in the code the
property is about, which makes TLC find it violated.

## Fairness

- `executor`: the timers of `withTimeout` fire, and an awaited unwind returns or
  throws, since exchange and receipt waits have timeouts of their own. Venues
  owe nothing.
- `bot`: depth updates come until the stream gives up, which it may do at any time
  (`StreamGivesUp`: ten failed reconnects), the clock runs, the messages of `run` and
  `stop` are sent or given up after their attempts. Ticks may hang. In `MCBot` this
  is fairness of the part that moves (`BotFairness`), as in `MCInventory`. A request to the chain is
  answered or fails (30 s each), and the deadline of a wait passes (`ChainFairness`);
  nodes need not mine, gossip or agree.
- `inventory`: the interval timer goes on, requests are answered or rejected
  within their timeouts, and answers are applied. A trade need not go on.
- `market`: a reconnect timeout fires, and a socket that connects opens or fails
  (`StreamFairness`). The poll timer fires, a request is answered or fails, and
  handlers, which are synchronous, go on; a server asked again and again serves,
  and an answer gets through at last, hence strong fairness for these two
  (`TelegramFairness`): a network that always fails loses every command.
- `rebalance`: the loop, synchronous, goes on (`PlanFairness`).

## Proofs

All theorems are about `Spec` of their module, for every value of the constants
that meets the named assumptions.

- `GatedExecutionProofs` (on `RecoveryProofs`, lemmas about pruning and the map
  of ids). Types; failure rate; cause of trips; no replay. The rate is not
  inductive: the breaker's array forgets at a trip. The strengthening
  (`ClosedInv`, `OpenInv`, `PastInv`) says that while closed the array misses no
  recent failure and is below the threshold, and while open the failures that
  tripped it are the last ones. It needs `WindowMs <= CooldownMs`, which the
  defaults satisfy.
- `ExecutorProofs`. Types; exposure; accounts of a done trade. The invariant says, for
  each state of a context, which legs were called, where, on which side and for
  which size (`CalledAs`), and what a venue can have made of each order
  (`FillOK`). It needs no word about when legs settle, which is why late fills
  cannot break it. `InventoryFollows` compares two sums over all executions: a step
  that books changes one term of each, and `SumTheorems` takes it apart there.
  `Executor` implements `Arbitrage` and `GatedExecution`, so
  the gate's theorems hold of the executor. Most steps are `Quiet`: no fill
  changes. The rest are opening, settling and closing.
- `ArbBotProofs`. Types; exclusion; kill file; the five limits. Limits are read
  at one step and used steps later, so the invariant carries them for every
  tick that has been checked (`Checked(t) => Solvent`, `Quota`): nothing but
  that tick books a trade, which is where exclusion is used. `KillInv`
  says that the cache is not older than it claims.
- `ArbBotProofs`, the planner. Under `PlanAssumption` (the asset has an entry in
  `withdrawalFees`), each transfer planned keeps the rules that `plan()` states
  (`PlansAreValid`), and each lap but the last shortens the list of senders or lowers what is
  left of its first entry (`LapsShrink`). The lists never hold more of a venue than its
  excess or need (`PlanInv`). Without an entry a lap may plan zero, which is the run
  `rebalance`. The rules are about one transfer: every lap compares the balance from before
  the plan, so several transfers of one sender may together leave less than
  `minOperatingBalance`. In the test at line 80 of `rebalancer.service.test.ts` the wallet
  has 0.6, must keep 0.5, and is asked for 0.1 twice and for 0.05.
- `ChainClientProofs`. What nodes and chain know of a call is what it signed
  (`OwnTransactions`), the chain uses each nonce once (`OneANonce`): so a call is
  mined at most once, and returns only the truth.

- `MarketProofs`, the stream, for any number of pairs, sockets, attempts and
  messages, under the hypothesis `MaxConnects <= 1`: the bot calls `connectWs` once. One
  connection, final stop, last resort, monotonic books. The invariant (`StreamInv`) adds
  that the living socket is the one in `ws`, whose interval is the one `pingTimer`
  clears; that a reconnect is pending only while no socket lives; that attempts never
  exceed the losses since the last opening; and that no living socket has sent
  less than what is cached, which is why books cannot go back. Without the
  hypothesis a second `connectWs` would open a second socket: no caller does it.
- `MarketProofs`, the pools. `PoolsSettle` is not inductive: it speaks of a pool without
  events on their way. `PoolInv` adds that nobody knows a version before the chain has
  it, that the last event on its way is of the newest version, and that a pool the
  engine was told of, with no event left, has seen it.
- `MarketProofs`, the commands. The invariant (`TelegramInv`) places each update: those in
  an answer are in order and not before the offset, those handled are before it, and
  what waited when the session began is either forgotten by the server or before the
  offset once the drain is through.
- `MarketProofs`, the weights. `BudgetInv` is `OverLimitExplained` for every window that has
  not ended yet: a window that began at any moment holds less than the limit or a
  request of one of the four kinds. `LogInv` says which requests the log must still have.
  A check that lets a call go compares the sum of the log; `SumInto` maps each request
  of the window to its own entry. `LimiterAssumption` asks that one request weighs less
  than the limit, as in the profile of Binance. Profiles of other venues have
  zeros for weights and limit, marked to be done, for which nothing is promised.
- `MarketProofs`, the balances. `SyncTypeOK` and `VerdictIsRight`. A sync can be trusted
  (`Fresh`) if what it has read and applied so far is what the venues hold;
  `TrustInv` carries that from the booking to the verdict, under the clauses
  `VerdictIsRight` itself names: the tracker was right before, no other sync,
  transfer or late fill met the trade. What a fill costs or brings beside what is
  booked is any integer: a swap is booked for the size asked for, and a purchase at the
  pool brings more or less (`Filled`).
- `PricingProofs`, the pair. The product of the reserves never falls, a loaded pool is
  never emptied, and a payment asked for is enough and at most a unit too high, for
  every fee, size and number of swaps. Lemmas state what integer division returns;
  the rest multiplies and cancels. The search of `findMaxSizeForImpact` keeps two things:
  its lower end keeps the impact, and what follows its upper end does not, or the
  upper end is that of the search. Impacts are rounded and need not grow with the size, so
  that `SizeIsLargestButForRounding` promises less than the comment in the code (see
  Findings): the size found keeps the impact and the next does not, and a larger one
  up to `reserveIn` keeps it only because rounding gives back a unit. Where one unit
  buys nothing the search throws.
- `PricingProofs`, the routes. The invariant (`RouteInv`) says that the graph, patched
  edge by edge, is the one that would be built anew from the newest reserves. By induction
  over the hops that `MaxHops` still leaves, the search from any route on its way finds
  exactly what completes that route (`SearchFindsAll`), so from the start the routes of
  `Ways`, which is stated without a graph or a search. What a route pays then agrees with
  `AmountAfter` hop by hop where no way runs dry, and the maximum exists because no output reaches the largest
  reserve. The search is a recursive function, not a `RECURSIVE` operator; that it is a
  function at all is shown too (`RecursionExists`). `RouteAssumption` asks for positive
  reserves and two different tokens in each pool.
- `PricingProofs`, the signals. `SignalSound` is proved from the books up. After n
  levels `walkTheBook` has charged what n levels offer, less at most a digit for each
  (`WalkSums`): so an average price is known up to its roundings. Each direction
  of a deal is then compared with its legs. Selling to the pool is direct.
  Buying from it is not: the code prices the base that the *proceeds* of the sale
  would buy, and the signal is about the size. If that base is less than the size, no
  profit is left that could pass (`GainNeedsMore`, and here `FeesCount` is used); if it is
  more, the size costs no more than its share of the proceeds, because what
  the pool charges for a unit grows (`AskedIsShare`). `DealInv` says so of a deal, and the
  invariant (`SignalInv`) that every deal held over an await has it, although the
  book, the reserves and the gas have moved meanwhile: each deal keeps those it was
  priced at. Assumed are positive prices, and
  - `MinSpreadBps >= 1` (the defaults are 2 and 50): with 0 a pool that pays nothing
    would count as a price of 0 and not as no price;
  - `FeesCount`: fees and minimum profit of a candidate sale are at least the digit that the
    rounding of its price can cost for each unit, and two more. With prices of eight
    digits, sizes of six to eight dollars in ether and fees of 40 bps they exceed it by far.
- `SumTheorems`. `SumFunction` folds over a set in an order of `CHOOSE`. That the sum is
  one term and the sum of the others, in whatever order, is shown with a set of subsets that
  contains the empty set and is closed under one element more.

Only model-checked: the liveness properties (`EveryExecutionEnds`, `WaitEnds`,
`TrackerConverges`, `CallEnds`, `StreamRecovers`, `CommandHandled`,
`PlanningEnds`), which are out of the prover's reach. Every other property of a
passing run is a theorem.

## Findings

Each is a run that ends in a counterexample; `findings` in `PROJECT.json`
quotes the sentence that is contradicted.

- `executor_unwound`: an execution whose first leg timed out or filled too little
  fails without an unwind, and may keep what that leg traded.
- `executor_fill_check`: with the swap first, a trade is done whatever part of
  its exchange order was filled.
- `bot_limits`: the signal that executes is that of the second look, which no
  limit is checked for.
- `bot_failures`: what failed executions lose reaches no limit.
- `bot_stop`: a stop that is handled while `run()` still announces itself finds no
  promise to resolve, and the bot waits for ever.
- `inventory_latest`: of two syncs that overlap, the older may be applied last.
- `rebalance`: `plan()` can loop for ever. When the venue with a surplus has all
  of it locked in orders and the asset has no entry in `withdrawalFees`, it
  plans a transfer of zero again and again, on the one thread there is.

- `best_route`: one way that pays nothing at a hop makes `findBestRoute` throw, though
  another pays.

Three sentences of the repository that the code does not keep have no run, as the
properties here only claim what the code does. The comment of `findMaxSizeForImpact`
(31-38 of `uniswap-v2.analyzer.ts`) promises the largest amount within the impact, 0 if
one unit exceeds it: the search stops at `reserveIn`; with reserves 10 and 22 and a
limit between, one unit has an impact of 54% and two of 31%, so that it returns 0; and
where one unit buys nothing it throws. The README promises an immediate shutdown by
the kill file, and a tick past its gates executes all the same.

Hazards that no property covers are listed in `PROJECT.json` with the reason:
the balances `verifyBalances` does not compare, trades that a late daily reset
wipes unreported, the watchdog and the exit between
two legs, which lie outside a run of the process, the sentinel of the size sweep,
and a price history that refuses for ever after a genuine move.

## Plan

Order: what can lose money first. Done: the executor with its gate, proofs and
refinements; limits and bot; inventory; chain; the stream, pools, commands and
weights; arithmetic, routes, book and signals; the rebalancer; proofs of
the stream, the pools, the commands, the weights, the balances, the pair, the routes,
the book, the signals and the planner. Left:

1. A composition of `SignalGenerator` with `ArbBot`, whose filters are now a choice.
2. An exit between two legs in `Executor`.

## Not modelled, and why

- Fork simulation, and what `getQuote` makes of it: the executor asks it before a swap
  (`engine.service.ts:331`), and in `Executor` a quote that throws or is refused is one
  of the ways a leg fails. Transaction analysis, wallet cryptography, serialisation, formatting,
  configuration, command line scripts, `arbChecker`: no state that others depend
  on, or pure input and output.
- The PnL ledger: an append-only list with statistics over it.
- The decoders of the mempool monitor, a table of ABIs: whether a transaction is
  a swap is a choice. The bot does not start the monitor.
- Prices and PnL of an execution (`calculatePnl`): the bot takes any PnL.
- `cancelOrder`, `fetchOrderStatus`, statistics of the order book and impact
  tables, which the bot does not call; the retries of Telegram's `send`.
- Restarts: nothing is kept on disk but the kill file and the heartbeat, so each
  run of the process is a behaviour of its own.
