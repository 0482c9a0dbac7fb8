------------------------------ MODULE MCMarket ------------------------------
(***************************************************************************)
(* The components that bring the market to the bot, one at a time: a       *)
(* behaviour is one of `part', and all others stay as they were.           *)
(***************************************************************************)
EXTENDS MarketStream, PoolMonitor, Telegram, RateLimiter, MCRouting, SignalGenerator

VARIABLE part

marketVars == <<part, streamVars, poolVars, telegramVars, limiterVars, pairVars, routeVars,
                signalVars>>

MarketInit ==
  /\ part \in {"stream", "pools", "commands", "weights", "pair", "routes", "signals"}
  /\ StreamInit /\ PoolInit /\ TelegramInit /\ LimiterInit /\ PairInit /\ RouteInit /\ SignalInit

MarketNext ==
  /\ UNCHANGED part
  /\ \/ /\ part = "stream" /\ StreamNext
        /\ UNCHANGED <<poolVars, telegramVars, limiterVars, pairVars, routeVars, signalVars>>
     \/ /\ part = "pools" /\ PoolNext
        /\ UNCHANGED <<streamVars, telegramVars, limiterVars, pairVars, routeVars, signalVars>>
     \/ /\ part = "commands" /\ TelegramNext
        /\ UNCHANGED <<streamVars, poolVars, limiterVars, pairVars, routeVars, signalVars>>
     \/ /\ part = "weights" /\ LimiterNext
        /\ UNCHANGED <<streamVars, poolVars, telegramVars, pairVars, routeVars, signalVars>>
     \/ /\ part = "pair" /\ PairNext
        /\ UNCHANGED <<streamVars, poolVars, telegramVars, limiterVars, routeVars, signalVars>>
     \/ /\ part = "routes" /\ RouteNext
        /\ UNCHANGED <<streamVars, poolVars, telegramVars, limiterVars, pairVars, signalVars>>
     \/ /\ part = "signals" /\ SignalNext
        /\ UNCHANGED <<streamVars, poolVars, telegramVars, limiterVars, pairVars, routeVars>>

MarketSpec ==
  MarketInit /\ [][MarketNext]_marketVars /\ StreamFairness /\ TelegramFairness

-----------------------------------------------------------------------------
(* Values that a .cfg cannot write *)

\* The balance is what weighs most, as in the profile of the exchange.
EndpointWeights ==
  [orderBook |-> 1, balance |-> 3, createOrder |-> 1, cancelOrder |-> 1, fetchOrder |-> 1,
   tradingFees |-> 1]

Level(price, qty) == [price |-> price, qty |-> qty]

\* A book below the prices of the pool, and one above.
BooksSeen == {
  [bids |-> <<Level(198, 300), Level(190, 400)>>, asks |-> <<Level(200, 300), Level(210, 400)>>],
  [bids |-> <<Level(240, 300), Level(230, 400)>>, asks |-> <<Level(244, 300), Level(250, 400)>>]}

AmmReservesSeen == {[base |-> 100000, quote |-> 2000], [base |-> 100000, quote |-> 2450]}

Balance(base, quote) == [base |-> base, quote |-> quote]

FreeBalancesSeen == {
  [cex |-> Balance(500, 2000), wallet |-> Balance(500, 2000)],
  [cex |-> Balance(900, 2000), wallet |-> Balance(100, 400)]}

Weighting == [spread |-> 40, liquidity |-> 20, inventory |-> 20, history |-> 20]
=============================================================================
