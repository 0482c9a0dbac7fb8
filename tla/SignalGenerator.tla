--------------------------- MODULE SignalGenerator ---------------------------
(***************************************************************************)
(* From a depth update to a trade: SignalGenerator with FeeCalculator, and *)
(* what the bot asks before it trades on a signal, PreTradeValidator,      *)
(* SignalScorer and minProfitBuffer.  One pair, and one pool behind        *)
(* getAmmQuote, which is what the bot loads.                               *)
(*                                                                         *)
(* A tick is synchronous but for three awaits: the estimate of the gas     *)
(* cost, the live gas price of generate or peek, and the execution.  What  *)
(* lies between is one step, so the bot's state is one record and the      *)
(* functions it goes through map records to records.                       *)
(*                                                                         *)
(* Ticks are exclusive (ArbBot.TickIsExclusive).  RiskManager, the circuit *)
(* breaker and the dry run, which can only end a tick, are in ArbBot.      *)
(***************************************************************************)
EXTENDS UniswapV2, OrderBook, Skew

CONSTANTS
  BaseUnit, QuoteUnit, Ether,    \* 10 ** decimals of the tokens and of gas
  CexTakerBps, DexSwapBps,       \* FeeCalculator
  TradeSizeMin, TradeSizeMax, TradeSizeSteps,
  MinSpreadBps, MinProfit, MaxPosition, Cooldown, SwapGasUnits,
  GasTtl,                        \* GAS_CACHE_TTL_MS, GAS_PRICE_TTL_MS
  BotGasUnits, GasCostMin, GasCostFallback,
  MaxSpreadBps, MaxDeviationPct, HistorySize,  \* PreTradeValidator
  ScoreWeights,                  \* percent: spread, liquidity, inventory, history
  PoorSpreadBps, ExcellentSpreadBps,           \* minSpreadBps of the scorer
  ResultsKept, ResultsScored, ResultsNeeded,   \* 100, 20 and 3
  RebalancePct,                  \* rebalanceThresholdPct
  MinScore, BotMinProfit,        \* botConfig
  OrderBooks, AmmReserves, GasPricesSeen, FreeBalances,  \* bounds on the inputs
  MaxTime                        \* bound on the clock

\* A level of a book.
Offers == [price : Nat \ {0}, qty : Nat]

ASSUME SignalAssumption ==
  /\ \A book \in OrderBooks : book.bids \in Seq(Offers) /\ book.asks \in Seq(Offers)
  /\ AmmReserves # {} /\ \A a \in AmmReserves : {a.base, a.quote} \subseteq Nat \ {0}
  /\ GasPricesSeen # {} /\ GasPricesSeen \subseteq Nat
  /\ {BaseUnit, QuoteUnit, Ether, MinSpreadBps} \subseteq Nat \ {0}
  /\ {CexTakerBps, DexSwapBps, SwapGasUnits, BotGasUnits, GasCostMin, GasCostFallback,
      TradeSizeMin, TradeSizeMax, TradeSizeSteps} \subseteq Nat
  /\ TradeSizeMin <= TradeSizeMax /\ TradeSizeSteps >= 2
  /\ MinProfit \in Int

VARIABLES
  time,    \* Date.now()
  amm,     \* the reserves of the pool, as the engine refreshed them last
  gas,     \* getMaxFee("medium") of the node
  free,    \* InventoryTracker: free base and quote at the exchange and in the wallet
  latest,  \* latestBooks of the pair
  bot      \* the bot, the generator, the validator and the scorer

signalVars == <<time, amm, gas, free, latest, bot>>

None == [none |-> TRUE]

\* How far a tick is.
Idle == [pc |-> "idle"]

\* loadedPool: the pair that the bot loads at its start, before the engine
\* refreshes its own.
LoadedPool == CHOOSE a \in AmmReserves : TRUE

\* costCache and gasCache are of the bot and of the generator; signal is the
\* last one emitted.
SignalInit ==
  /\ time = Cooldown
  /\ amm = LoadedPool
  /\ gas = CHOOSE g \in GasPricesSeen : TRUE
  /\ free = CHOOSE f \in FreeBalances : TRUE
  /\ latest = None
  /\ bot = [tick |-> Idle, gasCost |-> GasCostFallback, costCache |-> None, gasCache |-> None,
            lastSignalTime |-> 0, priceHistory |-> <<>>, results |-> <<>>, signal |-> None]

-----------------------------------------------------------------------------
(* Prices and sizes *)

CandidateSizes ==
  IF TradeSizeMin = TradeSizeMax THEN <<TradeSizeMin>>
  ELSE [i \in 1..TradeSizeSteps |->
         TradeSizeMin + ((TradeSizeMax - TradeSizeMin) * (i - 1)) \div (TradeSizeSteps - 1)]

SizeOf(book, sizeUsd) == (sizeUsd * PriceScale) \div book.asks[1].price

Fillable(book, sizeUsd) ==
  \A side \in {"buy", "sell"} : FullyFilled(book, side, SizeOf(book, sizeUsd))

QuoteFor(baseIn) == GetAmountOut(baseIn, amm.base, amm.quote)
BaseFor(quoteIn) == GetAmountOut(quoteIn, amm.quote, amm.base)

\* What the pool pays for the size, and what it gives for the money of the sale.
DexSellPrice(size) ==
  LET received == (QuoteFor((size * BaseUnit) \div PriceScale) * PriceScale) \div QuoteUnit
  IN  IF size > 0 THEN (received * PriceScale) \div size ELSE 0
DexBuyPrice(spent) ==
  LET bought == (BaseFor((spent * QuoteUnit) \div PriceScale) * PriceScale) \div BaseUnit
  IN  IF bought > 0 THEN (spent * PriceScale) \div bought ELSE 0

ComputePricesAt(book, size, cexBid) ==
  [size |-> size, cexBid |-> cexBid, cexAsk |-> AvgPrice(book, "buy", size),
   dexSellPrice |-> DexSellPrice(size),
   dexBuyPrice |-> DexBuyPrice((size * cexBid) \div PriceScale)]

TotalFee(tradeValue, gasCost) == (tradeValue * (CexTakerBps + DexSwapBps)) \div Bps + gasCost

EstimateNetPnl(prices, gasCost) ==
  LET gain(more, less) ==
        IF more > less THEN (prices.size * (more - less)) \div PriceScale ELSE -1
      buyCex == gain(prices.dexSellPrice, prices.cexAsk)
      buyDex == gain(prices.cexBid, prices.dexBuyPrice)
      gross == IF buyCex > buyDex THEN buyCex ELSE buyDex
  IN  IF gross <= 0 THEN -1
      ELSE gross - TotalFee((prices.size * prices.cexAsk) \div PriceScale, gasCost)

PricesAt(book, sizeUsd) ==
  LET size == SizeOf(book, sizeUsd)
  IN  ComputePricesAt(book, size, AvgPrice(book, "sell", size))

\* The first of the best.
FirstOf(best) == CHOOSE i \in best : \A j \in best : i <= j

FindBestPrices(book, gasCost) ==
  LET sizes == CandidateSizes
      fillable == {i \in DOMAIN sizes : Fillable(book, sizes[i])}
      pnl == [i \in fillable |-> EstimateNetPnl(PricesAt(book, sizes[i]), gasCost)]
      best == {i \in fillable : \A j \in fillable : pnl[j] <= pnl[i]}
  IN  IF book.asks = <<>> \/ fillable = {} THEN None ELSE PricesAt(book, sizes[FirstOf(best)])

\* The fees of a sale are worth more than the digits that its prices lose.
ASSUME FeesCount ==
  \A book \in OrderBooks : \A i \in DOMAIN CandidateSizes :
    LET size == SizeOf(book, CandidateSizes[i])
        sale == (size * AvgPrice(book, "sell", size)) \div PriceScale
    IN  book.asks # <<>> /\ Fillable(book, CandidateSizes[i])
          => MinProfit + TotalFee(sale, 0) >= size \div PriceScale + 2

\* A spread is a gap between two prices over the lower of them, in no unit.
SpreadBuyingAtCex(p) ==
  IF p.cexAsk > 0 THEN [gap |-> p.dexSellPrice - p.cexAsk, over |-> p.cexAsk]
  ELSE [gap |-> 0, over |-> 1]
SpreadBuyingAtDex(p) ==
  IF p.dexBuyPrice > 0 THEN [gap |-> p.cexBid - p.dexBuyPrice, over |-> p.dexBuyPrice]
  ELSE [gap |-> 0, over |-> 1]

Wider(s, t) == s.gap * t.over > t.gap * s.over
InBpsAtLeast(s, bps) == s.gap * Bps >= bps * s.over

\* generateCore up to its await.  book and amm are what the prices are of.
DealAt(book, p) ==
  LET atCex == SpreadBuyingAtCex(p)
      atDex == SpreadBuyingAtDex(p)
      deal(direction, spread, cexPrice, dexPrice) ==
        [direction |-> direction, spread |-> spread, cexPrice |-> cexPrice,
         dexPrice |-> dexPrice, size |-> p.size, cexBid |-> p.cexBid, book |-> book, amm |-> amm]
  IN  IF p = None THEN None
      ELSE IF Wider(atCex, atDex) /\ InBpsAtLeast(atCex, MinSpreadBps)
        THEN deal("buy_cex_sell_dex", atCex, p.cexAsk, p.dexSellPrice)
      ELSE IF InBpsAtLeast(atDex, MinSpreadBps)
        THEN deal("buy_dex_sell_cex", atDex, p.cexBid, p.dexBuyPrice)
      ELSE None

Deal(book, gasCost) == DealAt(book, FindBestPrices(book, gasCost))

CheckInventory(deal) ==
  LET quoteNeeded == (deal.size * deal.cexPrice * 101) \div (PriceScale * 100)
  IN  IF deal.direction = "buy_cex_sell_dex"
        THEN free.cex.quote >= quoteNeeded /\ free.wallet.base >= deal.size
        ELSE free.wallet.quote >= quoteNeeded /\ free.cex.base >= deal.size

TradeValue(deal) == (deal.size * deal.cexPrice) \div PriceScale

GrossPnl(deal) ==
  LET gain == IF deal.direction = "buy_cex_sell_dex" THEN deal.dexPrice - deal.cexPrice
              ELSE deal.cexPrice - deal.dexPrice
  IN  (deal.size * gain) \div PriceScale

\* generateCore after its await.
SignalOf(deal, gasCost) ==
  LET fees == TotalFee(TradeValue(deal), gasCost)
  IN  [deal |-> deal, gasCost |-> gasCost, expectedFees |-> fees,
       expectedNetPnl |-> GrossPnl(deal) - fees,
       valid |-> CheckInventory(deal) /\ TradeValue(deal) <= MaxPosition]

-----------------------------------------------------------------------------
(* What the bot asks of a signal *)

\* validatePriceFeed.  The age of the signal, just made, is zero, and its
\* prices and size are above zero.
NearRecentPrices(history, price) ==
  LET avg == SumFunction(history) \div Len(history)
  IN  history # <<>> => /\ (price - avg) * 100 <= MaxDeviationPct * avg
                        /\ (avg - price) * 100 <= MaxDeviationPct * avg

ValidateSignal(history, deal) ==
  /\ ~(deal.spread.gap * Bps > MaxSpreadBps * deal.spread.over)
  /\ NearRecentPrices(history, deal.cexPrice)

Latest(n, seq) == SubSeq(seq, Len(seq) - Least(n, Len(seq)) + 1, Len(seq))

ScoreSpread(spread) ==
  LET above(bps) == spread.gap * Bps - bps * spread.over
  IN  IF above(PoorSpreadBps) <= 0 THEN 0
      ELSE IF above(ExcellentSpreadBps) >= 0 THEN 100
      ELSE (100 * above(PoorSpreadBps)) \div ((ExcellentSpreadBps - PoorSpreadBps) * spread.over)

\* An asset that no venue holds is not tracked.  Nothing is locked here.
ScoreInventory ==
  LET base == [v \in {"cex", "wallet"} |-> free[v].base]
  IN  IF TotalOf(base) > 0 /\ DeviatesBy(base, RebalancePct) THEN 20 ELSE 60

ScoreHistory(results) ==
  LET recent == Latest(ResultsScored, results)
  IN  IF Len(recent) < ResultsNeeded THEN 50
      ELSE (100 * Len(SelectSeq(recent, LAMBDA ok : ok))) \div Len(recent)

\* score, rounded to tenths, in hundredths; a signal just made has not decayed.
Score(deal, results) ==
  LET weighted == ScoreSpread(deal.spread) * ScoreWeights.spread + 80 * ScoreWeights.liquidity
                  + ScoreInventory * ScoreWeights.inventory
                  + ScoreHistory(results) * ScoreWeights.history
  IN  ((weighted + 5) \div 10) * 10

MinProfitBuffer(sig) ==
  LET notional == TradeValue(sig.deal) \div 1000
      feeBuffer == sig.expectedFees \div 2
      dynamic == IF notional > feeBuffer THEN notional ELSE feeBuffer
  IN  IF BotMinProfit < 0 \/ BotMinProfit > dynamic THEN BotMinProfit ELSE dynamic

-----------------------------------------------------------------------------
(* A tick.  b is the bot's record, and each function gives the next one. *)

Ends(b) == [b EXCEPT !.tick = Idle]

\* fetchLiveGasCost answers at once from its cache, or waits for the node.
GasOf(maxFee, ethPrice) == (maxFee * SwapGasUnits * ethPrice) \div Ether
GasIsCached(b) == b.gasCache # None /\ time - b.gasCache.ts < GasTtl
CachedGas(b, deal) == GasOf(b.gasCache.maxFee, deal.cexBid)

\* executeReal once its peek has answered.
Execute(minProfit, b, deal, gasCost) ==
  LET sig == SignalOf(deal, gasCost)
  IN  IF sig.expectedNetPnl < MinProfit THEN Ends(b)
      ELSE IF sig.expectedNetPnl < minProfit THEN [Ends(b) EXCEPT !.signal = sig]
      ELSE [b EXCEPT !.signal = sig, !.tick = [pc |-> "executing", valid |-> sig.valid]]

\* executeReal peeks at the newest book: latestBooks is set before the tick.
Peek(b, minProfit) ==
  LET deal == Deal(latest', b.gasCost)
  IN  IF deal = None THEN Ends(b)
      ELSE IF GasIsCached(b) THEN Execute(minProfit, b, deal, CachedGas(b, deal))
      ELSE [b EXCEPT !.tick = [pc |-> "peek", deal |-> deal, minProfit |-> minProfit]]

\* generate once its gas is known, and generateAndFilterSignal after it.
Filter(b, deal, gasCost) ==
  LET sig == SignalOf(deal, gasCost)
      emitted == [b EXCEPT !.signal = sig, !.lastSignalTime = time]
      valid == ValidateSignal(b.priceHistory, deal)
      recorded == [emitted EXCEPT
                     !.priceHistory = Latest(HistorySize, Append(@, deal.cexPrice))]
  IN  IF sig.expectedNetPnl < MinProfit THEN Ends(b)
      ELSE IF ~valid THEN Ends(emitted)
      ELSE IF \/ Score(deal, b.results) < 100 * MinScore
              \/ sig.expectedNetPnl < MinProfitBuffer(sig)
        THEN Ends(recorded)
      ELSE Peek(recorded, MinProfitBuffer(sig))

Generate(b, book) ==
  LET deal == Deal(book, b.gasCost)
  IN  IF time - b.lastSignalTime < Cooldown \/ deal = None THEN Ends(b)
      ELSE IF GasIsCached(b) THEN Filter(b, deal, CachedGas(b, deal))
      ELSE [b EXCEPT !.tick = [pc |-> "generate", deal |-> deal]]

\* The tick comes 50 ms after the last update, with its book: of the updates
\* before it only this one is left in latestBooks.  It returns at once while
\* another runs.
DepthUpdate(book) ==
  /\ latest' = book
  /\ bot' = IF bot.tick.pc # "idle" THEN bot
            ELSE IF bot.costCache # None /\ time - bot.costCache.ts < GasTtl
              THEN Generate([bot EXCEPT !.gasCost = bot.costCache.cost], book)
            ELSE [bot EXCEPT !.tick = [pc |-> "estimate", book |-> book]]
  /\ UNCHANGED <<time, amm, gas, free>>

\* estimateGasCostUsd has its gas price, or an error.  It converts at the price of
\* loadedPool, however old that is.
EstimateAnswers ==
  LET ethPrice == (LoadedPool.quote * BaseUnit * PriceScale) \div (LoadedPool.base * QuoteUnit)
      cost == (((gas * BotGasUnits * PriceScale) \div Ether) * ethPrice) \div PriceScale
      result == IF cost > GasCostMin THEN cost ELSE GasCostMin
  IN  /\ bot.tick.pc = "estimate"
      /\ UNCHANGED <<time, amm, gas, free, latest>>
      /\ bot' = Generate([bot EXCEPT !.gasCost = result,
                                     !.costCache = [cost |-> result, ts |-> time]],
                         bot.tick.book)

EstimateFails ==
  LET cost == IF bot.costCache = None THEN GasCostFallback ELSE bot.costCache.cost
  IN  /\ bot.tick.pc = "estimate"
      /\ UNCHANGED <<time, amm, gas, free, latest>>
      /\ bot' = Generate([bot EXCEPT !.gasCost = cost], bot.tick.book)

\* The rest of generate, or of the peek.
Continue(b, gasCost) ==
  IF b.tick.pc = "generate" THEN Filter(b, b.tick.deal, gasCost)
  ELSE Execute(b.tick.minProfit, b, b.tick.deal, gasCost)

GasAnswers ==
  LET known == [bot EXCEPT !.gasCache = [maxFee |-> gas, ts |-> time]]
  IN  /\ bot.tick.pc \in {"generate", "peek"}
      /\ UNCHANGED <<time, amm, gas, free, latest>>
      /\ bot' = Continue(known, GasOf(gas, bot.tick.deal.cexBid))

\* The static gas cost takes the place of the live one.
GasFails ==
  /\ bot.tick.pc \in {"generate", "peek"}
  /\ UNCHANGED <<time, amm, gas, free, latest>>
  /\ bot' = Continue(bot, bot.gasCost)

\* The execution ends; one of a signal that is not valid has failed.
Executed(ok) ==
  /\ bot.tick.pc = "executing"
  /\ ok => bot.tick.valid
  /\ bot' = [Ends(bot) EXCEPT !.results = Latest(ResultsKept, Append(@, ok))]
  /\ UNCHANGED <<time, amm, gas, free, latest>>

\* What goes on around the bot.
PoolRefreshed == amm' \in AmmReserves \ {amm} /\ UNCHANGED <<time, gas, free, latest, bot>>
GasMoves == gas' \in GasPricesSeen \ {gas} /\ UNCHANGED <<time, amm, free, latest, bot>>
BalancesSynced == free' \in FreeBalances \ {free} /\ UNCHANGED <<time, amm, gas, latest, bot>>
TimePasses == time < MaxTime /\ time' = time + 1 /\ UNCHANGED <<amm, gas, free, latest, bot>>

SignalNext ==
  \/ \E book \in OrderBooks : DepthUpdate(book)
  \/ EstimateAnswers
  \/ EstimateFails
  \/ GasAnswers
  \/ GasFails
  \/ \E ok \in BOOLEAN : Executed(ok)
  \/ PoolRefreshed
  \/ GasMoves
  \/ BalancesSynced
  \/ TimePasses

SignalSpec == SignalInit /\ [][SignalNext]_signalVars

-----------------------------------------------------------------------------
(* Properties *)

\* The reference: a level gives what the ones before it leave of the size, up
\* to its quantity, and nothing is rounded.
Taken(levels, size, i) ==
  LET before == SumFunction([j \in 1..(i - 1) |-> levels[j].qty])
      left == IF size > before THEN size - before ELSE 0
  IN  Least(left, levels[i].qty)

BookValue(levels, size) ==
  SumFunction([i \in 1..Len(levels) |-> Taken(levels, size, i) * levels[i].price])
    \div PriceScale

\* What both legs of a deal pay at the book and the reserves it was priced at,
\* before fees.
Worth(deal) ==
  LET base == (deal.size * BaseUnit) \div PriceScale
      scaled(quote) == (quote * PriceScale) \div QuoteUnit
  IN  IF deal.direction = "buy_cex_sell_dex"
        THEN scaled(GetAmountOut(base, deal.amm.base, deal.amm.quote))
             - BookValue(deal.book.asks, deal.size)
        ELSE BookValue(deal.book.bids, deal.size)
             - scaled(GetAmountIn(base, deal.amm.quote, deal.amm.base))

\* What the roundings can be worth: one of the price, for the whole size, one
\* per level, one of the fee, and a unit of the quote token.
Roundings(deal) ==
  deal.size \div PriceScale + Len(deal.book.asks) + Len(deal.book.bids) + 4
  + PriceScale \div QuoteUnit

\* A signal promises no more than its two legs are worth at the book and at
\* the reserves it was priced at, less both fees and the gas, though it knows
\* average prices only, and prices the purchase at the pool for the money that
\* the sale brings and not for the size (76-174, 232-297 of signal.generator.ts).
SignalSound ==
  LET sig == bot.signal
      fees == TotalFee(TradeValue(sig.deal), sig.gasCost)
  IN  sig # None => sig.expectedNetPnl <= Worth(sig.deal) - fees + Roundings(sig.deal)
=============================================================================
