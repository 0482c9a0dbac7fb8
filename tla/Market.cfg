\* The stream: two pairs, two sockets, as many reconnects.  The exchange's
\* book of a pair moves once.
CONSTANTS
  Pairs = {p1, p2}
  Sockets = {s1, s2}
  NoSocket = NoSocket
  MaxAttempts = 2
  MaxConnects = 1
  MaxMoves = 1
\* The pool monitor: one pool that moves twice, two refreshes of it at once.
  Pools = {pool}
  Refreshes = {r1, r2}
  MaxVersion = 2
  MaxLosses = 1
\* The Telegram listener: three commands, a restart.
  MaxUpdates = 3
  MaxSessions = 2
\* The rate limiter: three calls, light or heavy, of which two heavy ones are
\* too many for a window.
  WeightLimit = 5
  Window = 2
  Slack = 1
  WeightOf <- EndpointWeights
  MarketsWeight = 1
  NumCalls = 3
  MaxClock = 3
\* Prices in hundredths, rates in twentieths.
  Bps = 20
  PriceScale = 100
  FeeBps = 1
  SpotScale = 100
  Reserves = {3, 10, 16}
  MaxSwap = 6
  MaxReserve = 22
\* Four pools over three tokens.
  Tokens = {"a", "b", "c"}
  Links <- LinksOfThree
  MaxHops = 3
  GasBase = 1
  GasPerHop = 1
  GasPrices = {0, 1}
  Amounts = {1, 8}
  RouteReserves <- RouteReservesSeen
\* The signals: three sizes, both directions, gas that is cheap or dear.
  BaseUnit = 1000
  QuoteUnit = 10
  Ether = 100
  CexTakerBps = 0
  DexSwapBps = 1
  TradeSizeMin = 400
  TradeSizeMax = 1200
  TradeSizeSteps = 3
  MinSpreadBps = 1
  MinProfit = 5
  MaxPosition = 1000
  Cooldown = 1
  SwapGasUnits = 1
  BotGasUnits = 1
  GasTtl = 1
  GasCostMin = 4
  GasCostFallback = 10
  MaxSpreadBps = 10
  MaxDeviationPct = 5
  HistorySize = 2
  ScoreWeights <- Weighting
  PoorSpreadBps = 1
  ExcellentSpreadBps = 4
  ResultsKept = 2
  ResultsScored = 2
  ResultsNeeded = 2
  RebalancePct = 30
  MinScore = 30
  BotMinProfit = 5
  OrderBooks <- BooksSeen
  AmmReserves <- AmmReservesSeen
  GasPricesSeen = {1, 20}
  FreeBalances <- FreeBalancesSeen
  MaxTime = 2

SPECIFICATION MarketSpec

INVARIANTS
  StreamIsSingle
  StopIsFinal
  GivesUpLast
  PoolsSettle
  CommandOnce
  OverLimitExplained
  SwapIsSound
  
  BestRouteIsBest
  SignalSound

PROPERTIES
  BooksNeverGoBack
  StreamRecovers
  CommandHandled

\* Every part stops at its bounds.
CHECK_DEADLOCK FALSE
