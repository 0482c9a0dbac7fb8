\* Two trades of -4 or +3 from a capital of 40, one an hour.  A loss crosses
\* the daily limit of 2, the streak of 1 and the drawdown limit of 8%; a reset at
\* midnight lets a second trade follow.  One error an hour is allowed.  Two
\* ticks, so that a second could overtake the lock.  Only the order of the
\* cache's life, the hour and the day matters, so they are a few units of time.
\* The process ends, so the model does.
CONSTANTS
  HourMs = 2
  MaxTradeUsd = 4
  MaxTradePercent = 20
  MaxLossPerTrade = 1
  MaxDailyLoss = 2
  MaxDrawdownBps = 800
  MaxTradesPerHour = 1
  ConsecutiveLossLimit = 1
  AbsMaxTradeUsd = 5
  AbsMaxDailyLoss = 3
  AbsMinCapital = 20
  AbsMaxTradesPerHour = 2
  MaxErrorsPerHour = 1
  MaxTicks = 2
  Signals <- BotSignals
  MinProfit <- BotMinProfit
  Results <- BotResults
  FailedResults = {0}
  WorstLoss = 4
  InitialCapital = 40
  CacheMs = 1
  MaxTime = 3
  MaxDay = 1
  MaxTrades = 2
  None = None
\* Two calls over two endpoints, each asked twice: enough for a call that asks
\* for its nonce where the other's transaction is not known, one that fails
\* over to an endpoint that knows its transaction already, and one that is
\* replaced.
  Calls = {c1, c2}
  NumEndpoints = 2
  MaxRetries = 2
  MaxNonce = 1

SPECIFICATION BotSpec

INVARIANTS
  BotTypeOK
  TickIsExclusive
  DailyLossBounded
  DrawdownBounded
  LossStreakBounded
  HourlyTradesBounded
  ErrorRateBounded
  NoTickAfterKill
  ChainTypeOK
  MinedOnce
  EndIsTrue

PROPERTIES
  WaitEnds
  CallEnds

\* The process ends and the calls end.
CHECK_DEADLOCK FALSE
