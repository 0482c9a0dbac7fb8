\* One trade of the bot of Bot.cfg.  The process ends, so the model
\* does.
CONSTANTS
  HourMs = 2
  MaxTradeUsd = 4
  MaxTradePercent = 20
  MaxLossPerTrade = 1
  MaxDailyLoss = 2
  MaxDrawdownBps = 800
  MaxTradesPerHour = 1
  ConsecutiveLossLimit = 1
  AbsMaxTradeUsd = 5
  AbsMaxDailyLoss = 3
  AbsMinCapital = 20
  AbsMaxTradesPerHour = 2
  MaxErrorsPerHour = 1
  MaxTicks = 2
  Signals <- BotSignals
  MinProfit <- BotMinProfit
  Results <- BotResults
  FailedResults = {0}
  WorstLoss = 4
  InitialCapital = 40
  CacheMs = 1
  MaxTime = 1
  MaxDay = 0
  MaxTrades = 1
  None = None
SPECIFICATION Spec
INVARIANTS
  ExecutedWithinLimits
CHECK_DEADLOCK FALSE
