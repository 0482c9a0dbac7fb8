\* Two syncs overlap, and the exchange answers them in one order and the tracker
\* hears of it in the other.
CONSTANTS
  Syncs = {1, 2}
  TickSyncs = {2}
  Holdings <- OneHolding
  Lot = 1
  Price = 1
  FillErrors = {0, 2}
  SwapErrors = {0, 2}
  BaseThreshold = 1
  QuoteThreshold = 0
  MaxTrades = 1
  MaxSurprises = 0
  NoValue = NoValue
SPECIFICATION HistorySpec
PROPERTY TrackerLatest
CHECK_DEADLOCK FALSE
