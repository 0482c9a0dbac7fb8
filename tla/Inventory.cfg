\* A trade that the tracker books for less or more than it moved, with the syncs of
\* a timer, of which two can overlap, and of a tick; beside it the operator makes a
\* transfer, or a leg is given up and can be filled later.  A fill misses what is
\* booked by nothing, or by more than the threshold allows, at either venue.  The
\* process ends and the gate's clock stops, so the model does.
CONSTANTS
  Syncs = {1, 2}
  TickSyncs = {2}
  Holdings <- OneHolding
  Lot = 1
  Price = 1
  FillErrors = {0, 2}
  SwapErrors = {0, 2}
  BaseThreshold = 1
  QuoteThreshold = 0
  MaxTrades = 1
  MaxSurprises = 1
  NoValue = NoValue
\* The gate: two signals, trips on the second failure, a cooldown no longer
\* than the window (the tightest case), time for two trips.  The ids expire
\* fast enough for failures to outrun the threshold if the breaker let them.
  FailureThreshold = 2
  WindowMs = 2
  CooldownMs = 2
  TtlMs = 1
  Signals = {s1, s2}
  None = None
  MaxExecutions = 4
  MaxTime = 4
SPECIFICATION InventorySpec
INVARIANTS
  SyncTypeOK
  GateTypeOK
  FailureRateBounded
  TripJustified
  NoReplayWithinTtl
PROPERTIES
  VerdictIsRight
  TrackerConverges
CHECK_DEADLOCK FALSE
