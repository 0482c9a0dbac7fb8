\* Two executions, so that a late leg of the first meets the second.  Size 5
\* in steps of 2: the exchange takes 4 of it, fills of 0 and 2 are below the
\* ratio of 0.8, a fill of 4 meets it exactly.  One failure trips the breaker.
\* The clock and the executions are bounded, so the model ends.
CONSTANTS
  FailureThreshold = 1
  WindowMs = 1
  CooldownMs = 1
  TtlMs = 1
  Signals = {s1}
  None = None
  MaxExecutions = 2
  MaxTime = 3
  Modes <- AllModes
  Sizes = {5}
  StepSize = 2
  MinFillBps = 8000
  MaxSlip = 1
  MaxExposure = 6
SPECIFICATION FairSpec
INVARIANTS
  TypeOK
  ExposureBounded
  DoneIsAccounted
  InventoryFollowsDone
PROPERTIES
  EveryExecutionEnds
  GateSpec
  ArbitrageSpec
CHECK_DEADLOCK FALSE
