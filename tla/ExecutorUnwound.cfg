\* A single execution on the instance of Executor.cfg.  The clock and the
\* executions are bounded, so the model ends.
CONSTANTS
  FailureThreshold = 1
  WindowMs = 1
  CooldownMs = 1
  TtlMs = 1
  Signals = {s1}
  None = None
  MaxExecutions = 1
  MaxTime = 1
  Modes <- AllModes
  Sizes = {5}
  StepSize = 2
  MinFillBps = 8000
  MaxSlip = 1
  MaxExposure = 6
SPECIFICATION Spec
INVARIANTS
  FailedIsUnwound
CHECK_DEADLOCK FALSE
