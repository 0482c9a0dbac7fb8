\* An asset without an entry in withdrawalFees, 0 to 4 lots of it at each venue,
\* any of them locked.
CONSTANTS
  ThresholdPct = 30
  MinWithdrawal = 0
  MinOperating = 0
  Holdings <- SmallHoldings

SPECIFICATION PlanSpec
PROPERTY PlanningEnds
CHECK_DEADLOCK FALSE
