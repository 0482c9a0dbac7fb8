-------------------------------- MODULE Skew --------------------------------
(***************************************************************************)
(* How unevenly an asset is spread over the venues: InventoryTracker.skew, *)
(* compared with the threshold by RebalancePlanner.checkAll and plan.      *)
(***************************************************************************)
EXTENDS Integers, FiniteSets, Functions

\* The amounts of one asset, by venue.
TotalOf(amounts) == SumFunction(amounts)

\* maxDeviationPct >= thresholdPct: some venue's share is that far from an
\* even split.  With no holdings every share is zero, and so is off by 100 / n.
DeviatesBy(amounts, thresholdPct) ==
  LET n == Cardinality(DOMAIN amounts)
      total == TotalOf(amounts)
      distance(v) == 100 * n * amounts[v] - 100 * total
  IN  IF total = 0 THEN 100 >= thresholdPct * n
      ELSE \E v \in DOMAIN amounts :
             \/ distance(v) >= thresholdPct * n * total
             \/ distance(v) <= -thresholdPct * n * total
=============================================================================
