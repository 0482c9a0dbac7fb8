----------------------------- MODULE Rebalancer -----------------------------
(***************************************************************************)
(* RebalancePlanner.plan for one asset: who has too much of it, who too    *)
(* little, and the loop that matches them.  Plans are made and printed,    *)
(* nothing is transferred.                                                 *)
(***************************************************************************)
EXTENDS Skew, FiniteSetsExt, Sequences

CONSTANTS
  ThresholdPct,   \* rebalanceThresholdPct
  MinWithdrawal,  \* that of the asset's entry in withdrawalFees; 0 without one
  MinOperating,   \* minOperatingBalance of the asset, 0 when it has none
  Holdings        \* bound: what the venues hold of it, [free, locked] by venue

VARIABLES
  holding,    \* InventoryTracker.balances of the asset
  pc,         \* whether plan() is in its loop
  surpluses,  \* the venues that hold too much and have not been passed, most first
  deficits,   \* and those that hold too little
  plans,      \* the transfers planned, each once
  laps        \* how often the loop has run, modulo two: a lap changes the state

planVars == <<holding, pc, surpluses, deficits, plans, laps>>

\* skew counts what is locked, getAvailable does not.
Amounts(h) == [v \in DOMAIN h |-> h[v].free + h[v].locked]

\* Math.round of an equal share.
Target(h) == LET n == Cardinality(DOMAIN h) IN (2 * TotalOf(Amounts(h)) + n) \div (2 * n)

\* Both lists, as [venue, amount], sorted by amount: equal ones in any order.
MostFirst(delta) ==
  LET entries == {[venue |-> v, amount |-> delta[v]] : v \in {u \in DOMAIN delta : delta[u] > 0}}
      n == Cardinality(entries)
  IN  {list \in [1..n -> entries] :
         /\ Range(list) = entries
         /\ \A i, j \in 1..n : i < j => list[i].amount >= list[j].amount}

PlanInit ==
  /\ holding \in Holdings
  /\ pc = "idle"
  /\ surpluses = <<>> /\ deficits = <<>>
  /\ plans = {}
  /\ laps = 0

\* plan() up to its loop.
Plan ==
  /\ pc = "idle"
  /\ DeviatesBy(Amounts(holding), ThresholdPct)
  /\ pc' = "matching"
  /\ surpluses' \in MostFirst([v \in DOMAIN holding |-> Amounts(holding)[v] - Target(holding)])
  /\ deficits' \in MostFirst([v \in DOMAIN holding |-> Target(holding) - Amounts(holding)[v]])
  /\ plans' = {}
  /\ laps' = 0
  /\ UNCHANGED holding

\* The amount of a candidate, trimmed to what the sender keeps, and whether it
\* is passed for being below the least withdrawal, before or after trimming.
Wanted == Min({Head(surpluses).amount, Head(deficits).amount})
Spare == holding[Head(surpluses).venue].free - MinOperating
Trimmed == Min({Wanted, Spare})
TooSmall == MinWithdrawal > 0 /\ Trimmed < MinWithdrawal

Matching == pc = "matching" /\ surpluses # <<>> /\ deficits # <<>>

PassSender ==
  /\ Matching /\ TooSmall
  /\ surpluses' = Tail(surpluses)
  /\ laps' = 1 - laps
  /\ UNCHANGED <<holding, pc, deficits, plans>>

\* What is left of the first entry, or the entries after it.
Consumed(entries, amount) ==
  IF entries[1].amount <= amount THEN Tail(entries)
  ELSE [entries EXCEPT ![1].amount = entries[1].amount - amount]

Transfer ==
  /\ Matching /\ ~TooSmall
  /\ plans' = plans \cup {[from |-> Head(surpluses).venue, to |-> Head(deficits).venue,
                           amount |-> Trimmed]}
  /\ surpluses' = Consumed(surpluses, Trimmed)
  /\ deficits' = Consumed(deficits, Trimmed)
  /\ laps' = 1 - laps
  /\ UNCHANGED <<holding, pc>>

Return ==
  /\ pc = "matching" /\ ~Matching
  /\ pc' = "idle"
  /\ UNCHANGED <<holding, surpluses, deficits, plans, laps>>

\* An order is placed or ends, a transfer arrives.
BalancesChange ==
  /\ pc = "idle"
  /\ holding' \in Holdings \ {holding}
  /\ UNCHANGED <<pc, surpluses, deficits, plans, laps>>

PlanNext == Plan \/ PassSender \/ Transfer \/ Return \/ BalancesChange

\* plan() is synchronous: once called it runs.
PlanFairness == WF_planVars(PassSender \/ Transfer \/ Return)

PlanSpec == PlanInit /\ [][PlanNext]_planVars /\ PlanFairness

-----------------------------------------------------------------------------
(* Property *)

\* plan() returns, with an empty list when no valid transfer can be made, as
\* its comment says (50-51 of rebalancer.service.ts).
PlanningEnds == pc = "matching" ~> pc = "idle"
=============================================================================
