-------------------------------- MODULE Risk --------------------------------
(***************************************************************************)
(* The limits a bot trades under (safety): RiskManager, the absolute       *)
(* ceilings, and the automatic kill switch.  Amounts are US dollars.       *)
(*                                                                         *)
(* The two arrays of time stamps are pruned wherever they are read, to     *)
(* what is younger than an hour.  Here they only grow and every reader     *)
(* takes the part that pruning would leave.                                *)
(***************************************************************************)
EXTENDS Integers, FiniteSets

CONSTANTS
  HourMs,                \* HOUR_MS and ERROR_WINDOW_MS
  MaxTradeUsd,           \* RiskLimits.maxTradeUsd
  MaxTradePercent,       \* RiskLimits.maxTradePct, times 100
  MaxLossPerTrade,       \* RiskLimits.maxLossPerTrade
  MaxDailyLoss,          \* RiskLimits.maxDailyLoss
  MaxDrawdownBps,        \* RiskLimits.maxDrawdownPct, times 10000
  MaxTradesPerHour,      \* RiskLimits.maxTradesPerHour
  ConsecutiveLossLimit,  \* RiskLimits.consecutiveLossLimit
  AbsMaxTradeUsd,        \* ABSOLUTE_MAX_TRADE_USD
  AbsMaxDailyLoss,       \* ABSOLUTE_MAX_DAILY_LOSS
  AbsMinCapital,         \* ABSOLUTE_MIN_CAPITAL
  AbsMaxTradesPerHour,   \* ABSOLUTE_MAX_TRADES_PER_HOUR
  MaxErrorsPerHour       \* MAX_ERRORS_PER_HOUR

ASSUME RiskAssumption ==
  /\ HourMs \in Nat \ {0}
  /\ {MaxDailyLoss, AbsMaxDailyLoss, ConsecutiveLossLimit} \subseteq Nat \ {0}
  /\ {MaxTradeUsd, MaxTradePercent, MaxLossPerTrade, MaxDrawdownBps, MaxTradesPerHour,
      AbsMaxTradeUsd, AbsMinCapital, AbsMaxTradesPerHour, MaxErrorsPerHour} \subseteq Nat

VARIABLES
  now,                \* Date.now()
  dailyPnl,           \* RiskManager
  currentCapital,
  peakCapital,
  consecutiveLosses,
  tradeTimestamps,    \* [n, at]: the n-th trade was recorded at this time
  errorTimestamps,    \* AutoKillSwitch: the same of errors
  triggered

riskVars == <<dailyPnl, currentCapital, peakCapital, consecutiveLosses, tradeTimestamps>>
autoKillVars == <<errorTimestamps, triggered>>

Stamp == [n : Nat, at : Nat]

RiskTypeOK ==
  /\ now \in Nat
  /\ dailyPnl \in Int
  /\ currentCapital \in Int
  /\ peakCapital \in Int
  /\ consecutiveLosses \in Nat
  /\ tradeTimestamps \in SUBSET Stamp /\ IsFiniteSet(tradeTimestamps)
  /\ errorTimestamps \in SUBSET Stamp /\ IsFiniteSet(errorTimestamps)
  /\ triggered \in BOOLEAN

RiskInit ==
  /\ now = 0
  /\ dailyPnl = 0
  /\ currentCapital = 0
  /\ peakCapital = 0
  /\ consecutiveLosses = 0
  /\ tradeTimestamps = {}
  /\ errorTimestamps = {}
  /\ triggered = FALSE

-----------------------------------------------------------------------------
(* The rolling hour *)

\* A window that loses its entries twice as fast as it should.
WithinHourShort(stamps) == {x \in stamps : 2 * (now - x.at) < HourMs}

\* pruneTradeWindow and pruneErrorWindow drop what is an hour old.
WithinHour(stamps) == {x \in stamps : x.at > now - HourMs}

Stamped(stamps) == stamps \cup {[n |-> Cardinality(stamps) + 1, at |-> now]}

-----------------------------------------------------------------------------
(* RiskManager *)

\* A drawdown test that measures from the capital at the start of the day.
DrawdownBelowDaily == dailyPnl * 10000 > -(MaxDrawdownBps * peakCapital)

\* Integer division of the scaled drawdown is below the limit.
DrawdownBelow ==
  peakCapital > 0 =>
    ((peakCapital - currentCapital) * 10000) \div peakCapital < MaxDrawdownBps

\* A check that compares the limits of the day with the next trade alone.
CheckPreTradeMemoryless(signal) ==
  /\ signal.usd <= MaxTradeUsd
  /\ signal.usd <= (currentCapital * MaxTradePercent) \div 100
  /\ signal.net < 0 => -signal.net <= MaxLossPerTrade
  /\ signal.net > -MaxDailyLoss
  /\ DrawdownBelow
  /\ Cardinality(WithinHour(tradeTimestamps)) < MaxTradesPerHour

\* checkPreTrade: a signal is its notional (usd) and its expected net PnL (net).
CheckPreTrade(signal) ==
  /\ signal.usd <= MaxTradeUsd
  /\ signal.usd <= (currentCapital * MaxTradePercent) \div 100
  /\ signal.net < 0 => -signal.net <= MaxLossPerTrade
  /\ dailyPnl > -MaxDailyLoss
  /\ DrawdownBelow
  /\ consecutiveLosses < ConsecutiveLossLimit
  /\ Cardinality(WithinHour(tradeTimestamps)) < MaxTradesPerHour

\* absoluteSafetyCheck, with the status of the RiskManager.
AbsoluteSafetyCheck(signal) ==
  /\ signal.usd <= AbsMaxTradeUsd
  /\ dailyPnl > -AbsMaxDailyLoss
  /\ currentCapital >= AbsMinCapital
  /\ Cardinality(WithinHour(tradeTimestamps)) < AbsMaxTradesPerHour

\* A recordTrade that takes one loss off the streak for a win.
RecordTradeDecrement(pnl) ==
  /\ dailyPnl' = dailyPnl + pnl
  /\ currentCapital' = currentCapital + pnl
  /\ peakCapital' = IF currentCapital' > peakCapital THEN currentCapital' ELSE peakCapital
  /\ tradeTimestamps' = Stamped(tradeTimestamps)
  /\ consecutiveLosses' = IF pnl < 0 THEN consecutiveLosses + 1
                                        ELSE consecutiveLosses - 1

RecordTrade(pnl) ==
  /\ dailyPnl' = dailyPnl + pnl
  /\ currentCapital' = currentCapital + pnl
  /\ peakCapital' = IF currentCapital' > peakCapital THEN currentCapital' ELSE peakCapital
  /\ tradeTimestamps' = Stamped(tradeTimestamps)
  /\ consecutiveLosses' = IF pnl < 0 THEN consecutiveLosses + 1 ELSE 0

ResetDaily ==
  /\ dailyPnl' = 0
  /\ consecutiveLosses' = 0
  /\ UNCHANGED <<currentCapital, peakCapital, tradeTimestamps>>

SetInitialCapital(capital) ==
  /\ currentCapital' = capital
  /\ peakCapital' = capital
  /\ UNCHANGED <<dailyPnl, consecutiveLosses, tradeTimestamps>>

-----------------------------------------------------------------------------
(* AutoKillSwitch *)

RecordError ==
  /\ errorTimestamps' = Stamped(errorTimestamps)
  /\ UNCHANGED triggered

\* A check that asks for twice the errors.
AutoKillsLate(initialCapital) ==
  \/ triggered
  \/ initialCapital > 0 /\ currentCapital < (initialCapital * 500) \div 1000
  \/ Cardinality(WithinHour(errorTimestamps)) > 2 * MaxErrorsPerHour

\* check: the switch stays on once it is on; CAPITAL_FLOOR_PCT is one half.
AutoKills(initialCapital) ==
  \/ triggered
  \/ initialCapital > 0 /\ currentCapital < (initialCapital * 500) \div 1000
  \/ Cardinality(WithinHour(errorTimestamps)) > MaxErrorsPerHour
=============================================================================
