------------------------------ MODULE UniswapV2 ------------------------------
(***************************************************************************)
(* The constant-product arithmetic of pricing/uniswap-v2: what a swap      *)
(* pays, what a payment costs, how far a swap moves the price, and the     *)
(* search for the largest swap within an impact.  Amounts are bigint, so   *)
(* no width bounds them and division rounds towards zero.                  *)
(*                                                                         *)
(* The pair of this module is one that is swapped on, as simulateSwap does *)
(* with a copy.  Its tokens are 0 and 1.                                   *)
(***************************************************************************)
EXTENDS Units

CONSTANTS
  FeeBps,     \* the pool's fee
  SpotScale,  \* PRICE_SCALE of the calculator, not that of the bot
  Reserves,   \* bound: reserves a pair is loaded with
  MaxSwap,    \* bound: the amount of a swap
  MaxReserve  \* bound: the reserves reached

ASSUME PairAssumption ==
  /\ FeeBps \in Nat /\ FeeBps < Bps
  /\ SpotScale \in Nat /\ SpotScale > 2
  /\ Reserves \subseteq Nat \ {0}

VARIABLES
  reserve,  \* the reserves of token 0 and of token 1; 0 before the pair is loaded
  loaded    \* those it was loaded with

pairVars == <<reserve, loaded>>

Sides == {0, 1}

PairTypeOK ==
  /\ reserve \in [Sides -> Nat]
  /\ loaded \in [Sides -> Nat]

-----------------------------------------------------------------------------
(* UniswapV2Calculator.  Callers give amounts and reserves above zero, and   *)
(* getAmountIn an amount below reserveOut: it throws otherwise.              *)

\* An output rounded up.
AmountOutRoundedUp(amountIn, reserveIn, reserveOut) ==
  LET withFee == amountIn * (Bps - FeeBps)
  IN  (withFee * reserveOut) \div (reserveIn * Bps + withFee) + 1

GetAmountOut(amountIn, reserveIn, reserveOut) ==
  LET withFee == amountIn * (Bps - FeeBps)
  IN  (withFee * reserveOut) \div (reserveIn * Bps + withFee)

\* A payment without the unit that makes up for the rounding.
AmountInRoundedDown(amountOut, reserveIn, reserveOut) ==
  (reserveIn * amountOut * Bps) \div ((reserveOut - amountOut) * (Bps - FeeBps))

GetAmountIn(amountOut, reserveIn, reserveOut) ==
  (reserveIn * amountOut * Bps) \div ((reserveOut - amountOut) * (Bps - FeeBps)) + 1

SpotPrice(reserveIn, reserveOut) == (reserveOut * SpotScale) \div reserveIn

ExecutionPrice(amountIn, amountOut) == (amountOut * SpotScale) \div amountIn

\* The impact of paying amountOut for amountIn.
ImpactBps(amountIn, amountOut, reserveIn, reserveOut) ==
  LET spot == SpotPrice(reserveIn, reserveOut)
  IN  ((spot - ExecutionPrice(amountIn, amountOut)) * Bps) \div spot

\* Execution prices are below the spot price, so the difference is positive.
PriceImpactBps(amountIn, reserveIn, reserveOut) ==
  ImpactBps(amountIn, GetAmountOut(amountIn, reserveIn, reserveOut), reserveIn, reserveOut)

\* getExecutionPrice throws when the swap pays nothing, and getPriceImpactBps
\* when what it pays rounds to a price of zero.
HasImpact(amountIn, reserveIn, reserveOut) ==
  ExecutionPrice(amountIn, GetAmountOut(amountIn, reserveIn, reserveOut)) > 0

\* What a call gives that throws.
Throws == -1

\* PriceImpactAnalyzer.findMaxSizeForImpact: its loop over lo and hi.
Ranges(reserveIn) == [lo : 1..reserveIn, hi : 0..reserveIn]
FindMaxSizeForImpact(maxImpact, reserveIn, reserveOut) ==
  LET within(a) == PriceImpactBps(a, reserveIn, reserveOut) <= maxImpact
      search[s \in Ranges(reserveIn)] ==
        LET mid == (s.lo + s.hi + 1) \div 2
        IN  IF s.lo >= s.hi THEN s.lo
            ELSE IF ~HasImpact(mid, reserveIn, reserveOut) THEN Throws
            ELSE IF within(mid) THEN search[[s EXCEPT !.lo = mid]]
            ELSE search[[s EXCEPT !.hi = mid - 1]]
  IN  IF ~HasImpact(1, reserveIn, reserveOut) THEN Throws
      ELSE IF within(1) THEN search[[lo |-> 1, hi |-> reserveIn]] ELSE 0

\* estimateTrueCost: the output less the gas, floored at zero.
NetOutput(gross, gasCost) == IF gross > gasCost THEN gross - gasCost ELSE 0

-----------------------------------------------------------------------------
(* UniswapV2Pair *)

PairInit == reserve = [t \in Sides |-> 0] /\ loaded = reserve

\* fromChain.
LoadPair(r0, r1) ==
  /\ reserve[0] = 0
  /\ reserve' = [t \in Sides |-> IF t = 0 THEN r0 ELSE r1]
  /\ loaded' = reserve'

\* The reserves after amountIn of token `in' was swapped for amountOut.
ApplySwap(in, amountIn, amountOut) ==
  [t \in Sides |-> IF t = in THEN reserve[t] + amountIn ELSE reserve[t] - amountOut]

\* simulateSwap: it pays what getAmountOut says.
SimulateSwap(in, amountIn) ==
  /\ reserve[0] > 0 /\ reserve[1] > 0
  /\ reserve' = ApplySwap(in, amountIn, GetAmountOut(amountIn, reserve[in], reserve[1 - in]))
  /\ UNCHANGED loaded

PairNext ==
  \/ \E r0, r1 \in Reserves : LoadPair(r0, r1)
  \/ \E in \in Sides, amount \in 1..MaxSwap :
       reserve[in] + amount <= MaxReserve /\ SimulateSwap(in, amount)

PairSpec == PairInit /\ [][PairNext]_pairVars

-----------------------------------------------------------------------------
(* Properties *)

\* Whoever swaps, however often and to and fro, takes nothing out of the pool:
\* the product of the reserves never falls below what it was at the start, and
\* no swap empties a side, for all the roundings (8-23, 66-73 of
\* uniswap-v2.calculator.ts).
SwapIsSound ==
  /\ reserve[0] * reserve[1] >= loaded[0] * loaded[1]
  /\ loaded[0] > 0 => reserve[0] > 0 /\ reserve[1] > 0

\* The payment getAmountIn asks for buys the amount, and at most one unit less
\* would do (25-41 of uniswap-v2.calculator.ts).
PaymentIsEnough(in) == \A out \in 1..(reserve[1 - in] - 1) :
  LET paid == GetAmountIn(out, reserve[in], reserve[1 - in])
  IN  /\ GetAmountOut(paid, reserve[in], reserve[1 - in]) >= out
      /\ paid > 2 => GetAmountOut(paid - 2, reserve[in], reserve[1 - in]) < out

\* findMaxSizeForImpact is not promised here what its comment promises (31-38
\* of uniswap-v2.analyzer.ts).  It throws exactly where one unit buys nothing,
\* whatever the impact.  Elsewhere the size found keeps the impact and the next
\* does not, but rounding lets the impact fall again further on, and a larger
\* size may keep it.  Up to reserveIn, where the search stops, there is none
\* but for that rounding: if a larger size keeps the impact, then the one after
\* the size found would keep it too if it bought one unit more.
SizeIsLargestButForRounding(in, maxImpact) ==
  LET rIn == reserve[in]
      rOut == reserve[1 - in]
      size == FindMaxSizeForImpact(maxImpact, rIn, rOut)
      keeps(a) == PriceImpactBps(a, rIn, rOut) <= maxImpact
      oneMore == GetAmountOut(size + 1, rIn, rOut) + 1
  IN  IF ~HasImpact(1, rIn, rOut) THEN size = Throws
      ELSE /\ size \in 0..rIn
           /\ size > 0 => keeps(size)
           /\ size < rIn => ~keeps(size + 1)
           /\ \A a \in size + 1..rIn :
                keeps(a) => ImpactBps(size + 1, oneMore, rIn, rOut) <= maxImpact

\* Quotes agree with each other, on every pool that swaps lead to.
QuotesAgree == reserve[0] > 0 => \A in \in Sides :
  PaymentIsEnough(in) /\ \A maxImpact \in 0..Bps : SizeIsLargestButForRounding(in, maxImpact)
=============================================================================
