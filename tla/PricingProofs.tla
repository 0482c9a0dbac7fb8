--------------------------- MODULE PricingProofs ---------------------------
(***************************************************************************)
(* Proofs about prices, for any fee, reserves, amounts, books and prices.  *)
(*                                                                         *)
(* UniswapV2: what swaps on a pair preserve, that the payment asked for an *)
(* amount buys it, and what the search for the largest size finds.         *)
(* SignalGenerator: that a signal promises no more than its legs are       *)
(* worth.  Each direction of a deal is compared with what the pool and the *)
(* levels of the book pay, every rounding on the way is counted, and the   *)
(* bot keeps what it knows of a deal over the awaits of a tick.            *)
(* Routing: that the best route is the best of all ways through the pools. *)
(* The search finds the routes that go on from where it has got to, by     *)
(* induction over the pools that it may still use, and these are the ways. *)
(***************************************************************************)
EXTENDS SignalGenerator, Routing, SequenceTheorems, SumTheorems, TLAPS

-----------------------------------------------------------------------------
(* Arithmetic *)

\* bigint division of positive numbers rounds down.
LEMMA DivRoundsDown ==
  ASSUME NEW x \in Nat, NEW d \in Nat \ {0}
  PROVE  /\ x \div d \in Nat
         /\ (x \div d) * d <= x
         /\ x < (x \div d) * d + d
  BY SMT

\* Quotients are compared by multiplying.
LEMMA DivCompares ==
  ASSUME NEW x \in Nat, NEW d \in Nat \ {0}, NEW q \in Nat
  PROVE  /\ q * d <= x => q <= x \div d
         /\ x < q * d => x \div d < q
  BY SMT

\* A product grows with its factor.
LEMMA TimesMonotonic ==
  ASSUME NEW x \in Nat, NEW y \in Nat, NEW z \in Nat, x <= y
  PROVE  /\ x * z \in Nat
         /\ x * z <= y * z
  BY SMT

\* A product of positive numbers is positive.
LEMMA TimesPositive ==
  ASSUME NEW x \in Nat \ {0}, NEW y \in Nat \ {0}
  PROVE  x * y \in Nat \ {0}
  BY SMT

\* A product of differences, for the provers.
LEMMA Distributes ==
  ASSUME NEW x \in Int, NEW y \in Int, NEW z \in Int
  PROVE  /\ x * (y - z) = x * y - x * z
         /\ (y - z) * x = y * x - z * x
         /\ (y + z) * x = y * x + z * x
         /\ x * y \in Int /\ x * z \in Int
  OBVIOUS

\* Multiplying with a natural number keeps the order of integers.
LEMMA TimesKeeps ==
  ASSUME NEW x \in Int, NEW y \in Int, NEW z \in Nat, x <= y
  PROVE  x * z \in Int /\ y * z \in Int /\ x * z <= y * z
<1>1. y - x \in Nat
  OBVIOUS
<1>2. (y - x) * z \in Nat
  BY <1>1
<1>3. (y - x) * z = y * z - x * z
  BY Distributes
<1>4. x * z \in Int /\ y * z \in Int
  OBVIOUS
<1>. QED  BY <1>2, <1>3, <1>4

\* A positive factor can be taken from both sides of <= ...
LEMMA TimesCancels ==
  ASSUME NEW x \in Int, NEW y \in Int, NEW z \in Nat \ {0}, x * z <= y * z
  PROVE  x <= y
<1> SUFFICES ASSUME y < x
             PROVE  FALSE
  OBVIOUS
<1>1. y + 1 <= x /\ y + 1 \in Int /\ z \in Nat
  OBVIOUS
<1>2. (y + 1) * z <= x * z /\ (y + 1) * z \in Int /\ x * z \in Int
  BY <1>1, TimesKeeps
<1>3. (y + 1) * z = y * z + z /\ y * z \in Int
  OBVIOUS
<1>. QED  BY <1>2, <1>3

\* ... and of <.
LEMMA TimesCancelsLess ==
  ASSUME NEW x \in Int, NEW y \in Int, NEW z \in Nat \ {0}, x * z < y * z
  PROVE  x < y
<1> SUFFICES ASSUME x >= y
             PROVE  FALSE
  OBVIOUS
<1>1. PICK d \in Nat : x = y + d
  <2>1. x - y \in Nat /\ x = y + (x - y)
    OBVIOUS
  <2>. QED  BY <2>1
<1>2. x * z = y * z + d * z /\ d * z \in Nat /\ y * z \in Int
  BY <1>1
<1>. QED  BY <1>2

\* Quotients keep the order of what is divided.
LEMMA QuotientsKeep ==
  ASSUME NEW x \in Int, NEW y \in Int, NEW d \in Nat \ {0}, x <= y
  PROVE  x \div d \in Int /\ y \div d \in Int /\ x \div d <= y \div d
  BY SMT

-----------------------------------------------------------------------------
(* Swaps *)

\* The amount with its fee is positive and no more than the amount.
LEMMA FeeIsTaken ==
  ASSUME NEW amount \in Nat \ {0}
  PROVE  /\ Bps - FeeBps \in Nat \ {0}
         /\ amount * (Bps - FeeBps) \in Nat \ {0}
         /\ amount * (Bps - FeeBps) <= amount * Bps
<1>1. Bps - FeeBps \in Nat \ {0} /\ Bps - FeeBps <= Bps /\ Bps \in Nat
  BY UnitsAssumption, PairAssumption
<1>2. amount * (Bps - FeeBps) \in Nat \ {0}
  BY <1>1, TimesPositive
<1>3. (Bps - FeeBps) * amount <= Bps * amount
  BY <1>1, TimesMonotonic
<1>. QED  BY <1>1, <1>2, <1>3

\* A swap pays less than the pool has, and no more than the constant product
\* allows, the fee being taken.
LEMMA OutputType ==
  ASSUME NEW amount \in Nat, NEW rIn \in Nat \ {0}, NEW rOut \in Nat \ {0},
         NEW out, out = GetAmountOut(amount, rIn, rOut)
  PROVE  /\ out \in Nat /\ out < rOut
         /\ out * (rIn * Bps) <= (amount * (Bps - FeeBps)) * (rOut - out)
<1> DEFINE f == amount * (Bps - FeeBps)
           d == rIn * Bps + f
<1>1. Bps - FeeBps \in Nat \ {0} /\ Bps \in Nat \ {0}
  BY UnitsAssumption, PairAssumption
<1>2. f \in Nat
  <2> DEFINE g == Bps - FeeBps
  <2> HIDE DEF g
  <2>1. g \in Nat
    BY <1>1 DEF g
  <2>2. amount * g \in Nat
    BY <2>1
  <2>. QED  BY <2>2 DEF g
<1>3. out = (f * rOut) \div d
  BY DEF GetAmountOut
<1> HIDE DEF f
<1>4. rIn * Bps \in Nat \ {0} /\ f * rOut \in Nat
  BY <1>1, <1>2, TimesPositive
<1>5. d \in Nat \ {0} /\ d = rIn * Bps + f
  BY <1>2, <1>4
<1> HIDE DEF d
<1>6. out \in Nat /\ out * d <= f * rOut
  BY <1>3, <1>4, <1>5, DivRoundsDown
<1>7. out * d = out * (rIn * Bps) + out * f /\ out * f \in Nat /\ out * (rIn * Bps) \in Nat
  <2> DEFINE c == rIn * Bps
  <2>1. c \in Nat /\ d = c + f
    BY <1>4, <1>5
  <2> HIDE DEF c
  <2>2. out * d = out * c + out * f /\ out * f \in Nat /\ out * c \in Nat
    BY <1>2, <1>6, <2>1
  <2>. QED  BY <2>2 DEF c
<1>8. f * (rOut - out) = f * rOut - out * f
  BY <1>2, <1>6
<1>9. out < rOut
  <2> SUFFICES ASSUME rOut <= out
               PROVE  FALSE
    BY <1>6
  <2>1. rOut * f <= out * f
    BY <1>2, <1>6, TimesMonotonic
  <2>2. out * (rIn * Bps) \in Nat \ {0}
    <3>1. out \in Nat \ {0}
      BY <1>6
    <3>. QED  BY <1>4, <3>1, TimesPositive
  <2>3. rOut * f = f * rOut
    BY <1>2
  <2>. QED  BY <1>4, <1>6, <1>7, <2>1, <2>2, <2>3
<1>10. out * (rIn * Bps) <= f * (rOut - out)
  <2>1. f * (rOut - out) \in Int
    BY <1>2, <1>6
  <2>. QED  BY <1>4, <1>6, <1>7, <1>8, <2>1
<1>. QED  BY <1>6, <1>9, <1>10 DEF f

\* Without the fee.
LEMMA OutputIsBounded ==
  ASSUME NEW amount \in Nat \ {0}, NEW rIn \in Nat \ {0}, NEW rOut \in Nat \ {0},
         NEW out, out = GetAmountOut(amount, rIn, rOut)
  PROVE  /\ out \in Nat
         /\ out < rOut
         /\ out * rIn <= (rOut - out) * amount
<1> DEFINE f == amount * (Bps - FeeBps)
<1>1. f \in Nat \ {0} /\ f <= amount * Bps /\ Bps \in Nat \ {0}
  BY FeeIsTaken, UnitsAssumption
<1>2. out \in Nat /\ out < rOut /\ out * (rIn * Bps) <= f * (rOut - out)
  BY OutputType
<1> HIDE DEF f
<1>3. f * (rOut - out) <= (amount * Bps) * (rOut - out)
  BY <1>1, <1>2, TimesKeeps
<1>4. out * (rIn * Bps) = (out * rIn) * Bps
  BY <1>1, <1>2
<1>5. (amount * Bps) * (rOut - out) = ((rOut - out) * amount) * Bps
  BY <1>1, <1>2
<1>6. /\ out * (rIn * Bps) \in Int /\ f * (rOut - out) \in Int
      /\ out * rIn \in Int /\ (rOut - out) * amount \in Int
      /\ (amount * Bps) * (rOut - out) \in Int
  BY <1>1, <1>2
<1>7. (out * rIn) * Bps <= ((rOut - out) * amount) * Bps
  BY <1>2, <1>3, <1>4, <1>5, <1>6
<1>8. out * rIn <= (rOut - out) * amount
  BY <1>1, <1>6, <1>7, TimesCancels
<1>. QED  BY <1>2, <1>8

\* A step of the pair: what it is loaded with is positive, and a swap raises
\* the product of what is left.
LEMMA SwapKeepsProduct ==
  ASSUME NEW amount \in Nat \ {0}, NEW rIn \in Nat \ {0}, NEW rOut \in Nat \ {0},
         NEW out \in Nat, out < rOut, out * rIn <= (rOut - out) * amount
  PROVE  /\ rIn * rOut \in Nat
         /\ (rIn + amount) * (rOut - out) \in Nat
         /\ rIn * rOut <= (rIn + amount) * (rOut - out)
<1>1. (rIn + amount) * (rOut - out) = rIn * rOut - out * rIn + (rOut - out) * amount
  BY SMT
<1>2. /\ rIn * rOut \in Nat
      /\ out * rIn \in Nat
      /\ (rOut - out) * amount \in Nat
      /\ (rIn + amount) * (rOut - out) \in Nat
  BY TimesMonotonic
<1>. QED  BY <1>1, <1>2

-----------------------------------------------------------------------------
(* The pair *)

\* Products are numbers only because the reserves are: the invariant of the
\* proof adds their types to the property, and that a pair that was not loaded
\* has no reserves.
SwapInv ==
  /\ PairTypeOK
  /\ SwapIsSound
  /\ loaded[0] > 0 \/ reserve[0] = 0

\* Before a pair is loaded there is nothing to lose.
LEMMA PairStarts == PairInit => SwapInv
  BY DEF PairInit, SwapInv, PairTypeOK, SwapIsSound, Sides

\* Loading a pair starts its product anew.
LEMMA LoadKeepsSwapInv ==
  ASSUME NEW r0 \in Reserves, NEW r1 \in Reserves, SwapInv, LoadPair(r0, r1)
  PROVE  SwapInv'
<1>1. r0 \in Nat \ {0} /\ r1 \in Nat \ {0}
  BY PairAssumption
<1>2. reserve'[0] = r0 /\ reserve'[1] = r1 /\ loaded' = reserve'
  BY DEF LoadPair, Sides
<1>3. PairTypeOK'
  BY <1>1, <1>2 DEF LoadPair, PairTypeOK, Sides
<1>4. r0 * r1 \in Nat
  BY <1>1, TimesPositive
<1>. QED  BY <1>1, <1>2, <1>3, <1>4 DEF SwapInv, SwapIsSound

\* A swap pays out less than the rest of the reserve, and the product grows.
LEMMA SwapKeepsSwapInv ==
  ASSUME NEW in \in Sides, NEW amount \in Nat \ {0}, SwapInv, SimulateSwap(in, amount)
  PROVE  SwapInv'
<1> DEFINE rIn == reserve[in]
           rOut == reserve[1 - in]
           out == GetAmountOut(amount, rIn, rOut)
<1>1. in \in {0, 1} /\ 1 - in \in {0, 1} /\ 1 - in # in
  BY DEF Sides
<1>2. rIn \in Nat \ {0} /\ rOut \in Nat \ {0}
  BY <1>1 DEF SwapInv, PairTypeOK, SimulateSwap, Sides
<1>3. out \in Nat /\ out < rOut /\ out * rIn <= (rOut - out) * amount
  BY <1>2, OutputIsBounded
<1>4. /\ reserve'[in] = rIn + amount
      /\ reserve'[1 - in] = rOut - out
      /\ reserve' \in [Sides -> Nat]
      /\ loaded' = loaded
  <2> HIDE DEF out
  <2>1. reserve' = ApplySwap(in, amount, out) /\ loaded' = loaded
    BY DEF SimulateSwap, out
  <2>. QED  BY <1>1, <1>2, <1>3, <2>1 DEF ApplySwap, Sides
<1>5. /\ rIn * rOut \in Nat
      /\ reserve'[in] * reserve'[1 - in] \in Nat
      /\ rIn * rOut <= reserve'[in] * reserve'[1 - in]
  <2> HIDE DEF rIn, rOut, out
  <2>. QED  BY <1>2, <1>3, <1>4, SwapKeepsProduct
<1>6. /\ reserve[0] * reserve[1] = rIn * rOut
      /\ reserve'[0] * reserve'[1] = reserve'[in] * reserve'[1 - in]
  <2>1. CASE in = 0
    BY <2>1
  <2>2. CASE in = 1
    BY <1>2, <1>4, <2>2 DEF SwapInv, PairTypeOK, Sides
  <2>. QED  BY <1>1, <2>1, <2>2
<1>7. loaded[0] * loaded[1] \in Nat /\ loaded[0] * loaded[1] <= rIn * rOut
  <2>1. loaded[0] \in Nat /\ loaded[1] \in Nat
    BY DEF SwapInv, PairTypeOK, Sides
  <2>2. loaded[0] * loaded[1] \in Nat
    BY <2>1, TimesMonotonic
  <2>3. reserve[0] * reserve[1] >= loaded[0] * loaded[1]
    BY DEF SwapInv, SwapIsSound
  <2>. QED  BY <1>5, <1>6, <2>2, <2>3
<1>8. reserve'[0] * reserve'[1] >= loaded'[0] * loaded'[1]
  <2> HIDE DEF rIn, rOut, out
  <2>. QED  BY <1>4, <1>5, <1>6, <1>7
<1>9. reserve'[0] > 0 /\ reserve'[1] > 0
  <2> HIDE DEF rIn, rOut, out
  <2>1. reserve'[in] > 0 /\ reserve'[1 - in] > 0
    BY <1>2, <1>3, <1>4
  <2>. QED  BY <1>1, <2>1
<1>10. loaded'[0] > 0
  BY <1>4 DEF SwapInv, SimulateSwap
<1>. QED  BY <1>4, <1>8, <1>9, <1>10 DEF SwapInv, PairTypeOK, SwapIsSound, Sides

\* All states that loads and swaps reach keep SwapInv.
LEMMA SwapInvHolds == PairSpec => []SwapInv
<1>1. ASSUME SwapInv, [PairNext]_pairVars
      PROVE  SwapInv'
  <2>1. ASSUME NEW r0 \in Reserves, NEW r1 \in Reserves, LoadPair(r0, r1)
        PROVE  SwapInv'
    BY <1>1, <2>1, LoadKeepsSwapInv
  <2>2. ASSUME NEW in \in Sides, NEW amount \in 1..MaxSwap, SimulateSwap(in, amount)
        PROVE  SwapInv'
    <3>1. amount \in Nat \ {0}
      OBVIOUS
    <3>. QED  BY <1>1, <2>2, <3>1, SwapKeepsSwapInv
  <2>3. ASSUME UNCHANGED pairVars
        PROVE  SwapInv'
    BY <1>1, <2>3 DEF pairVars, SwapInv, PairTypeOK, SwapIsSound
  <2>. QED  BY <1>1, <2>1, <2>2, <2>3 DEF PairNext
<1>. QED  BY PairStarts, <1>1, PTL DEF PairSpec

\* Reserves stay natural numbers, and nobody takes anything out of a pool by
\* swapping, for every fee, amount and number of swaps.
THEOREM SwapsAreSound == PairSpec => [](PairTypeOK /\ SwapIsSound)
<1>1. SwapInv => PairTypeOK /\ SwapIsSound
  BY DEF SwapInv
<1>. QED  BY SwapInvHolds, <1>1, PTL

-----------------------------------------------------------------------------
(* Payments *)

\* An amount buys `out' exactly when the constant product, cleared of its
\* quotients, says so: rounding does not change that.
LEMMA OutputReaches ==
  ASSUME NEW amount \in Nat \ {0}, NEW rIn \in Nat \ {0}, NEW rOut \in Nat \ {0},
         NEW out \in Nat \ {0}, out < rOut
  PROVE  LET asked == rIn * out * Bps
             given == amount * ((rOut - out) * (Bps - FeeBps))
         IN  /\ asked <= given => out <= GetAmountOut(amount, rIn, rOut)
             /\ given < asked => GetAmountOut(amount, rIn, rOut) < out
<1> DEFINE g == Bps - FeeBps
           f == amount * g
           d == rIn * Bps + f
           asked == rIn * out * Bps
           given == amount * ((rOut - out) * g)
<1>1. /\ g \in Nat \ {0}
      /\ f \in Nat \ {0}
      /\ Bps \in Nat \ {0}
  BY FeeIsTaken, UnitsAssumption
<1>2. GetAmountOut(amount, rIn, rOut) = (f * rOut) \div d
  BY DEF GetAmountOut
<1> HIDE DEF g
<1>3. rIn * Bps \in Nat \ {0} /\ f * rOut \in Nat \ {0}
  BY <1>1, TimesPositive
<1> HIDE DEF f
<1>4. d \in Nat \ {0}
  BY <1>1, <1>3
<1>5. out * d = asked + f * out
  BY <1>1
<1>6. given = f * rOut - f * out
  <2>1. given = f * (rOut - out)
    BY <1>1 DEF f
  <2>. QED  BY <1>1, <2>1
<1>7. f * out \in Nat /\ asked \in Nat /\ given \in Int
  <2>1. f * out \in Nat /\ rIn * out \in Nat \ {0}
    BY <1>1, TimesPositive
  <2>2. (rIn * out) * Bps \in Nat
    BY <1>1, <2>1, TimesPositive
  <2>. QED  BY <1>3, <1>6, <2>1, <2>2
<1>8. /\ asked <= given => out * d <= f * rOut
      /\ given < asked => f * rOut < out * d
  <2> HIDE DEF d, asked, given
  <2>. QED  BY <1>3, <1>5, <1>6, <1>7
<1>9. /\ out * d <= f * rOut => out <= (f * rOut) \div d
      /\ f * rOut < out * d => (f * rOut) \div d < out
  <2> HIDE DEF d
  <2>. QED  BY <1>3, <1>4, DivCompares
<1>. QED  BY <1>2, <1>8, <1>9 DEF g

\* getAmountIn asks for enough, and for at most one unit too many.
LEMMA PaymentBuys ==
  ASSUME NEW rIn \in Nat \ {0}, NEW rOut \in Nat \ {0}, NEW out \in Nat \ {0}, out < rOut,
         NEW paid, paid = GetAmountIn(out, rIn, rOut)
  PROVE  /\ paid \in Nat \ {0}
         /\ GetAmountOut(paid, rIn, rOut) >= out
         /\ paid > 2 => GetAmountOut(paid - 2, rIn, rOut) < out
<1> DEFINE g == Bps - FeeBps
           den == (rOut - out) * g
           asked == rIn * out * Bps
           q == asked \div den
<1>1. g \in Nat \ {0} /\ Bps \in Nat \ {0}
  BY UnitsAssumption, PairAssumption
<1>2. den \in Nat \ {0} /\ asked \in Nat
  <2>1. rOut - out \in Nat \ {0}
    OBVIOUS
  <2>2. rIn * out \in Nat \ {0}
    BY TimesPositive
  <2>3. (rIn * out) * Bps \in Nat \ {0}
    BY <1>1, <2>2, TimesPositive
  <2> HIDE DEF g
  <2>. QED  BY <1>1, <2>1, <2>3, TimesPositive
<1>3. paid = q + 1
  BY DEF GetAmountIn
<1>4. q \in Nat /\ q * den <= asked /\ asked < q * den + den
  <2> HIDE DEF den, asked
  <2>. QED  BY <1>2, DivRoundsDown
<1>5. paid \in Nat \ {0}
  <2> HIDE DEF q
  <2>. QED  BY <1>3, <1>4
<1>6. asked <= paid * den
  <2> HIDE DEF den, asked, q
  <2>1. paid * den = q * den + den
    BY <1>2, <1>3, <1>4
  <2>2. q * den \in Nat
    BY <1>2, <1>4, TimesMonotonic
  <2>. QED  BY <1>2, <1>4, <2>1, <2>2
<1>7. GetAmountOut(paid, rIn, rOut) >= out
  <2>1. out <= GetAmountOut(paid, rIn, rOut)
    BY <1>5, <1>6, OutputReaches
  <2>2. GetAmountOut(paid, rIn, rOut) \in Nat
    BY <1>5, OutputIsBounded
  <2>. QED  BY <2>1, <2>2
<1>8. ASSUME paid > 2
      PROVE  GetAmountOut(paid - 2, rIn, rOut) < out
  <2>1. paid - 2 \in Nat \ {0}
    BY <1>5, <1>8
  <2>2. (paid - 2) * den < asked
    <3> HIDE DEF den, asked, q
    <3>1. (paid - 2) * den = q * den - den
      BY <1>2, <1>3, <1>4
    <3>2. q * den \in Nat
      BY <1>2, <1>4, TimesMonotonic
    <3>. QED  BY <1>2, <1>4, <3>1, <3>2
  <2>. QED  BY <2>1, <2>2, OutputReaches
<1>. QED  BY <1>5, <1>7, <1>8

\* On a pool that was loaded, in both directions.
LEMMA PaymentsSuffice ==
  ASSUME SwapInv, reserve[0] > 0, NEW in \in Sides
  PROVE  PaymentIsEnough(in)
<1>1. reserve[in] \in Nat \ {0} /\ reserve[1 - in] \in Nat \ {0}
  BY DEF SwapInv, SwapIsSound, PairTypeOK, Sides
<1> SUFFICES ASSUME NEW out \in 1..(reserve[1 - in] - 1)
             PROVE  LET paid == GetAmountIn(out, reserve[in], reserve[1 - in])
                    IN  /\ GetAmountOut(paid, reserve[in], reserve[1 - in]) >= out
                        /\ paid > 2 =>
                             GetAmountOut(paid - 2, reserve[in], reserve[1 - in]) < out
  BY DEF PaymentIsEnough
<1>2. out \in Nat \ {0} /\ out < reserve[1 - in]
  BY <1>1
<1>. QED  BY <1>1, <1>2, PaymentBuys

-----------------------------------------------------------------------------
(* The largest size *)

\* The loop of findMaxSizeForImpact, for a set W of the sizes that keep the
\* impact.
Mid(s) == (s.lo + s.hi + 1) \div 2
Half(g, W, s) == IF s.lo >= s.hi THEN s.lo
                 ELSE IF Mid(s) \in W THEN g[[s EXCEPT !.lo = Mid(s)]]
                 ELSE g[[s EXCEPT !.hi = Mid(s) - 1]]
Searches(g, W, r) == g = [s \in Ranges(r) |-> Half(g, W, s)]

\* A half of a range is a shorter range.
LEMMA Halves ==
  ASSUME NEW r \in Nat, NEW s \in Ranges(r), s.lo < s.hi
  PROVE  LET upper == [s EXCEPT !.lo = Mid(s)]
             lower == [s EXCEPT !.hi = Mid(s) - 1]
         IN  /\ Mid(s) \in 1..r
             /\ upper \in Ranges(r) /\ upper.lo = Mid(s) /\ upper.hi = s.hi
             /\ lower \in Ranges(r) /\ lower.lo = s.lo /\ lower.hi = Mid(s) - 1
             /\ s.lo < Mid(s) /\ Mid(s) <= s.hi
<1>1. s.lo \in 1..r /\ s.hi \in 0..r
  BY DEF Ranges
<1>2. Mid(s) \in Int /\ 2 * Mid(s) <= s.lo + s.hi + 1 /\ s.lo + s.hi + 1 < 2 * Mid(s) + 2
  BY <1>1 DEF Mid
<1>3. s.lo < Mid(s) /\ Mid(s) <= s.hi
  BY <1>1, <1>2
<1>4. Mid(s) \in 1..r /\ Mid(s) - 1 \in 0..r
  BY <1>1, <1>2, <1>3
<1>. QED  BY <1>1, <1>3, <1>4 DEF Ranges

\* There is such a function.
LEMMA SearchExists ==
  ASSUME NEW r \in Nat, NEW W
  PROVE  \E g : Searches(g, W, r)
<1> DEFINE R == Ranges(r)
           Short(n) == {s \in R : s.hi - s.lo <= n}
           A == {n \in Nat : \E g : \A s \in Short(n) : g[s] = Half(g, W, s)}
<1>1. \A s \in R : s.lo \in Int /\ s.hi \in Int /\ s.hi - s.lo <= r
  BY DEF Ranges
<1>2. 0 \in A
  <2> DEFINE g == [s \in R |-> s.lo]
  <2>1. \A s \in Short(0) : s \in R /\ s.lo >= s.hi
    BY <1>1
  <2>2. \A s \in Short(0) : g[s] = Half(g, W, s)
    BY <2>1 DEF Half
  <2>. QED  BY <2>2
<1>3. ASSUME NEW n \in A
      PROVE  n + 1 \in A
  <2>1. PICK g : \A s \in Short(n) : g[s] = Half(g, W, s)
    OBVIOUS
  <2> DEFINE h == [s \in R |-> Half(g, W, s)]
  <2>2. ASSUME NEW s \in Short(n + 1)
        PROVE  h[s] = Half(h, W, s)
    <3>1. s \in R /\ h[s] = Half(g, W, s) /\ s.hi - s.lo <= n + 1 /\ n \in Nat
      OBVIOUS
    <3>2. CASE s.lo >= s.hi
      BY <3>1, <3>2 DEF Half
    <3>3. CASE s.lo < s.hi
      <4> DEFINE upper == [s EXCEPT !.lo = Mid(s)]
                 lower == [s EXCEPT !.hi = Mid(s) - 1]
      <4>1. /\ upper \in R /\ upper.lo = Mid(s) /\ upper.hi = s.hi
            /\ lower \in R /\ lower.lo = s.lo /\ lower.hi = Mid(s) - 1
            /\ s.lo < Mid(s) /\ Mid(s) <= s.hi /\ Mid(s) \in Int
        BY <3>3, Halves
      <4> HIDE DEF upper, lower
      <4>2. upper \in Short(n) /\ lower \in Short(n)
        BY <1>1, <3>1, <4>1
      <4>3. h[upper] = g[upper] /\ h[lower] = g[lower]
        BY <2>1, <4>2
      <4>. QED
        BY <3>1, <3>3, <4>3 DEF Half, upper, lower
    <3>. QED  BY <1>1, <3>1, <3>2, <3>3
  <2>3. n + 1 \in Nat
    OBVIOUS
  <2> HIDE DEF h
  <2>. QED  BY <2>2, <2>3
<1>4. A = Nat
  <2>1. A \in SUBSET Nat
    OBVIOUS
  <2> HIDE DEF A
  <2>. QED  BY <1>2, <1>3, <2>1, Induction
<1>5. PICK g : \A s \in Short(r) : g[s] = Half(g, W, s)
  <2>1. r \in A
    BY <1>4
  <2>. QED  BY <2>1
<1> DEFINE f == [s \in R |-> g[s]]
<1>6. \A s \in R : f[s] = Half(f, W, s)
  <2> SUFFICES ASSUME NEW s \in R
               PROVE  f[s] = Half(f, W, s)
    OBVIOUS
  <2>1. f[s] = Half(g, W, s)
    BY <1>1, <1>5
  <2>2. CASE s.lo >= s.hi
    BY <2>1, <2>2 DEF Half
  <2>3. CASE s.lo < s.hi
    <3>1. [s EXCEPT !.lo = Mid(s)] \in R /\ [s EXCEPT !.hi = Mid(s) - 1] \in R
      BY <2>3, Halves
    <3>. QED  BY <2>1, <3>1 DEF Half
  <2>. QED  BY <1>1, <2>2, <2>3
<1>7. f = [s \in R |-> Half(f, W, s)]
  BY <1>6
<1>. QED  BY <1>7 DEF Searches

\* What the loop ends with is in W, and the size after it is not: it keeps that
\* of lo and of hi + 1.
LEMMA SearchFinds ==
  ASSUME NEW r \in Nat, NEW W, NEW g, Searches(g, W, r),
         NEW s \in Ranges(r), s.lo <= s.hi, s.lo \in W, s.hi = r \/ s.hi + 1 \notin W
  PROVE  g[s] \in 1..r /\ g[s] \in W /\ (g[s] = r \/ g[s] + 1 \notin W)
<1> DEFINE Good(t) == t.lo <= t.hi /\ t.lo \in W /\ (t.hi = r \/ t.hi + 1 \notin W)
           Found(x) == x \in 1..r /\ x \in W /\ (x = r \/ x + 1 \notin W)
           A == {n \in Nat : \A t \in Ranges(r) : Good(t) /\ t.hi - t.lo <= n => Found(g[t])}
<1>1. ASSUME NEW t \in Ranges(r)
      PROVE  g[t] = Half(g, W, t) /\ t.lo \in 1..r /\ t.hi \in 0..r
  <2>1. g[t] = Half(g, W, t)
    BY DEF Searches
  <2>. QED  BY <2>1 DEF Ranges
<1>2. 0 \in A
  <2>1. ASSUME NEW t \in Ranges(r), Good(t), t.hi - t.lo <= 0
        PROVE  Found(g[t])
    <3>1. t.lo = t.hi /\ t.lo \in 1..r /\ t.lo >= t.hi
      BY <1>1, <2>1
    <3> HIDE DEF Found
    <3>2. g[t] = t.lo
      BY <1>1, <3>1 DEF Half
    <3>. QED  BY <2>1, <3>1, <3>2 DEF Found
  <2>. QED  BY <2>1
<1>3. ASSUME NEW n \in A
      PROVE  n + 1 \in A
  <2>1. ASSUME NEW t \in Ranges(r), Good(t), t.hi - t.lo <= n + 1
        PROVE  Found(g[t])
    <3>1. CASE t.lo >= t.hi
      <4>1. t.lo = t.hi /\ t.lo \in 1..r
        BY <1>1, <2>1, <3>1
      <4> HIDE DEF Found
      <4>2. g[t] = t.lo
        BY <1>1, <3>1 DEF Half
      <4>. QED  BY <2>1, <4>1, <4>2 DEF Found
    <3>2. CASE t.lo < t.hi
      <4> DEFINE upper == [t EXCEPT !.lo = Mid(t)]
                 lower == [t EXCEPT !.hi = Mid(t) - 1]
      <4>1. /\ upper \in Ranges(r) /\ upper.lo = Mid(t) /\ upper.hi = t.hi
            /\ lower \in Ranges(r) /\ lower.lo = t.lo /\ lower.hi = Mid(t) - 1
            /\ t.lo < Mid(t) /\ Mid(t) <= t.hi /\ Mid(t) \in Int
        BY <3>2, Halves
      <4>2. g[t] = IF Mid(t) \in W THEN g[upper] ELSE g[lower]
        BY <1>1, <3>2 DEF Half
      <4> HIDE DEF upper, lower, Found
      <4>3. n \in Nat /\ t.lo \in Int /\ t.hi \in Int
        BY <1>1
      <4>4. \A u \in Ranges(r) : Good(u) /\ u.hi - u.lo <= n => Found(g[u])
        OBVIOUS
      <4>5. CASE Mid(t) \in W
        <5>1. Good(upper) /\ upper.hi - upper.lo <= n
          BY <2>1, <4>1, <4>3, <4>5
        <5>. QED  BY <4>1, <4>2, <4>4, <4>5, <5>1
      <4>6. CASE Mid(t) \notin W
        <5>1. Mid(t) - 1 + 1 = Mid(t)
          BY <4>1
        <5>2. Good(lower) /\ lower.hi - lower.lo <= n
          BY <2>1, <4>1, <4>3, <4>6, <5>1
        <5>. QED  BY <4>1, <4>2, <4>4, <4>6, <5>2
      <4>. QED  BY <4>5, <4>6
    <3>. QED  BY <1>1, <3>1, <3>2
  <2>2. n + 1 \in Nat
    OBVIOUS
  <2>. QED  BY <2>1, <2>2
<1>4. A = Nat
  <2>1. A \in SUBSET Nat
    OBVIOUS
  <2> HIDE DEF A
  <2>. QED  BY <1>2, <1>3, <2>1, Induction
<1>5. r \in A /\ s.hi - s.lo <= r
  BY <1>1, <1>4
<1>. QED  BY <1>5

\* What a swap pays, by the quotient that it is: the amount with its fee, and the
\* divisor.
LEMMA OutputIs ==
  ASSUME NEW amount \in Nat \ {0}, NEW rIn \in Nat \ {0}, NEW rOut \in Nat \ {0}
  PROVE  LET g == Bps - FeeBps
             d == rIn * Bps + amount * g
             out == GetAmountOut(amount, rIn, rOut)
         IN  /\ g \in Nat \ {0} /\ rIn * Bps \in Nat \ {0} /\ amount * g \in Nat \ {0}
             /\ d \in Nat \ {0} /\ out \in Nat
             /\ out * d <= (amount * g) * rOut
             /\ (amount * g) * rOut < (out + 1) * d
<1> DEFINE g == Bps - FeeBps
           f == amount * g
           d == rIn * Bps + f
           out == GetAmountOut(amount, rIn, rOut)
<1>1. g \in Nat \ {0} /\ f \in Nat \ {0} /\ Bps \in Nat \ {0}
  BY FeeIsTaken, UnitsAssumption
<1>2. out = (f * rOut) \div d
  BY DEF GetAmountOut
<1> HIDE DEF f, out
<1>3. rIn * Bps \in Nat \ {0} /\ f * rOut \in Nat \ {0}
  BY <1>1, TimesPositive
<1>4. d \in Nat \ {0}
  BY <1>1, <1>3
<1> HIDE DEF d
<1>5. out \in Nat /\ out * d <= f * rOut /\ f * rOut < out * d + d
  BY <1>2, <1>3, <1>4, DivRoundsDown
<1>6. (out + 1) * d = out * d + d
  BY <1>4, <1>5
<1>. QED  BY <1>1, <1>3, <1>4, <1>5, <1>6 DEF d, f, out

\* Where one unit buys something, so does every size up to the reserves, and
\* what it buys has a price: three units of output are no less than the size.
LEMMA SizesHaveImpact ==
  ASSUME NEW rIn \in Nat \ {0}, NEW rOut \in Nat \ {0}, HasImpact(1, rIn, rOut),
         NEW a \in 1..rIn
  PROVE  HasImpact(a, rIn, rOut)
<1> DEFINE g == Bps - FeeBps
           base == rIn * Bps
           unit == GetAmountOut(1, rIn, rOut)
           out == GetAmountOut(a, rIn, rOut)
<1>1. SpotScale \in Nat /\ SpotScale > 2 /\ a \in Nat \ {0} /\ a <= rIn
  BY PairAssumption
<1>2. /\ g \in Nat \ {0} /\ base \in Nat \ {0} /\ a * g \in Nat \ {0} /\ out \in Nat
      /\ (a * g) * rOut < (out + 1) * (base + a * g)
  BY <1>1, OutputIs
<1>3. /\ unit \in Nat
      /\ unit * (base + 1 * g) <= (1 * g) * rOut
  BY OutputIs
<1>4. unit # 0
  <2>1. (unit * SpotScale) \div 1 > 0
    BY DEF HasImpact, ExecutionPrice
  <2> HIDE DEF unit
  <2>2. unit * SpotScale \in Nat
    BY <1>1, <1>3
  <2>3. unit * SpotScale > 0
    BY <2>1, <2>2
  <2>4. 0 * SpotScale = 0
    BY <1>1
  <2>. QED  BY <2>3, <2>4
<1>5. a * g <= base
  <2>1. g <= Bps /\ Bps \in Nat
    BY UnitsAssumption, PairAssumption
  <2>2. a * g <= rIn * g
    BY <1>1, <1>2, TimesMonotonic
  <2>3. g * rIn <= Bps * rIn
    BY <1>2, <2>1, TimesMonotonic
  <2> HIDE DEF g
  <2>4. g * rIn = rIn * g /\ Bps * rIn = rIn * Bps /\ rIn * g \in Nat
    BY <1>2, <2>1
  <2>. QED  BY <1>2, <2>1, <2>2, <2>3, <2>4
<1> HIDE DEF g, base, unit, out
<1>6. base + g <= g * rOut
  <2>1. 1 * g = g
    BY <1>2
  <2>2. base + g \in Nat /\ 1 <= unit
    BY <1>2, <1>3, <1>4
  <2> DEFINE d == base + g
  <2>3. 1 * d <= unit * d /\ unit * d <= g * rOut /\ d \in Nat
    BY <1>3, <2>1, <2>2, TimesMonotonic
  <2>4. unit * d \in Int /\ g * rOut \in Int
    BY <1>2, <1>3, <2>3
  <2> HIDE DEF d
  <2>5. d <= g * rOut
    BY <2>3, <2>4
  <2>. QED  BY <2>5 DEF d
<1> DEFINE f == a * g
<1>7. a * (base + g) <= f * rOut
  <2>1. (base + g) * a <= (g * rOut) * a
    BY <1>1, <1>2, <1>6, TimesKeeps
  <2>2. (g * rOut) * a = (a * g) * rOut /\ (base + g) * a = a * (base + g)
    BY <1>1, <1>2
  <2>. QED  BY <2>1, <2>2
<1>8. a * (base + g) = a * base + f /\ a * base \in Nat
  BY <1>1, <1>2
<1>9. f \in Nat \ {0} /\ f <= base /\ f * rOut \in Nat /\ f * rOut < (out + 1) * (base + f)
  BY <1>2, <1>5
<1> HIDE DEF f
<1>10. a * base + f < (out + 1) * (base + f)
  <2>1. (out + 1) * (base + f) \in Int
    BY <1>2, <1>9
  <2> DEFINE bound == (out + 1) * (base + f)
             all == a * (base + g)
             most == f * rOut
  <2>2. bound \in Int /\ all \in Int /\ most \in Int /\ all <= most /\ most < bound
    BY <1>7, <1>8, <1>9, <2>1
  <2> HIDE DEF bound, all, most
  <2>3. all < bound
    BY <2>2
  <2>. QED  BY <1>8, <2>3 DEF bound, all
<1>11. out # 0
  <2> SUFFICES ASSUME out = 0
               PROVE  FALSE
    OBVIOUS
  <2>1. (out + 1) * (base + f) = base + f
    BY <1>2, <1>9
  <2>2. 1 * base <= a * base
    BY <1>1, <1>2, TimesMonotonic
  <2>. QED  BY <1>2, <1>8, <1>9, <1>10, <2>1, <2>2
<1>12. a < 2 * (out + 1)
  <2>1. base + f <= 2 * base /\ base + f \in Int /\ 2 * base \in Int /\ out + 1 \in Nat
    BY <1>2, <1>9
  <2>2. (base + f) * (out + 1) <= (2 * base) * (out + 1)
    BY <2>1, TimesKeeps
  <2>3. (base + f) * (out + 1) = (out + 1) * (base + f)
        /\ (2 * base) * (out + 1) = (2 * (out + 1)) * base
    BY <1>2, <1>9
  <2>4. a * base < (2 * (out + 1)) * base
    <3>1. (out + 1) * (base + f) \in Int /\ (2 * (out + 1)) * base \in Int
      BY <1>2, <1>9
    <3>. QED  BY <1>8, <1>9, <1>10, <2>2, <2>3, <3>1
  <2>. QED  BY <1>1, <1>2, <2>4, TimesCancelsLess
<1>13. a <= 3 * out
  BY <1>1, <1>2, <1>11, <1>12
<1>14. 3 * out <= SpotScale * out /\ SpotScale * out = out * SpotScale /\ out * SpotScale \in Nat
  <2>1. 3 \in Nat /\ 3 <= SpotScale
    BY <1>1
  <2>2. 3 * out <= SpotScale * out
    BY <1>1, <1>2, <2>1, TimesMonotonic
  <2>. QED  BY <1>1, <1>2, <2>2
<1>15. 1 * a <= out * SpotScale
  BY <1>1, <1>2, <1>13, <1>14
<1>16. 1 <= (out * SpotScale) \div a
  BY <1>1, <1>14, <1>15, DivCompares
<1>17. (out * SpotScale) \div a \in Nat
  BY <1>1, <1>14, DivRoundsDown
<1>. QED  BY <1>16, <1>17 DEF HasImpact, ExecutionPrice, out

\* Where one unit buys something the spot price is positive, and every payment
\* has an impact that can be compared.
LEMMA ImpactIsNumber ==
  ASSUME NEW rIn \in Nat \ {0}, NEW rOut \in Nat \ {0}, HasImpact(1, rIn, rOut),
         NEW a \in Nat \ {0}, NEW paid \in Nat
  PROVE  /\ SpotPrice(rIn, rOut) \in Nat \ {0}
         /\ ExecutionPrice(a, paid) \in Nat
         /\ ImpactBps(a, paid, rIn, rOut) \in Int
<1>1. SpotScale \in Nat \ {0} /\ Bps \in Nat \ {0}
  BY UnitsAssumption, PairAssumption
<1> DEFINE spot == SpotPrice(rIn, rOut)
           unit == GetAmountOut(1, rIn, rOut)
           price == ExecutionPrice(a, paid)
<1>2. spot \in Nat \ {0}
  <2>1. unit \in Nat /\ unit < rOut /\ unit * rIn <= (rOut - unit) * 1
    BY OutputIsBounded
  <2>2. unit # 0
    <3>1. (unit * SpotScale) \div 1 > 0
      BY DEF HasImpact, ExecutionPrice
    <3>2. unit * SpotScale \in Nat
      BY <1>1, <2>1, TimesMonotonic
    <3> HIDE DEF unit
    <3>3. unit * SpotScale > 0
      BY <3>1, <3>2
    <3>4. 0 * SpotScale = 0
      BY <1>1
    <3>. QED  BY <3>3, <3>4
  <2> HIDE DEF unit
  <2>3. 1 * rIn <= unit * rIn /\ unit * rIn \in Nat
    BY <2>1, <2>2, TimesMonotonic
  <2>4. rIn <= rOut
    BY <2>1, <2>3
  <2>5. rIn * SpotScale <= rOut * SpotScale /\ rOut * SpotScale \in Nat
    <3>1. rIn \in Nat /\ rOut \in Nat /\ SpotScale \in Nat
      BY <1>1
    <3>2. rOut * SpotScale \in Nat \ {0}
      BY <1>1, TimesPositive
    <3>. QED  BY <2>4, <3>1, <3>2, TimesMonotonic
  <2>6. SpotScale * rIn <= rOut * SpotScale
    BY <1>1, <2>5
  <2>7. SpotScale <= (rOut * SpotScale) \div rIn
    BY <1>1, <2>5, <2>6, DivCompares
  <2>8. (rOut * SpotScale) \div rIn \in Nat
    BY <2>5, DivRoundsDown
  <2>. QED  BY <1>1, <2>7, <2>8 DEF SpotPrice
<1>3. price \in Nat
  <2>1. paid * SpotScale \in Nat
    BY <1>1, TimesMonotonic
  <2>. QED  BY <2>1, DivRoundsDown DEF ExecutionPrice
<1> HIDE DEF spot, price
<1>4. ((spot - price) * Bps) \div spot \in Int
  <2>1. (spot - price) * Bps \in Int
    BY <1>1, <1>2, <1>3
  <2>. QED  BY <1>2, <2>1
<1>. QED  BY <1>2, <1>3, <1>4 DEF ImpactBps, spot, price

\* A larger amount is paid no better than a smaller one with one unit more: but
\* for rounding, the price of a swap falls with its size.
LEMMA RateFalls ==
  ASSUME NEW rIn \in Nat \ {0}, NEW rOut \in Nat \ {0},
         NEW s \in Nat \ {0}, NEW a \in Nat \ {0}, s <= a
  PROVE  GetAmountOut(a, rIn, rOut) * s <= (GetAmountOut(s, rIn, rOut) + 1) * a
<1> DEFINE g == Bps - FeeBps
           base == rIn * Bps
           small == GetAmountOut(s, rIn, rOut)
           large == GetAmountOut(a, rIn, rOut)
           d == base + s * g
<1>1. /\ g \in Nat \ {0} /\ base \in Nat \ {0} /\ a * g \in Nat \ {0} /\ large \in Nat
      /\ large * (base + a * g) <= (a * g) * rOut
  BY OutputIs
<1>2. /\ s * g \in Nat \ {0} /\ d \in Nat \ {0} /\ small \in Nat
      /\ (s * g) * rOut < (small + 1) * d
  BY OutputIs
<1> HIDE DEF g, base, small, large
<1>3. large * d <= (a * g) * rOut
  <2>1. s * g <= a * g
    BY <1>1, TimesMonotonic
  <2>2. d <= base + a * g /\ base + a * g \in Nat
    BY <1>1, <1>2, <2>1
  <2> HIDE DEF d
  <2>3. d * large <= (base + a * g) * large
    BY <1>1, <1>2, <2>2, TimesMonotonic
  <2>4. d * large = large * d /\ (base + a * g) * large = large * (base + a * g)
    BY <1>1, <1>2, <2>2
  <2>5. (a * g) * rOut \in Nat /\ large * d \in Nat /\ large * (base + a * g) \in Nat
    BY <1>1, <1>2, <2>2
  <2>. QED  BY <1>1, <2>3, <2>4, <2>5
<1> HIDE DEF d
<1>4. (large * d) * s <= ((a * g) * rOut) * s
  BY <1>1, <1>2, <1>3, TimesKeeps
<1>5. ((s * g) * rOut) * a <= ((small + 1) * d) * a
  BY <1>1, <1>2, TimesKeeps
<1>6. ((a * g) * rOut) * s = ((s * g) * rOut) * a
  BY <1>1
<1>7. (large * d) * s = (large * s) * d /\ ((small + 1) * d) * a = ((small + 1) * a) * d
  BY <1>1, <1>2
<1>8. large * s \in Int /\ (small + 1) * a \in Int /\ ((a * g) * rOut) * s \in Int
  BY <1>1, <1>2
<1>9. (large * s) * d <= ((small + 1) * a) * d
  <2>1. (large * s) * d \in Int /\ ((small + 1) * a) * d \in Int
    BY <1>2, <1>8
  <2>. QED  BY <1>4, <1>5, <1>6, <1>7, <1>8, <2>1
<1>10. large * s <= (small + 1) * a
  BY <1>2, <1>8, <1>9, TimesCancels
<1>. QED  BY <1>10 DEF large, small

\* So a larger size with an impact that is allowed would have it allowed for a
\* smaller one too, if that bought one unit more.
LEMMA OneUnitMore ==
  ASSUME NEW rIn \in Nat \ {0}, NEW rOut \in Nat \ {0}, HasImpact(1, rIn, rOut),
         NEW s \in Nat \ {0}, NEW a \in Nat \ {0}, s <= a,
         NEW maxImpact \in Nat, PriceImpactBps(a, rIn, rOut) <= maxImpact
  PROVE  ImpactBps(s, GetAmountOut(s, rIn, rOut) + 1, rIn, rOut) <= maxImpact
<1> DEFINE spot == SpotPrice(rIn, rOut)
           large == GetAmountOut(a, rIn, rOut)
           more == GetAmountOut(s, rIn, rOut) + 1
           low == ExecutionPrice(a, large)
           high == ExecutionPrice(s, more)
<1>1. SpotScale \in Nat \ {0} /\ Bps \in Nat \ {0}
  BY UnitsAssumption, PairAssumption
<1>2. large \in Nat /\ more \in Nat \ {0}
  <2> DEFINE small == GetAmountOut(s, rIn, rOut)
  <2>1. large \in Nat
    BY OutputIs
  <2>2. small \in Nat
    BY OutputIs
  <2> HIDE DEF small
  <2>3. small + 1 \in Nat \ {0}
    BY <2>2
  <2>. QED  BY <2>1, <2>3 DEF small
<1>3. large * s <= more * a
  BY RateFalls
<1> HIDE DEF large, more
<1>4. spot \in Nat \ {0} /\ low \in Nat /\ high \in Nat
  BY <1>2, ImpactIsNumber
<1>5. low * a <= large * SpotScale
  <2>1. large * SpotScale \in Nat
    BY <1>1, <1>2
  <2>. QED  BY <2>1, DivRoundsDown DEF ExecutionPrice
<1> HIDE DEF low, high
<1>6. low * s <= more * SpotScale
  <2>1. (low * a) * s <= (large * SpotScale) * s
    BY <1>1, <1>2, <1>4, <1>5, TimesKeeps
  <2>2. (large * s) * SpotScale <= (more * a) * SpotScale
    BY <1>1, <1>2, <1>3, TimesKeeps
  <2>3. (low * a) * s = (low * s) * a /\ (large * SpotScale) * s = (large * s) * SpotScale
        /\ (more * a) * SpotScale = (more * SpotScale) * a
    BY <1>1, <1>2, <1>4
  <2>4. low * s \in Int /\ more * SpotScale \in Int /\ (large * s) * SpotScale \in Int
        /\ (low * s) * a \in Int /\ (more * SpotScale) * a \in Int
    BY <1>1, <1>2, <1>4
  <2>5. (low * s) * a <= (more * SpotScale) * a
    BY <2>1, <2>2, <2>3, <2>4
  <2>. QED  BY <2>4, <2>5, TimesCancels
<1>7. low <= high
  <2>1. more * SpotScale \in Nat
    BY <1>1, <1>2
  <2>2. low <= (more * SpotScale) \div s
    BY <1>4, <1>6, <2>1, DivCompares
  <2>. QED  BY <2>2 DEF high, ExecutionPrice
<1> DEFINE x == (spot - high) * Bps
           y == (spot - low) * Bps
<1>8. x \in Int /\ y \in Int /\ x <= y
  <2>1. spot - high \in Int /\ spot - low \in Int /\ spot - high <= spot - low
    BY <1>4, <1>7
  <2>. QED  BY <1>1, <2>1, TimesKeeps
<1>9. y \div spot <= maxImpact
  BY DEF PriceImpactBps, ImpactBps, spot, low, large, y
<1> HIDE DEF spot, x, y
<1>10. x \div spot <= y \div spot /\ x \div spot \in Int /\ y \div spot \in Int
  BY <1>4, <1>8, QuotientsKeep
<1>11. x \div spot <= maxImpact
  BY <1>9, <1>10
<1>. QED  BY <1>11 DEF ImpactBps, spot, high, x, more

\* findMaxSizeForImpact is such a search.
Keeping(maxImpact, rIn, rOut) == {a \in Int : PriceImpactBps(a, rIn, rOut) <= maxImpact}

\* Where one unit buys something, findMaxSizeForImpact is a binary search, its
\* predicate being the impact: no size it looks at makes it throw.
LEMMA FindMaxIsSearch ==
  ASSUME NEW rIn \in Nat \ {0}, NEW rOut \in Nat \ {0}, NEW maxImpact, HasImpact(1, rIn, rOut)
  PROVE  \E g : /\ Searches(g, Keeping(maxImpact, rIn, rOut), rIn)
               /\ FindMaxSizeForImpact(maxImpact, rIn, rOut) =
                    IF 1 \in Keeping(maxImpact, rIn, rOut)
                      THEN g[[lo |-> 1, hi |-> rIn]] ELSE 0
<1> DEFINE W == Keeping(maxImpact, rIn, rOut)
           within(a) == PriceImpactBps(a, rIn, rOut) <= maxImpact
           search[s \in Ranges(rIn)] ==
             LET mid == (s.lo + s.hi + 1) \div 2
             IN  IF s.lo >= s.hi THEN s.lo
                 ELSE IF ~HasImpact(mid, rIn, rOut) THEN Throws
                 ELSE IF within(mid) THEN search[[s EXCEPT !.lo = mid]]
                 ELSE search[[s EXCEPT !.hi = mid - 1]]
           Body(g, s) == IF s.lo >= s.hi THEN s.lo
                         ELSE IF ~HasImpact(Mid(s), rIn, rOut) THEN Throws
                         ELSE IF within(Mid(s)) THEN g[[s EXCEPT !.lo = Mid(s)]]
                         ELSE g[[s EXCEPT !.hi = Mid(s) - 1]]
<1>1. \A s \in Ranges(rIn) : within(Mid(s)) <=> Mid(s) \in W
  <2>1. \A s \in Ranges(rIn) : Mid(s) \in Int
    BY DEF Ranges, Mid
  <2>. QED  BY <2>1 DEF Keeping
<1>2. PICK f : Searches(f, W, rIn)
  BY SearchExists
<1>3. \A g : Searches(g, W, rIn) <=> g = [s \in Ranges(rIn) |-> Body(g, s)]
  <2>1. ASSUME NEW g, NEW s \in Ranges(rIn)
        PROVE  Half(g, W, s) = Body(g, s)
    <3>1. CASE s.lo >= s.hi
      BY <3>1 DEF Half
    <3>2. CASE s.lo < s.hi
      <4>1. Mid(s) \in 1..rIn
        BY <3>2, Halves
      <4>2. HasImpact(Mid(s), rIn, rOut)
        BY <4>1, SizesHaveImpact
      <4> HIDE DEF within, W
      <4>. QED  BY <1>1, <4>2 DEF Half
    <3>3. s.lo \in Int /\ s.hi \in Int
      BY DEF Ranges
    <3>. QED  BY <3>1, <3>2, <3>3
  <2> HIDE DEF Body
  <2>2. \A g : \A s \in Ranges(rIn) : Half(g, W, s) = Body(g, s)
    BY <2>1
  <2>. QED  BY <2>2 DEF Searches
<1>4. f = [s \in Ranges(rIn) |-> Body(f, s)]
  BY <1>2, <1>3
<1>5. search = [s \in Ranges(rIn) |-> Body(search, s)]
  BY <1>4 DEF Mid
<1>6. Searches(search, W, rIn)
  <2> HIDE DEF search, Body
  <2>. QED  BY <1>3, <1>5
<1>7. FindMaxSizeForImpact(maxImpact, rIn, rOut) =
        IF within(1) THEN search[[lo |-> 1, hi |-> rIn]] ELSE 0
  BY DEF FindMaxSizeForImpact
<1>8. within(1) <=> 1 \in W
  BY DEF Keeping
<1> HIDE DEF search, within
<1>. QED  BY <1>6, <1>7, <1>8

\* The size found keeps the impact, and the next does not.
LEMMA LargestSize ==
  ASSUME NEW rIn \in Nat \ {0}, NEW rOut \in Nat \ {0}, HasImpact(1, rIn, rOut),
         NEW maxImpact \in Nat,
         NEW size, size = FindMaxSizeForImpact(maxImpact, rIn, rOut)
  PROVE  /\ size \in 0..rIn
         /\ size > 0 => PriceImpactBps(size, rIn, rOut) <= maxImpact
         /\ size < rIn => ~ (PriceImpactBps(size + 1, rIn, rOut) <= maxImpact)
<1> DEFINE W == Keeping(maxImpact, rIn, rOut)
           impact(a) == PriceImpactBps(a, rIn, rOut)
<1>1. \A a \in Nat \ {0} : a \in W <=> impact(a) <= maxImpact
  BY DEF Keeping
<1>2. \E g : Searches(g, W, rIn) /\ size = IF 1 \in W THEN g[[lo |-> 1, hi |-> rIn]] ELSE 0
  BY FindMaxIsSearch
<1> HIDE DEF W, impact
<1>3. PICK g : Searches(g, W, rIn) /\ size = IF 1 \in W THEN g[[lo |-> 1, hi |-> rIn]] ELSE 0
  BY <1>2
<1>4. CASE 1 \in W
  <2> DEFINE s == [lo |-> 1, hi |-> rIn]
  <2>1. s \in Ranges(rIn) /\ s.lo = 1 /\ s.hi = rIn /\ 1 <= rIn
    BY DEF Ranges
  <2> HIDE DEF s
  <2>2. g[s] \in 1..rIn /\ g[s] \in W /\ (g[s] = rIn \/ g[s] + 1 \notin W)
    BY <1>3, <1>4, <2>1, SearchFinds
  <2>3. size = g[s]
    BY <1>3, <1>4 DEF s
  <2>4. size \in Nat \ {0} /\ size + 1 \in Nat \ {0} /\ size \in 0..rIn
    BY <2>2, <2>3
  <2>5. impact(size) <= maxImpact /\ (size < rIn => ~ (impact(size + 1) <= maxImpact))
    BY <1>1, <2>2, <2>3, <2>4
  <2>. QED  BY <2>4, <2>5 DEF impact
<1>5. CASE 1 \notin W
  <2>1. size = 0
    BY <1>3, <1>5
  <2>2. ~ (impact(1) <= maxImpact)
    BY <1>1, <1>5
  <2>. QED  BY <2>1, <2>2 DEF impact
<1>. QED  BY <1>4, <1>5

\* On every pool that swaps lead to, in both directions: the payment asked for
\* an amount buys it.  The search for an impact throws where one unit buys
\* nothing, and else ends with a size that keeps the impact, which is the
\* largest up to the reserves but for one unit of output that rounding takes.
THEOREM QuotesAgreeAlways == PairSpec => []QuotesAgree
<1>1. ASSUME SwapInv, reserve[0] > 0, NEW in \in Sides, NEW maxImpact \in 0..Bps
      PROVE  SizeIsLargestButForRounding(in, maxImpact)
  <2>1. reserve[in] \in Nat \ {0} /\ reserve[1 - in] \in Nat \ {0}
    BY <1>1 DEF SwapInv, SwapIsSound, PairTypeOK, Sides
  <2>2. maxImpact \in Nat
    BY UnitsAssumption
  <2> DEFINE rIn == reserve[in]
             rOut == reserve[1 - in]
             size == FindMaxSizeForImpact(maxImpact, rIn, rOut)
             keeps(a) == PriceImpactBps(a, rIn, rOut) <= maxImpact
             near(a) == ImpactBps(size + 1, GetAmountOut(size + 1, rIn, rOut) + 1, rIn, rOut)
                          <= maxImpact
  <2> HIDE DEF rIn, rOut
  <2>3. rIn \in Nat \ {0} /\ rOut \in Nat \ {0}
    BY <2>1 DEF rIn, rOut
  <2>4. CASE ~HasImpact(1, rIn, rOut)
    <3>1. size = Throws
      BY <2>4 DEF FindMaxSizeForImpact
    <3>. QED  BY <2>4, <3>1 DEF SizeIsLargestButForRounding, rIn, rOut
  <2>5. CASE HasImpact(1, rIn, rOut)
    <3> HIDE DEF size
    <3>1. size = FindMaxSizeForImpact(maxImpact, rIn, rOut)
      BY DEF size
    <3>2. /\ size \in 0..rIn
          /\ size > 0 => keeps(size)
          /\ size < rIn => ~keeps(size + 1)
      BY <2>2, <2>3, <2>5, <3>1, LargestSize
    <3>3. ASSUME NEW a \in size + 1..rIn, keeps(a)
          PROVE  near(a)
      <4>1. size + 1 \in Nat \ {0} /\ a \in Nat \ {0} /\ size + 1 <= a
        BY <2>3, <3>2
      <4> DEFINE next == size + 1
      <4>2. next \in Nat \ {0} /\ next <= a
        BY <4>1
      <4> HIDE DEF next
      <4>3. ImpactBps(next, GetAmountOut(next, rIn, rOut) + 1, rIn, rOut) <= maxImpact
        BY <2>2, <2>3, <2>5, <3>3, <4>1, <4>2, OneUnitMore
      <4>. QED  BY <4>3 DEF next
    <3> HIDE DEF keeps, near
    <3>4. /\ size \in 0..rIn
          /\ size > 0 => keeps(size)
          /\ size < rIn => ~keeps(size + 1)
          /\ \A a \in size + 1..rIn : keeps(a) => near(a)
      BY <3>2, <3>3
    <3>. QED
      BY <2>5, <3>4 DEF SizeIsLargestButForRounding, keeps, near, size, rIn, rOut
  <2>. QED  BY <2>4, <2>5
<1>2. ASSUME SwapInv, reserve[0] > 0, NEW in \in Sides
      PROVE  PaymentIsEnough(in)
  BY <1>2, PaymentsSuffice
<1>3. SwapInv => QuotesAgree
  BY <1>1, <1>2 DEF QuotesAgree
<1>. QED  BY SwapInvHolds, <1>3, PTL
-----------------------------------------------------------------------------
(* The walk of a book *)

\* The loop of walkTheBook as a function of the levels that it has taken.
Walks(g, levels, qty) ==
  g = [i \in 0..Len(levels) |->
        IF i = 0 THEN Fill(qty, 0) ELSE TakeLevel(g[i - 1], levels[i])]

\* The loop over the levels has a result at every index: induction, as a fact
\* about the set of the indices it has one at.
LEMMA WalkExists ==
  ASSUME NEW levels \in Seq(Offers), NEW qty
  PROVE  \E g : Walks(g, levels, qty)
<1> DEFINE Step(g, i) == IF i = 0 THEN Fill(qty, 0) ELSE TakeLevel(g[i - 1], levels[i])
           A == {n \in Nat : \E g : g = [i \in 0..n |-> Step(g, i)]}
<1>1. 0 \in A
  <2> DEFINE g == [i \in 0..0 |-> Fill(qty, 0)]
  <2>1. g = [i \in 0..0 |-> Step(g, i)]
    OBVIOUS
  <2> HIDE DEF g
  <2>. QED  BY <2>1
<1>2. ASSUME NEW n \in A
      PROVE  n + 1 \in A
  <2>1. PICK g : g = [i \in 0..n |-> Step(g, i)]
    OBVIOUS
  <2> DEFINE h == [i \in 0..(n + 1) |-> IF i = n + 1 THEN TakeLevel(g[n], levels[n + 1]) ELSE g[i]]
  <2>2. \A i \in 0..n : g[i] = Step(g, i)
    BY <2>1
  <2>3. ASSUME NEW i \in 0..(n + 1)
        PROVE  h[i] = Step(h, i)
    <3>1. CASE i = n + 1
      <4>1. i # 0 /\ i - 1 = n /\ n \in 0..(n + 1) /\ n # n + 1
        BY <3>1
      <4>2. h[n] = g[n] /\ h[i] = TakeLevel(g[n], levels[i])
        BY <3>1, <4>1
      <4> HIDE DEF h
      <4>. QED  BY <4>1, <4>2
    <3>2. CASE i # n + 1
      <4>1. i \in 0..n /\ h[i] = Step(g, i)
        BY <2>2, <3>2
      <4>2. i # 0 => i - 1 \in 0..(n + 1) /\ i - 1 # n + 1 /\ h[i - 1] = g[i - 1]
        BY <4>1
      <4> HIDE DEF h
      <4>. QED  BY <4>1, <4>2
    <3>. QED  BY <3>1, <3>2
  <2>4. h = [i \in 0..(n + 1) |-> Step(h, i)]
    BY <2>3
  <2>5. n + 1 \in Nat
    OBVIOUS
  <2> HIDE DEF h, Step
  <2>. QED  BY <2>4, <2>5
<1>3. A = Nat
  <2>1. A \in SUBSET Nat
    OBVIOUS
  <2> HIDE DEF A
  <2>. QED  BY <1>1, <1>2, <2>1, Induction
<1>4. Len(levels) \in A
  BY <1>3
<1>. QED  BY <1>4 DEF Walks

\* walkTheBook answers what its loop holds after the last level.
LEMMA WalkIs ==
  ASSUME NEW book, NEW side, NEW levels \in Seq(Offers), levels = LevelsOf(book, side), NEW qty
  PROVE  \E g : Walks(g, levels, qty) /\ WalkTheBook(book, side, qty) = g[Len(levels)]
<1> DEFINE walk[i \in 0..Len(levels)] ==
             IF i = 0 THEN Fill(qty, 0) ELSE TakeLevel(walk[i - 1], levels[i])
<1>1. PICK g : Walks(g, levels, qty)
  BY WalkExists
<1>2. g = [i \in 0..Len(levels) |->
             IF i = 0 THEN Fill(qty, 0) ELSE TakeLevel(g[i - 1], levels[i])]
  BY <1>1 DEF Walks
<1>3. walk = [i \in 0..Len(levels) |->
                IF i = 0 THEN Fill(qty, 0) ELSE TakeLevel(walk[i - 1], levels[i])]
  BY <1>2
<1>4. WalkTheBook(book, side, qty) = walk[Len(levels)]
  BY DEF WalkTheBook
<1> HIDE DEF walk
<1>5. Walks(walk, levels, qty)
  BY <1>3 DEF Walks
<1>. QED  BY <1>4, <1>5

\* What the first n levels hold, and what an order for the size is worth in them.
Before(levels, n) == SumFunction([j \in 1..n |-> levels[j].qty])
Exact(levels, size, n) == SumFunction([i \in 1..n |-> Taken(levels, size, i) * levels[i].price])

\* A sum of one term more.
LEMMA SumOneMore ==
  ASSUME NEW n \in Nat, NEW v \in [1..n -> Int], NEW w \in [1..(n + 1) -> Int],
         \A i \in 1..n : w[i] = v[i]
  PROVE  SumFunction(w) = w[n + 1] + SumFunction(v)
<1> DEFINE S == 1..n
           x == n + 1
<1>1. IsFiniteSet(S)
  BY FS_Interval
<1>2. x \notin S /\ S \cup {x} = 1..(n + 1)
  OBVIOUS
<1> HIDE DEF S, x
<1>3. v \in [S -> Int] /\ w \in [S \cup {x} -> Int] /\ \A i \in S : w[i] = v[i]
  BY <1>2 DEF S
<1>4. SumFunction(w) = w[x] + SumFunction(v)
  BY <1>1, <1>2, <1>3, SumWithTerm
<1>. QED  BY <1>4 DEF x

\* A sum of natural numbers is one.
LEMMA SumOfFirst ==
  ASSUME NEW n \in Nat, NEW v \in [1..n -> Nat]
  PROVE  SumFunction(v) \in Nat
<1> DEFINE S == 1..n
<1>1. IsFiniteSet(S)
  BY FS_Interval
<1>2. v \in [S -> Nat]
  OBVIOUS
<1> HIDE DEF S
<1>. QED  BY <1>1, <1>2, SumNat

\* Levels hold and cost natural numbers.
LEMMA LevelsAreNumbers ==
  ASSUME NEW levels \in Seq(Offers), NEW i \in 1..Len(levels)
  PROVE  levels[i].qty \in Nat /\ levels[i].price \in Nat \ {0}
<1>1. levels[i] \in Offers
  OBVIOUS
<1>. QED  BY <1>1 DEF Offers

\* What the first n levels offer grows by what the next one offers.
LEMMA BeforeGrows ==
  ASSUME NEW levels \in Seq(Offers), NEW n \in Nat, n < Len(levels)
  PROVE  Before(levels, n) \in Nat /\ Before(levels, n + 1) = Before(levels, n) + levels[n + 1].qty
<1> DEFINE v == [j \in 1..n |-> levels[j].qty]
           w == [j \in 1..(n + 1) |-> levels[j].qty]
<1>1. v \in [1..n -> Nat] /\ w \in [1..(n + 1) -> Nat] /\ \A i \in 1..n : w[i] = v[i]
  BY LevelsAreNumbers
<1>2. w[n + 1] = levels[n + 1].qty
  OBVIOUS
<1> HIDE DEF v, w
<1>3. SumFunction(v) \in Nat
  BY <1>1, SumOfFirst
<1>4. SumFunction(w) = w[n + 1] + SumFunction(v)
  <2>1. v \in [1..n -> Int] /\ w \in [1..(n + 1) -> Int]
    BY <1>1
  <2>. QED  BY <1>1, <2>1, SumOneMore
<1>5. w[n + 1] \in Nat
  BY <1>1
<1>. QED  BY <1>2, <1>3, <1>4, <1>5 DEF Before, v, w

\* No level offers or takes nothing.
LEMMA NothingBefore ==
  ASSUME NEW levels, NEW size
  PROVE  Before(levels, 0) = 0 /\ Exact(levels, size, 0) = 0
<1>1. 1..0 = {}
  OBVIOUS
<1>2. \A w \in [{} -> Int] : SumFunction(w) = 0
  BY SumOfNothing
<1>3. [j \in 1..0 |-> levels[j].qty] \in [{} -> Int]
  BY <1>1
<1>4. [i \in 1..0 |-> Taken(levels, size, i) * levels[i].price] \in [{} -> Int]
  BY <1>1
<1>. QED  BY <1>2, <1>3, <1>4 DEF Before, Exact

\* A level gives what the levels before it left, if it has that much.
LEMMA TakenIs ==
  ASSUME NEW levels \in Seq(Offers), NEW n \in Nat, n < Len(levels), NEW size \in Nat
  PROVE  LET left == IF size > Before(levels, n) THEN size - Before(levels, n) ELSE 0
         IN  /\ Taken(levels, size, n + 1) = Least(left, levels[n + 1].qty)
             /\ Taken(levels, size, n + 1) \in Nat
<1>1. (n + 1) - 1 = n
  OBVIOUS
<1>2. Before(levels, n) \in Nat
  BY BeforeGrows
<1>3. levels[n + 1].qty \in Nat
  BY LevelsAreNumbers
<1>4. SumFunction([j \in 1..((n + 1) - 1) |-> levels[j].qty]) = Before(levels, n)
  BY <1>1 DEF Before
<1>. QED  BY <1>2, <1>3, <1>4 DEF Taken, Least

\* What an order is worth grows by what it takes of the next level.
LEMMA ExactGrows ==
  ASSUME NEW levels \in Seq(Offers), NEW n \in Nat, n < Len(levels), NEW size \in Nat
  PROVE  /\ Exact(levels, size, n) \in Nat
         /\ Exact(levels, size, n + 1)
              = Exact(levels, size, n) + Taken(levels, size, n + 1) * levels[n + 1].price
<1> DEFINE term(i) == Taken(levels, size, i) * levels[i].price
           v == [i \in 1..n |-> term(i)]
           w == [i \in 1..(n + 1) |-> term(i)]
<1>1. \A i \in 1..(n + 1) : term(i) \in Nat
  <2> SUFFICES ASSUME NEW i \in 1..(n + 1)
               PROVE  term(i) \in Nat
    OBVIOUS
  <2>1. levels[i].price \in Nat
    BY LevelsAreNumbers
  <2>2. Taken(levels, size, i) \in Nat
    <3>1. i - 1 \in Nat /\ i - 1 < Len(levels) /\ (i - 1) + 1 = i
      OBVIOUS
    <3>. QED  BY <3>1, TakenIs
  <2>. QED  BY <2>1, <2>2
<1> HIDE DEF term
<1>2. v \in [1..n -> Nat] /\ w \in [1..(n + 1) -> Nat] /\ \A i \in 1..n : w[i] = v[i]
  BY <1>1
<1>3. w[n + 1] = term(n + 1)
  OBVIOUS
<1> HIDE DEF v, w
<1>4. SumFunction(v) \in Nat
  BY <1>2, SumOfFirst
<1>5. SumFunction(w) = w[n + 1] + SumFunction(v)
  <2>1. v \in [1..n -> Int] /\ w \in [1..(n + 1) -> Int]
    BY <1>2
  <2>. QED  BY <1>2, <2>1, SumOneMore
<1>6. w[n + 1] \in Nat
  BY <1>2
<1>. QED  BY <1>3, <1>4, <1>5, <1>6 DEF Exact, v, w, term

\* Two costs rounded down add up to one rounded down by both digits.
LEMMA RoundingsAdd ==
  ASSUME NEW a \in Nat, NEW b \in Nat, NEW c \in Nat, NEW p \in Nat, NEW x \in Nat, NEW y \in Nat,
         a <= x, x <= a + c, b <= y, y < b + p
  PROVE  a + b <= x + y /\ x + y <= (a + b) + (c + p)
  OBVIOUS

\* What is left of an order and what it has cost, after n levels: the cost of
\* every level is rounded down.
Walked(g, levels, qty, n) ==
  /\ g[n].left = IF qty > Before(levels, n) THEN qty - Before(levels, n) ELSE 0
  /\ g[n].cost \in Nat
  /\ g[n].cost * PriceScale <= Exact(levels, qty, n)
  /\ Exact(levels, qty, n) <= g[n].cost * PriceScale + n * PriceScale

\* After n levels the walk has taken, and charged, what they offer.
LEMMA WalkSums ==
  ASSUME NEW levels \in Seq(Offers), NEW qty \in Nat, NEW g, Walks(g, levels, qty)
  PROVE  \A n \in 0..Len(levels) : Walked(g, levels, qty, n)
<1> DEFINE A == {n \in Nat : n <= Len(levels) => Walked(g, levels, qty, n)}
<1>1. /\ g[0] = Fill(qty, 0)
      /\ \A n \in Nat : n < Len(levels) => g[n + 1] = TakeLevel(g[n], levels[n + 1])
  <2>1. 0 \in 0..Len(levels)
    OBVIOUS
  <2>2. \A i \in 0..Len(levels) :
          g[i] = IF i = 0 THEN Fill(qty, 0) ELSE TakeLevel(g[i - 1], levels[i])
    BY DEF Walks
  <2>3. ASSUME NEW n \in Nat, n < Len(levels)
        PROVE  g[n + 1] = TakeLevel(g[n], levels[n + 1])
    <3>1. n + 1 \in 0..Len(levels) /\ n + 1 # 0 /\ (n + 1) - 1 = n
      BY <2>3
    <3>. QED  BY <2>2, <3>1
  <2>. QED  BY <2>1, <2>2, <2>3
<1>2. 0 \in A
  <2>1. Walked(g, levels, qty, 0)
    BY <1>1, NothingBefore, UnitsAssumption DEF Walked, Fill
  <2>. QED  BY <2>1
<1>3. ASSUME NEW n \in A
      PROVE  n + 1 \in A
  <2>1. n \in Nat
    OBVIOUS
  <2> SUFFICES ASSUME n + 1 <= Len(levels)
               PROVE  Walked(g, levels, qty, n + 1)
    BY <2>1
  <2>2. n < Len(levels) /\ Walked(g, levels, qty, n)
    BY <2>1
  <2> DEFINE taken == Taken(levels, qty, n + 1)
             price == levels[n + 1].price
             held == levels[n + 1].qty
             before == Before(levels, n)
             exact == Exact(levels, qty, n)
             cost == g[n].cost
             value == (taken * price) \div PriceScale
  <2>3. before \in Nat /\ Before(levels, n + 1) = before + held
    BY <2>1, <2>2, BeforeGrows
  <2>4. exact \in Nat /\ Exact(levels, qty, n + 1) = exact + taken * price
    BY <2>1, <2>2, ExactGrows
  <2>5. price \in Nat /\ held \in Nat
    BY <2>1, <2>2, LevelsAreNumbers
  <2>6. taken = Least(g[n].left, held) /\ taken \in Nat
    <3>1. g[n].left = IF qty > Before(levels, n) THEN qty - Before(levels, n) ELSE 0
      BY <2>2 DEF Walked
    <3>. QED  BY <2>1, <2>2, <3>1, TakenIs
  <2>7. g[n + 1] = Fill(g[n].left - taken, cost + value)
    <3>1. g[n + 1] = TakeLevel(g[n], levels[n + 1])
      BY <1>1, <2>1, <2>2
    <3>. QED  BY <2>6, <3>1 DEF TakeLevel
  <2>8. g[n + 1].left = g[n].left - taken /\ g[n + 1].cost = cost + value
    BY <2>7 DEF Fill
  <2>9. PriceScale \in Nat \ {0}
    BY UnitsAssumption
  <2>10. taken * price \in Nat
    BY <2>5, <2>6
  <2>11. /\ value \in Nat
         /\ value * PriceScale <= taken * price
         /\ taken * price < value * PriceScale + PriceScale
    <3> HIDE DEF taken, price
    <3>. QED  BY <2>9, <2>10, DivRoundsDown
  <2>12. /\ g[n].left = IF qty > before THEN qty - before ELSE 0
         /\ cost \in Nat
         /\ cost * PriceScale <= exact
         /\ exact <= cost * PriceScale + n * PriceScale
    BY <2>2 DEF Walked
  <2>13. g[n + 1].left = IF qty > before + held THEN qty - (before + held) ELSE 0
    <3> HIDE DEF before, held, taken
    <3>. QED  BY <2>3, <2>5, <2>6, <2>8, <2>12 DEF Least
  <2>14. /\ (cost + value) * PriceScale <= exact + taken * price
         /\ exact + taken * price <= (cost + value) * PriceScale + (n + 1) * PriceScale
    <3> DEFINE worth == taken * price
    <3>1. /\ (cost + value) * PriceScale = cost * PriceScale + value * PriceScale
          /\ (n + 1) * PriceScale = n * PriceScale + PriceScale
          /\ cost * PriceScale \in Nat /\ value * PriceScale \in Nat /\ n * PriceScale \in Nat
      <4> HIDE DEF cost, value
      <4>. QED  BY <2>1, <2>9, <2>11, <2>12
    <3>2. worth \in Nat /\ value * PriceScale <= worth /\ worth < value * PriceScale + PriceScale
      BY <2>10, <2>11
    <3> HIDE DEF worth, cost, value, exact
    <3>3. /\ cost * PriceScale + value * PriceScale <= exact + worth
          /\ exact + worth
               <= (cost * PriceScale + value * PriceScale) + (n * PriceScale + PriceScale)
      BY <2>4, <2>9, <2>12, <3>1, <3>2, RoundingsAdd
    <3>. QED  BY <3>1, <3>3 DEF worth
  <2>15. cost + value \in Nat
    BY <2>11, <2>12
  <2> HIDE DEF taken, price, held, before, exact, cost, value
  <2>. QED  BY <2>3, <2>4, <2>8, <2>13, <2>14, <2>15 DEF Walked
<1>4. A = Nat
  <2>1. A \in SUBSET Nat
    OBVIOUS
  <2> HIDE DEF A
  <2>. QED  BY <1>2, <1>3, <2>1, Induction
<1>. QED  BY <1>4

\* The average price of an order that fills, against what the book asks of it.
Averages(levels, qty, price, cost) ==
  /\ price \in Nat /\ cost \in Nat
  /\ qty = 0 => price = 0
  /\ price * qty <= cost * PriceScale
  /\ qty > 0 => cost * PriceScale < price * qty + qty
  /\ BookValue(levels, qty) \in Nat
  /\ cost <= BookValue(levels, qty)
  /\ BookValue(levels, qty) <= cost + Len(levels)

\* The average price of a filled order is its cost over its size, rounded.
LEMMA AverageOfFilled ==
  ASSUME NEW book, NEW side, NEW levels \in Seq(Offers), levels = LevelsOf(book, side),
         NEW qty \in Nat, FullyFilled(book, side, qty)
  PROVE  \E cost : Averages(levels, qty, AvgPrice(book, side, qty), cost)
<1> DEFINE n == Len(levels)
           price == AvgPrice(book, side, qty)
           exact == Exact(levels, qty, n)
<1>0. \E g : Walks(g, levels, qty) /\ WalkTheBook(book, side, qty) = g[n]
  BY WalkIs
<1>1. PICK g : Walks(g, levels, qty) /\ WalkTheBook(book, side, qty) = g[n]
  BY <1>0
<1> DEFINE cost == g[n].cost
<1>2. n \in Nat /\ PriceScale \in Nat \ {0}
  BY UnitsAssumption
<1>3. Walked(g, levels, qty, n)
  BY <1>1, <1>2, WalkSums
<1>4. g[n].left = 0
  BY <1>1 DEF FullyFilled
<1>5. price = IF 0 < qty THEN (cost * PriceScale) \div qty ELSE 0
  BY <1>1, <1>4 DEF AvgPrice
<1>6. /\ cost \in Nat
      /\ cost * PriceScale <= exact
      /\ exact <= cost * PriceScale + n * PriceScale
  BY <1>3 DEF Walked
<1>7. exact \in Nat
  <2>1. CASE n = 0
    BY <2>1, NothingBefore
  <2>2. CASE n # 0
    <3>1. n - 1 \in Nat /\ n - 1 < Len(levels) /\ (n - 1) + 1 = n
      BY <1>2, <2>2
    <3>2. /\ Exact(levels, qty, n - 1) \in Nat
          /\ Exact(levels, qty, (n - 1) + 1)
               = Exact(levels, qty, n - 1)
                   + Taken(levels, qty, (n - 1) + 1) * levels[(n - 1) + 1].price
      BY <3>1, ExactGrows
    <3>3. Taken(levels, qty, (n - 1) + 1) \in Nat
      BY <3>1, TakenIs
    <3>4. levels[n].price \in Nat
      BY <1>2, <2>2, LevelsAreNumbers
    <3>. QED  BY <3>1, <3>2, <3>3, <3>4
  <2>. QED  BY <2>1, <2>2
<1>8. BookValue(levels, qty) = exact \div PriceScale
  BY DEF BookValue, Exact
<1> DEFINE value == exact \div PriceScale
<1> HIDE DEF n, price, exact, cost
<1>9. /\ value \in Nat /\ value * PriceScale <= exact
      /\ exact < value * PriceScale + PriceScale
  BY <1>2, <1>7, DivRoundsDown
<1>10. cost <= value
  BY <1>2, <1>6, <1>7, DivCompares
<1>11. value <= cost + n
  <2> HIDE DEF value
  <2>1. cost * PriceScale + n * PriceScale = (cost + n) * PriceScale
    BY <1>2, <1>6
  <2>2. value * PriceScale <= (cost + n) * PriceScale
    <3>1. value * PriceScale \in Nat /\ (cost + n) * PriceScale \in Nat
      BY <1>2, <1>6, <1>9
    <3>. QED  BY <1>6, <1>7, <1>9, <2>1, <3>1
  <2>3. cost + n \in Nat
    BY <1>2, <1>6
  <2>. QED  BY <1>2, <1>9, <2>2, <2>3, TimesCancels
<1>12. cost * PriceScale \in Nat
  BY <1>2, <1>6
<1>13. /\ price \in Nat
       /\ qty = 0 => price = 0
       /\ price * qty <= cost * PriceScale
       /\ qty > 0 => cost * PriceScale < price * qty + qty
  <2>1. CASE qty = 0
    BY <1>5, <1>12, <2>1
  <2>2. CASE qty # 0
    <3>1. price = (cost * PriceScale) \div qty /\ qty \in Nat \ {0}
      BY <1>5, <2>2
    <3> DEFINE money == cost * PriceScale
    <3> HIDE DEF money
    <3>2. money \in Nat /\ price = money \div qty
      BY <1>12, <3>1 DEF money
    <3>3. /\ money \div qty \in Nat
          /\ (money \div qty) * qty <= money
          /\ money < (money \div qty) * qty + qty
      BY <3>1, <3>2, DivRoundsDown
    <3>. QED  BY <2>2, <3>2, <3>3 DEF money
  <2>. QED  BY <2>1, <2>2
<1>14. Averages(levels, qty, price, cost)
  <2> HIDE DEF value
  <2>. QED  BY <1>6, <1>8, <1>9, <1>10, <1>11, <1>13 DEF Averages, n, value
<1>. QED  BY <1>14 DEF price

-----------------------------------------------------------------------------
(* What the two legs of a deal pay.  The lemmas are about natural numbers: s  *)
(* is the size, cost and n what a walk costs and its number of levels.       *)

\* A gain per piece that is known up to a whole and a rounding.
LEMMA GrossIsRounded ==
  ASSUME NEW s \in Nat, NEW gain \in Int, NEW gross, gross = (s * gain) \div PriceScale
  PROVE  gross \in Int /\ gross * PriceScale <= s * gain
<1> DEFINE x == s * gain
<1>1. x \in Int /\ PriceScale \in Nat \ {0}
  BY UnitsAssumption
<1> HIDE DEF x
<1>2. x \div PriceScale \in Int /\ (x \div PriceScale) * PriceScale <= x
  BY <1>1
<1>. QED  BY <1>2 DEF x

\* A whole number below a rounded one and less than two more.
LEMMA BelowByRounding ==
  ASSUME NEW x \in Int, NEW s \in Nat, NEW k \in Nat,
         x * PriceScale < s + k * PriceScale
  PROVE  x <= s \div PriceScale + k
<1> DEFINE e == s \div PriceScale
<1>1. PriceScale \in Nat \ {0}
  BY UnitsAssumption
<1>2. e \in Nat /\ s < e * PriceScale + PriceScale
  BY <1>1, DivRoundsDown
<1> HIDE DEF e
<1>3. (e + k + 1) * PriceScale = e * PriceScale + k * PriceScale + PriceScale
  BY <1>1, <1>2
<1>4. x * PriceScale \in Int /\ e * PriceScale \in Int /\ k * PriceScale \in Int
  BY <1>1, <1>2
<1>5. x * PriceScale < (e + k + 1) * PriceScale
  BY <1>1, <1>2, <1>3, <1>4
<1>6. x < e + k + 1
  BY <1>1, <1>2, <1>5, TimesCancelsLess
<1>. QED  BY <1>2, <1>6 DEF e

\* Buying at the exchange and selling what the pool gives money for.
LEMMA SaleAtPool ==
  ASSUME NEW s \in Nat, NEW received \in Nat, NEW cost \in Nat, NEW ask \in Nat, NEW dex \in Nat,
         cost * PriceScale < ask * s + s, dex * s <= received * PriceScale,
         NEW gross, gross = (s * (dex - ask)) \div PriceScale
  PROVE  gross \in Int /\ gross <= received - cost + s \div PriceScale
<1>1. PriceScale \in Nat \ {0}
  BY UnitsAssumption
<1>2. dex - ask \in Int
  OBVIOUS
<1>3. gross \in Int /\ gross * PriceScale <= s * (dex - ask)
  BY <1>2, GrossIsRounded
<1>4. s * (dex - ask) = dex * s - ask * s
  OBVIOUS
<1>5. (gross - received + cost) * PriceScale
        = gross * PriceScale - received * PriceScale + cost * PriceScale
  BY <1>1, <1>3
<1>6. /\ gross * PriceScale \in Int /\ received * PriceScale \in Int /\ cost * PriceScale \in Int
      /\ dex * s \in Int /\ ask * s \in Int /\ s * (dex - ask) \in Int
  BY <1>1, <1>3
<1>7. (gross - received + cost) * PriceScale < s + 0 * PriceScale
  BY <1>1, <1>3, <1>4, <1>5, <1>6
<1>8. gross - received + cost \in Int
  BY <1>3
<1>9. gross - received + cost <= s \div PriceScale + 0
  BY <1>7, <1>8, BelowByRounding
<1>10. s \div PriceScale \in Nat
  BY <1>1, DivRoundsDown
<1>. QED  BY <1>3, <1>9, <1>10

\* Spending m, what the sale brings, at the pool, which gives b for it at the
\* price p: a pool that gives no more than the size leaves no gain.
Spends(m, s, bid, p, b) ==
  /\ m * PriceScale <= s * bid /\ s * bid < m * PriceScale + PriceScale
  /\ p * b <= m * PriceScale /\ m * PriceScale < p * b + b

\* If the money of a sale buys no more than what was sold, the gain is its roundings.
LEMMA GainNeedsMore ==
  ASSUME NEW s \in Nat, NEW m \in Nat, NEW bid \in Nat, NEW p \in Nat, NEW b \in Nat, b <= s,
         Spends(m, s, bid, p, b), NEW gross, gross = (s * (bid - p)) \div PriceScale
  PROVE  gross \in Int /\ gross <= s \div PriceScale + 1
<1>1. PriceScale \in Nat \ {0}
  BY UnitsAssumption
<1>2. bid - p \in Int
  OBVIOUS
<1>3. gross \in Int /\ gross * PriceScale <= s * (bid - p)
  BY <1>2, GrossIsRounded
<1>4. s * (bid - p) = s * bid - p * s
  OBVIOUS
<1>5. b * p \in Nat /\ b * p <= s * p /\ b * p = p * b /\ s * p = p * s
  BY TimesMonotonic
<1>6. /\ gross * PriceScale \in Int /\ m * PriceScale \in Int
      /\ s * bid \in Int /\ p * s \in Int /\ s * (bid - p) \in Int
  BY <1>1, <1>3
<1>7. gross * PriceScale < s + 1 * PriceScale
  BY <1>1, <1>3, <1>4, <1>5, <1>6 DEF Spends
<1>. QED  BY <1>3, <1>7, BelowByRounding

\* What the payment asked for the size is in the bot's money: x.  With what m
\* is in the quote token, q, the pool gives o, which is b in the bot's amounts;
\* for base, the size in the base token, it asks a + 1.
Paid(x, a, o, q, base, m, s, b) ==
  /\ x * QuoteUnit <= (a + 1) * PriceScale
  /\ a * o <= q * base
  /\ q * PriceScale <= m * QuoteUnit
  /\ base * PriceScale <= s * BaseUnit
  /\ b * BaseUnit <= o * PriceScale

\* The payment is the share of m that the size is of b, and what is rounded.
LEMMA PaymentIsShare ==
  ASSUME NEW x \in Nat, NEW a \in Nat, NEW o \in Nat, NEW q \in Nat, NEW base \in Nat,
         NEW m \in Nat, NEW s \in Nat, NEW b \in Nat, Paid(x, a, o, q, base, m, s, b)
  PROVE  x * b <= m * s + (PriceScale \div QuoteUnit + 1) * b
<1> DEFINE k == PriceScale \div QuoteUnit
<1>1. PriceScale \in Nat \ {0} /\ QuoteUnit \in Nat \ {0} /\ BaseUnit \in Nat \ {0}
  BY UnitsAssumption, SignalAssumption
<1>2. k \in Nat /\ PriceScale < k * QuoteUnit + QuoteUnit
  BY <1>1, DivRoundsDown
<1> HIDE DEF k
<1>3. a * (b * BaseUnit) <= m * QuoteUnit * base
  <2>1. (b * BaseUnit) * a <= (o * PriceScale) * a
    BY <1>1, TimesKeeps DEF Paid
  <2>2. (a * o) * PriceScale <= (q * base) * PriceScale
    BY <1>1, TimesKeeps DEF Paid
  <2>3. (q * PriceScale) * base <= (m * QuoteUnit) * base
    BY <1>1, TimesKeeps DEF Paid
  <2>4. /\ (o * PriceScale) * a = (a * o) * PriceScale
        /\ (q * base) * PriceScale = (q * PriceScale) * base
        /\ (b * BaseUnit) * a = a * (b * BaseUnit)
    BY <1>1
  <2>5. /\ (b * BaseUnit) * a \in Nat /\ (a * o) * PriceScale \in Nat
        /\ (q * PriceScale) * base \in Nat /\ (m * QuoteUnit) * base \in Nat
    BY <1>1
  <2>. QED  BY <2>1, <2>2, <2>3, <2>4, <2>5
<1>4. a * b * PriceScale <= m * s * QuoteUnit
  <2>1. (a * (b * BaseUnit)) * PriceScale <= (m * QuoteUnit * base) * PriceScale
    <3>1. a * (b * BaseUnit) \in Int /\ m * QuoteUnit * base \in Int
      BY <1>1
    <3>. QED  BY <1>1, <1>3, <3>1, TimesKeeps
  <2>2. (base * PriceScale) * (m * QuoteUnit) <= (s * BaseUnit) * (m * QuoteUnit)
    <3>1. m * QuoteUnit \in Nat /\ base * PriceScale \in Int /\ s * BaseUnit \in Int
      BY <1>1
    <3>. QED  BY <3>1, TimesKeeps DEF Paid
  <2>3. (a * (b * BaseUnit)) * PriceScale = (a * b * PriceScale) * BaseUnit
    BY <1>1
  <2>4. (m * QuoteUnit * base) * PriceScale = (base * PriceScale) * (m * QuoteUnit)
    BY <1>1
  <2>5. (s * BaseUnit) * (m * QuoteUnit) = (m * s * QuoteUnit) * BaseUnit
    BY <1>1
  <2>6. a * b * PriceScale \in Int /\ m * s * QuoteUnit \in Int
    BY <1>1
  <2>7. (a * b * PriceScale) * BaseUnit <= (m * s * QuoteUnit) * BaseUnit
    <3>1. /\ (a * b * PriceScale) * BaseUnit \in Int /\ (m * s * QuoteUnit) * BaseUnit \in Int
          /\ (base * PriceScale) * (m * QuoteUnit) \in Int
      BY <1>1
    <3>. QED  BY <2>1, <2>2, <2>3, <2>4, <2>5, <3>1
  <2>. QED  BY <1>1, <2>6, <2>7, TimesCancels
<1>5. (x * QuoteUnit) * b <= ((a + 1) * PriceScale) * b
  BY <1>1, TimesKeeps DEF Paid
<1>6. PriceScale * b <= (k * QuoteUnit + QuoteUnit) * b
  BY <1>1, <1>2, TimesKeeps
<1>7. /\ (x * QuoteUnit) * b = (x * b) * QuoteUnit
      /\ ((a + 1) * PriceScale) * b = a * b * PriceScale + PriceScale * b
      /\ (k * QuoteUnit + QuoteUnit) * b = ((k + 1) * b) * QuoteUnit
      /\ (m * s + (k + 1) * b) * QuoteUnit = m * s * QuoteUnit + ((k + 1) * b) * QuoteUnit
  <2>1. (x * QuoteUnit) * b = (x * b) * QuoteUnit
    BY <1>1
  <2>2. ((a + 1) * PriceScale) * b = a * b * PriceScale + PriceScale * b
    BY <1>1
  <2>3. (k * QuoteUnit + QuoteUnit) * b = ((k + 1) * b) * QuoteUnit
    BY <1>1, <1>2
  <2>4. m * s \in Int /\ (k + 1) * b \in Int
    BY <1>2
  <2>5. (m * s + (k + 1) * b) * QuoteUnit = m * s * QuoteUnit + ((k + 1) * b) * QuoteUnit
    BY <1>1, <2>4, Distributes
  <2>. QED  BY <2>1, <2>2, <2>3, <2>5
<1>8. (x * b) * QuoteUnit <= (m * s + (k + 1) * b) * QuoteUnit
  <2>1. /\ (x * b) * QuoteUnit \in Int /\ a * b * PriceScale \in Int /\ PriceScale * b \in Int
        /\ ((k + 1) * b) * QuoteUnit \in Int /\ m * s * QuoteUnit \in Int
    BY <1>1, <1>2
  <2>. QED  BY <1>4, <1>5, <1>6, <1>7, <2>1
<1>9. x * b \in Int /\ m * s + (k + 1) * b \in Int
  BY <1>2
<1>10. x * b <= m * s + (k + 1) * b
  BY <1>1, <1>8, <1>9, TimesCancels
<1>. QED  BY <1>10 DEF k

\* Selling at the exchange what the pool gives.
LEMMA PurchaseAtPool ==
  ASSUME NEW s \in Nat, NEW m \in Nat, NEW bid \in Nat, NEW p \in Nat, NEW b \in Nat \ {0},
         NEW cost \in Nat, NEW x \in Nat, NEW k \in Nat,
         Spends(m, s, bid, p, b), bid * s <= cost * PriceScale, x * b <= m * s + (k + 1) * b,
         NEW gross, gross = (s * (bid - p)) \div PriceScale
  PROVE  gross \in Int /\ gross <= cost - x + k + s \div PriceScale + 2
<1> DEFINE e == s \div PriceScale
<1>1. PriceScale \in Nat \ {0}
  BY UnitsAssumption
<1>2. e \in Nat /\ s < e * PriceScale + PriceScale
  BY <1>1, DivRoundsDown
<1>3. bid - p \in Int
  OBVIOUS
<1>4. gross \in Int /\ gross * PriceScale <= s * (bid - p)
  BY <1>3, GrossIsRounded
<1> HIDE DEF e
<1>5. (gross * PriceScale) * b <= (s * (bid - p)) * b
  <2>1. gross * PriceScale \in Int /\ s * (bid - p) \in Int /\ b \in Nat
    BY <1>1, <1>3, <1>4
  <2>. QED  BY <1>4, <2>1, TimesKeeps
<1>6. (bid * s) * b <= (cost * PriceScale) * b
  <2>1. bid * s \in Int /\ cost * PriceScale \in Int /\ b \in Nat
    BY <1>1
  <2>. QED  BY <2>1, TimesKeeps
<1>7. (m * PriceScale) * s <= (p * b + b) * s
  <2>1. m * PriceScale \in Int /\ p * b + b \in Int /\ m * PriceScale <= p * b + b
    BY <1>1 DEF Spends
  <2>. QED  BY <2>1, TimesKeeps
<1>8. s * b <= (e * PriceScale + PriceScale) * b
  <2>1. e * PriceScale + PriceScale \in Int /\ s <= e * PriceScale + PriceScale /\ b \in Nat
    BY <1>1, <1>2
  <2>. QED  BY <2>1, TimesKeeps
<1>9. /\ (gross * PriceScale) * b = (gross * b) * PriceScale
      /\ (s * (bid - p)) * b = (bid * s) * b - (p * b) * s
      /\ (cost * PriceScale) * b = (cost * b) * PriceScale
      /\ (m * PriceScale) * s = (m * s) * PriceScale
      /\ (p * b + b) * s = (p * b) * s + s * b
      /\ (e * PriceScale + PriceScale) * b = ((e + 1) * b) * PriceScale
  <2>1. (gross * PriceScale) * b = (gross * b) * PriceScale
    BY <1>1, <1>4
  <2>2. (s * (bid - p)) * b = (bid * s) * b - (p * b) * s
    OBVIOUS
  <2>3. (cost * PriceScale) * b = (cost * b) * PriceScale
    BY <1>1
  <2>4. (m * PriceScale) * s = (m * s) * PriceScale
    BY <1>1
  <2>5. (p * b + b) * s = (p * b) * s + s * b
    OBVIOUS
  <2>6. (e * PriceScale + PriceScale) * b = ((e + 1) * b) * PriceScale
    BY <1>1, <1>2
  <2>. QED  BY <2>1, <2>2, <2>3, <2>4, <2>5, <2>6
<1>10. (gross * b) * PriceScale <= (cost * b - m * s + (e + 1) * b) * PriceScale
  <2>1. /\ cost * b \in Int /\ m * s \in Int /\ (e + 1) * b \in Int /\ gross * b \in Int
        /\ (p * b) * s \in Int /\ s * b \in Int /\ (bid * s) * b \in Int
    BY <1>2, <1>4
  <2>2. (cost * b - m * s + (e + 1) * b) * PriceScale
          = (cost * b) * PriceScale - (m * s) * PriceScale + ((e + 1) * b) * PriceScale
    <3> DEFINE u == cost * b
               v == m * s
               w == (e + 1) * b
    <3>1. u \in Int /\ v \in Int /\ w \in Int
      BY <2>1
    <3> HIDE DEF u, v, w
    <3>2. (u - v + w) * PriceScale = u * PriceScale - v * PriceScale + w * PriceScale
      BY <1>1, <3>1
    <3>. QED  BY <3>2 DEF u, v, w
  <2>3. /\ (gross * b) * PriceScale \in Int /\ (cost * b) * PriceScale \in Int
        /\ (m * s) * PriceScale \in Int /\ ((e + 1) * b) * PriceScale \in Int
    BY <1>1, <2>1
  <2>. QED  BY <1>5, <1>6, <1>7, <1>8, <1>9, <2>1, <2>2, <2>3
<1>11. gross * b <= cost * b - m * s + (e + 1) * b
  <2>1. gross * b \in Int /\ cost * b - m * s + (e + 1) * b \in Int
    BY <1>2, <1>4
  <2>. QED  BY <1>1, <1>10, <2>1, TimesCancels
<1>12. gross * b <= (cost - x + k + e + 2) * b
  <2>1. (cost - x + k + e + 2) * b = cost * b - x * b + (k + 1) * b + (e + 1) * b
    BY <1>2
  <2>2. /\ gross * b \in Int /\ cost * b \in Int /\ x * b \in Int /\ (k + 1) * b \in Int
        /\ (e + 1) * b \in Int /\ m * s \in Int
    BY <1>2, <1>4
  <2>. QED  BY <1>11, <2>1, <2>2
<1>13. gross <= cost - x + k + e + 2
  <2>1. cost - x + k + e + 2 \in Int
    BY <1>2
  <2>. QED  BY <1>4, <1>12, <2>1, TimesCancels
<1>. QED  BY <1>4, <1>13 DEF e

\* For less than q buys, getAmountIn asks the share of q, and one unit.
LEMMA AskedIsShare ==
  ASSUME NEW q \in Nat, NEW rIn \in Nat \ {0}, NEW rOut \in Nat \ {0},
         NEW o, o = GetAmountOut(q, rIn, rOut), NEW base \in Nat, base <= o
  PROVE  \E a \in Nat : GetAmountIn(base, rIn, rOut) = a + 1 /\ a * o <= q * base
<1> DEFINE g == Bps - FeeBps
           den == (rOut - base) * g
           asked == rIn * base * Bps
           a == asked \div den
<1>1. g \in Nat \ {0} /\ Bps \in Nat \ {0}
  BY UnitsAssumption, PairAssumption
<1>2. o \in Nat /\ o < rOut /\ o * (rIn * Bps) <= (q * g) * (rOut - o)
  BY OutputType
<1>3. GetAmountIn(base, rIn, rOut) = a + 1
  BY DEF GetAmountIn
<1> HIDE DEF g
<1>4. rOut - base \in Nat \ {0} /\ rOut - o \in Nat \ {0} /\ rOut - o <= rOut - base
  BY <1>2
<1>5. den \in Nat \ {0}
  BY <1>1, <1>4, TimesPositive
<1>6. asked \in Nat
  BY <1>1
<1> HIDE DEF den, asked
<1>7. a \in Nat /\ a * den <= asked
  BY <1>5, <1>6, DivRoundsDown
<1> HIDE DEF a
<1>8. (a * den) * o <= asked * o
  BY <1>2, <1>5, <1>6, <1>7, TimesKeeps
<1>9. (o * (rIn * Bps)) * base <= ((q * g) * (rOut - o)) * base
  <2>1. o * (rIn * Bps) \in Int /\ (q * g) * (rOut - o) \in Int
    BY <1>1, <1>2, <1>4
  <2>. QED  BY <1>2, <2>1, TimesKeeps
<1>10. (rOut - o) * (q * g * base) <= (rOut - base) * (q * g * base)
  <2>1. q * g * base \in Nat /\ rOut - o \in Int /\ rOut - base \in Int
    BY <1>1, <1>4
  <2>. QED  BY <1>4, <2>1, TimesKeeps
<1>11. /\ (a * den) * o = (a * o) * den
       /\ asked * o = (o * (rIn * Bps)) * base
       /\ ((q * g) * (rOut - o)) * base = (rOut - o) * (q * g * base)
       /\ (rOut - base) * (q * g * base) = (q * base) * den
  <2>1. (a * den) * o = (a * o) * den
    BY <1>2, <1>5, <1>7
  <2>2. asked * o = (o * (rIn * Bps)) * base
    BY <1>1, <1>2 DEF asked
  <2> DEFINE u == rOut - o
             v == rOut - base
  <2>3. u \in Nat /\ v \in Nat /\ den = v * g
    BY <1>4 DEF den
  <2> HIDE DEF u, v
  <2>4. ((q * g) * u) * base = u * (q * g * base)
    BY <1>1, <2>3
  <2>5. v * (q * g * base) = (q * base) * den
    BY <1>1, <2>3
  <2>. QED  BY <2>1, <2>2, <2>4, <2>5 DEF u, v
<1>12. (a * o) * den <= (q * base) * den
  <2>1. /\ (a * o) * den \in Int /\ (o * (rIn * Bps)) * base \in Int
        /\ (rOut - o) * (q * g * base) \in Int /\ (q * base) * den \in Int
    BY <1>1, <1>2, <1>4, <1>5, <1>7
  <2>. QED  BY <1>8, <1>9, <1>10, <1>11, <2>1
<1>13. a * o \in Int /\ q * base \in Int
  BY <1>2, <1>7
<1>14. a * o <= q * base
  BY <1>5, <1>12, <1>13, TimesCancels
<1>. QED  BY <1>3, <1>7, <1>14

-----------------------------------------------------------------------------
(* The sweep over the sizes *)

\* A function on a finite set has a largest value.
LEMMA LargestExists ==
  ASSUME NEW S, IsFiniteSet(S), S # {}, NEW f \in [S -> Int]
  PROVE  \E i \in S : \A j \in S : f[j] <= f[i]
<1> DEFINE P == {s \in SUBSET S : s # {} => \E i \in s : \A j \in s : f[j] <= f[i]}
<1>1. {} \in P
  OBVIOUS
<1>2. ASSUME NEW s \in SUBSET S, s # {}, \A x \in s : s \ {x} \in P
      PROVE  s \in P
  <2>1. PICK x \in s : TRUE
    BY <1>2
  <2>2. CASE s = {x}
    BY <2>2
  <2>3. CASE s # {x}
    <3>1. s \ {x} # {} /\ s \ {x} \in P
      BY <1>2, <2>1, <2>3
    <3>2. PICK i \in s \ {x} : \A j \in s \ {x} : f[j] <= f[i]
      BY <3>1
    <3>3. f[x] \in Int /\ \A j \in s : f[j] \in Int
      OBVIOUS
    <3>4. CASE f[x] <= f[i]
      <4>1. i \in s /\ \A j \in s : f[j] <= f[i]
        BY <3>2, <3>4
      <4>. QED  BY <4>1
    <3>5. CASE f[i] < f[x]
      <4>1. ASSUME NEW j \in s
            PROVE  f[j] <= f[x]
        <5>1. f[i] \in Int /\ f[j] \in Int /\ (j # x => f[j] <= f[i])
          BY <3>2, <3>3
        <5>. QED  BY <3>3, <3>5, <5>1
      <4>. QED  BY <2>1, <4>1
    <3>6. f[i] \in Int
      BY <3>2
    <3>. QED  BY <3>3, <3>4, <3>5, <3>6
  <2>. QED  BY <2>2, <2>3
<1> HIDE DEF P
<1>3. P \in SUBSET SUBSET S
  BY DEF P
<1>4. \A s \in SUBSET S : s \in P
  BY <1>1, <1>2, <1>3, SubsetInduction
<1>5. S \in P
  BY <1>4
<1>. QED  BY <1>5 DEF P

\* The sizes of the sweep.
LEMMA SizesAreNumbers ==
  /\ DOMAIN CandidateSizes \in SUBSET Nat
  /\ IsFiniteSet(DOMAIN CandidateSizes)
  /\ \A i \in DOMAIN CandidateSizes : CandidateSizes[i] \in Nat
<1>1. /\ TradeSizeMin \in Nat /\ TradeSizeMax \in Nat /\ TradeSizeSteps \in Nat
      /\ TradeSizeMin <= TradeSizeMax /\ TradeSizeSteps >= 2
  BY SignalAssumption
<1>2. CASE TradeSizeMin = TradeSizeMax
  <2>1. CandidateSizes = <<TradeSizeMin>>
    BY <1>2 DEF CandidateSizes
  <2>2. DOMAIN CandidateSizes = 1..1 /\ CandidateSizes[1] = TradeSizeMin
    BY <2>1
  <2>3. 1..1 = {1}
    OBVIOUS
  <2>4. IsFiniteSet({1})
    BY FS_Singleton
  <2>. QED  BY <1>1, <2>2, <2>3, <2>4
<1>3. CASE TradeSizeMin # TradeSizeMax
  <2> DEFINE range == TradeSizeMax - TradeSizeMin
             size(i) == TradeSizeMin + (range * (i - 1)) \div (TradeSizeSteps - 1)
  <2>1. CandidateSizes = [i \in 1..TradeSizeSteps |-> size(i)]
    BY <1>3 DEF CandidateSizes
  <2>2. ASSUME NEW i \in 1..TradeSizeSteps
        PROVE  size(i) \in Nat
    <3> DEFINE x == range * (i - 1)
    <3>1. range \in Nat /\ i - 1 \in Nat
      BY <1>1
    <3> HIDE DEF range
    <3>2. x \in Nat
      BY <3>1
    <3> HIDE DEF x
    <3>3. x \div (TradeSizeSteps - 1) \in Nat
      BY <1>1, <3>2, DivRoundsDown
    <3>. QED  BY <1>1, <3>3 DEF x
  <2>3. IsFiniteSet(1..TradeSizeSteps)
    BY <1>1, FS_Interval
  <2> HIDE DEF size
  <2>. QED  BY <2>1, <2>2, <2>3
<1>. QED  BY <1>2, <1>3

\* The prices of a size, each with the walk or the quote that it comes from.
Priced(book, p) ==
  /\ p.size \in Nat /\ p.cexBid \in Nat /\ p.cexAsk \in Nat
  /\ p.dexSellPrice \in Nat /\ p.dexBuyPrice \in Nat
  /\ \E cost : Averages(book.asks, p.size, p.cexAsk, cost)
  /\ \E cost : Averages(book.bids, p.size, p.cexBid, cost)
  /\ p.dexSellPrice = DexSellPrice(p.size)
  /\ p.dexBuyPrice = DexBuyPrice((p.size * p.cexBid) \div PriceScale)

\* The prices of the pool are numbers, also those of an empty trade.
LEMMA PoolPricesAreNumbers ==
  ASSUME amm \in AmmReserves, NEW x \in Nat
  PROVE  DexSellPrice(x) \in Nat /\ DexBuyPrice(x) \in Nat
<1>1. /\ PriceScale \in Nat \ {0} /\ QuoteUnit \in Nat \ {0} /\ BaseUnit \in Nat \ {0}
      /\ amm.base \in Nat \ {0} /\ amm.quote \in Nat \ {0}
  BY UnitsAssumption, SignalAssumption
<1>2. \A y \in Nat : QuoteFor(y) \in Nat /\ BaseFor(y) \in Nat
  BY <1>1, OutputType DEF QuoteFor, BaseFor
<1>3. \A y, z \in Nat : y * z \in Nat
  OBVIOUS
<1>4. DexSellPrice(x) \in Nat
  <2> DEFINE in == (x * BaseUnit) \div PriceScale
             received == (QuoteFor(in) * PriceScale) \div QuoteUnit
  <2>1. x * BaseUnit \in Nat
    BY <1>1, <1>3
  <2>2. in \in Nat
    BY <1>1, <2>1, DivRoundsDown
  <2> HIDE DEF in
  <2>3. QuoteFor(in) * PriceScale \in Nat
    BY <1>1, <1>2, <1>3, <2>2
  <2>4. received \in Nat
    BY <1>1, <2>3, DivRoundsDown
  <2> HIDE DEF received
  <2>5. received * PriceScale \in Nat
    BY <1>1, <1>3, <2>4
  <2>6. x > 0 => (received * PriceScale) \div x \in Nat
    BY <2>5, DivRoundsDown
  <2>7. DexSellPrice(x) = IF x > 0 THEN (received * PriceScale) \div x ELSE 0
    BY DEF DexSellPrice, received, in
  <2>. QED  BY <2>6, <2>7
<1>5. DexBuyPrice(x) \in Nat
  <2> DEFINE in == (x * QuoteUnit) \div PriceScale
             bought == (BaseFor(in) * PriceScale) \div BaseUnit
  <2>1. x * QuoteUnit \in Nat
    BY <1>1, <1>3
  <2>2. in \in Nat
    BY <1>1, <2>1, DivRoundsDown
  <2> HIDE DEF in
  <2>3. BaseFor(in) * PriceScale \in Nat
    BY <1>1, <1>2, <1>3, <2>2
  <2>4. bought \in Nat
    BY <1>1, <2>3, DivRoundsDown
  <2> HIDE DEF bought
  <2>5. x * PriceScale \in Nat
    BY <1>1, <1>3
  <2>6. bought > 0 => (x * PriceScale) \div bought \in Nat
    BY <2>4, <2>5, DivRoundsDown
  <2>7. DexBuyPrice(x) = IF bought > 0 THEN (x * PriceScale) \div bought ELSE 0
    BY DEF DexBuyPrice, bought, in
  <2>. QED  BY <2>6, <2>7
<1>. QED  BY <1>4, <1>5

\* fetchPrices prices both sides of the size it was given.
LEMMA PricesArePriced ==
  ASSUME amm \in AmmReserves, NEW book \in OrderBooks, book.asks # <<>>, NEW usd \in Nat,
         Fillable(book, usd)
  PROVE  /\ Priced(book, PricesAt(book, usd))
         /\ PricesAt(book, usd).size = SizeOf(book, usd)
         /\ PricesAt(book, usd).cexBid = AvgPrice(book, "sell", SizeOf(book, usd))
<1> DEFINE size == SizeOf(book, usd)
           p == PricesAt(book, usd)
           bid == AvgPrice(book, "sell", size)
           ask == AvgPrice(book, "buy", size)
<1>1. PriceScale \in Nat \ {0} /\ book.bids \in Seq(Offers) /\ book.asks \in Seq(Offers)
  BY UnitsAssumption, SignalAssumption
<1>2. size \in Nat
  <2>1. Len(book.asks) \in Nat /\ Len(book.asks) # 0
    BY <1>1
  <2>2. 1 \in 1..Len(book.asks)
    BY <2>1
  <2>3. book.asks[1].price \in Nat \ {0}
    BY <1>1, <2>2, LevelsAreNumbers
  <2>4. usd * PriceScale \in Nat
    BY <1>1
  <2> DEFINE x == usd * PriceScale
             y == book.asks[1].price
  <2>5. size = x \div y
    BY DEF SizeOf
  <2> HIDE DEF x, y, size
  <2>6. x \in Nat /\ y \in Nat \ {0}
    BY <2>3, <2>4 DEF x, y
  <2>. QED  BY <2>5, <2>6, DivRoundsDown
<1>3. FullyFilled(book, "buy", size) /\ FullyFilled(book, "sell", size)
  BY DEF Fillable
<1>4. LevelsOf(book, "buy") = book.asks /\ LevelsOf(book, "sell") = book.bids
  BY DEF LevelsOf
<1>5. p = [size |-> size, cexBid |-> bid, cexAsk |-> ask, dexSellPrice |-> DexSellPrice(size),
           dexBuyPrice |-> DexBuyPrice((size * bid) \div PriceScale)]
  BY DEF PricesAt, ComputePricesAt
<1> HIDE DEF size, p
<1>6. \E cost : Averages(book.asks, size, ask, cost)
  BY <1>1, <1>2, <1>3, <1>4, AverageOfFilled
<1>7. \E cost : Averages(book.bids, size, bid, cost)
  BY <1>1, <1>2, <1>3, <1>4, AverageOfFilled
<1> HIDE DEF bid, ask
<1>8. bid \in Nat /\ ask \in Nat
  BY <1>6, <1>7 DEF Averages
<1>9. (size * bid) \div PriceScale \in Nat
  <2> DEFINE x == size * bid
  <2>1. x \in Nat
    BY <1>2, <1>8
  <2> HIDE DEF x
  <2>2. x \div PriceScale \in Nat
    BY <1>1, <2>1, DivRoundsDown
  <2>. QED  BY <2>2 DEF x
<1>10. DexSellPrice(size) \in Nat /\ DexBuyPrice((size * bid) \div PriceScale) \in Nat
  BY <1>2, <1>9, PoolPricesAreNumbers
<1>11. Priced(book, p)
  BY <1>2, <1>5, <1>6, <1>7, <1>8, <1>10 DEF Priced
<1>. QED  BY <1>5, <1>11 DEF p, size, bid

\* Fees are natural numbers, and the gas comes on top of them.
LEMMA FeesAre ==
  ASSUME NEW value \in Nat, NEW gasCost \in Nat
  PROVE  TotalFee(value, 0) \in Nat /\ TotalFee(value, gasCost) = TotalFee(value, 0) + gasCost
<1> DEFINE x == value * (CexTakerBps + DexSwapBps)
<1>1. Bps \in Nat \ {0} /\ CexTakerBps \in Nat /\ DexSwapBps \in Nat
  BY UnitsAssumption, SignalAssumption
<1>2. x \in Nat
  BY <1>1
<1>3. TotalFee(value, 0) = x \div Bps + 0 /\ TotalFee(value, gasCost) = x \div Bps + gasCost
  BY DEF TotalFee
<1> HIDE DEF x
<1>4. x \div Bps \in Nat
  BY <1>1, <1>2, DivRoundsDown
<1>. QED  BY <1>3, <1>4

\* The estimate the sizes are compared by is a number.
LEMMA EstimateIsNumber ==
  ASSUME NEW book, NEW p, Priced(book, p), NEW gasCost \in Nat
  PROVE  EstimateNetPnl(p, gasCost) \in Int
<1> DEFINE gain(more, less) ==
             IF more > less THEN (p.size * (more - less)) \div PriceScale ELSE -1
           buyCex == gain(p.dexSellPrice, p.cexAsk)
           buyDex == gain(p.cexBid, p.dexBuyPrice)
           gross == IF buyCex > buyDex THEN buyCex ELSE buyDex
           fee == TotalFee((p.size * p.cexAsk) \div PriceScale, gasCost)
<1>1. /\ p.size \in Nat /\ p.cexBid \in Nat /\ p.cexAsk \in Nat
      /\ p.dexSellPrice \in Nat /\ p.dexBuyPrice \in Nat /\ PriceScale \in Nat \ {0}
  BY UnitsAssumption DEF Priced
<1>2. EstimateNetPnl(p, gasCost) = IF gross <= 0 THEN -1 ELSE gross - fee
  BY DEF EstimateNetPnl
<1>3. \A more, less \in Nat : gain(more, less) \in Int
  <2> SUFFICES ASSUME NEW more \in Nat, NEW less \in Nat
               PROVE  gain(more, less) \in Int
    OBVIOUS
  <2>1. more - less \in Int
    OBVIOUS
  <2>2. (p.size * (more - less)) \div PriceScale \in Int
    BY <1>1, <2>1, GrossIsRounded
  <2>. QED  BY <2>2
<1>4. gross \in Int
  <2> HIDE DEF gain
  <2>. QED  BY <1>1, <1>3
<1>5. fee \in Int
  <2> DEFINE x == p.size * p.cexAsk
  <2>1. x \in Nat
    BY <1>1
  <2> HIDE DEF x
  <2>2. x \div PriceScale \in Nat
    BY <1>1, <2>1, DivRoundsDown
  <2>3. TotalFee(x \div PriceScale, gasCost) \in Int
    BY <2>2, FeesAre
  <2>. QED  BY <2>3 DEF x
<1> HIDE DEF gross, fee
<1>. QED  BY <1>2, <1>4, <1>5

\* The best size is one of the candidates the book can fill ...
LEMMA BestIsCandidate ==
  ASSUME amm \in AmmReserves, NEW book \in OrderBooks, NEW gasCost \in Nat,
         FindBestPrices(book, gasCost) # None
  PROVE  \E i \in DOMAIN CandidateSizes :
           /\ book.asks # <<>> /\ Fillable(book, CandidateSizes[i])
           /\ FindBestPrices(book, gasCost) = PricesAt(book, CandidateSizes[i])
<1> DEFINE sizes == CandidateSizes
           fillable == {i \in DOMAIN sizes : Fillable(book, sizes[i])}
           pnl == [i \in fillable |-> EstimateNetPnl(PricesAt(book, sizes[i]), gasCost)]
           best == {i \in fillable : \A j \in fillable : pnl[j] <= pnl[i]}
<1>1. /\ FindBestPrices(book, gasCost) = PricesAt(book, sizes[FirstOf(best)])
      /\ book.asks # <<>> /\ fillable # {}
  BY DEF FindBestPrices
<1> HIDE DEF sizes
<1>2. fillable \in SUBSET Nat /\ IsFiniteSet(fillable)
  BY SizesAreNumbers, FS_Subset DEF sizes
<1>3. pnl \in [fillable -> Int]
  <2> SUFFICES ASSUME NEW i \in fillable
               PROVE  EstimateNetPnl(PricesAt(book, sizes[i]), gasCost) \in Int
    OBVIOUS
  <2>1. sizes[i] \in Nat /\ Fillable(book, sizes[i])
    BY SizesAreNumbers DEF sizes
  <2>2. Priced(book, PricesAt(book, sizes[i]))
    BY <1>1, <2>1, PricesArePriced
  <2>. QED  BY <2>2, EstimateIsNumber
<1> HIDE DEF pnl
<1>4. best # {} /\ best \in SUBSET Nat /\ best \subseteq fillable
  <2> HIDE DEF fillable
  <2>1. \E i \in fillable : \A j \in fillable : pnl[j] <= pnl[i]
    BY <1>1, <1>2, <1>3, LargestExists
  <2>. QED  BY <1>2, <2>1
<1> HIDE DEF best
<1>5. FirstOf(best) \in best
  <2>1. \E i \in best : \A j \in best : i <= j
    BY <1>4, LeastExists
  <2>. QED  BY <2>1 DEF FirstOf
<1>6. FirstOf(best) \in DOMAIN sizes /\ Fillable(book, sizes[FirstOf(best)])
  BY <1>4, <1>5
<1>. QED  BY <1>1, <1>6 DEF sizes

-----------------------------------------------------------------------------
(* Deals *)

\* A deal that passes for profitable is worth what it promises.
DealInv(d) ==
  /\ d.cexBid \in Nat
  /\ TradeValue(d) \in Nat
  /\ GrossPnl(d) \in Int
  /\ GrossPnl(d) >= MinProfit + TotalFee(TradeValue(d), 0)
       => Worth(d) \in Int /\ Roundings(d) \in Nat /\ GrossPnl(d) <= Worth(d) + Roundings(d)

\* Prices of a size that the fees of a sale count for.
Candidate(book, p) ==
  /\ Priced(book, p)
  /\ MinProfit + TotalFee((p.size * p.cexBid) \div PriceScale, 0) >= p.size \div PriceScale + 2

\* ... and is priced as they are.
LEMMA BestIsPriced ==
  ASSUME amm \in AmmReserves, NEW book \in OrderBooks, NEW gasCost \in Nat,
         FindBestPrices(book, gasCost) # None
  PROVE  Candidate(book, FindBestPrices(book, gasCost))
<1>1. PICK i \in DOMAIN CandidateSizes :
        /\ book.asks # <<>> /\ Fillable(book, CandidateSizes[i])
        /\ FindBestPrices(book, gasCost) = PricesAt(book, CandidateSizes[i])
  BY BestIsCandidate
<1> DEFINE usd == CandidateSizes[i]
           size == SizeOf(book, usd)
           sale == (size * AvgPrice(book, "sell", size)) \div PriceScale
           p == PricesAt(book, usd)
<1>2. usd \in Nat
  BY SizesAreNumbers
<1>3. Priced(book, p) /\ p.size = size /\ p.cexBid = AvgPrice(book, "sell", size)
  BY <1>1, <1>2, PricesArePriced
<1>4. MinProfit + TotalFee(sale, 0) >= size \div PriceScale + 2
  BY <1>1, FeesCount
<1>. QED  BY <1>1, <1>3, <1>4 DEF Candidate

\* The parts of Roundings.
LEMMA RoundingsAre ==
  ASSUME NEW d, d.book \in OrderBooks, d.size \in Nat
  PROVE  /\ d.size \div PriceScale \in Nat /\ PriceScale \div QuoteUnit \in Nat
         /\ Len(d.book.asks) \in Nat /\ Len(d.book.bids) \in Nat
         /\ Roundings(d) = d.size \div PriceScale + Len(d.book.asks) + Len(d.book.bids) + 4
                             + PriceScale \div QuoteUnit
<1>1. PriceScale \in Nat \ {0} /\ QuoteUnit \in Nat \ {0}
  BY UnitsAssumption, SignalAssumption
<1>2. d.size \div PriceScale \in Nat /\ PriceScale \div QuoteUnit \in Nat
  BY <1>1, DivRoundsDown
<1>3. d.book.asks \in Seq(Offers) /\ d.book.bids \in Seq(Offers)
  BY SignalAssumption
<1>4. Len(d.book.asks) \in Nat /\ Len(d.book.bids) \in Nat
  BY <1>3
<1>. QED  BY <1>2, <1>4 DEF Roundings

\* Buying at the exchange.
BuysAtCex(d, book, p) ==
  /\ d.direction = "buy_cex_sell_dex" /\ d.book = book /\ d.amm = amm
  /\ d.size = p.size /\ d.cexBid = p.cexBid
  /\ d.cexPrice = p.cexAsk /\ d.dexPrice = p.dexSellPrice
  /\ p.dexSellPrice > 0

\* A deal that buys at the exchange and sells to the pool gains what it counts.
LEMMA BuyingAtCexIsSound ==
  ASSUME amm \in AmmReserves, NEW book \in OrderBooks, NEW p, Candidate(book, p),
         NEW d, BuysAtCex(d, book, p)
  PROVE  DealInv(d)
<1> DEFINE s == p.size
           ask == p.cexAsk
           dex == p.dexSellPrice
           in == (s * BaseUnit) \div PriceScale
           out == GetAmountOut(in, amm.base, amm.quote)
           received == (out * PriceScale) \div QuoteUnit
           value == BookValue(book.asks, s)
           gross == (s * (dex - ask)) \div PriceScale
           e == s \div PriceScale
<1>1. /\ PriceScale \in Nat \ {0} /\ QuoteUnit \in Nat \ {0} /\ BaseUnit \in Nat \ {0}
      /\ amm.base \in Nat \ {0} /\ amm.quote \in Nat \ {0}
  BY UnitsAssumption, SignalAssumption
<1>2. s \in Nat /\ ask \in Nat /\ dex \in Nat /\ p.cexBid \in Nat
  BY DEF Candidate, Priced
<1>3. PICK cost : Averages(book.asks, s, ask, cost)
  BY DEF Candidate, Priced
<1>4. dex = IF s > 0 THEN (received * PriceScale) \div s ELSE 0
  BY DEF Candidate, Priced, DexSellPrice, QuoteFor
<1>5. s > 0
  BY <1>2, <1>4 DEF BuysAtCex
<1>6. in \in Nat
  <2> DEFINE x == s * BaseUnit
  <2>1. x \in Nat
    BY <1>1, <1>2
  <2> HIDE DEF x
  <2>2. x \div PriceScale \in Nat
    BY <1>1, <2>1, DivRoundsDown
  <2>. QED  BY <2>2 DEF x
<1>7. /\ d.cexBid = p.cexBid
      /\ TradeValue(d) = (s * ask) \div PriceScale
      /\ GrossPnl(d) = gross
      /\ Worth(d) = received - value
      /\ d.size = s /\ d.book = book
  BY DEF BuysAtCex, TradeValue, GrossPnl, Worth
<1> HIDE DEF in
<1>8. out \in Nat
  BY <1>1, <1>6, OutputType
<1> HIDE DEF out
<1>9. received \in Nat
  <2> DEFINE x == out * PriceScale
  <2>1. x \in Nat
    BY <1>1, <1>8
  <2> HIDE DEF x
  <2>2. x \div QuoteUnit \in Nat
    BY <1>1, <2>1, DivRoundsDown
  <2>. QED  BY <2>2 DEF x
<1> HIDE DEF received, s, ask, dex, value
<1>10. /\ cost \in Nat /\ value \in Nat /\ cost * PriceScale < ask * s + s
       /\ value <= cost + Len(book.asks)
  BY <1>3, <1>5 DEF Averages, value
<1>11. dex * s <= received * PriceScale
  <2> DEFINE x == received * PriceScale
  <2>1. x \in Nat /\ s \in Nat \ {0}
    BY <1>1, <1>2, <1>5, <1>9
  <2>2. dex = x \div s
    BY <1>4, <1>5
  <2> HIDE DEF x
  <2>3. (x \div s) * s <= x
    BY <2>1, DivRoundsDown
  <2>. QED  BY <2>2, <2>3 DEF x
<1>12. gross \in Int /\ gross <= received - cost + e
  BY <1>2, <1>9, <1>10, <1>11, SaleAtPool
<1>13. (s * ask) \div PriceScale \in Nat
  <2> DEFINE x == s * ask
  <2>1. x \in Nat
    BY <1>2
  <2> HIDE DEF x
  <2>2. x \div PriceScale \in Nat
    BY <1>1, <2>1, DivRoundsDown
  <2>. QED  BY <2>2 DEF x
<1>14. /\ e \in Nat /\ PriceScale \div QuoteUnit \in Nat
       /\ Len(book.asks) \in Nat /\ Len(book.bids) \in Nat
       /\ Roundings(d) = e + Len(book.asks) + Len(book.bids) + 4 + PriceScale \div QuoteUnit
  BY <1>2, <1>7, RoundingsAre
<1>15. received - value \in Int /\ Roundings(d) \in Nat /\ gross <= received - value + Roundings(d)
  <2> DEFINE k == PriceScale \div QuoteUnit
             n == Len(book.asks)
             m == Len(book.bids)
  <2> HIDE DEF e, k, n, m, gross
  <2>1. e \in Nat /\ k \in Nat /\ n \in Nat /\ m \in Nat /\ Roundings(d) = e + n + m + 4 + k
    BY <1>14 DEF k, n, m
  <2>2. value <= cost + n
    BY <1>10 DEF n
  <2>. QED  BY <1>9, <1>10, <1>12, <2>1, <2>2
<1> HIDE DEF gross, e
<1>. QED  BY <1>2, <1>7, <1>12, <1>13, <1>15 DEF DealInv

\* Buying at the pool.
BuysAtDex(d, book, p) ==
  /\ d.direction = "buy_dex_sell_cex" /\ d.book = book /\ d.amm = amm
  /\ d.size = p.size /\ d.cexBid = p.cexBid
  /\ d.cexPrice = p.cexBid /\ d.dexPrice = p.dexBuyPrice
  /\ p.dexBuyPrice > 0

\* A deal that buys from the pool and sells at the exchange gains what it counts.
LEMMA BuyingAtDexIsSound ==
  ASSUME amm \in AmmReserves, NEW book \in OrderBooks, NEW p, Candidate(book, p),
         NEW d, BuysAtDex(d, book, p)
  PROVE  DealInv(d)
<1> DEFINE s == p.size
           bid == p.cexBid
           dex == p.dexBuyPrice
           m == (s * bid) \div PriceScale
           q == (m * QuoteUnit) \div PriceScale
           o == GetAmountOut(q, amm.quote, amm.base)
           b == (o * PriceScale) \div BaseUnit
           base == (s * BaseUnit) \div PriceScale
           value == BookValue(book.bids, s)
           gross == (s * (bid - dex)) \div PriceScale
           asked == GetAmountIn(base, amm.quote, amm.base)
           x == (asked * PriceScale) \div QuoteUnit
           e == s \div PriceScale
           k == PriceScale \div QuoteUnit
<1>1. /\ PriceScale \in Nat \ {0} /\ QuoteUnit \in Nat \ {0} /\ BaseUnit \in Nat \ {0}
      /\ amm.base \in Nat \ {0} /\ amm.quote \in Nat \ {0} /\ MinProfit \in Int
  BY UnitsAssumption, SignalAssumption
<1>2. s \in Nat /\ bid \in Nat /\ dex \in Nat
  BY DEF Candidate, Priced
<1>3. PICK cost : Averages(book.bids, s, bid, cost)
  BY DEF Candidate, Priced
<1>4. dex = IF b > 0 THEN (m * PriceScale) \div b ELSE 0
  BY DEF Candidate, Priced, DexBuyPrice, BaseFor
<1>5. /\ d.cexBid = bid
      /\ TradeValue(d) = m
      /\ GrossPnl(d) = gross
      /\ Worth(d) = value - x
      /\ d.size = s /\ d.book = book
  BY DEF BuysAtDex, TradeValue, GrossPnl, Worth
<1>6. dex > 0
  BY DEF BuysAtDex
<1>7. MinProfit + TotalFee(m, 0) >= e + 2
  BY DEF Candidate
<1>8. /\ e \in Nat /\ k \in Nat
      /\ Len(book.asks) \in Nat /\ Len(book.bids) \in Nat
      /\ Roundings(d) = e + Len(book.asks) + Len(book.bids) + 4 + k
  BY <1>2, <1>5, RoundingsAre
<1>9. /\ \A y, z \in Nat : y * z \in Nat
      /\ \A y \in Nat : \A z \in Nat \ {0} :
           /\ y \div z \in Nat /\ (y \div z) * z <= y /\ y < (y \div z) * z + z
  BY DivRoundsDown
<1> HIDE DEF s, bid, dex, value, gross, e, k
<1>10. m \in Nat /\ m * PriceScale <= s * bid /\ s * bid < m * PriceScale + PriceScale
  <2>1. s * bid \in Nat
    BY <1>2, <1>9
  <2>. QED  BY <1>1, <1>9, <2>1
<1> HIDE DEF m
<1>11. q \in Nat /\ q * PriceScale <= m * QuoteUnit
  <2>1. m * QuoteUnit \in Nat
    BY <1>1, <1>9, <1>10
  <2>. QED  BY <1>1, <1>9, <2>1
<1> HIDE DEF q
<1>12. o \in Nat /\ o < amm.base
  BY <1>1, <1>11, OutputType
<1>13. b \in Nat /\ b * BaseUnit <= o * PriceScale
  <2> HIDE DEF o
  <2>1. o * PriceScale \in Nat
    BY <1>1, <1>9, <1>12
  <2>. QED  BY <1>1, <1>9, <2>1
<1>14. base \in Nat /\ base * PriceScale <= s * BaseUnit
  <2>1. s * BaseUnit \in Nat
    BY <1>1, <1>2, <1>9
  <2>. QED  BY <1>1, <1>9, <2>1
<1> HIDE DEF b, base
<1>15. b \in Nat \ {0} /\ dex * b <= m * PriceScale /\ m * PriceScale < dex * b + b
  <2>1. b > 0 /\ dex = (m * PriceScale) \div b
    BY <1>4, <1>6, <1>13
  <2>2. m * PriceScale \in Nat /\ b \in Nat \ {0}
    BY <1>1, <1>9, <1>10, <1>13, <2>1
  <2> DEFINE y == m * PriceScale
  <2> HIDE DEF y
  <2>3. y \in Nat /\ dex = y \div b
    BY <2>1, <2>2 DEF y
  <2>4. dex * b <= y /\ y < dex * b + b
    BY <1>9, <2>2, <2>3
  <2>. QED  BY <2>2, <2>4 DEF y
<1>16. Spends(m, s, bid, dex, b)
  BY <1>10, <1>15 DEF Spends
<1>17. /\ cost \in Nat /\ value \in Nat /\ bid * s <= cost * PriceScale /\ cost <= value
  BY <1>3 DEF Averages, value
<1>18. gross \in Int
  <2>1. bid - dex \in Int
    BY <1>2
  <2>. QED  BY <1>2, <2>1, GrossIsRounded DEF gross
<1>19. ASSUME gross >= e + 2
       PROVE  x \in Nat /\ gross <= cost - x + k + e + 2
  <2>1. s < b
    <3> SUFFICES ASSUME b <= s
                 PROVE  FALSE
      BY <1>2, <1>13
    <3>1. gross <= e + 1
      BY <1>2, <1>10, <1>13, <1>16, GainNeedsMore DEF gross, e
    <3>. QED  BY <1>8, <1>18, <1>19, <3>1
  <2>2. base <= o
    <3>1. s * BaseUnit <= b * BaseUnit
      BY <1>1, <1>2, <1>13, <2>1, TimesKeeps
    <3>2. /\ base * PriceScale \in Int /\ s * BaseUnit \in Int /\ b * BaseUnit \in Int
          /\ o * PriceScale \in Int
      <4> HIDE DEF o
      <4>. QED  BY <1>1, <1>2, <1>9, <1>12, <1>13, <1>14
    <3>3. base * PriceScale <= o * PriceScale
      BY <1>13, <1>14, <3>1, <3>2
    <3> HIDE DEF o
    <3>. QED  BY <1>1, <1>12, <1>14, <3>3, TimesCancels
  <2>3. PICK a \in Nat : asked = a + 1 /\ a * o <= q * base
    BY <1>1, <1>11, <1>14, <2>2, AskedIsShare
  <2> HIDE DEF o, asked
  <2>4. x \in Nat /\ x * QuoteUnit <= (a + 1) * PriceScale
    <3>1. asked * PriceScale \in Nat
      BY <1>1, <1>9, <2>3
    <3>. QED  BY <1>1, <1>9, <2>3, <3>1
  <2> HIDE DEF x
  <2>5. Paid(x, a, o, q, base, m, s, b)
    BY <1>11, <1>13, <1>14, <2>3, <2>4 DEF Paid
  <2>6. x * b <= m * s + (k + 1) * b
    BY <1>2, <1>10, <1>11, <1>12, <1>13, <1>14, <2>4, <2>5, PaymentIsShare DEF k
  <2>7. gross <= cost - x + k + e + 2
    BY <1>2, <1>8, <1>10, <1>15, <1>16, <1>17, <2>4, <2>6, PurchaseAtPool DEF gross, e
  <2>. QED  BY <2>4, <2>7
<1>20. ASSUME gross >= MinProfit + TotalFee(m, 0)
       PROVE  value - x \in Int /\ Roundings(d) \in Nat /\ gross <= value - x + Roundings(d)
  <2>1. TotalFee(m, 0) \in Nat
    BY <1>10, FeesAre
  <2>2. gross >= e + 2
    BY <1>1, <1>7, <1>8, <1>18, <1>20, <2>1
  <2>3. x \in Nat /\ gross <= cost - x + k + e + 2
    BY <1>19, <2>2
  <2> DEFINE i == Len(book.asks)
             j == Len(book.bids)
  <2> HIDE DEF i, j, x
  <2>4. i \in Nat /\ j \in Nat /\ Roundings(d) = e + i + j + 4 + k
    BY <1>8 DEF i, j
  <2>5. /\ value \in Nat /\ cost \in Nat /\ cost <= value /\ e \in Nat /\ k \in Nat
        /\ gross \in Int /\ gross <= cost - x + k + e + 2 /\ x \in Nat
    BY <1>8, <1>17, <1>18, <2>3
  <2>6. Roundings(d) \in Nat /\ value - x \in Int
    BY <2>4, <2>5
  <2>7. gross <= value - x + Roundings(d)
    BY <2>4, <2>5
  <2>. QED  BY <2>6, <2>7
<1> HIDE DEF x
<1>. QED  BY <1>2, <1>5, <1>10, <1>18, <1>20 DEF DealInv

\* A spread of the least that is asked for, or more, is between two real prices.
LEMMA SpreadIsReal ==
  ASSUME NEW book, NEW p, Priced(book, p)
  PROVE  /\ InBpsAtLeast(SpreadBuyingAtCex(p), MinSpreadBps) => p.dexSellPrice > 0
         /\ InBpsAtLeast(SpreadBuyingAtDex(p), MinSpreadBps) => p.dexBuyPrice > 0
<1>1. /\ p.cexAsk \in Nat /\ p.dexSellPrice \in Nat /\ p.dexBuyPrice \in Nat
      /\ MinSpreadBps \in Nat \ {0} /\ Bps \in Nat \ {0}
  BY UnitsAssumption, SignalAssumption DEF Priced
<1>2. ASSUME InBpsAtLeast(SpreadBuyingAtCex(p), MinSpreadBps)
      PROVE  p.dexSellPrice > 0
  <2>1. CASE p.cexAsk > 0
    <3> SUFFICES ASSUME p.dexSellPrice = 0
                 PROVE  FALSE
      BY <1>1
    <3>1. (0 - p.cexAsk) * Bps >= MinSpreadBps * p.cexAsk
      BY <1>2, <2>1 DEF InBpsAtLeast, SpreadBuyingAtCex
    <3>2. MinSpreadBps * p.cexAsk \in Nat \ {0} /\ p.cexAsk * Bps \in Nat \ {0}
      BY <1>1, <2>1, TimesPositive
    <3>3. (0 - p.cexAsk) * Bps = 0 - p.cexAsk * Bps
      BY <1>1
    <3>. QED  BY <3>1, <3>2, <3>3
  <2>2. CASE ~(p.cexAsk > 0)
    <3>1. 0 * Bps >= MinSpreadBps * 1
      BY <1>2, <2>2 DEF InBpsAtLeast, SpreadBuyingAtCex
    <3>. QED  BY <1>1, <3>1
  <2>. QED  BY <2>1, <2>2
<1>3. ASSUME InBpsAtLeast(SpreadBuyingAtDex(p), MinSpreadBps)
      PROVE  p.dexBuyPrice > 0
  <2> SUFFICES ASSUME ~(p.dexBuyPrice > 0)
               PROVE  FALSE
    OBVIOUS
  <2>1. 0 * Bps >= MinSpreadBps * 1
    BY <1>3 DEF InBpsAtLeast, SpreadBuyingAtDex
  <2>. QED  BY <1>1, <2>1
<1>. QED  BY <1>2, <1>3

\* Whatever generate() decides on before it knows the gas is such a deal.
LEMMA DealIsSound ==
  ASSUME amm \in AmmReserves, NEW book \in OrderBooks, NEW gasCost \in Nat,
         Deal(book, gasCost) # None
  PROVE  DealInv(Deal(book, gasCost))
<1> DEFINE p == FindBestPrices(book, gasCost)
           d == Deal(book, gasCost)
           atCex == SpreadBuyingAtCex(p)
           atDex == SpreadBuyingAtDex(p)
           deal(direction, spread, cexPrice, dexPrice) ==
             [direction |-> direction, spread |-> spread, cexPrice |-> cexPrice,
              dexPrice |-> dexPrice, size |-> p.size, cexBid |-> p.cexBid,
              book |-> book, amm |-> amm]
<1>1. p # None
  BY DEF Deal, DealAt
<1>2. Candidate(book, p) /\ Priced(book, p)
  BY <1>1, BestIsPriced DEF Candidate
<1>3. \/ /\ InBpsAtLeast(atCex, MinSpreadBps)
         /\ d = deal("buy_cex_sell_dex", atCex, p.cexAsk, p.dexSellPrice)
      \/ /\ InBpsAtLeast(atDex, MinSpreadBps)
         /\ d = deal("buy_dex_sell_cex", atDex, p.cexBid, p.dexBuyPrice)
  BY <1>1 DEF Deal, DealAt
<1> HIDE DEF p, d
<1>4. CASE /\ InBpsAtLeast(atCex, MinSpreadBps)
           /\ d = deal("buy_cex_sell_dex", atCex, p.cexAsk, p.dexSellPrice)
  <2>1. p.dexSellPrice > 0
    BY <1>2, <1>4, SpreadIsReal
  <2>2. BuysAtCex(d, book, p)
    BY <1>4, <2>1 DEF BuysAtCex
  <2>. QED  BY <1>2, <2>2, BuyingAtCexIsSound DEF d
<1>5. CASE /\ InBpsAtLeast(atDex, MinSpreadBps)
           /\ d = deal("buy_dex_sell_cex", atDex, p.cexBid, p.dexBuyPrice)
  <2>1. p.dexBuyPrice > 0
    BY <1>2, <1>5, SpreadIsReal
  <2>2. BuysAtDex(d, book, p)
    BY <1>5, <2>1 DEF BuysAtDex
  <2>. QED  BY <1>2, <2>2, BuyingAtDexIsSound DEF d
<1>. QED  BY <1>3, <1>4, <1>5

-----------------------------------------------------------------------------
(* The bot *)

\* What SignalSound says of one signal.
Sound(sig) ==
  sig # None =>
    sig.expectedNetPnl <=
      Worth(sig.deal) - TotalFee(TradeValue(sig.deal), sig.gasCost) + Roundings(sig.deal)

BotFields ==
  {"tick", "gasCost", "costCache", "gasCache", "lastSignalTime", "priceHistory", "results",
   "signal"}

\* The costs and the caches are numbers, and so is what comes of them.
KnownInv(b) ==
  /\ DOMAIN b = BotFields
  /\ b.gasCost \in Nat
  /\ b.costCache # None => b.costCache.cost \in Nat
  /\ b.gasCache # None => b.gasCache.maxFee \in Nat
  /\ Sound(b.signal)

\* What a tick holds over its awaits.
TickInv(tick) ==
  /\ tick.pc = "estimate" => tick.book \in OrderBooks
  /\ tick.pc \in {"generate", "peek"} => DealInv(tick.deal)

BotInv(b) == KnownInv(b) /\ TickInv(b.tick)

\* A tick that is under way has a newest book to peek at.
SignalInv ==
  /\ amm \in AmmReserves
  /\ gas \in GasPricesSeen
  /\ bot.tick.pc # "idle" => latest \in OrderBooks
  /\ BotInv(bot)

\* A deal whose net profit reaches the minimum makes a sound signal.
LEMMA SignalOfIsSound ==
  ASSUME NEW d, DealInv(d), NEW gasCost \in Nat, NEW sig, sig = SignalOf(d, gasCost),
         ~(sig.expectedNetPnl < MinProfit)
  PROVE  Sound(sig)
<1> DEFINE fees == TotalFee(TradeValue(d), gasCost)
           base == TotalFee(TradeValue(d), 0)
<1>1. base \in Nat /\ fees = base + gasCost
  BY FeesAre DEF DealInv
<1>2. sig.deal = d /\ sig.gasCost = gasCost /\ sig.expectedNetPnl = GrossPnl(d) - fees
  BY DEF SignalOf
<1> HIDE DEF fees, base
<1>3. MinProfit \in Int /\ GrossPnl(d) \in Int
  BY SignalAssumption DEF DealInv
<1>4. GrossPnl(d) >= MinProfit + base
  BY <1>1, <1>2, <1>3
<1>5. Worth(d) \in Int /\ Roundings(d) \in Nat /\ GrossPnl(d) <= Worth(d) + Roundings(d)
  BY <1>4 DEF DealInv, base
<1>6. GrossPnl(d) - fees <= Worth(d) - fees + Roundings(d)
  BY <1>1, <1>3, <1>5
<1>. QED  BY <1>2, <1>6 DEF Sound, fees

\* A tick that ends holds nothing of its own.
LEMMA EndsKeeps ==
  ASSUME NEW b, KnownInv(b)
  PROVE  BotInv(Ends(b))
<1>1. "tick" \in DOMAIN b
  BY DEF KnownInv, BotFields
<1>2. Ends(b).tick = Idle /\ DOMAIN Ends(b) = BotFields
  BY <1>1 DEF Ends, KnownInv
<1>3. \A f \in BotFields \ {"tick"} : Ends(b)[f] = b[f]
  BY DEF Ends, KnownInv
<1>4. KnownInv(Ends(b))
  BY <1>2, <1>3 DEF KnownInv, BotFields
<1>5. TickInv(Ends(b).tick)
  BY <1>2 DEF TickInv, Idle
<1>. QED  BY <1>4, <1>5 DEF BotInv

\* A tick that awaits the gas or the executor holds its deal.
LEMMA WaitsKeeps ==
  ASSUME NEW b, KnownInv(b), NEW t, TickInv(t)
  PROVE  BotInv([b EXCEPT !.tick = t])
<1> DEFINE c == [b EXCEPT !.tick = t]
<1>1. "tick" \in DOMAIN b
  BY DEF KnownInv, BotFields
<1>2. c.tick = t /\ DOMAIN c = BotFields
  BY <1>1 DEF KnownInv
<1>3. \A f \in BotFields \ {"tick"} : c[f] = b[f]
  BY DEF KnownInv
<1> HIDE DEF c
<1>4. KnownInv(c)
  BY <1>2, <1>3 DEF KnownInv, BotFields
<1>5. BotInv(c)
  BY <1>2, <1>4 DEF BotInv
<1>. QED  BY <1>5 DEF c

\* The bot remembers only sound signals.
LEMMA EmitsKeeps ==
  ASSUME NEW b, KnownInv(b), NEW sig, Sound(sig)
  PROVE  KnownInv([b EXCEPT !.signal = sig])
<1> DEFINE c == [b EXCEPT !.signal = sig]
<1>1. "signal" \in DOMAIN b
  BY DEF KnownInv, BotFields
<1>2. c.signal = sig /\ DOMAIN c = BotFields
  BY <1>1 DEF KnownInv
<1>3. \A f \in BotFields \ {"signal"} : c[f] = b[f]
  BY DEF KnownInv
<1> HIDE DEF c
<1>4. KnownInv(c)
  BY <1>2, <1>3 DEF KnownInv, BotFields
<1>. QED  BY <1>4 DEF c

\* A signal handed to the executor has passed the minimum profit.
LEMMA ExecuteKeeps ==
  ASSUME NEW minProfit, NEW b, KnownInv(b), NEW d, DealInv(d), NEW gasCost \in Nat
  PROVE  BotInv(Execute(minProfit, b, d, gasCost))
<1> DEFINE sig == SignalOf(d, gasCost)
           emitted == [b EXCEPT !.signal = sig]
<1>1. CASE sig.expectedNetPnl < MinProfit
  BY <1>1, EndsKeeps DEF Execute
<1>2. CASE ~(sig.expectedNetPnl < MinProfit)
  <2>1. Sound(sig)
    BY <1>2, SignalOfIsSound
  <2>2. KnownInv(emitted)
    BY <2>1, EmitsKeeps
  <2> DEFINE t == [pc |-> "executing", valid |-> sig.valid]
  <2>3. TickInv(t)
    BY DEF TickInv
  <2>4. [b EXCEPT !.signal = sig, !.tick = t] = [emitted EXCEPT !.tick = t]
    OBVIOUS
  <2>5. [Ends(b) EXCEPT !.signal = sig] = Ends(emitted)
    BY DEF Ends, KnownInv, BotFields
  <2> HIDE DEF emitted, t
  <2>6. BotInv(Ends(emitted)) /\ BotInv([emitted EXCEPT !.tick = t])
    BY <2>2, <2>3, EndsKeeps, WaitsKeeps
  <2>7. Execute(minProfit, b, d, gasCost) \in {Ends(emitted), [emitted EXCEPT !.tick = t]}
    <3>1. \/ Execute(minProfit, b, d, gasCost) = [Ends(b) EXCEPT !.signal = sig]
          \/ Execute(minProfit, b, d, gasCost) = [b EXCEPT !.signal = sig, !.tick = t]
      BY <1>2 DEF Execute, t
    <3>. QED  BY <2>4, <2>5, <3>1
  <2>. QED  BY <2>6, <2>7
<1>. QED  BY <1>1, <1>2

\* The gas of a deal is a number.
LEMMA GasIsNumber ==
  ASSUME NEW maxFee \in Nat, NEW price \in Nat
  PROVE  GasOf(maxFee, price) \in Nat
<1> DEFINE x == maxFee * SwapGasUnits * price
<1>1. SwapGasUnits \in Nat /\ Ether \in Nat \ {0}
  BY SignalAssumption
<1>2. x \in Nat
  BY <1>1
<1> HIDE DEF x
<1>3. x \div Ether \in Nat
  BY <1>1, <1>2, DivRoundsDown
<1>. QED  BY <1>3 DEF GasOf, x

\* A cached gas cost is a number.
LEMMA CachedGasIsNumber ==
  ASSUME NEW b, KnownInv(b), GasIsCached(b), NEW d, DealInv(d)
  PROVE  CachedGas(b, d) \in Nat
<1>1. b.gasCache.maxFee \in Nat
  BY DEF GasIsCached, KnownInv
<1>. QED  BY <1>1, GasIsNumber DEF CachedGas, DealInv

\* Looking again prices the newest book anew.
LEMMA PeekKeeps ==
  ASSUME amm \in AmmReserves, latest' \in OrderBooks, NEW b, KnownInv(b), NEW minProfit
  PROVE  BotInv(Peek(b, minProfit))
<1>1. PICK book \in OrderBooks : latest' = book
  OBVIOUS
<1> DEFINE d == Deal(book, b.gasCost)
           t == [pc |-> "peek", deal |-> d, minProfit |-> minProfit]
<1>2. Peek(b, minProfit) = IF d = None THEN Ends(b)
                           ELSE IF GasIsCached(b)
                             THEN Execute(minProfit, b, d, CachedGas(b, d))
                           ELSE [b EXCEPT !.tick = t]
  BY <1>1 DEF Peek
<1>3. CASE d = None
  BY <1>2, <1>3, EndsKeeps
<1>4. CASE d # None
  <2>1. DealInv(d)
    BY <1>4, DealIsSound DEF KnownInv
  <2>2. GasIsCached(b) => BotInv(Execute(minProfit, b, d, CachedGas(b, d)))
    <3> HIDE DEF d
    <3>. QED  BY <2>1, CachedGasIsNumber, ExecuteKeeps
  <2>3. TickInv(t)
    <3> HIDE DEF d
    <3>. QED  BY <2>1 DEF TickInv
  <2> HIDE DEF d, t
  <2>4. BotInv([b EXCEPT !.tick = t])
    BY <2>3, WaitsKeeps
  <2>. QED  BY <1>2, <1>4, <2>2, <2>4
<1>. QED  BY <1>3, <1>4

\* Neither a dropped signal nor a buffered one leaves an unsound one behind.
LEMMA FilterKeeps ==
  ASSUME amm \in AmmReserves, latest' \in OrderBooks, NEW b, KnownInv(b),
         NEW d, DealInv(d), NEW gasCost \in Nat
  PROVE  BotInv(Filter(b, d, gasCost))
<1> DEFINE sig == SignalOf(d, gasCost)
           emitted == [b EXCEPT !.signal = sig, !.lastSignalTime = time]
           history == Latest(HistorySize, Append(emitted.priceHistory, d.cexPrice))
           recorded == [emitted EXCEPT !.priceHistory = history]
<1>1. CASE sig.expectedNetPnl < MinProfit
  BY <1>1, EndsKeeps DEF Filter
<1>2. CASE ~(sig.expectedNetPnl < MinProfit)
  <2>1. Sound(sig)
    BY <1>2, SignalOfIsSound
  <2>2. KnownInv([b EXCEPT !.signal = sig])
    BY <2>1, EmitsKeeps
  <2> HIDE DEF sig
  <2>3. KnownInv(emitted)
    <3>1. DOMAIN b = BotFields
      BY DEF KnownInv
    <3>2. /\ DOMAIN emitted = BotFields
          /\ emitted.gasCost = b.gasCost /\ emitted.costCache = b.costCache
          /\ emitted.gasCache = b.gasCache /\ emitted.signal = sig
      BY <3>1 DEF BotFields
    <3> HIDE DEF emitted
    <3>. QED  BY <2>1, <3>2 DEF KnownInv
  <2> HIDE DEF emitted, history
  <2>4. KnownInv(recorded)
    <3>1. DOMAIN emitted = BotFields
      BY <2>3 DEF KnownInv
    <3>2. /\ DOMAIN recorded = BotFields
          /\ recorded.gasCost = emitted.gasCost /\ recorded.costCache = emitted.costCache
          /\ recorded.gasCache = emitted.gasCache /\ recorded.signal = emitted.signal
      BY <3>1 DEF BotFields
    <3> HIDE DEF recorded
    <3>. QED  BY <2>3, <3>2 DEF KnownInv
  <2>5. Filter(b, d, gasCost)
          \in {Ends(emitted), Ends(recorded), Peek(recorded, MinProfitBuffer(sig))}
    BY <1>2 DEF Filter, sig, emitted, history
  <2> HIDE DEF recorded
  <2>6. /\ BotInv(Ends(emitted)) /\ BotInv(Ends(recorded))
        /\ BotInv(Peek(recorded, MinProfitBuffer(sig)))
    BY <2>3, <2>4, EndsKeeps, PeekKeeps
  <2>. QED  BY <2>5, <2>6
<1>. QED  BY <1>1, <1>2

\* A tick starts from any book there is.
LEMMA GenerateKeeps ==
  ASSUME amm \in AmmReserves, latest' \in OrderBooks, NEW b, KnownInv(b), NEW book \in OrderBooks
  PROVE  BotInv(Generate(b, book))
<1> DEFINE d == Deal(book, b.gasCost)
           t == [pc |-> "generate", deal |-> d]
<1>1. CASE d = None
  BY <1>1, EndsKeeps DEF Generate
<1>2. CASE d # None
  <2>1. DealInv(d)
    BY <1>2, DealIsSound DEF KnownInv
  <2>2. \/ Generate(b, book) = Ends(b)
        \/ GasIsCached(b) /\ Generate(b, book) = Filter(b, d, CachedGas(b, d))
        \/ Generate(b, book) = [b EXCEPT !.tick = t]
    BY <1>2 DEF Generate
  <2> HIDE DEF d
  <2>3. GasIsCached(b) => BotInv(Filter(b, d, CachedGas(b, d)))
    BY <2>1, CachedGasIsNumber, FilterKeeps
  <2>4. TickInv(t)
    BY <2>1 DEF TickInv
  <2> HIDE DEF t
  <2>5. BotInv(Ends(b)) /\ BotInv([b EXCEPT !.tick = t])
    BY <2>4, EndsKeeps, WaitsKeeps
  <2>. QED  BY <2>2, <2>3, <2>5
<1>. QED  BY <1>1, <1>2

\* A new cost of gas.
LEMMA CostKeeps ==
  ASSUME NEW b, KnownInv(b), NEW cost \in Nat
  PROVE  KnownInv([b EXCEPT !.gasCost = cost])
<1> DEFINE c == [b EXCEPT !.gasCost = cost]
<1>1. DOMAIN b = BotFields
  BY DEF KnownInv
<1>2. /\ DOMAIN c = BotFields /\ c.gasCost = cost
      /\ c.costCache = b.costCache /\ c.gasCache = b.gasCache /\ c.signal = b.signal
  BY <1>1 DEF BotFields
<1> HIDE DEF c
<1>3. KnownInv(c)
  BY <1>2 DEF KnownInv
<1>. QED  BY <1>3 DEF c

\* There is no deal yet, and nothing is known.
LEMMA SignalStarts == SignalInit => SignalInv
<1> SUFFICES ASSUME SignalInit
             PROVE  SignalInv
  OBVIOUS
<1>1. amm \in AmmReserves /\ gas \in GasPricesSeen
  BY SignalAssumption DEF SignalInit, LoadedPool
<1>2. /\ bot.tick = Idle /\ bot.gasCost = GasCostFallback /\ bot.costCache = None
      /\ bot.gasCache = None /\ bot.signal = None /\ DOMAIN bot = BotFields
  BY DEF SignalInit, BotFields
<1>3. GasCostFallback \in Nat
  BY SignalAssumption
<1>4. BotInv(bot)
  BY <1>2, <1>3 DEF BotInv, KnownInv, TickInv, Idle, Sound
<1>. QED  BY <1>1, <1>2, <1>4 DEF SignalInv, Idle

\* A depth update starts a tick, or is kept as the latest book.
LEMMA DepthUpdateKeeps ==
  ASSUME SignalInv, NEW book \in OrderBooks, DepthUpdate(book)
  PROVE  SignalInv'
<1>1. /\ latest' = book /\ UNCHANGED <<time, amm, gas, free>>
      /\ amm \in AmmReserves /\ gas \in GasPricesSeen /\ BotInv(bot)
  BY DEF DepthUpdate, SignalInv
<1> DEFINE cached == [bot EXCEPT !.gasCost = bot.costCache.cost]
           t == [pc |-> "estimate", book |-> book]
<1>2. \/ bot' = bot
      \/ bot.costCache # None /\ bot' = Generate(cached, book)
      \/ bot' = [bot EXCEPT !.tick = t]
  BY DEF DepthUpdate
<1>3. KnownInv(bot)
  BY <1>1 DEF BotInv
<1>4. bot.costCache # None => BotInv(Generate(cached, book))
  <2>1. bot.costCache # None => KnownInv(cached)
    <3>1. bot.costCache # None => bot.costCache.cost \in Nat
      BY <1>3 DEF KnownInv
    <3>. QED  BY <1>3, <3>1, CostKeeps
  <2> HIDE DEF cached
  <2>. QED  BY <1>1, <2>1, GenerateKeeps
<1>5. BotInv([bot EXCEPT !.tick = t])
  <2>1. TickInv(t)
    BY DEF TickInv
  <2> HIDE DEF t
  <2>. QED  BY <1>3, <2>1, WaitsKeeps
<1>6. BotInv(bot')
  <2> HIDE DEF cached, t
  <2>. QED  BY <1>1, <1>2, <1>4, <1>5
<1>. QED  BY <1>1, <1>6 DEF SignalInv, BotInv, KnownInv, TickInv

\* A tick goes on.
LEMMA TickGoesOn ==
  ASSUME SignalInv, bot.tick.pc # "idle", UNCHANGED <<time, amm, gas, free, latest>>,
         BotInv(bot')
  PROVE  SignalInv'
BY DEF SignalInv, BotInv, KnownInv, TickInv

\* The answer of a gas estimate is cached.
LEMMA EstimateAnswersKeeps ==
  ASSUME SignalInv, EstimateAnswers
  PROVE  SignalInv'
<1> DEFINE value == LoadedPool.quote * BaseUnit * PriceScale
           unit == LoadedPool.base * QuoteUnit
           ethPrice == value \div unit
           wei == (gas * BotGasUnits * PriceScale) \div Ether
           cost == (wei * ethPrice) \div PriceScale
           result == IF cost > GasCostMin THEN cost ELSE GasCostMin
           known == [bot EXCEPT !.gasCost = result,
                                !.costCache = [cost |-> result, ts |-> time]]
<1>1. /\ bot.tick.pc = "estimate" /\ UNCHANGED <<time, amm, gas, free, latest>>
      /\ bot' = Generate(known, bot.tick.book)
  BY DEF EstimateAnswers
<1>2. /\ {LoadedPool, amm} \subseteq AmmReserves /\ gas \in GasPricesSeen /\ latest \in OrderBooks
      /\ KnownInv(bot) /\ bot.tick.book \in OrderBooks
  BY <1>1, SignalAssumption DEF SignalInv, BotInv, TickInv, LoadedPool
<1>3. /\ LoadedPool.base \in Nat \ {0} /\ LoadedPool.quote \in Nat \ {0} /\ gas \in Nat
      /\ BaseUnit \in Nat \ {0} /\ QuoteUnit \in Nat \ {0} /\ Ether \in Nat \ {0}
      /\ BotGasUnits \in Nat /\ GasCostMin \in Nat /\ PriceScale \in Nat \ {0}
  BY <1>2, UnitsAssumption, SignalAssumption
<1>4. value \in Nat /\ unit \in Nat \ {0}
  BY <1>3, TimesPositive
<1> HIDE DEF value, unit
<1>5. ethPrice \in Nat
  BY <1>4, DivRoundsDown
<1>6. wei \in Nat
  <2> DEFINE x == gas * BotGasUnits * PriceScale
  <2>1. x \in Nat
    BY <1>3
  <2> HIDE DEF x
  <2>2. x \div Ether \in Nat
    BY <1>3, <2>1, DivRoundsDown
  <2>. QED  BY <2>2 DEF x
<1> HIDE DEF ethPrice, wei
<1>7. cost \in Nat
  <2> DEFINE x == wei * ethPrice
  <2>1. x \in Nat
    BY <1>5, <1>6
  <2> HIDE DEF x
  <2>2. x \div PriceScale \in Nat
    BY <1>3, <2>1, DivRoundsDown
  <2>. QED  BY <2>2 DEF x
<1> HIDE DEF cost
<1>8. result \in Nat
  BY <1>3, <1>7
<1> HIDE DEF result
<1>9. KnownInv(known)
  <2>1. DOMAIN bot = BotFields
    BY <1>2 DEF KnownInv
  <2>2. /\ DOMAIN known = BotFields /\ known.gasCost = result
        /\ known.costCache = [cost |-> result, ts |-> time]
        /\ known.gasCache = bot.gasCache /\ known.signal = bot.signal
    BY <2>1 DEF BotFields
  <2> HIDE DEF known
  <2>. QED  BY <1>2, <1>8, <2>2 DEF KnownInv
<1> HIDE DEF known
<1>10. BotInv(bot')
  <2>1. latest' \in OrderBooks
    BY <1>1, <1>2
  <2>2. BotInv(Generate(known, bot.tick.book))
    BY <1>2, <1>9, <2>1, GenerateKeeps
  <2>. QED  BY <1>1, <2>2
<1>. QED  BY <1>1, <1>10, TickGoesOn

\* A gas estimate that fails ends its tick.
LEMMA EstimateFailsKeeps ==
  ASSUME SignalInv, EstimateFails
  PROVE  SignalInv'
<1> DEFINE cost == IF bot.costCache = None THEN GasCostFallback ELSE bot.costCache.cost
           known == [bot EXCEPT !.gasCost = cost]
<1>1. /\ bot.tick.pc = "estimate" /\ UNCHANGED <<time, amm, gas, free, latest>>
      /\ bot' = Generate(known, bot.tick.book)
  BY DEF EstimateFails
<1>2. /\ amm \in AmmReserves /\ latest \in OrderBooks
      /\ KnownInv(bot) /\ bot.tick.book \in OrderBooks
  BY <1>1 DEF SignalInv, BotInv, TickInv
<1>3. cost \in Nat
  BY <1>2, SignalAssumption DEF KnownInv
<1> HIDE DEF cost
<1>4. KnownInv(known)
  BY <1>2, <1>3, CostKeeps
<1> HIDE DEF known
<1>5. BotInv(bot')
  <2>1. latest' \in OrderBooks
    BY <1>1, <1>2
  <2>2. BotInv(Generate(known, bot.tick.book))
    BY <1>2, <1>4, <2>1, GenerateKeeps
  <2>. QED  BY <1>1, <2>2
<1>. QED  BY <1>1, <1>5, TickGoesOn

\* A tick goes on with the deal it held while it waited.
LEMMA ContinueKeeps ==
  ASSUME amm \in AmmReserves, latest' \in OrderBooks, NEW b, KnownInv(b),
         b.tick.pc \in {"generate", "peek"}, DealInv(b.tick.deal), NEW gasCost \in Nat
  PROVE  BotInv(Continue(b, gasCost))
<1>1. BotInv(Filter(b, b.tick.deal, gasCost))
  BY FilterKeeps
<1>2. BotInv(Execute(b.tick.minProfit, b, b.tick.deal, gasCost))
  BY ExecuteKeeps
<1>. QED  BY <1>1, <1>2 DEF Continue

\* The gas price answers the tick that asked.
LEMMA GasAnswersKeeps ==
  ASSUME SignalInv, GasAnswers
  PROVE  SignalInv'
<1> DEFINE known == [bot EXCEPT !.gasCache = [maxFee |-> gas, ts |-> time]]
           cost == GasOf(gas, bot.tick.deal.cexBid)
<1>1. /\ bot.tick.pc \in {"generate", "peek"} /\ UNCHANGED <<time, amm, gas, free, latest>>
      /\ bot' = Continue(known, cost)
  BY DEF GasAnswers
<1>2. /\ amm \in AmmReserves /\ gas \in GasPricesSeen /\ latest \in OrderBooks
      /\ KnownInv(bot) /\ DealInv(bot.tick.deal)
  BY <1>1 DEF SignalInv, BotInv, TickInv
<1>3. gas \in Nat
  BY <1>2, SignalAssumption
<1>4. cost \in Nat
  BY <1>2, <1>3, GasIsNumber DEF DealInv
<1> HIDE DEF cost
<1>5. KnownInv(known) /\ known.tick = bot.tick
  <2>1. DOMAIN bot = BotFields
    BY <1>2 DEF KnownInv
  <2>2. /\ DOMAIN known = BotFields /\ known.gasCost = bot.gasCost
        /\ known.costCache = bot.costCache /\ known.gasCache = [maxFee |-> gas, ts |-> time]
        /\ known.signal = bot.signal /\ known.tick = bot.tick
    BY <2>1 DEF BotFields
  <2> HIDE DEF known
  <2>. QED  BY <1>2, <1>3, <2>2 DEF KnownInv
<1> HIDE DEF known
<1>6. BotInv(bot')
  <2>1. latest' \in OrderBooks
    BY <1>1, <1>2
  <2>2. BotInv(Continue(known, cost))
    BY <1>1, <1>2, <1>4, <1>5, <2>1, ContinueKeeps
  <2>. QED  BY <1>1, <2>2
<1>. QED  BY <1>1, <1>6, TickGoesOn

\* Without a gas price the tick goes on with the static gas cost.
LEMMA GasFailsKeeps ==
  ASSUME SignalInv, GasFails
  PROVE  SignalInv'
<1>1. /\ bot.tick.pc \in {"generate", "peek"} /\ UNCHANGED <<time, amm, gas, free, latest>>
      /\ bot' = Continue(bot, bot.gasCost)
  BY DEF GasFails
<1>2. /\ amm \in AmmReserves /\ latest \in OrderBooks
      /\ KnownInv(bot) /\ DealInv(bot.tick.deal)
  BY <1>1 DEF SignalInv, BotInv, TickInv
<1>3. bot.gasCost \in Nat
  BY <1>2 DEF KnownInv
<1>4. BotInv(bot')
  <2>1. latest' \in OrderBooks
    BY <1>1, <1>2
  <2>2. BotInv(Continue(bot, bot.gasCost))
    BY <1>1, <1>2, <1>3, <2>1, ContinueKeeps
  <2>. QED  BY <1>1, <2>2
<1>. QED  BY <1>1, <1>4, TickGoesOn

\* When the executor is done the tick ends.
LEMMA ExecutedKeeps ==
  ASSUME SignalInv, NEW ok, Executed(ok)
  PROVE  SignalInv'
<1> DEFINE results == Latest(ResultsKept, Append(Ends(bot).results, ok))
<1>1. /\ bot.tick.pc = "executing" /\ UNCHANGED <<time, amm, gas, free, latest>>
      /\ bot' = [Ends(bot) EXCEPT !.results = results]
  BY DEF Executed
<1> HIDE DEF results
<1>2. BotInv(Ends(bot))
  BY EndsKeeps DEF SignalInv, BotInv
<1>3. BotInv(bot')
  <2> DEFINE b == Ends(bot)
  <2>1. DOMAIN b = BotFields /\ bot' = [b EXCEPT !.results = results] /\ BotInv(b)
    BY <1>1, <1>2 DEF BotInv, KnownInv
  <2> HIDE DEF b
  <2>2. /\ DOMAIN bot' = BotFields /\ bot'.tick = b.tick /\ bot'.gasCost = b.gasCost
        /\ bot'.costCache = b.costCache /\ bot'.gasCache = b.gasCache /\ bot'.signal = b.signal
    BY <2>1 DEF BotFields
  <2>. QED  BY <2>1, <2>2 DEF BotInv, KnownInv
<1>. QED  BY <1>1, <1>3, TickGoesOn

\* A signal is no better than its two legs, whatever the books, the reserves,
\* the prices of gas and the awaits: SignalSound.
THEOREM SignalsAreSound == SignalSpec => []SignalSound
<1>1. ASSUME SignalInv, [SignalNext]_signalVars
      PROVE  SignalInv'
  <2>1. ASSUME NEW book \in OrderBooks, DepthUpdate(book)
        PROVE  SignalInv'
    BY <1>1, <2>1, DepthUpdateKeeps
  <2>2. CASE EstimateAnswers
    BY <1>1, <2>2, EstimateAnswersKeeps
  <2>3. CASE EstimateFails
    BY <1>1, <2>3, EstimateFailsKeeps
  <2>4. CASE GasAnswers
    BY <1>1, <2>4, GasAnswersKeeps
  <2>5. CASE GasFails
    BY <1>1, <2>5, GasFailsKeeps
  <2>6. ASSUME NEW ok \in BOOLEAN, Executed(ok)
        PROVE  SignalInv'
    BY <1>1, <2>6, ExecutedKeeps
  <2>7. CASE PoolRefreshed
    BY <1>1, <2>7 DEF PoolRefreshed, SignalInv, BotInv, KnownInv, TickInv
  <2>8. CASE GasMoves
    BY <1>1, <2>8 DEF GasMoves, SignalInv, BotInv, KnownInv, TickInv
  <2>9. CASE BalancesSynced
    BY <1>1, <2>9 DEF BalancesSynced, SignalInv, BotInv, KnownInv, TickInv
  <2>10. CASE TimePasses
    BY <1>1, <2>10 DEF TimePasses, SignalInv, BotInv, KnownInv, TickInv
  <2>11. CASE UNCHANGED signalVars
    BY <1>1, <2>11 DEF signalVars, SignalInv, BotInv, KnownInv, TickInv
  <2>. QED  BY <1>1, <2>1, <2>2, <2>3, <2>4, <2>5, <2>6, <2>7, <2>8, <2>9, <2>10, <2>11
            DEF SignalNext
<1>2. SignalInv => SignalSound
  BY DEF SignalInv, BotInv, KnownInv, Sound, SignalSound
<1>. QED  BY SignalStarts, <1>1, <1>2, PTL DEF SignalSpec

-----------------------------------------------------------------------------
(* The graph of pools *)

\* The reserves that pools can have, and the edges of the graph of them.
PoolReserves == [PoolIds -> RouteReserves]
PoolStates == [id : PoolIds, reserves : RouteReserves]
EdgeStates == [pool : PoolStates, otherToken : Tokens]

\* What an edge of a token is: a pool that trades it for another.
Trades(e, pools, t) ==
  \E id \in PoolIds, side \in {1, 2} :
    Links[id][side] = t /\ e = Edge(Pair(id, pools[id]), Links[id][3 - side])

\* The tokens of a pool.
LEMMA LinksAre ==
  ASSUME NEW id \in PoolIds
  PROVE  /\ Links[id][1] \in Tokens /\ Links[id][2] \in Tokens /\ Links[id][1] # Links[id][2]
         /\ Links[id] = <<Links[id][1], Links[id][2]>>
         /\ Range(Links[id]) = {Links[id][1], Links[id][2]}
<1>1. Links[id] \in Tokens \X Tokens /\ Links[id][1] # Links[id][2]
  BY RouteAssumption DEF PoolIds
<1>2. Links[id] = <<Links[id][1], Links[id][2]>>
  BY <1>1
<1>3. Range(<<Links[id][1], Links[id][2]>>) = {Links[id][1], Links[id][2]}
  BY DEF Range
<1>. QED  BY <1>1, <1>2, <1>3

\* The graph that buildGraph builds has these edges.
LEMMA EdgesAre ==
  ASSUME NEW pools, NEW t \in Tokens, NEW e
  PROVE  e \in BuildGraph(pools)[t] <=> Trades(e, pools, t)
<1>1. BuildGraph(pools)[t] = UNION {EdgesOf(id, pools[id], t) : id \in PoolIds}
  BY DEF BuildGraph
<1>2. \A id \in PoolIds : e \in EdgesOf(id, pools[id], t) <=>
        \E side \in {1, 2} :
          Links[id][side] = t /\ e = Edge(Pair(id, pools[id]), Links[id][3 - side])
  BY DEF EdgesOf
<1>. QED  BY <1>1, <1>2 DEF Trades

\* ... which belong to states of the pools.
LEMMA EdgesAreTyped ==
  ASSUME NEW pools \in PoolReserves, NEW t \in Tokens, NEW e, Trades(e, pools, t)
  PROVE  e \in EdgeStates /\ e.pool = Pair(e.pool.id, pools[e.pool.id])
<1>1. PICK id \in PoolIds, side \in {1, 2} :
        Links[id][side] = t /\ e = Edge(Pair(id, pools[id]), Links[id][3 - side])
  BY DEF Trades
<1>2. Links[id][3 - side] \in Tokens
  <2>1. 3 - side \in {1, 2}
    BY <1>1
  <2>. QED  BY <2>1, LinksAre
<1>3. Pair(id, pools[id]) \in PoolStates
  BY DEF Pair, PoolStates, PoolReserves
<1>. QED  BY <1>1, <1>2, <1>3 DEF Edge, Pair, EdgeStates

\* Two edges of one pool at one token are the same.
LEMMA OneWayOut ==
  ASSUME NEW id \in PoolIds, NEW s1 \in {1, 2}, NEW s2 \in {1, 2}, Links[id][s1] = Links[id][s2]
  PROVE  s1 = s2
  BY LinksAre

\* Patching the edges of a pool builds the graph of the pools with its reserves.
LEMMA PatchIsBuild ==
  ASSUME NEW pools \in PoolReserves, NEW id \in PoolIds, NEW reserves \in RouteReserves,
         NEW t \in Tokens
  PROVE  Patched(BuildGraph(pools)[t], id, reserves)
           = BuildGraph([pools EXCEPT ![id] = reserves])[t]
<1> DEFINE patched == [pools EXCEPT ![id] = reserves]
           new(e) == IF e.pool.id = id THEN Edge(Pair(id, reserves), e.otherToken) ELSE e
           moved(i, side) == Edge(Pair(i, pools[i]), Links[i][3 - side])
           stays(i, side) == Edge(Pair(i, patched[i]), Links[i][3 - side])
<1>1. \A i \in PoolIds : \A side \in {1, 2} : new(moved(i, side)) = stays(i, side)
  BY DEF Edge, Pair, PoolReserves
<1>2. \A f : f \in Patched(BuildGraph(pools)[t], id, reserves) <=>
               \E e \in BuildGraph(pools)[t] : f = new(e)
  BY DEF Patched
<1> HIDE DEF new
<1>3. \A f : (\E e \in BuildGraph(pools)[t] : f = new(e)) <=>
               \E i \in PoolIds, side \in {1, 2} : Links[i][side] = t /\ f = new(moved(i, side))
  BY EdgesAre DEF Trades
<1> HIDE DEF moved, patched
<1>4. \A f : f \in Patched(BuildGraph(pools)[t], id, reserves) <=> Trades(f, patched, t)
  BY <1>1, <1>2, <1>3 DEF Trades
<1>5. Patched(BuildGraph(pools)[t], id, reserves) = BuildGraph(patched)[t]
  BY <1>4, EdgesAre
<1>. QED  BY <1>5 DEF patched

\* The graph is always that of the newest reserves.
RouteInv ==
  routerPools # <<>> => routerPools \in PoolReserves /\ graph = BuildGraph(routerPools)

\* Loading and patching keep it.
LEMMA RouteInvHolds == RouteSpec => []RouteInv
<1>1. RouteInit => RouteInv
  BY DEF RouteInit, RouteInv
<1>2. RouteInv /\ [RouteNext]_routeVars => RouteInv'
  <2> SUFFICES ASSUME RouteInv, [RouteNext]_routeVars
               PROVE  RouteInv'
    OBVIOUS
  <2>1. CASE LoadPools
    BY <2>1 DEF LoadPools, RouteInv, PoolReserves
  <2>2. ASSUME NEW id \in PoolIds, NEW reserves \in RouteReserves, UpdatePool(id, reserves)
        PROVE  RouteInv'
    <3>1. /\ routerPools \in PoolReserves /\ graph = BuildGraph(routerPools)
          /\ routerPools' = [routerPools EXCEPT ![id] = reserves]
          /\ graph' = [t \in Tokens |-> Patched(graph[t], id, reserves)]
      BY <2>2 DEF UpdatePool, PatchEdges, RouteInv
    <3>2. ASSUME NEW t \in Tokens
          PROVE  graph'[t] = BuildGraph(routerPools')[t]
      <4>1. graph'[t] = Patched(BuildGraph(routerPools)[t], id, reserves)
        BY <3>1
      <4>2. Patched(BuildGraph(routerPools)[t], id, reserves)
              = BuildGraph([routerPools EXCEPT ![id] = reserves])[t]
        BY <3>1, PatchIsBuild
      <4>. QED  BY <3>1, <4>1, <4>2
    <3>3. BuildGraph(routerPools') = [t \in Tokens |-> BuildGraph(routerPools')[t]]
      BY DEF BuildGraph
    <3>4. graph' = [t \in Tokens |-> graph'[t]]
      BY <3>1
    <3>5. graph' = BuildGraph(routerPools')
      BY <3>2, <3>3, <3>4
    <3>6. routerPools' \in PoolReserves
      BY <3>1 DEF PoolReserves
    <3>. QED  BY <3>5, <3>6 DEF RouteInv
  <2>3. CASE UNCHANGED routeVars
    BY <2>3 DEF routeVars, RouteInv
  <2>. QED  BY <2>1, <2>2, <2>3 DEF RouteNext
<1>. QED  BY <1>1, <1>2, PTL DEF RouteSpec

\* What there is to search: the pools, and the graph of them.
Loaded == RouteInv /\ routerPools # <<>>

\* ... in which the one follows from the other.
LEMMA LoadedIs ==
  ASSUME Loaded
  PROVE  routerPools \in PoolReserves /\ graph = BuildGraph(routerPools)
  BY DEF Loaded, RouteInv

\* What a route is that has an edge more than another.
LongerBy(longer, route, e) ==
  LET n == Len(route.pools)
  IN  /\ Len(route.path) = n + 1
      /\ Len(longer.pools) = n + 1 /\ Len(longer.path) = n + 2
      /\ \A i \in 1..n : longer.pools[i] = route.pools[i]
      /\ longer.pools[n + 1] = e.pool
      /\ \A i \in 1..n + 1 : longer.path[i] = route.path[i]
      /\ longer.path[n + 2] = e.otherToken

\* Extended makes such a route.
LEMMA ExtendedIs ==
  ASSUME NEW route \in Routes, NEW e \in EdgeStates
  PROVE  /\ Extended(route, e) \in Routes
         /\ Len(route.pools) \in Nat /\ Len(Extended(route, e).pools) = Len(route.pools) + 1
         /\ LongerBy(Extended(route, e), route, e)
<1> DEFINE longer == Extended(route, e)
           n == Len(route.pools)
<1>1. /\ route.pools \in Seq(PoolStates) /\ route.path \in Seq(Tokens)
      /\ Len(route.path) = n + 1
  BY DEF Routes, PoolStates
<1>2. e.pool \in PoolStates /\ e.otherToken \in Tokens
  BY DEF EdgeStates
<1>3. longer.pools = Append(route.pools, e.pool) /\ longer.path = Append(route.path, e.otherToken)
  BY DEF Extended
<1>4. /\ n \in Nat
      /\ longer.pools \in Seq(PoolStates) /\ Len(longer.pools) = n + 1
      /\ \A i \in 1..n : longer.pools[i] = route.pools[i]
      /\ longer.pools[n + 1] = e.pool
  BY <1>1, <1>2, <1>3
<1>5. /\ longer.path \in Seq(Tokens) /\ Len(longer.path) = n + 2
      /\ \A i \in 1..n + 1 : longer.path[i] = route.path[i]
      /\ longer.path[n + 2] = e.otherToken
  BY <1>1, <1>2, <1>3, <1>4
<1>6. longer \in Routes
  BY <1>4, <1>5 DEF Extended, Routes, PoolStates
<1>7. LongerBy(longer, route, e)
  BY <1>1, <1>4, <1>5 DEF LongerBy
<1>. QED  BY <1>4, <1>6, <1>7

\* Two routes with the same pools and tokens are one.
LEMMA SameRoute ==
  ASSUME NEW r \in Routes, NEW s \in Routes, Len(r.pools) = Len(s.pools),
         \A i \in 1..Len(s.pools) : r.pools[i] = s.pools[i],
         \A i \in 1..Len(s.path) : r.path[i] = s.path[i]
  PROVE  r = s
<1>1. /\ r.pools \in Seq(PoolStates) /\ s.pools \in Seq(PoolStates)
      /\ r.path \in Seq(Tokens) /\ s.path \in Seq(Tokens)
      /\ Len(r.path) = Len(s.path)
      /\ r = [pools |-> r.pools, path |-> r.path] /\ s = [pools |-> s.pools, path |-> s.path]
  BY DEF Routes, PoolStates
<1>2. r.pools = s.pools
  BY <1>1, SeqEqual
<1>3. r.path = s.path
  BY <1>1, SeqEqual
<1>. QED  BY <1>1, <1>2, <1>3

\* The edges that a search follows lead to states of the pools.
LEMMA UnvisitedIs ==
  ASSUME Loaded, NEW route \in Routes, NEW e \in Unvisited(route)
  PROVE  /\ e \in graph[route.path[Len(route.path)]]
         /\ e \in EdgeStates
<1>1. route.path[Len(route.path)] \in Tokens
  BY DEF Routes
<1>2. e \in graph[route.path[Len(route.path)]]
  BY DEF Unvisited
<1>. QED  BY <1>1, <1>2, LoadedIs, EdgesAre, EdgesAreTyped

-----------------------------------------------------------------------------
(* The search *)

\* One call of dfs, and the function that its recursion stands for.
Onward(g, out, route) ==
  {Extended(route, e) : e \in {e \in Unvisited(route) : e.otherToken = out}}
    \cup UNION {g[Extended(route, e)] :
                  e \in {e \in Unvisited(route) : /\ e.otherToken # out
                                                  /\ Len(route.pools) + 1 < MaxHops}}

Searching(g, out) == g = [route \in Routes |-> Onward(g, out, route)]

\* A call depends on the calls it makes.
LEMMA OnwardAgrees ==
  ASSUME NEW g, NEW h, NEW out, NEW route,
         \A e \in Unvisited(route) :
           Len(route.pools) + 1 < MaxHops => g[Extended(route, e)] = h[Extended(route, e)]
  PROVE  Onward(g, out, route) = Onward(h, out, route)
<1> DEFINE passing == {e \in Unvisited(route) : /\ e.otherToken # out
                                                /\ Len(route.pools) + 1 < MaxHops}
           arrived == {Extended(route, e) : e \in {e \in Unvisited(route) : e.otherToken = out}}
<1>1. \A e \in passing : g[Extended(route, e)] = h[Extended(route, e)]
  OBVIOUS
<1>2. /\ Onward(g, out, route) = arrived \cup UNION {g[Extended(route, e)] : e \in passing}
      /\ Onward(h, out, route) = arrived \cup UNION {h[Extended(route, e)] : e \in passing}
  BY DEF Onward
<1> HIDE DEF passing, arrived
<1>3. {g[Extended(route, e)] : e \in passing} = {h[Extended(route, e)] : e \in passing}
  BY <1>1
<1>. QED  BY <1>2, <1>3

\* The recursion ends at MaxHops pools, so there is such a function.
LEMMA SearchingExists ==
  ASSUME Loaded, NEW out
  PROVE  \E g : Searching(g, out)
<1> DEFINE Near(n) == {route \in Routes : MaxHops <= Len(route.pools) + n}
           A == {n \in Nat : \E g : \A route \in Near(n) : g[route] = Onward(g, out, route)}
<1>1. \A route \in Routes : Len(route.pools) \in Nat
  BY DEF Routes
<1>2. ASSUME NEW route \in Routes, NEW e \in Unvisited(route)
      PROVE  Extended(route, e) \in Routes /\ Len(Extended(route, e).pools) = Len(route.pools) + 1
  <2>1. e \in EdgeStates
    BY UnvisitedIs
  <2>. QED  BY <2>1, ExtendedIs
<1>3. MaxHops \in Nat
  BY RouteAssumption
<1>4. 0 \in A
  <2> DEFINE g == [route \in Routes |-> Onward(<<>>, out, route)]
  <2>1. ASSUME NEW route \in Near(0)
        PROVE  g[route] = Onward(g, out, route)
    <3>1. route \in Routes /\ ~ (Len(route.pools) + 1 < MaxHops)
      BY <1>1, <1>3
    <3>2. Onward(<<>>, out, route) = Onward(g, out, route)
      BY <3>1, OnwardAgrees
    <3>. QED  BY <3>1, <3>2
  <2> HIDE DEF g
  <2>. QED  BY <2>1
<1>5. ASSUME NEW n \in A
      PROVE  n + 1 \in A
  <2>1. PICK g : \A route \in Near(n) : g[route] = Onward(g, out, route)
    OBVIOUS
  <2> DEFINE h == [route \in Routes |-> Onward(g, out, route)]
  <2>2. ASSUME NEW route \in Near(n + 1)
        PROVE  h[route] = Onward(h, out, route)
    <3>1. route \in Routes /\ MaxHops <= Len(route.pools) + (n + 1) /\ n \in Nat
      OBVIOUS
    <3>2. ASSUME NEW e \in Unvisited(route)
          PROVE  g[Extended(route, e)] = h[Extended(route, e)]
      <4>1. Extended(route, e) \in Near(n) /\ Extended(route, e) \in Routes
        <5>1. /\ Extended(route, e) \in Routes
              /\ Len(Extended(route, e).pools) = Len(route.pools) + 1
              /\ Len(route.pools) \in Nat
          BY <1>1, <1>2, <3>1
        <5>2. MaxHops <= Len(Extended(route, e).pools) + n
          <6> DEFINE k == Len(route.pools)
                     l == Len(Extended(route, e).pools)
          <6>1. k \in Nat /\ l = k + 1 /\ MaxHops <= k + (n + 1) /\ n \in Nat
            BY <3>1, <5>1
          <6> HIDE DEF k, l
          <6>2. MaxHops <= l + n
            BY <1>3, <6>1
          <6>. QED  BY <6>2 DEF l
        <5>. QED  BY <5>1, <5>2
      <4>. QED  BY <2>1, <4>1
    <3>3. Onward(g, out, route) = Onward(h, out, route)
      <4> HIDE DEF h
      <4>. QED  BY <3>2, OnwardAgrees
    <3>. QED  BY <3>1, <3>3
  <2>3. n + 1 \in Nat
    OBVIOUS
  <2> HIDE DEF h
  <2>. QED  BY <2>2, <2>3
<1>6. A = Nat
  <2>1. A \in SUBSET Nat
    OBVIOUS
  <2> HIDE DEF A
  <2>. QED  BY <1>4, <1>5, <2>1, Induction
<1>7. PICK g : \A route \in Near(MaxHops) : g[route] = Onward(g, out, route)
  <2>1. MaxHops \in A
    BY <1>3, <1>6
  <2>. QED  BY <2>1
<1> DEFINE f == [route \in Routes |-> g[route]]
<1>8. ASSUME NEW route \in Routes
      PROVE  f[route] = Onward(f, out, route)
  <2>1. f[route] = Onward(g, out, route)
    BY <1>1, <1>3, <1>7
  <2>2. \A e \in Unvisited(route) : g[Extended(route, e)] = f[Extended(route, e)]
    BY <1>2
  <2>3. Onward(g, out, route) = Onward(f, out, route)
    <3> HIDE DEF f
    <3>. QED  BY <2>2, OnwardAgrees
  <2>. QED  BY <2>1, <2>3
<1>9. f = [route \in Routes |-> Onward(f, out, route)]
  BY <1>8
<1>. QED  BY <1>9 DEF Searching

\* findAllRoutes is such a function at the route that has no pool yet.
LEMMA FindAllIsSearching ==
  ASSUME Loaded, NEW in, NEW out
  PROVE  \E g : Searching(g, out) /\ FindAllRoutes(in, out) = g[[pools |-> <<>>, path |-> <<in>>]]
<1> DEFINE dfs[route \in Routes] ==
             LET arriving == {e \in Unvisited(route) : e.otherToken = out}
                 passing == {e \in Unvisited(route) : /\ e.otherToken # out
                                                      /\ Len(route.pools) + 1 < MaxHops}
             IN  {Extended(route, e) : e \in arriving}
                   \cup UNION {dfs[Extended(route, e)] : e \in passing}
<1>1. PICK f : Searching(f, out)
  BY SearchingExists
<1>2. f = [route \in Routes |-> Onward(f, out, route)]
  BY <1>1 DEF Searching
<1>3. dfs = [route \in Routes |-> Onward(dfs, out, route)]
  BY <1>2 DEF Onward
<1>4. Searching(dfs, out)
  <2> HIDE DEF dfs
  <2>. QED  BY <1>3 DEF Searching
<1>5. FindAllRoutes(in, out) = dfs[[pools |-> <<>>, path |-> <<in>>]]
  BY DEF FindAllRoutes
<1> HIDE DEF dfs
<1>. QED  BY <1>4, <1>5

\* Hop i of a route: along an edge of the graph, over a pool not used before.
Hop(r, i) ==
  /\ Edge(r.pools[i], r.path[i + 1]) \in graph[r.path[i]]
  /\ \A j \in 1..i - 1 : r.pools[j].id # r.pools[i].id

\* A route begins like another.
Follows(r, s) ==
  /\ \A i \in 1..Len(s.pools) : r.pools[i] = s.pools[i]
  /\ \A i \in 1..Len(s.pools) + 1 : r.path[i] = s.path[i]

\* A route goes on from another, and stops when it first reaches a token.
Completes(r, route, out) ==
  /\ r \in Routes
  /\ Len(route.pools) < Len(r.pools) /\ Len(r.pools) <= MaxHops
  /\ Follows(r, route)
  /\ \A i \in Len(route.pools) + 1..Len(r.pools) : Hop(r, i)
  /\ \A i \in Len(route.pools) + 2..Len(r.pools) : r.path[i] # out
  /\ r.path[Len(r.pools) + 1] = out

\* The first hop of what completes a route is one of the edges it goes on by.
LEMMA NextEdge ==
  ASSUME Loaded, NEW route \in Routes, NEW r, NEW out, Completes(r, route, out),
         NEW n, n = Len(route.pools),
         NEW e, e = Edge(r.pools[n + 1], r.path[n + 2])
  PROVE  e \in Unvisited(route) /\ (LongerBy(r, route, e) \/ Len(r.pools) > n + 1)
<1>1. n \in Nat /\ Len(route.path) = n + 1
  BY DEF Routes
<1>2. r \in Routes /\ Len(r.pools) \in Nat /\ Len(r.path) = Len(r.pools) + 1 /\ n < Len(r.pools)
  BY DEF Completes, Follows, Routes
<1>3. Hop(r, n + 1)
  <2>1. n + 1 \in n + 1..Len(r.pools)
    BY <1>1, <1>2
  <2>. QED  BY <2>1 DEF Completes, Follows
<1>4. e \in graph[route.path[Len(route.path)]]
  <2>1. r.path[n + 1] = route.path[n + 1]
    BY <1>1 DEF Completes, Follows
  <2>2. (n + 1) + 1 = n + 2
    BY <1>1
  <2>. QED  BY <1>1, <1>3, <2>1, <2>2 DEF Hop
<1>5. e.pool = r.pools[n + 1] /\ e.otherToken = r.path[n + 2]
  BY DEF Edge
<1>6. ASSUME NEW i \in 1..Len(route.pools)
      PROVE  route.pools[i].id # e.pool.id
  <2>1. i \in 1..(n + 1) - 1
    BY <1>1
  <2>2. r.pools[i].id # r.pools[n + 1].id
    BY <1>3, <2>1 DEF Hop
  <2>. QED  BY <1>5, <2>2 DEF Completes, Follows
<1>7. e \in Unvisited(route)
  BY <1>4, <1>6 DEF Unvisited
<1>8. ASSUME ~ (Len(r.pools) > n + 1)
      PROVE  LongerBy(r, route, e)
  <2>1. Len(r.pools) = n + 1 /\ Len(r.path) = n + 2
    BY <1>1, <1>2, <1>8
  <2>. QED  BY <1>1, <1>5, <2>1 DEF Completes, Follows, LongerBy
<1>. QED  BY <1>7, <1>8

\* Routes with the same edge more are one.
LEMMA LongerIsExtended ==
  ASSUME NEW route \in Routes, NEW e \in EdgeStates, NEW r \in Routes, LongerBy(r, route, e)
  PROVE  r = Extended(route, e)
<1> DEFINE s == Extended(route, e)
           n == Len(route.pools)
<1>1. s \in Routes /\ LongerBy(s, route, e) /\ n \in Nat
  BY ExtendedIs
<1> HIDE DEF s
<1>2. /\ Len(r.pools) = n + 1 /\ Len(s.pools) = n + 1 /\ Len(s.path) = n + 2
      /\ \A i \in 1..n : r.pools[i] = route.pools[i] /\ s.pools[i] = route.pools[i]
      /\ r.pools[n + 1] = e.pool /\ s.pools[n + 1] = e.pool
      /\ \A i \in 1..n + 1 : r.path[i] = route.path[i] /\ s.path[i] = route.path[i]
      /\ r.path[n + 2] = e.otherToken /\ s.path[n + 2] = e.otherToken
  BY <1>1 DEF LongerBy
<1> HIDE DEF n
<1>3. \A i \in 1..Len(s.pools) : r.pools[i] = s.pools[i]
  <2>1. \A i \in 1..n + 1 : i \in 1..n \/ i = n + 1
    BY <1>1
  <2>. QED  BY <1>2, <2>1
<1>4. \A i \in 1..Len(s.path) : r.path[i] = s.path[i]
  <2>1. \A i \in 1..n + 2 : i \in 1..n + 1 \/ i = n + 2
    BY <1>1
  <2>. QED  BY <1>2, <2>1
<1>5. r = s
  BY <1>1, <1>2, <1>3, <1>4, SameRoute
<1>. QED  BY <1>5 DEF s

\* What completes a route either has its last hop next, or completes the route
\* with the next hop.
LEMMA StepsOn ==
  ASSUME Loaded, NEW route \in Routes, NEW r, NEW out, Completes(r, route, out)
  PROVE  \E e \in Unvisited(route) :
           IF e.otherToken = out THEN r = Extended(route, e)
           ELSE Len(route.pools) + 1 < MaxHops /\ Completes(r, Extended(route, e), out)
<1> DEFINE n == Len(route.pools)
           e == Edge(r.pools[n + 1], r.path[n + 2])
<1>1. n \in Nat /\ Len(route.path) = n + 1
  BY DEF Routes
<1>2. r \in Routes /\ Len(r.pools) \in Nat /\ n < Len(r.pools) /\ Len(r.pools) <= MaxHops
  BY DEF Completes, Follows, Routes
<1>3. e \in Unvisited(route) /\ (LongerBy(r, route, e) \/ Len(r.pools) > n + 1)
  BY NextEdge
<1>4. e \in EdgeStates
  BY <1>3, UnvisitedIs
<1>5. e.pool = r.pools[n + 1] /\ e.otherToken = r.path[n + 2]
  BY DEF Edge
<1> HIDE DEF e
<1>6. CASE e.otherToken = out
  <2>1. ~ (Len(r.pools) > n + 1)
    <3>1. Len(r.pools) > n + 1 => n + 2 \in n + 2..Len(r.pools)
      BY <1>1, <1>2
    <3>. QED  BY <1>5, <1>6, <3>1 DEF Completes, Follows
  <2>2. r = Extended(route, e)
    BY <1>2, <1>3, <1>4, <2>1, LongerIsExtended
  <2>. QED  BY <1>3, <1>6, <2>2
<1>7. CASE e.otherToken # out
  <2>1. Len(r.pools) # n + 1
    <3>1. Len(r.pools) = n + 1 => Len(r.pools) + 1 = n + 2
      BY <1>1
    <3>. QED  BY <1>5, <1>7, <3>1 DEF Completes, Follows
  <2> DEFINE s == Extended(route, e)
  <2>2. LongerBy(s, route, e)
    BY <1>4, ExtendedIs
  <2>3. /\ Len(s.pools) = n + 1
        /\ \A i \in 1..n : s.pools[i] = route.pools[i]
        /\ s.pools[n + 1] = r.pools[n + 1]
        /\ \A i \in 1..n + 1 : s.path[i] = route.path[i]
        /\ s.path[n + 2] = r.path[n + 2]
    BY <1>5, <2>2 DEF LongerBy
  <2> HIDE DEF s
  <2>4. n + 1 < Len(r.pools) /\ n + 1 < MaxHops
    <3>1. MaxHops \in Nat
      BY RouteAssumption
    <3> HIDE DEF n
    <3>. QED  BY <1>1, <1>2, <2>1, <3>1
  <2>5. \A i \in 1..n + 1 : r.pools[i] = s.pools[i]
    <3>1. \A i \in 1..n + 1 : i \in 1..n \/ i = n + 1
      BY <1>1
    <3>. QED  BY <2>3, <3>1 DEF Completes, Follows
  <2>6. \A i \in 1..n + 2 : r.path[i] = s.path[i]
    <3>1. \A i \in 1..n + 2 : i \in 1..n + 1 \/ i = n + 2
      BY <1>1
    <3>. QED  BY <2>3, <3>1 DEF Completes, Follows
  <2>7. (n + 1) + 1 = n + 2 /\ (n + 1) + 2 = n + 3
    BY <1>1
  <2>8. \A i \in n + 2..Len(r.pools) : Hop(r, i)
    <3>1. \A i \in n + 2..Len(r.pools) : i \in n + 1..Len(r.pools)
      BY <1>1, <1>2
    <3>. QED  BY <3>1 DEF Completes, Follows
  <2>9. \A i \in n + 3..Len(r.pools) : r.path[i] # out
    <3>1. \A i \in n + 3..Len(r.pools) : i \in n + 2..Len(r.pools)
      BY <1>1, <1>2
    <3>. QED  BY <3>1 DEF Completes, Follows
  <2>10. r.path[Len(r.pools) + 1] = out
    BY DEF Completes, Follows
  <2> HIDE DEF n
  <2>11. Completes(r, s, out)
    BY <1>2, <2>3, <2>4, <2>5, <2>6, <2>7, <2>8, <2>9, <2>10 DEF Completes, Follows
  <2>. QED  BY <1>3, <1>7, <2>4, <2>11 DEF s, n
<1>. QED  BY <1>6, <1>7

\* A route goes on from another by an edge.
HopsBy(r, route, e) ==
  /\ Hop(r, Len(route.pools) + 1)
  /\ Follows(r, route)
  /\ r.path[Len(route.pools) + 2] = e.otherToken

\* So does what begins with the other and that edge.
LEMMA EdgeIsHop ==
  ASSUME Loaded, NEW route \in Routes, NEW e \in Unvisited(route), NEW r,
         Follows(r, Extended(route, e))
  PROVE  HopsBy(r, route, e)
<1> DEFINE s == Extended(route, e)
           n == Len(route.pools)
<1>1. /\ e \in graph[route.path[Len(route.path)]]
      /\ e \in EdgeStates
      /\ \A i \in 1..n : route.pools[i].id # e.pool.id
  BY UnvisitedIs DEF Unvisited
<1>2. n \in Nat /\ Len(s.pools) = n + 1 /\ (n + 1) + 1 = n + 2 /\ LongerBy(s, route, e)
  BY <1>1, ExtendedIs
<1> HIDE DEF s
<1>3. /\ Len(route.path) = n + 1
      /\ \A i \in 1..n : s.pools[i] = route.pools[i]
      /\ s.pools[n + 1] = e.pool
      /\ \A i \in 1..n + 1 : s.path[i] = route.path[i]
      /\ s.path[n + 2] = e.otherToken
  BY <1>2 DEF LongerBy
<1>4. /\ \A i \in 1..n + 1 : r.pools[i] = s.pools[i]
      /\ \A i \in 1..n + 2 : r.path[i] = s.path[i]
  BY <1>2 DEF s, Follows
<1>5. \A i \in 1..n : r.pools[i] = route.pools[i]
  <2>1. \A i \in 1..n : i \in 1..n + 1
    BY <1>2
  <2>. QED  BY <1>3, <1>4, <2>1
<1>6. \A i \in 1..n + 1 : r.path[i] = route.path[i]
  <2>1. \A i \in 1..n + 1 : i \in 1..n + 2
    BY <1>2
  <2>. QED  BY <1>3, <1>4, <2>1
<1>7. r.pools[n + 1] = e.pool /\ r.path[n + 2] = e.otherToken /\ r.path[n + 1] = route.path[n + 1]
  <2>1. n + 1 \in 1..n + 1 /\ n + 2 \in 1..n + 2
    BY <1>2
  <2>. QED  BY <1>3, <1>4, <1>6, <2>1
<1>8. e = Edge(r.pools[n + 1], r.path[n + 2])
  BY <1>1, <1>7 DEF Edge, EdgeStates
<1>9. (n + 1) + 1 = n + 2 /\ (n + 1) - 1 = n
  BY <1>2
<1>10. Hop(r, n + 1)
  BY <1>1, <1>3, <1>5, <1>7, <1>8, <1>9 DEF Hop
<1>. QED  BY <1>5, <1>6, <1>7, <1>10 DEF HopsBy, Follows

\* A route that goes on and reaches the token completes it.
LEMMA ArrivesBy ==
  ASSUME Loaded, NEW route \in Routes, Len(route.pools) < MaxHops,
         NEW e \in Unvisited(route), NEW out, e.otherToken = out
  PROVE  Completes(Extended(route, e), route, out)
<1> DEFINE n == Len(route.pools)
           r == Extended(route, e)
<1>1. e \in EdgeStates
  BY UnvisitedIs
<1>2. n \in Nat /\ r \in Routes /\ Len(r.pools) = n + 1
  BY <1>1, ExtendedIs
<1>3. /\ Hop(r, n + 1)
      /\ \A i \in 1..n : r.pools[i] = route.pools[i]
      /\ \A i \in 1..n + 1 : r.path[i] = route.path[i]
      /\ r.path[n + 2] = out
  <2>1. Follows(r, r)
    BY DEF Follows
  <2>2. HopsBy(r, route, e)
    BY <2>1, EdgeIsHop
  <2>. QED  BY <2>2 DEF HopsBy, Follows
<1>4. MaxHops \in Nat
  BY RouteAssumption
<1>5. n < MaxHops
  OBVIOUS
<1> HIDE DEF n, r
<1>6. /\ n < n + 1 /\ n + 1 <= MaxHops /\ (n + 1) + 1 = n + 2
      /\ \A i \in n + 1..n + 1 : i = n + 1
      /\ \A i \in n + 2..n + 1 : FALSE
  BY <1>2, <1>4, <1>5
<1>7. Completes(r, route, out)
  BY <1>2, <1>3, <1>6 DEF Completes, Follows, n
<1>. QED  BY <1>7 DEF r

\* What completes a route with an edge more completes the route.
LEMMA PassesBy ==
  ASSUME Loaded, NEW route \in Routes,
         NEW e \in Unvisited(route), NEW out, e.otherToken # out,
         NEW r, Completes(r, Extended(route, e), out)
  PROVE  Completes(r, route, out)
<1> DEFINE n == Len(route.pools)
           s == Extended(route, e)
<1>1. e \in EdgeStates
  BY UnvisitedIs
<1>2. n \in Nat /\ Len(s.pools) = n + 1
  BY <1>1, ExtendedIs
<1>3. (n + 1) + 1 = n + 2 /\ (n + 1) + 2 = n + 3
  BY <1>2
<1>4. /\ r \in Routes /\ n + 1 < Len(r.pools) /\ Len(r.pools) <= MaxHops
      /\ \A i \in 1..n + 1 : r.pools[i] = s.pools[i]
      /\ \A i \in 1..n + 2 : r.path[i] = s.path[i]
      /\ \A i \in n + 2..Len(r.pools) : Hop(r, i)
      /\ \A i \in n + 3..Len(r.pools) : r.path[i] # out
      /\ r.path[Len(r.pools) + 1] = out
  <2> HIDE DEF n, s
  <2>. QED  BY <1>2, <1>3 DEF Completes, Follows, s
<1>5. /\ Hop(r, n + 1)
      /\ \A i \in 1..n : r.pools[i] = route.pools[i]
      /\ \A i \in 1..n + 1 : r.path[i] = route.path[i]
      /\ r.path[n + 2] = e.otherToken
  <2>1. Follows(r, s)
    BY <1>2, <1>3, <1>4 DEF Follows
  <2>2. HopsBy(r, route, e)
    BY <2>1, EdgeIsHop
  <2>. QED  BY <2>2 DEF HopsBy, Follows
<1>6. Len(r.pools) \in Nat
  BY <1>4 DEF Routes
<1> HIDE DEF n, s
<1>7. \A i \in n + 1..Len(r.pools) : Hop(r, i)
  <2>1. \A i \in n + 1..Len(r.pools) : i = n + 1 \/ i \in n + 2..Len(r.pools)
    BY <1>2, <1>6
  <2>. QED  BY <1>4, <1>5, <2>1
<1>8. \A i \in n + 2..Len(r.pools) : r.path[i] # out
  <2>1. \A i \in n + 2..Len(r.pools) : i = n + 2 \/ i \in n + 3..Len(r.pools)
    BY <1>2, <1>6
  <2>. QED  BY <1>4, <1>5, <2>1
<1>9. n < Len(r.pools)
  BY <1>2, <1>4, <1>6
<1>. QED  BY <1>4, <1>5, <1>7, <1>8, <1>9 DEF Completes, Follows, n

\* The search finds what completes a route, and nothing else: by induction over
\* the pools that MaxHops leaves it.
LEMMA SearchFindsAll ==
  ASSUME Loaded, NEW out, NEW g, Searching(g, out),
         NEW route \in Routes, Len(route.pools) < MaxHops, NEW r
  PROVE  r \in g[route] <=> Completes(r, route, out)
<1> DEFINE Near(n) == {s \in Routes : Len(s.pools) < MaxHops /\ MaxHops <= Len(s.pools) + n}
           A == {n \in Nat : \A s \in Near(n) : \A x : x \in g[s] <=> Completes(x, s, out)}
<1>1. \A s \in Routes : Len(s.pools) \in Nat
  BY DEF Routes
<1>2. MaxHops \in Nat
  BY RouteAssumption
<1>3. 0 \in A
  <2>1. \A s \in Near(0) : FALSE
    BY <1>1, <1>2
  <2>. QED  BY <2>1
<1>4. ASSUME NEW n \in A
      PROVE  n + 1 \in A
  <2>1. n \in Nat /\ \A s \in Near(n) : \A x : x \in g[s] <=> Completes(x, s, out)
    OBVIOUS
  <2>2. ASSUME NEW s \in Near(n + 1), NEW x
        PROVE  x \in g[s] <=> Completes(x, s, out)
    <3>1. s \in Routes /\ Len(s.pools) < MaxHops /\ MaxHops <= Len(s.pools) + (n + 1)
      OBVIOUS
    <3>2. x \in g[s] <=>
            \/ \E e \in Unvisited(s) : e.otherToken = out /\ x = Extended(s, e)
            \/ \E e \in Unvisited(s) : /\ e.otherToken # out /\ Len(s.pools) + 1 < MaxHops
                                       /\ x \in g[Extended(s, e)]
      <4>1. g[s] = Onward(g, out, s)
        BY <3>1 DEF Searching
      <4>2. g[s] = {Extended(s, e) : e \in {e \in Unvisited(s) : e.otherToken = out}}
                     \cup UNION {g[Extended(s, e)] :
                             e \in {e \in Unvisited(s) : /\ e.otherToken # out
                                                         /\ Len(s.pools) + 1 < MaxHops}}
        BY <4>1 DEF Onward
      <4>. QED  BY <4>2, Zenon
    <3>3. ASSUME NEW e \in Unvisited(s), Len(s.pools) + 1 < MaxHops
          PROVE  x \in g[Extended(s, e)] <=> Completes(x, Extended(s, e), out)
      <4> DEFINE k == Len(s.pools)
                 l == Len(Extended(s, e).pools)
      <4>1. e \in EdgeStates
        BY <3>1, UnvisitedIs
      <4>2. Extended(s, e) \in Routes /\ k \in Nat /\ l = k + 1
        BY <3>1, <4>1, ExtendedIs
      <4>3. k + 1 < MaxHops /\ MaxHops <= k + (n + 1)
        BY <3>1, <3>3
      <4> HIDE DEF k, l
      <4>4. l < MaxHops /\ MaxHops <= l + n
        BY <1>2, <2>1, <4>2, <4>3
      <4>5. Extended(s, e) \in Near(n)
        BY <4>2, <4>4 DEF l
      <4>. QED  BY <2>1, <4>5
    <3>4. ASSUME x \in g[s]
          PROVE  Completes(x, s, out)
      BY <3>1, <3>2, <3>3, <3>4, ArrivesBy, PassesBy
    <3>5. ASSUME Completes(x, s, out)
          PROVE  x \in g[s]
      <4>1. PICK e \in Unvisited(s) :
              IF e.otherToken = out THEN x = Extended(s, e)
              ELSE Len(s.pools) + 1 < MaxHops /\ Completes(x, Extended(s, e), out)
        BY <3>1, <3>5, StepsOn
      <4>2. CASE e.otherToken = out
        BY <3>2, <4>1, <4>2
      <4>3. CASE e.otherToken # out
        BY <3>2, <3>3, <4>1, <4>3
      <4>. QED  BY <4>2, <4>3
    <3>. QED  BY <3>4, <3>5
  <2>3. n + 1 \in Nat
    BY <2>1
  <2> HIDE DEF Near
  <2>. QED  BY <2>2, <2>3
<1>5. A = Nat
  <2>1. A \in SUBSET Nat
    OBVIOUS
  <2> HIDE DEF A
  <2>. QED  BY <1>3, <1>4, <2>1, Induction
<1>6. route \in Near(MaxHops)
  BY <1>1, <1>2
<1>7. MaxHops \in A
  BY <1>2, <1>5
<1>. QED  BY <1>6, <1>7

\* The route that has no pool yet.
Start(token) == [pools |-> <<>>, path |-> <<token>>]

\* findAllRoutes finds what completes it.
LEMMA FindAllIs ==
  ASSUME Loaded, NEW in \in Tokens, NEW out, NEW r
  PROVE  r \in FindAllRoutes(in, out) <=> Completes(r, Start(in), out)
<1>1. Start(in) \in Routes /\ Len(Start(in).pools) = 0
  <2>1. <<in>> \in Seq(Tokens) /\ Len(<<in>>) = 1
    OBVIOUS
  <2>2. <<>> \in Seq([id : PoolIds, reserves : RouteReserves]) /\ Len(<<>>) = 0
    OBVIOUS
  <2>3. Start(in).pools = <<>> /\ Start(in).path = <<in>>
    BY DEF Start
  <2>4. Start(in) \in [pools : Seq([id : PoolIds, reserves : RouteReserves]), path : Seq(Tokens)]
    BY <2>1, <2>2 DEF Start
  <2>5. Len(Start(in).path) = Len(Start(in).pools) + 1
    BY <2>1, <2>2, <2>3
  <2>. QED  BY <2>2, <2>3, <2>4, <2>5 DEF Routes
<1>2. 0 < MaxHops
  BY RouteAssumption
<1>3. PICK g : Searching(g, out) /\ FindAllRoutes(in, out) = g[Start(in)]
  BY FindAllIsSearching DEF Start
<1>. QED  BY <1>1, <1>2, <1>3, SearchFindsAll

-----------------------------------------------------------------------------
(* Routes and ways *)

\* The route along a way, over the pools as they are.
RouteOf(w) ==
  [pools |-> [i \in 1..Len(w.pools) |-> Pair(w.pools[i], routerPools[w.pools[i]])],
   path |-> w.path]

\* A way, in the words of Ways.
IsWay(w, in, out, n) ==
  /\ w \in [pools : [1..n -> PoolIds], path : [1..n + 1 -> Tokens]]
  /\ w.path[1] = in /\ w.path[n + 1] = out
  /\ \A i \in 1..n : Range(Links[w.pools[i]]) = {w.path[i], w.path[i + 1]}
  /\ \A i, j \in 1..n : w.pools[i] = w.pools[j] => i = j
  /\ \A i \in 2..n : w.path[i] # out

\* The ways are those of each number of hops.
LEMMA WaysAre ==
  ASSUME NEW in, NEW out, NEW w
  PROVE  w \in Ways(in, out) <=> \E n \in 1..MaxHops : IsWay(w, in, out, n)
<1> DEFINE Of(n) == {x \in [pools : [1..n -> PoolIds], path : [1..n + 1 -> Tokens]] :
             /\ x.path[1] = in /\ x.path[n + 1] = out
             /\ \A i \in 1..n : Range(Links[x.pools[i]]) = {x.path[i], x.path[i + 1]}
             /\ \A i, j \in 1..n : x.pools[i] = x.pools[j] => i = j
             /\ \A i \in 2..n : x.path[i] # out}
<1>1. Ways(in, out) = UNION {Of(n) : n \in 1..MaxHops}
  BY DEF Ways
<1>2. \A n : w \in Of(n) <=> IsWay(w, in, out, n)
  BY DEF IsWay
<1> HIDE DEF Of
<1>. QED  BY <1>1, <1>2

\* The edges of the graph go from one token of a pool to the other.
LEMMA EdgeOfPool ==
  ASSUME Loaded, NEW a \in Tokens, NEW b, NEW pool
  PROVE  Edge(pool, b) \in graph[a] <=>
           \E id \in PoolIds : /\ pool = Pair(id, routerPools[id])
                               /\ Range(Links[id]) = {a, b}
<1>1. Edge(pool, b) \in graph[a] <=> Trades(Edge(pool, b), routerPools, a)
  BY LoadedIs, EdgesAre
<1>2. \A q, c : Edge(pool, b) = Edge(q, c) <=> pool = q /\ b = c
  BY DEF Edge
<1>3. Trades(Edge(pool, b), routerPools, a) <=>
        \E id \in PoolIds, side \in {1, 2} :
          Links[id][side] = a /\ pool = Pair(id, routerPools[id]) /\ b = Links[id][3 - side]
  BY <1>2 DEF Trades
<1>4. ASSUME NEW id \in PoolIds
      PROVE  Range(Links[id]) = {a, b} <=>
               \E side \in {1, 2} : Links[id][side] = a /\ b = Links[id][3 - side]
  <2>1. Range(Links[id]) = {Links[id][1], Links[id][2]} /\ Links[id][1] # Links[id][2]
    BY LinksAre
  <2>2. (\E side \in {1, 2} : Links[id][side] = a /\ b = Links[id][3 - side]) <=>
          \/ Links[id][1] = a /\ b = Links[id][2]
          \/ Links[id][2] = a /\ b = Links[id][1]
    OBVIOUS
  <2>. QED  BY <2>1, <2>2
<1>. QED  BY <1>1, <1>3, <1>4

\* The route along a way completes the empty one.
LEMMA WayIsRoute ==
  ASSUME Loaded, NEW in \in Tokens, NEW out \in Tokens, NEW n \in 1..MaxHops,
         NEW w, IsWay(w, in, out, n)
  PROVE  Completes(RouteOf(w), Start(in), out)
<1> DEFINE r == RouteOf(w)
<1>1. /\ w.pools \in [1..n -> PoolIds] /\ w.path \in [1..n + 1 -> Tokens]
      /\ n \in Nat /\ n >= 1 /\ n <= MaxHops
  BY RouteAssumption DEF IsWay
<1>2. Len(w.pools) = n /\ Len(w.path) = n + 1 /\ w.path \in Seq(Tokens)
  BY <1>1
<1>3. /\ r.path = w.path
      /\ r.pools = [i \in 1..n |-> Pair(w.pools[i], routerPools[w.pools[i]])]
      /\ r = [pools |-> r.pools, path |-> r.path]
  BY <1>2 DEF RouteOf
<1>4. \A i \in 1..n : Pair(w.pools[i], routerPools[w.pools[i]]) \in PoolStates
  BY <1>1, LoadedIs DEF Pair, PoolStates, PoolReserves
<1> HIDE DEF r
<1>5. r.pools \in Seq(PoolStates) /\ Len(r.pools) = n
  BY <1>1, <1>3, <1>4
<1>6. r \in Routes
  BY <1>2, <1>3, <1>5 DEF Routes, PoolStates
<1>7. ASSUME NEW i \in 1..n
      PROVE  Hop(r, i)
  <2>1. /\ i \in Nat /\ i \in 1..n + 1 /\ i + 1 \in 1..n + 1
        /\ \A j \in 1..i - 1 : j \in 1..n /\ j # i
    BY <1>1
  <2>2. w.path[i] \in Tokens /\ w.pools[i] \in PoolIds
    BY <1>1, <2>1
  <2>3. Range(Links[w.pools[i]]) = {w.path[i], w.path[i + 1]}
    BY DEF IsWay
  <2>4. Edge(r.pools[i], r.path[i + 1]) \in graph[r.path[i]]
    BY <1>3, <2>2, <2>3, EdgeOfPool
  <2>5. \A j \in 1..i - 1 : w.pools[j] # w.pools[i]
    BY <2>1 DEF IsWay
  <2>6. \A j \in 1..n : r.pools[j].id = w.pools[j]
    BY <1>3 DEF Pair
  <2>. QED  BY <2>1, <2>4, <2>5, <2>6 DEF Hop
<1>8. /\ Len(Start(in).pools) = 0
      /\ \A i \in 1..0 : FALSE
      /\ \A i \in 1..0 + 1 : Start(in).path[i] = in /\ i = 1
  BY DEF Start
<1>9. Follows(r, Start(in))
  BY <1>3, <1>8 DEF Follows, IsWay
<1>10. r.path[n + 1] = out /\ \A i \in 2..n : r.path[i] # out
  BY <1>3 DEF IsWay
<1>11. Completes(r, Start(in), out)
  BY <1>1, <1>5, <1>6, <1>7, <1>8, <1>9, <1>10 DEF Completes
<1>. QED  BY <1>11 DEF r

\* What completes the empty route is the route along a way.
LEMMA RouteIsWay ==
  ASSUME Loaded, NEW in \in Tokens, NEW out \in Tokens, NEW r, Completes(r, Start(in), out)
  PROVE  \E w \in Ways(in, out) : r = RouteOf(w)
<1> DEFINE n == Len(r.pools)
           w == [pools |-> [i \in 1..n |-> r.pools[i].id], path |-> r.path]
<1>1. Len(Start(in).pools) = 0 /\ Start(in).path[1] = in
  BY DEF Start
<1>2. /\ r \in Routes /\ n <= MaxHops /\ 0 < n
      /\ Follows(r, Start(in))
      /\ \A i \in 0 + 1..n : Hop(r, i)
      /\ \A i \in 0 + 2..n : r.path[i] # out
      /\ r.path[n + 1] = out
  BY <1>1 DEF Completes
<1>3. /\ r.pools \in Seq(PoolStates) /\ r.path \in Seq(Tokens)
      /\ n \in Nat /\ Len(r.path) = n + 1
      /\ r = [pools |-> r.pools, path |-> r.path]
  BY <1>2 DEF Routes, PoolStates
<1> HIDE DEF n
<1>4. /\ r.pools \in [1..n -> PoolStates] /\ r.path \in [1..n + 1 -> Tokens]
      /\ n \in 1..MaxHops
  BY <1>2, <1>3, RouteAssumption DEF n
<1>5. ASSUME NEW i \in 1..n
      PROVE  /\ r.pools[i] = Pair(r.pools[i].id, routerPools[r.pools[i].id])
             /\ r.pools[i].id \in PoolIds
             /\ Range(Links[r.pools[i].id]) = {r.path[i], r.path[i + 1]}
             /\ \A j \in 1..i - 1 : r.pools[j].id # r.pools[i].id
  <2>1. i \in 1..n + 1
    BY <1>3
  <2>2. r.path[i] \in Tokens
    BY <1>4, <2>1
  <2>3. Hop(r, i)
    BY <1>2
  <2>4. \E id \in PoolIds : /\ r.pools[i] = Pair(id, routerPools[id])
                            /\ Range(Links[id]) = {r.path[i], r.path[i + 1]}
    BY <2>2, <2>3, EdgeOfPool DEF Hop
  <2>. QED  BY <2>3, <2>4 DEF Hop, Pair
<1>6. w.pools \in [1..n -> PoolIds] /\ \A i \in 1..n : w.pools[i] = r.pools[i].id
  BY <1>5
<1>7. ASSUME NEW i \in 1..n, NEW j \in 1..n, w.pools[i] = w.pools[j]
      PROVE  i = j
  <2>1. i < j => i \in 1..j - 1
    BY <1>3
  <2>2. j < i => j \in 1..i - 1
    BY <1>3
  <2>3. ~ (i < j) /\ ~ (j < i)
    BY <1>5, <1>6, <1>7, <2>1, <2>2
  <2>. QED  BY <1>3, <2>3
<1>8. w.path[1] = in
  BY <1>1, <1>2 DEF Follows
<1>9. w.path = r.path /\ w = [pools |-> w.pools, path |-> w.path] /\ Len(w.pools) = n
  BY <1>3, <1>6
<1> HIDE DEF w
<1>10. IsWay(w, in, out, n)
  <2>1. w \in [pools : [1..n -> PoolIds], path : [1..n + 1 -> Tokens]]
    BY <1>4, <1>6, <1>9
  <2>2. \A i \in 1..n : Range(Links[w.pools[i]]) = {w.path[i], w.path[i + 1]}
    BY <1>5, <1>6, <1>9
  <2>3. w.path[n + 1] = out /\ \A i \in 2..n : w.path[i] # out
    BY <1>2, <1>9
  <2>. QED  BY <1>7, <1>8, <2>1, <2>2, <2>3 DEF IsWay
<1>11. RouteOf(w).pools = r.pools
  <2>1. RouteOf(w).pools = [i \in 1..n |-> Pair(w.pools[i], routerPools[w.pools[i]])]
    BY <1>9 DEF RouteOf
  <2>2. \A i \in 1..n : r.pools[i] = Pair(w.pools[i], routerPools[w.pools[i]])
    BY <1>5, <1>6
  <2>. QED  BY <1>4, <2>1, <2>2
<1>12. r = RouteOf(w)
  BY <1>3, <1>9, <1>11 DEF RouteOf
<1>. QED  BY <1>4, <1>10, <1>12, WaysAre

\* The routes found are those along the ways there are.
LEMMA RoutesAreWays ==
  ASSUME Loaded, NEW in \in Tokens, NEW out \in Tokens
  PROVE  FindAllRoutes(in, out) = {RouteOf(w) : w \in Ways(in, out)}
<1>1. ASSUME NEW w \in Ways(in, out)
      PROVE  RouteOf(w) \in FindAllRoutes(in, out)
  BY WaysAre, WayIsRoute, FindAllIs
<1>2. ASSUME NEW r \in FindAllRoutes(in, out)
      PROVE  \E w \in Ways(in, out) : r = RouteOf(w)
  BY FindAllIs, RouteIsWay
<1>. QED  BY <1>1, <1>2

\* A recursion over the first n numbers.
Iterates(f, n, start, step) ==
  f = [i \in 0..n |-> IF i = 0 THEN start ELSE step[i][f[i - 1]]]

\* A recursion over the first n numbers has a solution in the set it stays in.
LEMMA RecursionExists ==
  ASSUME NEW n \in Nat, NEW S, NEW start \in S, NEW step \in [1..n -> [S -> S]]
  PROVE  \E f \in [0..n -> S] : Iterates(f, n, start, step)
<1> DEFINE Step(f, i) == IF i = 0 THEN start ELSE step[i][f[i - 1]]
           A == {m \in Nat : m <= n => \E f \in [0..m -> S] : f = [i \in 0..m |-> Step(f, i)]}
<1>1. 0 \in A
  <2> DEFINE f == [i \in 0..0 |-> start]
  <2>1. f \in [0..0 -> S] /\ f = [i \in 0..0 |-> Step(f, i)]
    OBVIOUS
  <2> HIDE DEF f
  <2>. QED  BY <2>1
<1>2. ASSUME NEW m \in A
      PROVE  m + 1 \in A
  <2>0. m \in Nat
    OBVIOUS
  <2> SUFFICES ASSUME m + 1 <= n
               PROVE  \E f \in [0..(m + 1) -> S] : f = [i \in 0..(m + 1) |-> Step(f, i)]
    <3>1. m + 1 \in Nat
      BY <2>0
    <3> HIDE DEF Step
    <3>. QED  BY <3>1
  <2>1. m \in Nat /\ m <= n
    OBVIOUS
  <2>2. PICK f \in [0..m -> S] : f = [i \in 0..m |-> Step(f, i)]
    BY <2>1
  <2> DEFINE g == [i \in 0..(m + 1) |-> IF i = m + 1 THEN step[m + 1][f[m]] ELSE f[i]]
  <2>3. step[m + 1][f[m]] \in S
    <3>1. m + 1 \in 1..n /\ m \in 0..m
      BY <2>1
    <3>2. step[m + 1] \in [S -> S] /\ f[m] \in S
      BY <3>1
    <3>. QED  BY <3>2
  <2>4. g \in [0..(m + 1) -> S]
    <3>1. \A i \in 0..(m + 1) : i = m + 1 \/ i \in 0..m
      BY <2>1
    <3>. QED  BY <2>3, <3>1
  <2>5. \A i \in 0..m : f[i] = Step(f, i)
    BY <2>2
  <2>6. ASSUME NEW i \in 0..(m + 1)
        PROVE  g[i] = Step(g, i)
    <3>1. CASE i = m + 1
      <4>1. i # 0 /\ i - 1 = m /\ m \in 0..(m + 1) /\ m # m + 1
        BY <2>1, <3>1
      <4>2. g[m] = f[m] /\ g[i] = step[i][f[m]]
        BY <3>1, <4>1
      <4> HIDE DEF g
      <4>. QED  BY <4>1, <4>2
    <3>2. CASE i # m + 1
      <4>1. i \in 0..m /\ g[i] = Step(f, i)
        BY <2>1, <2>5, <3>2
      <4>2. i # 0 => i - 1 \in 0..(m + 1) /\ i - 1 # m + 1 /\ g[i - 1] = f[i - 1]
        BY <2>1, <4>1
      <4> HIDE DEF g
      <4>. QED  BY <4>1, <4>2
    <3>. QED  BY <3>1, <3>2
  <2>7. g = [i \in 0..(m + 1) |-> Step(g, i)]
    BY <2>6
  <2> HIDE DEF g, Step
  <2>. QED  BY <2>4, <2>7
<1>3. A = Nat
  <2>1. A \in SUBSET Nat
    OBVIOUS
  <2> HIDE DEF A
  <2>. QED  BY <1>1, <1>2, <2>1, Induction
<1>4. n \in A
  BY <1>3
<1>. QED  BY <1>4 DEF Iterates

-----------------------------------------------------------------------------
(* What a route pays *)

\* What is had after hop i of a route, and after hop i of a way.
Paying(route, i, x) ==
  IF x <= 0 THEN Throws ELSE PairAmountOut(route.pools[i], x, route.path[i])

Holding(way, i, x) ==
  IF x = 0 THEN 0
  ELSE LET reserves == routerPools[way.pools[i]]
           forward == Links[way.pools[i]] = <<way.path[i], way.path[i + 1]>>
       IN  IF forward THEN GetAmountOut(x, reserves[1], reserves[2])
           ELSE GetAmountOut(x, reserves[2], reserves[1])

\* The recursions of getOutput and of AmountAfter.
Pays(f, route, amountIn) ==
  f = [i \in 0..Len(route.pools) |->
        IF i = 0 THEN amountIn ELSE Paying(route, i, f[i - 1])]
Holds(f, way, amountIn) ==
  f = [i \in 0..Len(way.pools) |->
        IF i = 0 THEN amountIn ELSE Holding(way, i, f[i - 1])]

\* No pool has more of a token than this.
BoundsReserves(B) == \A id \in PoolIds : routerPools[id][1] <= B /\ routerPools[id][2] <= B

\* Reserves are positive.
LEMMA ReservesAre ==
  ASSUME Loaded, NEW id \in PoolIds
  PROVE  routerPools[id][1] \in Nat \ {0} /\ routerPools[id][2] \in Nat \ {0}
<1>1. routerPools[id] \in RouteReserves
  BY LoadedIs DEF PoolReserves
<1>2. routerPools[id] \in (Nat \ {0}) \X (Nat \ {0})
  BY <1>1, RouteAssumption
<1>. QED  BY <1>2

\* There are finitely many pools, so there is such a bound.
LEMMA ReservesAreBounded ==
  ASSUME Loaded
  PROVE  \E B \in Nat : BoundsReserves(B)
<1> DEFINE within(m, B) == \A id \in PoolIds :
             id <= m => routerPools[id][1] <= B /\ routerPools[id][2] <= B
           A == {m \in Nat : \E B \in Nat : within(m, B)}
<1>1. Len(Links) \in Nat /\ PoolIds = 1..Len(Links)
  BY RouteAssumption DEF PoolIds
<1>2. 0 \in A
  <2>1. within(0, 0)
    BY <1>1
  <2>. QED  BY <2>1
<1>3. ASSUME NEW m \in A
      PROVE  m + 1 \in A
  <2>1. m \in Nat /\ \E B \in Nat : within(m, B)
    OBVIOUS
  <2>2. PICK B \in Nat : within(m, B)
    BY <2>1
  <2>3. CASE m + 1 \notin PoolIds
    <3>1. \A id \in PoolIds : id <= m + 1 => id <= m
      BY <1>1, <2>1, <2>3
    <3>2. within(m + 1, B)
      BY <2>2, <3>1
    <3>. QED  BY <2>1, <3>2
  <2>4. CASE m + 1 \in PoolIds
    <3> DEFINE x == routerPools[m + 1][1]
               y == routerPools[m + 1][2]
               C == B + x + y
    <3>1. x \in Nat /\ y \in Nat
      BY <2>4, ReservesAre
    <3> HIDE DEF x, y
    <3>2. C \in Nat /\ x <= C /\ y <= C /\ B <= C
      BY <3>1
    <3> HIDE DEF C
    <3>3. ASSUME NEW id \in PoolIds, id <= m + 1
          PROVE  routerPools[id][1] <= C /\ routerPools[id][2] <= C
      <4>1. CASE id = m + 1
        BY <3>2, <4>1 DEF x, y
      <4>2. CASE id # m + 1
        <5>1. id <= m
          BY <1>1, <2>1, <3>3, <4>2
        <5>2. routerPools[id][1] \in Nat /\ routerPools[id][2] \in Nat
          BY ReservesAre
        <5>3. routerPools[id][1] <= B /\ routerPools[id][2] <= B
          BY <2>2, <5>1
        <5>. QED  BY <3>2, <5>2, <5>3
      <4>. QED  BY <4>1, <4>2
    <3>4. within(m + 1, C)
      BY <3>3
    <3>. QED  BY <2>1, <3>2, <3>4
  <2>. QED  BY <2>3, <2>4
<1>4. A = Nat
  <2>1. A \in SUBSET Nat
    OBVIOUS
  <2> HIDE DEF A
  <2>. QED  BY <1>2, <1>3, <2>1, Induction
<1>5. PICK B \in Nat : within(Len(Links), B)
  <2>1. Len(Links) \in A
    BY <1>1, <1>4
  <2>. QED  BY <2>1
<1>6. \A id \in PoolIds : id <= Len(Links)
  BY <1>1
<1>. QED  BY <1>5, <1>6 DEF BoundsReserves

\* A hop of a way holds what the pair of the route pays, and less than the pool.
LEMMA HoldingIs ==
  ASSUME Loaded, NEW B \in Nat, BoundsReserves(B), NEW in, NEW out, NEW n \in Nat,
         NEW w, IsWay(w, in, out, n), NEW i \in 1..n, NEW x \in Nat
  PROVE  /\ Holding(w, i, x) \in Nat /\ Holding(w, i, x) <= B
         /\ x > 0 => Holding(w, i, x) = Paying(RouteOf(w), i, x)
<1> DEFINE id == w.pools[i]
           a == w.path[i]
           b == w.path[i + 1]
           r1 == routerPools[id][1]
           r2 == routerPools[id][2]
           out1 == GetAmountOut(x, r1, r2)
           out2 == GetAmountOut(x, r2, r1)
<1>1. id \in PoolIds /\ Range(Links[id]) = {a, b} /\ w.pools \in [1..n -> PoolIds]
  BY DEF IsWay
<1>2. Len(w.pools) = n
  BY <1>1
<1> HIDE DEF id
<1>3. /\ r1 \in Nat \ {0} /\ r2 \in Nat \ {0} /\ r1 <= B /\ r2 <= B
  BY <1>1, ReservesAre DEF BoundsReserves
<1> HIDE DEF r1, r2
<1>4. out1 \in Nat /\ out1 < r2
  BY <1>3, OutputType
<1>5. out2 \in Nat /\ out2 < r1
  BY <1>3, OutputType
<1> HIDE DEF out1, out2
<1>6. out1 <= B /\ out2 <= B
  BY <1>3, <1>4, <1>5
<1>7. /\ Links[id] = <<Links[id][1], Links[id][2]>> /\ Links[id][1] # Links[id][2]
      /\ {Links[id][1], Links[id][2]} = {a, b}
  BY <1>1, LinksAre
<1>8. Links[id] = <<a, b>> <=> Links[id][1] = a
  BY <1>7
<1>9. Holding(w, i, x) = IF x = 0 THEN 0 ELSE IF Links[id] = <<a, b>> THEN out1 ELSE out2
  BY DEF Holding, id, r1, r2, out1, out2
<1>10. RouteOf(w).pools[i] = Pair(id, routerPools[id]) /\ RouteOf(w).path[i] = a
  BY <1>2 DEF RouteOf, id
<1>11. PairAmountOut(Pair(id, routerPools[id]), x, a) = IF Links[id][1] = a THEN out1 ELSE out2
  BY DEF PairAmountOut, Pair, r1, r2, out1, out2
<1>12. x > 0 => Paying(RouteOf(w), i, x) = IF Links[id][1] = a THEN out1 ELSE out2
  BY <1>10, <1>11 DEF Paying
<1>. QED  BY <1>4, <1>5, <1>6, <1>8, <1>9, <1>12

\* AmountAfter is what the recursion over the hops of the way holds.
LEMMA AmountAfterHolds ==
  ASSUME Loaded, NEW in, NEW out, NEW n \in Nat, NEW w, IsWay(w, in, out, n),
         NEW amountIn \in Nat
  PROVE  \E f : Holds(f, w, amountIn) /\ \A i : AmountAfter(w, amountIn, i) = f[i]
<1> DEFINE amount[i \in 0..Len(w.pools)] ==
             IF i = 0 THEN amountIn
             ELSE IF amount[i - 1] = 0 THEN 0
             ELSE LET reserves == routerPools[w.pools[i]]
                      forward == Links[w.pools[i]] = <<w.path[i], w.path[i + 1]>>
                  IN  IF forward THEN GetAmountOut(amount[i - 1], reserves[1], reserves[2])
                      ELSE GetAmountOut(amount[i - 1], reserves[2], reserves[1])
           step == [i \in 1..n |-> [x \in Nat |-> Holding(w, i, x)]]
<1>1. Len(w.pools) = n
  <2>1. w.pools \in [1..n -> PoolIds]
    BY DEF IsWay
  <2>. QED  BY <2>1
<1>2. PICK B \in Nat : BoundsReserves(B)
  BY ReservesAreBounded
<1>3. step \in [1..n -> [Nat -> Nat]]
  <2>1. \A i \in 1..n : \A x \in Nat : Holding(w, i, x) \in Nat
    BY <1>2, HoldingIs
  <2>. QED  BY <2>1
<1>4. PICK f \in [0..n -> Nat] : Iterates(f, n, amountIn, step)
  <2> HIDE DEF step
  <2>. QED  BY <1>3, RecursionExists
<1>5. ASSUME NEW i \in 0..n, i # 0
      PROVE  step[i][f[i - 1]] = Holding(w, i, f[i - 1])
  <2>1. i \in 1..n /\ i - 1 \in 0..n
    BY <1>5
  <2>2. f[i - 1] \in Nat
    BY <2>1
  <2>. QED  BY <2>1, <2>2
<1> HIDE DEF step
<1>6. f = [i \in 0..n |-> IF i = 0 THEN amountIn ELSE Holding(w, i, f[i - 1])]
  <2>1. \A i \in 0..n : f[i] = IF i = 0 THEN amountIn ELSE Holding(w, i, f[i - 1])
    BY <1>4, <1>5 DEF Iterates
  <2>. QED  BY <2>1
<1>7. amount = [i \in 0..n |-> IF i = 0 THEN amountIn ELSE Holding(w, i, amount[i - 1])]
  BY <1>1, <1>6 DEF Holding
<1>8. \A i : AmountAfter(w, amountIn, i) = amount[i]
  BY DEF AmountAfter
<1> HIDE DEF amount
<1>9. Holds(amount, w, amountIn)
  BY <1>1, <1>7 DEF Holds
<1>. QED  BY <1>8, <1>9

\* getOutput is what the recursion over the hops of the route pays.
LEMMA GetOutputPays ==
  ASSUME Loaded, NEW in, NEW out, NEW n \in Nat, NEW w, IsWay(w, in, out, n),
         NEW amountIn \in Nat
  PROVE  \E f : Pays(f, RouteOf(w), amountIn) /\ GetOutput(RouteOf(w), amountIn) = f[n]
<1> DEFINE route == RouteOf(w)
<1>1. Len(route.pools) = n
  <2>1. w.pools \in [1..n -> PoolIds]
    BY DEF IsWay
  <2>. QED  BY <2>1 DEF RouteOf
<1>2. PICK B \in Nat : BoundsReserves(B)
  BY ReservesAreBounded
<1>3. ASSUME NEW i \in 1..n, NEW x \in Int
      PROVE  Paying(route, i, x) \in Int
  <2>1. x <= 0 => Paying(route, i, x) \in Int
    BY DEF Paying, Throws
  <2>2. x > 0 => x \in Nat /\ Paying(route, i, x) \in Nat
    BY <1>2, HoldingIs
  <2>. QED  BY <2>1, <2>2
<1> HIDE DEF route
<1> DEFINE amount[i \in 0..Len(route.pools)] ==
             IF i = 0 THEN amountIn
             ELSE IF amount[i - 1] <= 0 THEN Throws
             ELSE PairAmountOut(route.pools[i], amount[i - 1], route.path[i])
           step == [i \in 1..n |-> [x \in Int |-> Paying(route, i, x)]]
<1>4. step \in [1..n -> [Int -> Int]]
  BY <1>3
<1>5. PICK f \in [0..n -> Int] : Iterates(f, n, amountIn, step)
  <2>1. amountIn \in Int
    OBVIOUS
  <2> HIDE DEF step, amount
  <2>. QED  BY <1>4, <2>1, RecursionExists
<1>6. ASSUME NEW i \in 0..n, i # 0
      PROVE  step[i][f[i - 1]] = Paying(route, i, f[i - 1])
  <2>1. i \in 1..n /\ i - 1 \in 0..n
    BY <1>6
  <2>2. f[i - 1] \in Int
    BY <2>1
  <2>. QED  BY <2>1, <2>2
<1> HIDE DEF step
<1>7. f = [i \in 0..n |-> IF i = 0 THEN amountIn ELSE Paying(route, i, f[i - 1])]
  <2>1. \A i \in 0..n : f[i] = IF i = 0 THEN amountIn ELSE Paying(route, i, f[i - 1])
    BY <1>5, <1>6 DEF Iterates
  <2>. QED  BY <2>1
<1>8. amount = [i \in 0..n |-> IF i = 0 THEN amountIn ELSE Paying(route, i, amount[i - 1])]
  BY <1>1, <1>7 DEF Paying
<1>9. GetOutput(route, amountIn) = amount[n]
  BY <1>1 DEF GetOutput
<1> HIDE DEF amount
<1>10. Pays(amount, route, amountIn)
  BY <1>1, <1>8 DEF Pays
<1>. QED  BY <1>9, <1>10 DEF route

\* A route pays what its way holds in the end, and nothing, but an error, if
\* the way holds nothing at a hop before its last.
LEMMA GrossIs ==
  ASSUME Loaded, NEW in, NEW out, NEW n \in Nat \ {0}, NEW w, IsWay(w, in, out, n),
         NEW amount \in Nat \ {0}, NEW B \in Nat, BoundsReserves(B)
  PROVE  /\ AmountAfter(w, amount, n) \in Nat /\ AmountAfter(w, amount, n) <= B
         /\ GetOutput(RouteOf(w), amount) =
              IF Dry(w, amount) THEN Throws ELSE AmountAfter(w, amount, n)
<1>0. amount \in Nat /\ amount > 0 /\ n \in Nat /\ n > 0
  OBVIOUS
<1>1. PICK f : Holds(f, w, amount) /\ \A i : AmountAfter(w, amount, i) = f[i]
  BY <1>0, AmountAfterHolds
<1>2. PICK g : Pays(g, RouteOf(w), amount) /\ GetOutput(RouteOf(w), amount) = g[n]
  BY <1>0, GetOutputPays
<1>3. Len(w.pools) = n /\ Len(RouteOf(w).pools) = n
  <2>1. w.pools \in [1..n -> PoolIds]
    BY DEF IsWay
  <2>. QED  BY <1>0, <2>1 DEF RouteOf
<1>4. \A i \in 0..n : f[i] = IF i = 0 THEN amount ELSE Holding(w, i, f[i - 1])
  BY <1>1, <1>3 DEF Holds
<1>5. \A i \in 0..n : g[i] = IF i = 0 THEN amount ELSE Paying(RouteOf(w), i, g[i - 1])
  BY <1>2, <1>3 DEF Pays
<1> DEFINE dry(i) == \E k \in 1..i - 1 : f[k] = 0
           good(i) == /\ f[i] \in Nat /\ (i > 0 => f[i] <= B)
                      /\ g[i] = IF dry(i) THEN Throws ELSE f[i]
           A == {i \in Nat : i <= n => good(i)}
<1>6. 0 \in A
  <2>1. 0 \in 0..n /\ ~ dry(0)
    BY <1>0
  <2>. QED  BY <1>0, <1>4, <1>5, <2>1
<1>7. ASSUME NEW i \in A
      PROVE  i + 1 \in A
  <2>1. i \in Nat
    OBVIOUS
  <2>2. ASSUME i + 1 <= n
        PROVE  good(i + 1)
    <3>1. /\ i + 1 \in 0..n /\ i + 1 \in 1..n /\ i + 1 # 0 /\ (i + 1) - 1 = i /\ i \in 0..n
          /\ i <= n
      BY <2>1, <2>2
    <3>2. good(i)
      BY <3>1
    <3>3. f[i + 1] = Holding(w, i + 1, f[i]) /\ g[i + 1] = Paying(RouteOf(w), i + 1, g[i])
      BY <1>4, <1>5, <3>1
    <3>4. /\ f[i + 1] \in Nat /\ f[i + 1] <= B
          /\ f[i] > 0 => f[i + 1] = Paying(RouteOf(w), i + 1, f[i])
      BY <3>1, <3>2, <3>3, HoldingIs, <1>0
    <3>5. dry(i + 1) <=> dry(i) \/ (i > 0 /\ f[i] = 0)
      <4>1. \A k \in 1..(i + 1) - 1 : k \in 1..i - 1 \/ (k = i /\ i > 0)
        BY <2>1
      <4>2. \A k \in 1..i - 1 : k \in 1..(i + 1) - 1
        BY <2>1
      <4>3. i > 0 => i \in 1..(i + 1) - 1
        BY <2>1
      <4>. QED  BY <4>1, <4>2, <4>3
    <3>6. f[0] = amount
      BY <1>0, <1>4
    <3> HIDE DEF dry
    <3>7. CASE dry(i)
      <4>1. g[i] = Throws /\ dry(i + 1)
        BY <3>2, <3>5, <3>7
      <4>2. g[i + 1] = Throws
        BY <3>3, <4>1 DEF Paying, Throws
      <4>. QED  BY <3>4, <4>1, <4>2
    <3>8. CASE ~ dry(i) /\ f[i] = 0
      <4>1. i > 0
        BY <1>0, <2>1, <3>6, <3>8
      <4>2. g[i] = 0 /\ dry(i + 1)
        BY <3>2, <3>5, <3>8, <4>1
      <4>3. g[i + 1] = Throws
        BY <3>3, <4>2 DEF Paying
      <4>. QED  BY <3>4, <4>2, <4>3
    <3>9. CASE ~ dry(i) /\ f[i] # 0
      <4>1. g[i] = f[i] /\ ~ dry(i + 1) /\ f[i] > 0
        BY <3>2, <3>5, <3>9
      <4>2. g[i + 1] = f[i + 1]
        BY <3>3, <3>4, <4>1
      <4>. QED  BY <3>4, <4>1, <4>2
    <3>. QED  BY <3>7, <3>8, <3>9
  <2>3. i + 1 \in Nat
    BY <2>1
  <2> HIDE DEF good
  <2>. QED  BY <2>2, <2>3
<1>8. A = Nat
  <2>1. A \in SUBSET Nat
    OBVIOUS
  <2> HIDE DEF A
  <2>. QED  BY <1>6, <1>7, <2>1, Induction
<1>9. good(n)
  <2>1. n \in A
    BY <1>0, <1>8
  <2> HIDE DEF good
  <2>. QED  BY <1>0, <2>1
<1>10. Dry(w, amount) <=> dry(n)
  BY <1>1, <1>3 DEF Dry
<1> HIDE DEF dry
<1>. QED  BY <1>0, <1>1, <1>2, <1>9, <1>10

\* What a route pays after gas, as that of its way.
LEMMA NetIs ==
  ASSUME Loaded, NEW in, NEW out, NEW w \in Ways(in, out),
         NEW amount \in Amounts, NEW gasPrice \in GasPrices, NEW B \in Nat, BoundsReserves(B)
  PROVE  /\ NetOf(w, amount, gasPrice) \in Nat /\ NetOf(w, amount, gasPrice) <= B
         /\ RouteNet(RouteOf(w), amount, gasPrice) =
              IF Dry(w, amount) THEN Throws ELSE NetOf(w, amount, gasPrice)
<1>1. PICK n \in 1..MaxHops : IsWay(w, in, out, n)
  BY WaysAre
<1>2. n \in Nat \ {0} /\ amount \in Nat \ {0} /\ gasPrice \in Nat
  BY <1>1, RouteAssumption
<1>3. Len(w.pools) = n /\ Len(RouteOf(w).pools) = n
  <2>1. w.pools \in [1..n -> PoolIds]
    BY <1>1 DEF IsWay
  <2>. QED  BY <1>2, <2>1 DEF RouteOf
<1> DEFINE held == AmountAfter(w, amount, n)
           cost == gasPrice * EstimateGas(n)
<1>4. held \in Nat /\ held <= B
  BY <1>1, <1>2, GrossIs
<1>5. GetOutput(RouteOf(w), amount) = IF Dry(w, amount) THEN Throws ELSE held
  BY <1>1, <1>2, GrossIs
<1>6. cost \in Nat
  <2>1. GasBase \in Nat /\ GasPerHop \in Nat
    BY RouteAssumption
  <2>2. n * GasPerHop \in Nat
    BY <1>2, <2>1
  <2>3. EstimateGas(n) \in Nat
    BY <2>1, <2>2 DEF EstimateGas
  <2>. QED  BY <1>2, <2>3
<1>7. NetOf(w, amount, gasPrice) = NetOutput(held, cost)
  BY <1>3 DEF NetOf
<1>8. RouteNet(RouteOf(w), amount, gasPrice) =
        IF GetOutput(RouteOf(w), amount) = Throws THEN Throws
        ELSE NetOutput(GetOutput(RouteOf(w), amount), cost)
  BY <1>3 DEF RouteNet
<1> HIDE DEF held, cost
<1>9. NetOutput(held, cost) \in Nat /\ NetOutput(held, cost) <= B
  BY <1>4, <1>6 DEF NetOutput
<1>10. held # Throws
  BY <1>4 DEF Throws
<1>. QED  BY <1>5, <1>7, <1>8, <1>9, <1>10

\* A set of natural numbers with a bound has its maximum.
LEMMA MaxExists ==
  ASSUME NEW S \in SUBSET Nat, S # {}, NEW B \in Nat, \A x \in S : x <= B
  PROVE  Max(S) \in S /\ \A x \in S : x <= Max(S)
<1> DEFINE T == {B - x : x \in S}
<1>1. T \in SUBSET Nat /\ T # {}
  <2>1. \A x \in S : x \in Nat /\ B - x \in Nat
    OBVIOUS
  <2>. QED  BY <2>1
<1>2. PICK t \in T : \A u \in T : t <= u
  <2> HIDE DEF T
  <2>. QED  BY <1>1, LeastExists
<1>3. PICK x \in S : t = B - x
  BY <1>2
<1>4. ASSUME NEW y \in S
      PROVE  x >= y
  <2>1. B - x <= B - y
    BY <1>2, <1>3
  <2>. QED  BY <2>1
<1>5. Max(S) \in S /\ \A y \in S : Max(S) >= y
  BY <1>4 DEF Max
<1>6. \A y \in S : Max(S) \in Nat /\ y \in Nat
  BY <1>5
<1>. QED  BY <1>5, <1>6

\* Where no way is dry, the best route is the best way, whatever pools were
\* refreshed in whatever order: the search finds every way and nothing else,
\* over the reserves that came last.
THEOREM RoutesAreBest == RouteSpec => []BestRouteIsBest
<1>1. ASSUME Loaded, NEW in \in Tokens, NEW out \in Tokens, NEW amount \in Amounts,
             NEW gasPrice \in GasPrices
      PROVE  LET ways == Ways(in, out)
                 best == FindBestRoute(in, out, amount, gasPrice)
             IN  in # out /\ (\A w \in ways : ~Dry(w, amount)) =>
                   IF ways = {} THEN best = Throws
                   ELSE /\ \A w \in ways : NetOf(w, amount, gasPrice) <= best
                        /\ \E w \in ways : NetOf(w, amount, gasPrice) = best
  <2> DEFINE ways == Ways(in, out)
             net(w) == NetOf(w, amount, gasPrice)
             paid(w) == RouteNet(RouteOf(w), amount, gasPrice)
             nets == {RouteNet(r, amount, gasPrice) : r \in FindAllRoutes(in, out)}
  <2>1. PICK B \in Nat : BoundsReserves(B)
    BY <1>1, ReservesAreBounded
  <2>2. nets = {paid(w) : w \in ways}
    BY <1>1, RoutesAreWays
  <2>3. FindBestRoute(in, out, amount, gasPrice) =
          IF nets = {} \/ Throws \in nets THEN Throws ELSE Max(nets)
    BY DEF FindBestRoute
  <2> HIDE DEF nets
  <2>4. \A w \in ways : /\ net(w) \in Nat /\ net(w) <= B
                        /\ paid(w) = IF Dry(w, amount) THEN Throws ELSE net(w)
    BY <1>1, <2>1, NetIs
  <2> HIDE DEF ways, net, paid
  <2>5. CASE ways = {}
    <3>1. nets = {}
      BY <2>2, <2>5
    <3>. QED  BY <2>3, <2>5, <3>1 DEF ways
  <2>6. CASE ways # {} /\ \A w \in ways : ~Dry(w, amount)
    <3>1. nets = {net(w) : w \in ways}
      BY <2>2, <2>4, <2>6
    <3>2. nets \in SUBSET Nat /\ nets # {} /\ \A x \in nets : x <= B
      BY <2>4, <2>6, <3>1
    <3>3. Throws \notin nets
      BY <3>2 DEF Throws
    <3>4. Max(nets) \in nets /\ \A x \in nets : x <= Max(nets)
      BY <2>1, <3>2, MaxExists
    <3>5. FindBestRoute(in, out, amount, gasPrice) = Max(nets)
      BY <2>3, <3>2, <3>3
    <3>6. (\A w \in ways : net(w) <= Max(nets)) /\ \E w \in ways : net(w) = Max(nets)
      BY <3>1, <3>4
    <3>. QED  BY <2>6, <3>5, <3>6 DEF ways, net
  <2>7. CASE ~ (\A w \in ways : ~Dry(w, amount))
    BY <2>7 DEF ways
  <2>. QED  BY <2>5, <2>6, <2>7
<1>2. RouteInv => BestRouteIsBest
  BY <1>1 DEF Loaded, BestRouteIsBest
<1>. QED  BY <1>2, RouteInvHolds, PTL
=============================================================================
