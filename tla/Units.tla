-------------------------------- MODULE Units --------------------------------
(***************************************************************************)
(* The parts that prices, amounts and rates are counted in throughout.     *)
(***************************************************************************)
EXTENDS Integers

CONSTANTS
  Bps,        \* 10 000, the parts a whole is counted in
  PriceScale  \* PRICE_SCALE, the parts of a unit of an asset or of its price

ASSUME UnitsAssumption == Bps \in Nat \ {0} /\ PriceScale \in Nat \ {0}
=============================================================================
