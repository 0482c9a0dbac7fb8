\* The pools and routes of Market.cfg.  An amount of one unit runs dry in some
\* of the pools.
CONSTANTS
  Bps = 20
  FeeBps = 1
  SpotScale = 100
  PriceScale = 100
  Reserves = {3}
  MaxSwap = 1
  MaxReserve = 4
  Tokens = {"a", "b", "c"}
  Links <- LinksOfThree
  MaxHops = 3
  GasBase = 1
  GasPerHop = 1
  GasPrices = {0}
  Amounts = {1, 8}
  RouteReserves <- RouteReservesSeen

SPECIFICATION RoutingSpec

INVARIANT PayingRouteFound
