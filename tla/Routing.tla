------------------------------ MODULE Routing ------------------------------
(***************************************************************************)
(* RouteFinder of pricing/routing: the graph of pools, which is patched in *)
(* place when a pool is refreshed, the search of all routes without using  *)
(* a pool twice, and the choice of the one that pays most after gas.       *)
(*                                                                         *)
(* Amounts of gas are in units of the output token.                        *)
(***************************************************************************)
EXTENDS UniswapV2, FiniteSetsExt, Sequences

CONSTANTS
  Tokens,        \* the tokens
  Links,         \* the pools in the order given: their two tokens
  MaxHops,       \* maxHops
  GasBase,       \* gasBase
  GasPerHop,     \* gasPerHop
  GasPrices,     \* bound: gas prices, in output tokens
  Amounts,       \* bound: amounts asked for
  RouteReserves  \* bound: the reserves of a pool, <<reserve0, reserve1>>

PoolIds == 1..Len(Links)

ASSUME RouteAssumption ==
  /\ Links \in Seq(Tokens \X Tokens) /\ \A id \in PoolIds : Links[id][1] # Links[id][2]
  /\ RouteReserves \subseteq (Nat \ {0}) \X (Nat \ {0})
  /\ MaxHops \in Nat \ {0} /\ {GasBase, GasPerHop} \subseteq Nat
  /\ GasPrices \subseteq Nat /\ Amounts \subseteq Nat \ {0}

VARIABLES
  routerPools,  \* RouteFinder._pools: the reserves of each
  graph         \* RouteFinder.graph: for a token, its edges

routeVars == <<routerPools, graph>>

\* A pool as it was when its reserves were read, and a way out of it.
Pair(id, reserves) == [id |-> id, reserves |-> reserves]
Edge(pair, other) == [pool |-> pair, otherToken |-> other]

EdgesOf(id, reserves, token) ==
  {Edge(Pair(id, reserves), Links[id][3 - side]) : side \in {s \in {1, 2} : Links[id][s] = token}}

\* The constructor, with buildGraph.  Nothing depends on the order of the edges.
BuildGraph(reserves) ==
  [t \in Tokens |-> UNION {EdgesOf(id, reserves[id], t) : id \in PoolIds}]

\* The engine has no router until pools are loaded.
RouteInit == routerPools = <<>> /\ graph = [t \in Tokens |-> {}]

LoadPools ==
  /\ routerPools = <<>>
  /\ routerPools' \in [PoolIds -> RouteReserves]
  /\ graph' = BuildGraph(routerPools')

Patched(edges, id, reserves) ==
  {IF e.pool.id = id THEN Edge(Pair(id, reserves), e.otherToken) ELSE e : e \in edges}

\* A patch that stops at the first edge of the pool.
PatchFirst(id, reserves) ==
  graph' = [graph EXCEPT ![Links[id][1]] = Patched(@, id, reserves)]

PatchEdges(id, reserves) == graph' = [t \in Tokens |-> Patched(graph[t], id, reserves)]

UpdatePool(id, reserves) ==
  /\ routerPools # <<>>
  /\ routerPools' = [routerPools EXCEPT ![id] = reserves]
  /\ PatchEdges(id, reserves)

-----------------------------------------------------------------------------

\* The pools of a route, and the tokens before, between and after them.
Routes ==
  {r \in [pools : Seq([id : PoolIds, reserves : RouteReserves]), path : Seq(Tokens)] :
     Len(r.path) = Len(r.pools) + 1}
Extended(route, edge) ==
  [pools |-> Append(route.pools, edge.pool), path |-> Append(route.path, edge.otherToken)]

\* The edges the search follows from the end of a route: no pool is used twice.
Unvisited(route) ==
  {e \in graph[route.path[Len(route.path)]] :
     \A i \in 1..Len(route.pools) : route.pools[i].id # e.pool.id}

\* findAllRoutes: all routes found from where one has got to, depth first.
FindAllRoutes(tokenIn, tokenOut) ==
  LET dfs[route \in Routes] ==
        LET arriving == {e \in Unvisited(route) : e.otherToken = tokenOut}
            passing == {e \in Unvisited(route) : /\ e.otherToken # tokenOut
                                                 /\ Len(route.pools) + 1 < MaxHops}
        IN  {Extended(route, e) : e \in arriving}
              \cup UNION {dfs[Extended(route, e)] : e \in passing}
  IN  dfs[[pools |-> <<>>, path |-> <<tokenIn>>]]

\* UniswapV2Pair.getAmountOut.
PairAmountOut(pair, amountIn, tokenIn) ==
  LET in == IF Links[pair.id][1] = tokenIn THEN 1 ELSE 2
  IN  GetAmountOut(amountIn, pair.reserves[in], pair.reserves[3 - in])

\* Route.getOutput.  getAmountOut throws when a hop is asked to swap nothing.
GetOutput(route, amountIn) ==
  LET amount[i \in 0..Len(route.pools)] ==
        IF i = 0 THEN amountIn
        ELSE IF amount[i - 1] <= 0 THEN Throws
        ELSE PairAmountOut(route.pools[i], amount[i - 1], route.path[i])
  IN  amount[Len(route.pools)]

EstimateGas(hops) == GasBase + hops * GasPerHop

RouteNet(route, amountIn, gasPrice) ==
  LET gross == GetOutput(route, amountIn)
  IN  IF gross = Throws THEN Throws
      ELSE NetOutput(gross, gasPrice * EstimateGas(Len(route.pools)))

\* findBestRoute: what the best route pays; it throws if one of them does.
FindBestRoute(tokenIn, tokenOut, amountIn, gasPrice) ==
  LET nets == {RouteNet(r, amountIn, gasPrice) : r \in FindAllRoutes(tokenIn, tokenOut)}
  IN  IF nets = {} \/ Throws \in nets THEN Throws ELSE Max(nets)

RouteNext == LoadPools \/ \E id \in PoolIds, reserves \in RouteReserves : UpdatePool(id, reserves)

RouteSpec == RouteInit /\ [][RouteNext]_routeVars

-----------------------------------------------------------------------------
(* Properties *)

\* The reference: pools and the tokens between them, in no order.
Ways(tokenIn, tokenOut) == UNION {
  {w \in [pools : [1..n -> PoolIds], path : [1..n + 1 -> Tokens]] :
     /\ w.path[1] = tokenIn /\ w.path[n + 1] = tokenOut
     /\ \A i \in 1..n : Range(Links[w.pools[i]]) = {w.path[i], w.path[i + 1]}
     /\ \A i, j \in 1..n : w.pools[i] = w.pools[j] => i = j
     /\ \A i \in 2..n : w.path[i] # tokenOut} : n \in 1..MaxHops}

\* What a way holds after some of its hops, at the newest reserves.
AmountAfter(way, amountIn, hops) ==
  LET amount[n \in 0..Len(way.pools)] ==
        IF n = 0 THEN amountIn
        ELSE IF amount[n - 1] = 0 THEN 0
        ELSE LET reserves == routerPools[way.pools[n]]
                 forward == Links[way.pools[n]] = <<way.path[n], way.path[n + 1]>>
             IN  IF forward THEN GetAmountOut(amount[n - 1], reserves[1], reserves[2])
                 ELSE GetAmountOut(amount[n - 1], reserves[2], reserves[1])
  IN  amount[hops]

Dry(way, amountIn) == \E n \in 1..Len(way.pools) - 1 : AmountAfter(way, amountIn, n) = 0

NetOf(way, amountIn, gasPrice) ==
  NetOutput(AmountAfter(way, amountIn, Len(way.pools)), gasPrice * EstimateGas(Len(way.pools)))

\* Where no way is dry, the price of the engine is that of the best way through
\* the pools as they were refreshed last, none left out and none with stale
\* reserves, whatever was patched before; and where there is no way, the search
\* throws (45-51, 110-202 of routing.service.ts).  Nothing is said here of a
\* search with a dry way: PayingRouteFound is about that.
BestRouteIsBest == routerPools # <<>> =>
  \A tokenIn, tokenOut \in Tokens, amount \in Amounts, gasPrice \in GasPrices :
    LET ways == Ways(tokenIn, tokenOut)
        best == FindBestRoute(tokenIn, tokenOut, amount, gasPrice)
    IN  tokenIn # tokenOut /\ (\A w \in ways : ~Dry(w, amount)) =>
          IF ways = {} THEN best = Throws
          ELSE /\ \A w \in ways : NetOf(w, amount, gasPrice) <= best
               /\ \E w \in ways : NetOf(w, amount, gasPrice) = best

\* findBestRoute "returns the route with the highest net output" (176-179 of
\* routing.service.ts): of the ways that are not dry, if there is one.  The code
\* breaks this: one dry way makes the whole search throw.
PayingRouteFound == routerPools # <<>> =>
  \A tokenIn, tokenOut \in Tokens, amount \in Amounts, gasPrice \in GasPrices :
    LET paying == {w \in Ways(tokenIn, tokenOut) : ~Dry(w, amount)}
        best == FindBestRoute(tokenIn, tokenOut, amount, gasPrice)
    IN  tokenIn # tokenOut /\ paying # {} =>
          /\ \A w \in paying : NetOf(w, amount, gasPrice) <= best
          /\ \E w \in paying : NetOf(w, amount, gasPrice) = best
=============================================================================
