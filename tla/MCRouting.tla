----------------------------- MODULE MCRouting -----------------------------
(***************************************************************************)
(* Routes alone, and the values that a .cfg cannot write.                  *)
(***************************************************************************)
EXTENDS Routing

\* Two pools of one pair, and a way round over a third token.
LinksOfThree == <<<<"a", "b">>, <<"b", "c">>, <<"c", "a">>, <<"b", "a">>>>
RouteReservesSeen == {<<20, 30>>, <<30, 20>>, <<4, 25>>}

\* The pair that is swapped on stays as it was.
RoutingSpec == RouteInit /\ PairInit /\ [][RouteNext /\ UNCHANGED pairVars]_<<routeVars, pairVars>>
=============================================================================
