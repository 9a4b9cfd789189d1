--------------------------- MODULE MCGtfsRefresh ---------------------------
(***************************************************************************)
(* Two processes and three feeds: current can be served, expired is sound  *)
(* but out of date, broken is in date but has dangling references.         *)
(***************************************************************************)
EXTENDS GtfsRefresh, TLC

CONSTANTS p1, p2, current, expired, broken, routes, trips

MCProcess == {p1, p2}
MCFeed == {current, expired, broken}
MCEffective == {current, broken}
MCSound == {current, expired}
MCTable == {routes, trips}

\* A smaller instance for liveness.
SmallFeed == {current}
SmallTable == {routes}

MCSymmetry == Permutations(MCProcess) \cup Permutations(MCTable)
=============================================================================
