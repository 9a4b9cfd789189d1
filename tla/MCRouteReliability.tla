------------------------- MODULE MCRouteReliability -------------------------
(***************************************************************************)
(* Two trips.  a1 and a2 are updates of trip A in one bucket, which the    *)
(* start of a window divides; b1 and b2 are updates of trip B of the same  *)
(* time.  The stop of b1 has only a departure, that of b2 is not in the    *)
(* schedule.  The feed summer has both trips; winter has only A, at        *)
(* another time of day and on a route that is no bus.                      *)
(***************************************************************************)
EXTENDS RouteReliability, TLC

CONSTANTS a1, a2, b1, b2, A, B, r1, r2, summer, winter

MCRecord == {a1, a2, b1, b2}
MCIdOf == [r \in MCRecord |-> r]
MCIdRank == a1 :> 3 @@ a2 :> 2 @@ b1 :> 1 @@ b2 :> 4
MCTimeOf == a1 :> 0 @@ a2 :> 1 @@ b1 :> 2 @@ b2 :> 2
MCTripOf == a1 :> A @@ a2 :> A @@ b1 :> B @@ b2 :> B
MCRouteOf == a1 :> None @@ a2 :> None @@ b1 :> r2 @@ b2 :> r2

Update(stop, arrival, departure) == [stop |-> stop, arrival |-> arrival, departure |-> departure]
MCStopsOf ==
    a1 :> <<Update(1, None, None), Update(2, 6, 7)>> @@
    a2 :> <<Update(1, 0, 0), Update(3, 11, None), Update(2, 8, None)>> @@
    b1 :> <<Update(1, None, 9)>> @@
    b2 :> <<Update(1, None, 1), Update(9, 4, 4)>>

Call(trip, stop, route, arrival, departure) ==
    [trip |-> trip, stop |-> stop, route |-> route, arrival |-> arrival, departure |-> departure]
MCSchedule ==
    summer :> {Call(A, 2, r1, 13, 14), Call(A, 3, r1, 15, 15), Call(B, 1, r2, None, 0)} @@
    winter :> {Call(A, 2, r1, 7, 8), Call(A, 3, r1, 9, 9)}
MCBuses == summer :> {r1, r2} @@ winter :> {r2}
=============================================================================
