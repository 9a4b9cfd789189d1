-------------------------- MODULE MCLiveOperations --------------------------
(***************************************************************************)
(* Two buses: bus1 has an old position that is ingested last (it was late  *)
(* or replayed) and bus2 one at the same time.  Three alerts in an early   *)
(* feed, more than the page has room for, one of them also in the next.    *)
(***************************************************************************)
EXTENDS LiveOperations, TLC

CONSTANTS bus1, bus2, early, recent, other, detour, closure, delay,
          detour1, closure1, delay1, detour2

MCPosition == {early, recent, other}
MCPositionId == [r \in MCPosition |-> r]
MCVehicleOf == (early :> bus1) @@ (recent :> bus1) @@ (other :> bus2)
MCTimeOf == (early :> 0) @@ (recent :> 1) @@ (other :> 1)
MCIngestedAt == (early :> 3) @@ (recent :> 1) @@ (other :> 1)
MCIdRank == (early :> 1) @@ (recent :> 2) @@ (other :> 3)
MCOnBusRoute == {recent, other}

MCAlert == {detour1, closure1, delay1, detour2}
MCAlertEventId == [r \in MCAlert |-> r]
MCAlertOf == (detour1 :> detour) @@ (closure1 :> closure) @@ (delay1 :> delay) @@ (detour2 :> detour)
MCFeedOf == (detour1 :> 0) @@ (closure1 :> 0) @@ (delay1 :> 0) @@ (detour2 :> 1)
MCActiveAt == (detour1 :> 0 .. MaxNow) @@ (closure1 :> 1 .. MaxNow) @@ (delay1 :> 0 .. 1)
                @@ (detour2 :> 0 .. 1)
=============================================================================
