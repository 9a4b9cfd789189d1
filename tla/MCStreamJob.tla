----------------------------- MODULE MCStreamJob -----------------------------
(***************************************************************************)
(* A small topic for StreamJob.  old, mid and new are events; new is more  *)
(* than Delay newer than old, so that it makes old late and lets its       *)
(* deduplication state expire.  oldA and oldB are two records of one       *)
(* event, as a feed whose timestamp did not change while its content did   *)
(* produces them; bad fails the quality filter.                            *)
(***************************************************************************)
EXTENDS StreamJob, TLC

CONSTANTS p1, p2, t1, t2, old, mid, new, oldA, oldB, midA, newA, bad

MCPartition == {p1, p2}
MCTask == {t1, t2}
MCEvent == {old, mid, new}
MCRecord == {oldA, oldB, midA, newA, bad}
MCValid == MCRecord \ {bad}
MCIdOf == (oldA :> old) @@ (oldB :> old) @@ (midA :> mid) @@ (newA :> new)
            @@ (bad :> mid)
MCPartitionOf == (old :> p1) @@ (mid :> p2) @@ (new :> p2)
MCTimeOf == (old :> 1) @@ (mid :> 2) @@ (new :> 5)
MCWidth == (oldA :> 1) @@ (oldB :> 2) @@ (midA :> 0) @@ (newA :> 1) @@ (bad :> 1)

\* For progress: one record per event, and bad passes the quality filter but
\* PostgreSQL refuses its row.
LiveRecord == {oldA, midA, newA, bad}
LiveIdOf == [r \in LiveRecord |-> MCIdOf[r]]
LiveWidth == [r \in LiveRecord |-> MCWidth[r]]

MCSymmetry == Permutations(MCTask)
=============================================================================
