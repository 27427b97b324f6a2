----------------------------- MODULE MCTimeline -----------------------------
(* Four tokens of different lengths, one of which fits between two others  *)
(* only in some orders.                                                    *)
EXTENDS TimelineProperties, TLC

CONSTANTS t1, t2, t3, t4

EarliestOf == (t1 :> 0) @@ (t2 :> 1) @@ (t3 :> 2) @@ (t4 :> 0)
LatestOf == (t1 :> 4) @@ (t2 :> 6) @@ (t3 :> 5) @@ (t4 :> 7)
DurationOf == (t1 :> 2) @@ (t2 :> 1) @@ (t3 :> 3) @@ (t4 :> 1)
=============================================================================
