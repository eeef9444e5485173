----------------------------- MODULE MCGeofence -----------------------------
EXTENDS Geofence

(* The framework's ids are interchangeable.                                *)
Symmetry == Permutations(Ids)

(* Suspends and restarts may come at every point of every exchange; for    *)
(* these three commands, and a breach in one of the worlds only.           *)
Bound ==
    /\ Exposed({"power", "untimely"}) => Len(commands) <= 3
    /\ Exposed({"power"}) => breaches = 0
=============================================================================
