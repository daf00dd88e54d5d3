--------------------------- MODULE MCUpdaterStatus ---------------------------
(* Instances of UpdaterStatus for TLC.                                     *)
EXTENDS UpdaterStatus, FiniteSets, TLC

\* The status requests do the same things.
MCSymmetry == Permutations(StatusRequests)

\* At most two requests are in flight at once.
MCTwoInFlight == Cardinality({q \in Request : ~At(q, "idle")}) <= 2

=============================================================================
