---------------------------- MODULE MCTripStale ----------------------------
(* Instance of TripStale for TLC.                                          *)
EXTENDS TripStale, TLC

TripSymmetry == Permutations(Trips)
=============================================================================
