-------------------------- MODULE MCTripLifecycle --------------------------
(* Instances of TripLifecycle for TLC.                                     *)
EXTENDS TripLifecycle, TLC

CONSTANTS b1, d1

\* One schedule, with a driver.
OneSchedule == {[bus |-> b1, driver |-> d1]}

\* A bus with a driver and a second schedule of the same bus without one.
OneBus == {[bus |-> b1, driver |-> d1], [bus |-> b1, driver |-> NoDriver]}

LifecycleSymmetry == Permutations(Requests) \cup Permutations(Trips)
=============================================================================
