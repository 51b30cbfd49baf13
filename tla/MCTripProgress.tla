--------------------------- MODULE MCTripProgress ---------------------------
EXTENDS TripProgress, TLC

Symmetry == Permutations(Requests)

\* Parked at the depot, on the way to the origin, at the origin and the first
\* stop, where the radii of the next two stops overlap, at the last stop and
\* so beyond these two.
Place(near, beyond, atOrigin, moving) ==
    [near |-> near, beyond |-> beyond, atOrigin |-> atOrigin, moving |-> moving]

MCPlaces ==
    {Place({}, {}, FALSE, FALSE), Place({}, {}, FALSE, TRUE), Place({0}, {}, TRUE, FALSE),
     Place({1, 2}, {}, FALSE, TRUE), Place({3}, {1, 2}, FALSE, TRUE)}

=============================================================================
