--------------------------- MODULE MCOneTimeCode ---------------------------
EXTENDS OneTimeCode, TLC

Symmetry == Permutations(Requests)

=============================================================================
