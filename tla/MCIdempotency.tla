--------------------------- MODULE MCIdempotency ---------------------------
(* Instance of Idempotency for TLC.                                        *)
EXTENDS Idempotency, TLC

RequestSymmetry == Permutations(Requests) \cup Permutations(Prints)
=============================================================================
