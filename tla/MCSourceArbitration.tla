------------------------ MODULE MCSourceArbitration ------------------------
(* Instance of SourceArbitration for TLC.                                  *)
EXTENDS SourceArbitration, TLC

RequestSymmetry == Permutations(Requests)
=============================================================================
