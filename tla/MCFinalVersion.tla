------------------------- MODULE MCFinalVersion -------------------------
(* The instance of FinalVersion that TLC checks. *)
EXTENDS FinalVersion, TLC

CONSTANTS i1, i2
Items == {i1, i2}
Symmetry == Permutations(Items)
=============================================================================
