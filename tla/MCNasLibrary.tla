------------------------- MODULE MCNasLibrary -------------------------
(* The instance of NasLibrary that TLC checks. *)
EXTENDS NasLibrary, TLC

CONSTANTS e1, e2
Exams == {e1, e2}

\* Nothing but the types is claimed once `misled` holds, and it holds for good:
\* the states after it are left out.  At most three disturbances in one
\* behaviour: crashes, failures and exports.
MaxDisturbances == 3
Underway == IF export.busy THEN 1 ELSE 0
Disturbances ==
    crashes + failures + Cardinality({p \in Pubs : kind[p] = "legacy"}) + Underway
Covered == ~misled /\ Disturbances <= MaxDisturbances

Symmetry == Permutations(Exams)
=============================================================================
