------------------------- MODULE MCProjectRegistry -------------------------
(* A directory with a project and an empty one, either of which may be     *)
(* edited, two scans that may overlap and two detail requests for the      *)
(* project.                                                                *)
EXTENDS ProjectRegistry, TLC

CONSTANTS p1, p2, v1

MCProjects == {p1, p2}
MCDisks == {f \in [Projects -> Contents] : f[p1] = v1 /\ f[p2] = "absent"}
MCTarget == [d \in Details |-> p1]
MCSymmetry == Permutations(Scans) \cup Permutations(Details)
=============================================================================
