--------------------------- MODULE MCArtifactCache ---------------------------
(* Instances of ArtifactCache for TLC. *)
EXTENDS ArtifactCache, TLC

CONSTANTS c1, c2, g1, g2, g3

TwoProcesses == {c1, c2}
TwoPages == {g1, g2}
OnlyC2 == {c2}
ThreePages == {g1, g2, g3}

\* Pages are interchangeable.
Symmetry == Permutations(Pages)
=============================================================================
