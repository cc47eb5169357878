---------------------------- MODULE MCEvdpTimer ----------------------------
(***************************************************************************)
(* Instances of EvdpTimer for TLC.                                         *)
(***************************************************************************)
EXTENDS EvdpTimer, TLC

CONSTANTS p1, p2, p3, n1, n2, n3, n4

TwoPoints == {p1, p2}
ThreePoints == {p1, p2, p3}
TwoNodes == {n1, n2}
ThreeNodes == {n1, n2, n3}
FourNodes == {n1, n2, n3, n4}

\* Addresses are interchangeable.
AddressSymmetry == Permutations(Points) \cup Permutations(Nodes)
=============================================================================
