-------------------------- MODULE MCVersionLifecycle --------------------------
(* Model-checking instances of VersionLifecycle.                           *)
EXTENDS VersionLifecycle, TLC

CONSTANTS p1, p2, s1, r1, c1, g1, good, bad

OneVersion == {1}

PublisherSymmetry == Permutations(Publishers)
=============================================================================
