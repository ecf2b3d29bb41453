----------------------- MODULE MCPreflightCheckSuite -----------------------
(* Small instances of PreflightCheckSuite for TLC. *)
EXTENDS PreflightCheckSuite, TLC

CONSTANTS k1, k2, k3

MCCheck == {k1, k2, k3}

\* The checks are interchangeable: the suite keeps them in a set.
CheckSymmetry == Permutations(MCCheck)
=============================================================================
