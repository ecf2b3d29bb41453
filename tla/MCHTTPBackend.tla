---------------------------- MODULE MCHTTPBackend ----------------------------
(* Small instances of HTTPBackend for TLC. *)
EXTENDS HTTPBackend, TLC

CONSTANTS t1, t2

MCThread == {t1, t2}

\* The threads are interchangeable.
ThreadSymmetry == Permutations(MCThread)
=============================================================================
