------------------------ MODULE MCMainThreadExecutor ------------------------
(* Small instances of MainThreadExecutor for TLC. *)
EXTENDS MainThreadExecutor, TLC

CONSTANTS t1, t2

MCTask == {t1, t2}

\* The tasks are interchangeable: nothing in the specification orders them.
TaskSymmetry == Permutations(MCTask)
=============================================================================
