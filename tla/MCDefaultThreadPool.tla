------------------------- MODULE MCDefaultThreadPool -------------------------
(* Small instances of DefaultThreadPool for TLC. *)
EXTENDS DefaultThreadPool

CONSTANTS t1, t2, c1, c2, w1, w2

MCTask == {t1, t2}
MCClient == {c1, c2}
MCOneClient == {c1}
MCWorker == {w1, w2}
=============================================================================
