---------------------------- MODULE MCAsyncCaller ----------------------------
(* A small instance of AsyncCaller for TLC. *)
EXTENDS AsyncCaller

CONSTANTS a1, a2, c1, c2

MCTask == {a1, a2}
MCCaller == {c1, c2}

\* One call with both callbacks, one without.
MCWithCallbacks == {a1}
=============================================================================
