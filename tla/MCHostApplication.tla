-------------------------- MODULE MCHostApplication --------------------------
(* A small instance of HostApplication for TLC. *)
EXTENDS HostApplication

CONSTANTS t1, t2

MCTask == {t1, t2}
=============================================================================
