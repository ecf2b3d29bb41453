--------------------------- MODULE MCJobSubmission ---------------------------
(* Small instances of JobSubmission for TLC. *)
EXTENDS JobSubmission
=============================================================================
