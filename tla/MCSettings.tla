----------------------------- MODULE MCSettings -----------------------------
(* Small instances of Settings for TLC. *)
EXTENDS Settings, TLC

CONSTANTS p1, p2, film, spot, ack

MCProcess == {p1, p2}
MCKey == {film, spot, ack}
MCFileOf == [k \in MCKey |-> IF k = ack THEN "config" ELSE "aux"]

\* The processes are interchangeable, and so are the projects.
SettingsSymmetry == Permutations(MCProcess) \cup Permutations({film, spot})
=============================================================================
