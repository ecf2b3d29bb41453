------------------------- MODULE MCCheckableDirModel -------------------------
(* A small file system for CheckableDirModel. *)
EXTENDS CheckableDirModel

CONSTANTS root, project, scenes, a, b, notes, other

MCEntry == {root, project, scenes, a, b, notes, other}
MCDir == {root, project, scenes}
MCParent ==
    [e \in MCEntry |->
        CASE e \in {root, project, other} -> root
          [] e \in {scenes, notes} -> project
          [] e \in {a, b} -> scenes]
MCMayBlind == {project}
MCNone == {}
=============================================================================
