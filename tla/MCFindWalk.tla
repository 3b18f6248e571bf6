----------------------------- MODULE MCFindWalk -----------------------------
(***************************************************************************)
(* Small instances of FindWalk: every hierarchy of a few files.            *)
(***************************************************************************)
EXTENDS FindWalk

MCKinds == {"dir", "unstated", "file", "broken", "loop"}
=============================================================================
