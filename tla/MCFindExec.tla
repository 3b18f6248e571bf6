----------------------------- MODULE MCFindExec -----------------------------
(***************************************************************************)
(* Small instances of FindExec: two directories with a matching file each, *)
(* a file standing for all those of its directory.                         *)
(***************************************************************************)
EXTENDS FindExec

CONSTANTS top, sub, fileInTop, fileInSub

MCItem == {fileInTop, fileInSub}
MCSize == [f \in MCItem |-> 1]
MCHome == [f \in MCItem |-> IF f = fileInTop THEN top ELSE sub]
NoneMustBeAccepted == -1
=============================================================================
