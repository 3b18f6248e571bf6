----------------------------- MODULE MCBuildCmd -----------------------------
(***************************************************************************)
(* A small instance of BuildCmd: short and long arguments, an exec that    *)
(* may refuse anything, and few enough words for both limits to be hit.    *)
(***************************************************************************)
EXTENDS BuildCmd

CONSTANTS short, long

MCItem == {short, long}
MCSize == [a \in MCItem |-> IF a = short THEN 1 ELSE 3]

NoneMustBeAccepted == -1
=============================================================================
