---------------------------- MODULE MCXargsProcs ----------------------------
(***************************************************************************)
(* A small instance of XargsProcs.                                         *)
(***************************************************************************)
EXTENDS XargsProcs

CONSTANTS p1, p2, p3

Pids3 == {p1, p2, p3}
=============================================================================
