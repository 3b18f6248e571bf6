------------------------------ MODULE ArgStream ------------------------------
(***************************************************************************)
(* What the argument batching of lib/buildcmd.c promises its callers,      *)
(* without saying how the batches are cut: the arguments handed to         *)
(* bc_push_arg reach the executed commands exactly once and in the order   *)
(* they were pushed.                                                       *)
(***************************************************************************)
EXTENDS Integers, Sequences

CONSTANT Item          \* the arguments a caller may push

VARIABLES
    taken,             \* every argument pushed so far, in order
    delivered          \* the arguments commands have been run with, in order

vars == <<taken, delivered>>

Init == /\ taken = <<>>
        /\ delivered = <<>>

\* The caller hands over one more argument.
Take(a) == /\ taken' = Append(taken, a)
           /\ UNCHANGED delivered

\* One command runs with the next few arguments; a command that is run with
\* no argument of its own delivers nothing.
Deliver == /\ \E n \in Len(delivered) .. Len(taken) :
                 delivered' = SubSeq(taken, 1, n)
           /\ UNCHANGED taken

Next == Deliver \/ \E a \in Item : Take(a)

Spec == Init /\ [][Next]_vars
=============================================================================
