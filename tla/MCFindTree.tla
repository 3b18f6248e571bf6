----------------------------- MODULE MCFindTree -----------------------------
(***************************************************************************)
(* Small instances of find's expressions.  A command line is either one of *)
(* up to MaxWords words, over a test of the name, one of the inode, an     *)
(* action and -prune, for FindTree; or -daystart and a single test whose   *)
(* number matters, for FindTests: days of four seconds, minutes of two,    *)
(* two ticks to a second, and numbers that come in halves.                 *)
(***************************************************************************)
EXTENDS FindTree, FindTests

CONSTANTS name, size, exec, prune

MCNames == {name}
MCTests == {size}
MCActions == {exec}
MCQuietActions == {prune}
MCCost == (name :> 0) @@ (size :> 2) @@ (exec :> 3) @@ (prune :> 0)
MCRate == (name :> 80) @@ (size :> 90) @@ (exec :> 100) @@ (prune :> 100)

At(ticks) == [sec |-> ticks \div 2, nsec |-> ticks % 2]
File(a, c, links, bytes, mode, dir) ==
    [a |-> At(a), c |-> At(c), m |-> At(c), links |-> links, size |-> bytes,
     mode |-> mode, dir |-> dir]
Dated == {File(a, c, 1, 0, {}, FALSE) : a \in 0 .. 26, c \in {7, 16}}
Sized == {File(0, 0, n, n, {}, FALSE) : n \in 1 .. 5}
Guarded == {File(0, 0, 1, 0, mode, dir) : mode \in SUBSET {"r", "x"}, dir \in BOOLEAN}

MCStartTimes == {At(17), At(20)}
MCAmounts == 0 .. 4
MCNumbers == 0 .. 3
MCUnits == {1, 2}
MCMasks == {[file |-> mask, dir |-> mask] : mask \in SUBSET {"r", "x"}}
           \cup {[file |-> {}, dir |-> {"x"}]}
MCFiles == Dated \cup Sized \cup Guarded
MCReferences == {File(13, 16, 1, 0, {}, FALSE)}

\* Words first or a test first, not both.
MCInit == Init /\ TestsInit
MCNext ==
    \/ /\ pred = None /\ ~full_days /\ start_time = At(17)
       /\ Next /\ UNCHANGED testVars
    \/ words = <<>> /\ phase = "typing" /\ TestsNext /\ UNCHANGED treeVars
MCSpec == MCInit /\ [][MCNext]_<<treeVars, testVars>>
=============================================================================
