------------------------------ MODULE LocateDb ------------------------------
(***************************************************************************)
(* What updatedb and locate promise together: a database is replaced as a  *)
(* whole, by a list that is complete, and whoever reads it gets the list   *)
(* that was there when he opened it, whatever updatedb does meanwhile.     *)
(***************************************************************************)
EXTENDS Sequences, Integers

CONSTANT Path

VARIABLES
    installed,      \* the list in the database
    building,       \* the list of the update under way
    complete,       \* that list is finished
    reading,        \* the list that is being read
    got             \* what has been read of it

dbVars == <<installed, building, complete, reading, got>>

DbInit ==
    /\ installed \in Seq(Path)
    /\ building = <<>> /\ complete = FALSE /\ reading = <<>> /\ got = <<>>

\* An update begins, or an unfinished one is given up.
Begin == building' = <<>> /\ complete' = FALSE /\ UNCHANGED <<installed, reading, got>>

Add(p) ==
    /\ ~complete
    /\ building' = Append(building, p)
    /\ UNCHANGED <<installed, complete, reading, got>>

Finish == complete' = TRUE /\ UNCHANGED <<installed, building, reading, got>>

Install ==
    /\ complete
    /\ installed' = building
    /\ building' = <<>> /\ complete' = FALSE
    /\ UNCHANGED <<reading, got>>

Open == reading' = installed /\ got' = <<>> /\ UNCHANGED <<installed, building, complete>>

Read ==
    /\ Len(got) < Len(reading)
    /\ got' = Append(got, reading[Len(got) + 1])
    /\ UNCHANGED <<installed, building, complete, reading>>

Close == reading' = <<>> /\ got' = <<>> /\ UNCHANGED <<installed, building, complete>>

DbNext == Begin \/ (\E p \in Path : Add(p)) \/ Finish \/ Install \/ Open \/ Read \/ Close

DbSpec == DbInit /\ [][DbNext]_dbVars
=============================================================================
