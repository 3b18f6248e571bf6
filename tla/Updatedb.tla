------------------------------ MODULE Updatedb ------------------------------
(***************************************************************************)
(* updatedb.sh, from the removal of the old temporary file on: find writes *)
(* paths into a pipe, frcode compresses them into LOCATE_DB.n, and mv puts *)
(* the file in the place of LOCATE_DB.  The shell can get a HUP or TERM,   *)
(* which its trap handles between two commands, or be killed, which leaves *)
(* frcode running.  One updatedb runs at a time.                           *)
(*                                                                         *)
(* A file is an inode with contents; LOCATE_DB and LOCATE_DB.n are names.  *)
(* Update r is the r-th start of updatedb.                                 *)
(***************************************************************************)
EXTENDS FrCode

CONSTANTS
    SortedPaths,    \* the paths find may print, in the order of sort -f
    MaxUpdates,     \* bound: starts of updatedb
    MaxGiven,       \* bound: paths printed in all the updates together
    MaxTroubles     \* bound: signals, kills and failures of frcode

ASSUME UpdatedbAssumption ==
    MaxUpdates \in Nat /\ \A i \in DOMAIN SortedPaths : SortedPaths[i] \in Seq(Char)

Path == ToSet(SortedPaths)
Updates == 1 .. MaxUpdates
NoFile == -1

VARIABLES
    update,         \* the number of updates started
    shell,          \* the command the script is at
    trapped,        \* a signal waits for the trap
    locate_db,      \* the inode LOCATE_DB names
    temp,           \* the inode LOCATE_DB.n names, or NoFile
    file,           \* file[i]: format and bytes of inode i
    frcode,         \* frcode[r]: what the frcode of update r is doing
    writer,         \* writer[r]: what it remembers of its input
    out,            \* out[r]: the inode it writes to
    given,          \* history: given[r]: the paths it has been given
    troubles        \* signals, kills and failures so far

updateVars == <<update, shell, trapped, locate_db, temp, file, frcode, writer, out, given,
                troubles>>

\* The database in place at the start is inode 0, given in full.
UpdatedbInit(format, list) ==
    /\ update = 0 /\ shell = "none" /\ trapped = FALSE /\ troubles = 0
    /\ locate_db = 0 /\ temp = NoFile
    /\ file = [i \in 0 .. MaxUpdates |->
                 IF i = 0 THEN Encoded(format, list) ELSE Encoded("none", <<>>)]
    /\ frcode = [r \in Updates |-> "none"]
    /\ writer = [r \in Updates |-> Fresh(FALSE)]
    /\ out = [r \in Updates |-> NoFile]
    /\ given = [r \in 0 .. MaxUpdates |-> IF r = 0 THEN list ELSE <<>>]

GivenInAll == FoldFunction(LAMBDA l, n : Len(l) + n, 0, [r \in Updates |-> given[r]])

------------------------------------------------------------------------------
(* The script.                                                             *)

BadTempRemoved == temp
TempRemoved == NoFile

\* rm -f $LOCATE_DB.n, and the trap is set.
StartUpdate ==
    /\ shell = "none" /\ update < MaxUpdates
    /\ update' = update + 1
    /\ shell' = "redirecting" /\ trapped' = FALSE
    /\ temp' = TempRemoved
    /\ UNCHANGED <<locate_db, file, frcode, writer, out, given, troubles>>

\* "> $LOCATE_DB.n" and the start of frcode, which writes its header.
StartFrcode(format) ==
    /\ shell = "redirecting" /\ ~trapped
    /\ LET i == IF temp = NoFile THEN update ELSE temp
       IN /\ temp' = i
          /\ out' = [out EXCEPT ![update] = i]
          /\ file' = [file EXCEPT ![i] = Encoded(format, <<>>)]
    /\ frcode' = [frcode EXCEPT ![update] = "writing"]
    /\ writer' = [writer EXCEPT ![update] = Fresh(format \in Slocate)]
    /\ shell' = "waiting"
    /\ UNCHANGED <<update, trapped, locate_db, given, troubles>>

OkSoFar(r) == frcode[r] = "ok"

\* The pipeline is over: its status is frcode's.
PipelineEnds ==
    /\ shell = "waiting" /\ frcode[update] # "writing" /\ ~trapped
    /\ IF OkSoFar(update)
       THEN shell' = "testing" /\ UNCHANGED temp
       ELSE shell' = "none" /\ temp' = NoFile
    /\ UNCHANGED <<update, trapped, locate_db, file, frcode, writer, out, given, troubles>>

\* test -s and chmod.  The header alone makes the file not empty.
TestAndChmod ==
    /\ shell = "testing" /\ ~trapped
    /\ IF temp # NoFile /\ file[temp].format # "none"
       THEN shell' = "moving" /\ UNCHANGED temp
       ELSE shell' = "none" /\ temp' = NoFile
    /\ UNCHANGED <<update, trapped, locate_db, file, frcode, writer, out, given, troubles>>

Move ==
    /\ shell = "moving" /\ ~trapped
    /\ locate_db' = temp /\ temp' = NoFile
    /\ shell' = "none"
    /\ UNCHANGED <<update, trapped, file, frcode, writer, out, given, troubles>>

\* rm -f $LOCATE_DB.n; exit
Trap ==
    /\ trapped
    /\ shell = "waiting" => frcode[update] # "writing"
    /\ temp' = NoFile /\ shell' = "none" /\ trapped' = FALSE
    /\ UNCHANGED <<update, locate_db, file, frcode, writer, out, given, troubles>>

------------------------------------------------------------------------------
(* frcode.                                                                 *)

\* sort -f: p does not come before what has been given.
InOrder(list, p) ==
    list # <<>> => \E i, j \in DOMAIN SortedPaths :
                      i <= j /\ SortedPaths[i] = Last(list) /\ SortedPaths[j] = p

WritePath(r, p) ==
    /\ frcode[r] = "writing" /\ GivenInAll < MaxGiven /\ InOrder(given[r], p)
    /\ LET w == FrcodePath(writer[r], p)
       IN /\ frcode' = [frcode EXCEPT ![r] = IF w.aborted THEN "failed" ELSE @]
          /\ file' = [file EXCEPT ![out[r]].bytes = @ \o w.bytes]
          /\ writer' = [writer EXCEPT ![r] = [w EXCEPT !.bytes = <<>>]]
    /\ given' = [given EXCEPT ![r] = Append(@, p)]
    /\ UNCHANGED <<update, shell, trapped, locate_db, temp, out, troubles>>

\* The end of its input, wherever find or sort stopped.
FrcodeEnds(r) ==
    /\ frcode[r] = "writing"
    /\ frcode' = [frcode EXCEPT ![r] = "ok"]
    /\ UNCHANGED <<update, shell, trapped, locate_db, temp, file, writer, out, given,
                   troubles>>

------------------------------------------------------------------------------
(* Troubles.                                                               *)

Trouble == troubles < MaxTroubles /\ troubles' = troubles + 1

\* A write error (outerr), or a signal.
FrcodeFails(r) ==
    /\ frcode[r] = "writing" /\ Trouble
    /\ frcode' = [frcode EXCEPT ![r] = "failed"]
    /\ UNCHANGED <<update, shell, trapped, locate_db, temp, file, writer, out, given>>

\* HUP or TERM for the shell.
Term ==
    /\ shell # "none" /\ ~trapped /\ Trouble
    /\ trapped' = TRUE
    /\ UNCHANGED <<update, shell, locate_db, temp, file, frcode, writer, out, given>>

\* The shell is gone; what it started and wrote stays.
Killed ==
    /\ shell # "none" /\ Trouble
    /\ shell' = "none" /\ trapped' = FALSE
    /\ UNCHANGED <<update, locate_db, temp, file, frcode, writer, out, given>>

UpdatedbNext(format) ==
    \/ StartUpdate \/ StartFrcode(format) \/ PipelineEnds \/ TestAndChmod \/ Move \/ Trap
    \/ \E r \in Updates : (\E p \in Path : WritePath(r, p)) \/ FrcodeEnds(r) \/ FrcodeFails(r)
    \/ Term \/ Killed
=============================================================================
