------------------------------ MODULE FindExec ------------------------------
(***************************************************************************)
(* find's use of the command-line library for one -exec ... {} + or, when  *)
(* Local, one -execdir ... {} + predicate: impl_pred_exec, record_exec_dir *)
(* and launch (find/pred.c), the completion of unfinished command lines    *)
(* (find/util.c) and the places of the file hierarchy walk that ask for it *)
(* (find/ftsfind.c).  The hierarchy is reduced to the directory the walk   *)
(* is in; Item stands for the matching files, of which Home names the      *)
(* directory.                                                              *)
(***************************************************************************)
EXTENDS BuildCmd

CONSTANTS
    Dir,            \* the directories of the hierarchy
    NoDir,          \* wd_for_exec == NULL
    Home,           \* Home[f]: the directory of file f
    Local           \* -execdir, as opposed to -exec

ASSUME FindExecAssumption ==
    NoDir \notin Dir /\ Home \in [Item -> Dir] /\ Local \in BOOLEAN

VARIABLES
    here,           \* state.cwd_dir_fd and state.rel_pathname, as a directory
    wd,             \* execp->wd_for_exec
    wdsOpen,        \* descriptors opened for it and not closed
    outstanding,    \* state.execdirs_outstanding
    completing,     \* do_exec of util.c is running the command line
    exit_status,    \* state.exit_status
    phase           \* "search", "cleanup", "ended", "close_failed"

findVars == <<here, wd, wdsOpen, outstanding, completing, exit_status, phase>>
allVars  == <<vars, findVars>>

FindInit ==
    /\ Init
    /\ here \in Dir /\ wd = NoDir /\ wdsOpen = 0
    /\ outstanding = FALSE /\ completing = FALSE
    /\ exit_status = 0 /\ phase = "search"

Searching == phase = "search" /\ pc = "idle" /\ ~completing

------------------------------------------------------------------------------
(* Reaching the predicate.                                                 *)

BadRecordExecDir ==
    IF Local /\ taken = <<>>
    THEN wd' = here /\ wdsOpen' = wdsOpen + 1
    ELSE UNCHANGED <<wd, wdsOpen>>

\* record_exec_dir opens the directory of the first file of a command line.
RecordExecDir ==
    IF Local /\ ~todo
    THEN wd' = here /\ wdsOpen' = wdsOpen + 1
    ELSE UNCHANGED <<wd, wdsOpen>>

\* The predicate is evaluated for a file of the directory the walk is in.
Visit(f) ==
    /\ Searching
    /\ Home[f] = here
    /\ RecordExecDir
    /\ PushArg(f)
    /\ outstanding' = TRUE
    /\ UNCHANGED <<here, completing, exit_status, phase>>

------------------------------------------------------------------------------
(* Completing the command line.                                            *)

\* complete_pending_execs and complete_pending_execdirs look at todo alone.
NeedsDoExec == todo /\ (Local => outstanding)

\* fts_read returned an entry of another level, so of another directory, or
\* the first entry below a new starting point: -execdir is completed first.
Enter(d) ==
    /\ Searching
    /\ here' = d
    /\ outstanding' = FALSE
    /\ IF Local /\ NeedsDoExec
       THEN DoExec /\ completing' = TRUE
       ELSE UNCHANGED <<vars, completing>>
    /\ UNCHANGED <<wd, wdsOpen, exit_status, phase>>

\* The walk is over, or -quit was evaluated: cleanup.
Finish ==
    /\ Searching
    /\ phase' = "cleanup"
    /\ IF NeedsDoExec
       THEN DoExec /\ completing' = TRUE
       ELSE UNCHANGED <<vars, completing>>
    /\ outstanding' = FALSE
    /\ UNCHANGED <<here, wd, wdsOpen, exit_status>>

\* fts_close could not go back to the starting directory: no cleanup.
CloseFails ==
    /\ Searching
    /\ phase' = "close_failed" /\ exit_status' = 1
    /\ UNCHANGED <<vars, here, wd, wdsOpen, outstanding, completing>>

BadFreeWd == UNCHANGED <<wd, wdsOpen>>

\* do_exec closes the directory once the command line has run.
FreeWd ==
    IF Local THEN wd' = NoDir /\ wdsOpen' = wdsOpen - 1
             ELSE UNCHANGED <<wd, wdsOpen>>

DoExecReturns ==
    /\ completing /\ pc = "idle"
    /\ completing' = FALSE
    /\ FreeWd
    /\ UNCHANGED <<vars, here, outstanding, exit_status, phase>>

Exit ==
    /\ phase = "cleanup" /\ pc = "idle" /\ ~completing
    /\ phase' = "ended"
    /\ UNCHANGED <<vars, here, wd, wdsOpen, outstanding, completing, exit_status>>

------------------------------------------------------------------------------
(* launch.  The child reports nothing back: a command line that exec finds *)
(* too big is a child that failed, like any other.  Only when waitpid      *)
(* itself fails does bc_do_exec hear of a failure.                         *)

Launch ==
    /\ ExecAccepted
    /\ exit_status' \in {exit_status, 1}
    /\ UNCHANGED <<here, wd, wdsOpen, outstanding, completing, phase>>

LaunchWaitFails ==
    /\ ExecTooBig
    /\ exit_status' = 1
    /\ UNCHANGED <<here, wd, wdsOpen, outstanding, completing, phase>>

Push == (CheckCount \/ AppendArg) /\ UNCHANGED findVars

FindStep == Push \/ Launch \/ LaunchWaitFails \/ DoExecReturns \/ Exit

FindNext ==
    \/ FindStep \/ Finish \/ CloseFails
    \/ \E f \in Item : Visit(f)
    \/ \E d \in Dir : Enter(d)

FindSpec == FindInit /\ [][FindNext]_allVars

------------------------------------------------------------------------------
(* Properties.                                                             *)

\* "any given invocation of command will only list files that exist in the
\* same subdirectory" (find.1, -execdir): the directory the command is run
\* in is the one of each of its files.
RunsInOwnDirectory ==
    pc = "exec" /\ Local =>
        \A i \in DOMAIN WorkingArgs : Home[WorkingArgs[i]] = wd

\* When find has ended, after its walk or by -quit, the command has been run
\* with every file the predicate was evaluated for, and each directory that
\* record_exec_dir opened has been closed by do_exec.
AllMatchedRun == phase = "ended" => delivered = taken /\ wdsOpen = 0
=============================================================================
