----------------------------- MODULE XargsMain ------------------------------
(***************************************************************************)
(* xargs without -I: the loop of main over read_line (or read_string), the *)
(* -L line counter, the last command, and the ways the run is cut short.   *)
(* The text of the input is abstracted to what read_line makes of it: a    *)
(* next argument, whether a newline ends it, and how the input ends.       *)
(* The library underneath is BuildCmd.                                     *)
(***************************************************************************)
EXTENDS BuildCmd

CONSTANTS
    Query             \* query_before_executing (-p)

\* The options this loop is run with.
MainOptions ==
    /\ Query \in BOOLEAN
    /\ ~ReplacePat /\ InitialArgc > 0 /\ PrefixLen = 0
    /\ LinesPerExec # 0 => ExitIfSizeExceeded /\ ArgsPerExec = 0

VARIABLES
    always_run_command, \* option: no -r; never changes
    phase,            \* where main stands
    eof,              \* the static eof of read_line
    first,            \* read_line is at the first argument of a line
    lineno,           \* lines counted since the last -L command
    lineDone,         \* the argument being pushed ended a counted line
    procs_executed,   \* add_proc has been called
    listLines,        \* history: counted lines that end in the list
    emptyRuns         \* history: commands run without arguments; 2 for more

mainVars == <<phase, eof, first, lineno, lineDone, procs_executed>>
allVars == <<vars, mainVars, always_run_command, listLines, emptyRuns>>

Ended == {"finished", "failed"}

MainInit ==
    /\ Init
    /\ always_run_command \in BOOLEAN
    /\ phase = "reading" /\ eof = FALSE /\ first = TRUE /\ lineno = 0 /\ lineDone = FALSE
    /\ procs_executed = FALSE /\ listLines = 0 /\ emptyRuns = 0

------------------------------------------------------------------------------
(* read_line: one read returns to main at the end of a line.               *)

\* An argument followed by a blank: pushed, and read_line goes on.
ReadArg(a) ==
    /\ phase = "reading" /\ ~eof
    /\ PushArg(a)
    /\ lineDone' = FALSE /\ first' = FALSE
    /\ UNCHANGED <<phase, eof, lineno, procs_executed, listLines, emptyRuns>>

\* The last argument of a line.  The newline is not counted when the last
\* character before it is a blank, which an escaped blank may be.
ReadLastArg(a) ==
    /\ phase = "reading" /\ ~eof
    /\ PushArg(a)
    /\ phase' = "line_end"
    /\ \/ lineDone' = TRUE /\ lineno' = lineno + 1
       \/ lineDone' = FALSE /\ lineno' = lineno
    /\ UNCHANGED <<eof, first, procs_executed, listLines, emptyRuns>>

\* The last argument of an input that has no newline at its end.
ReadArgAtEof(a) ==
    /\ phase = "reading" /\ ~eof
    /\ PushArg(a)
    /\ phase' = "line_end" /\ eof' = TRUE
    /\ lineDone' = FALSE
    /\ UNCHANGED <<first, lineno, procs_executed, listLines, emptyRuns>>

\* The end-of-file string (-E) after another argument of its line.
ReadEofString ==
    /\ phase = "reading" /\ ~eof /\ ~first /\ pc = "idle"
    /\ phase' = "line_end" /\ eof' = TRUE
    /\ lineno' \in {lineno, lineno + 1}
    /\ lineDone' = FALSE
    /\ UNCHANGED <<vars, first, procs_executed, listLines, emptyRuns>>

\* read_line returns -1.
ReadEof ==
    /\ phase = "reading" /\ pc = "idle"
    /\ phase' = "ending" /\ eof' = TRUE
    /\ UNCHANGED <<vars, first, lineno, lineDone, procs_executed, listLines,
                   emptyRuns>>

\* An unmatched quote or an argument longer than a command line:
\* exec_if_possible, then error (EXIT_FAILURE, ...).
ReadError ==
    /\ phase = "reading" /\ ~eof /\ pc = "idle"
    /\ IF cmd_argv = <<>> \/ ExitIfSizeExceeded
       THEN phase' = "failed" /\ UNCHANGED vars
       ELSE phase' = "failing" /\ DoExec
    /\ UNCHANGED <<eof, first, lineno, lineDone, procs_executed, listLines,
                   emptyRuns>>

------------------------------------------------------------------------------
(* main.                                                                   *)

BadEnoughLines == LinesPerExec # 0 /\ lineno > LinesPerExec
EnoughLines == LinesPerExec # 0 /\ lineno >= LinesPerExec

\* After each read: run the command when enough lines have been counted.
LineEnd ==
    /\ phase = "line_end" /\ pc = "idle"
    /\ phase' = "reading" /\ first' = TRUE
    /\ IF EnoughLines
       THEN DoExec /\ lineno' = 0
       ELSE UNCHANGED <<vars, lineno>>
    /\ UNCHANGED <<eof, lineDone, procs_executed, listLines, emptyRuns>>

BadForgetsLastArgs == always_run_command /\ ~procs_executed
BadIgnoresExecuted == cmd_argv # <<>> \/ always_run_command
NeedsLastExec == cmd_argv # <<>> \/ (always_run_command /\ ~procs_executed)

\* After the last read: what is left, or at least one command.
LastExec ==
    /\ phase = "ending" /\ pc = "idle"
    /\ IF NeedsLastExec
       THEN phase' = "finishing" /\ DoExec
       ELSE phase' = "finished" /\ UNCHANGED vars
    /\ UNCHANGED <<eof, first, lineno, lineDone, procs_executed, listLines,
                   emptyRuns>>

\* The last command has been started; or error () after exec_if_possible.
LastExecDone ==
    /\ pc = "idle"
    /\ \/ phase = "finishing" /\ phase' = "finished"
       \/ phase = "failing" /\ phase' = "failed"
    /\ UNCHANGED <<vars, eof, first, lineno, lineDone, procs_executed, listLines,
                   emptyRuns>>

------------------------------------------------------------------------------
(* The library at work on behalf of main.                                  *)

Push ==
    /\ phase \notin Ended
    /\ CheckCount \/ AppendArg
    /\ listLines' = IF pending' = <<>> /\ lineDone THEN listLines + 1 ELSE listLines
    /\ UNCHANGED <<mainVars, emptyRuns>>

\* xargs_do_exec returned 1: the command runs, or -p was answered with no.
Accepted ==
    /\ phase \notin Ended
    /\ ExecAccepted
    /\ \E run \in IF Query THEN BOOLEAN ELSE {TRUE} :
          /\ procs_executed' = (procs_executed \/ run)
          /\ emptyRuns' = IF run /\ WorkingArgs = <<>>
                          THEN Smaller(emptyRuns + 1, 2) ELSE emptyRuns
    /\ listLines' = IF pc' = "exec" THEN listLines ELSE 0
    /\ UNCHANGED <<phase, eof, first, lineno, lineDone>>

TooBig ==
    /\ phase \notin Ended
    /\ ExecTooBig
    /\ UNCHANGED <<mainVars, listLines, emptyRuns>>

\* xargs_do_exec called exit: the command was not found or cannot be run.
CannotRun ==
    /\ phase \notin Ended /\ pc = "exec"
    /\ phase' = "failed"
    /\ UNCHANGED <<vars, eof, first, lineno, lineDone, procs_executed, listLines,
                   emptyRuns>>

\* error (EXIT_FAILURE, ...) in bc_push_arg or bc_do_exec.
LibraryError ==
    /\ phase \notin Ended /\ pc \in Failed
    /\ phase' = "failed"
    /\ UNCHANGED <<vars, eof, first, lineno, lineDone, procs_executed, listLines,
                   emptyRuns>>

MainStep == LineEnd \/ LastExec \/ LastExecDone \/ Push \/ Accepted \/ TooBig
            \/ CannotRun \/ LibraryError
Reading == ReadEofString \/ ReadEof \/ ReadError
           \/ \E a \in Item : ReadArg(a) \/ ReadLastArg(a) \/ ReadArgAtEof(a)

MainNext == (MainStep \/ Reading) /\ UNCHANGED always_run_command

MainSpec == MainInit /\ [][MainNext]_allVars

------------------------------------------------------------------------------
(* Properties.                                                             *)

\* When xargs gets to the end of main, every argument it read has been given
\* to a command, exactly once and in order, and none is left in the list.
AllInputUsed == phase = "finished" => delivered = taken /\ cmd_argv = <<>>

\* -L: a command gets at most LinesPerExec lines, although the counter is not
\* reset when bc_push_arg runs a command on its own.
LinesBounded ==
    LinesPerExec # 0 /\ pc = "exec" => listLines <= LinesPerExec

\* With no input the command runs once, and not at all with -r.
EmptyInputRule ==
    phase = "finished" /\ taken = <<>> /\ ~Query
        => emptyRuns = IF always_run_command THEN 1 ELSE 0

\* xargs.1, -r: "Normally, the command is run once even if there is no
\* input": a command without arguments is for empty input only.  True with -n;
\* with -L, main runs the list bc_push_arg has just run and cleared when the
\* word that fills it (max_arg_count) is also the last of the last line.
NoEmptyCommandAfterInput == taken # <<>> => emptyRuns = 0

\* xargs.1, -x: "Exit if the size (see the -s option) is exceeded."  With -x
\* and -n or -L, a command that is run before the input has ended has got what
\* was asked for, its arguments or its lines, or as many words as the system
\* allows: it is never cut short by its size.
ShortOnlyAtEnd ==
    /\ ExitIfSizeExceeded /\ LinesPerExec + ArgsPerExec > 0
    /\ pc = "exec" /\ phase \in {"reading", "line_end"}
    => \/ ArgsPerExec # 0 /\ Len(cmd_argv) = ArgsPerExec
       \/ LinesPerExec # 0 /\ lineno = 0 /\ pending = <<>>
       \/ InitialArgc + Len(cmd_argv) = MaxArgCount
=============================================================================
