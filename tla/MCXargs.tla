------------------------------- MODULE MCXargs ------------------------------
(***************************************************************************)
(* xargs from its command line on, with small limits.  The options are     *)
(* read first.  What they come to selects what is looked at next, and      *)
(* start tells which: the reading of the input, as words, lines or         *)
(* delimited strings (-s 5), or one of the two loops of main: -n 3 -s 6;   *)
(* -L 2 in a large environment, which leaves room for few arguments; or    *)
(* -I -s 5 with a template of three words and lines that are short, fill   *)
(* the command line exactly, do not fit together, or do not fit alone.     *)
(***************************************************************************)
EXTENDS XargsOptions

VARIABLES
    cmd_argv, cmd_argv_chars, todo, largest, smallest, limit, done, pc, ret,
    pending, taken, delivered,
    phase, eof, first, lineno, lineDone, procs_executed, listLines, emptyRuns,
    line, word, refused,
    mode, state, quotc, prevc, seen_arg, linebuf, args, input

MCTyped == {<<"I">>, <<"L", 0>>, <<"L", 2>>, <<"n", 1>>, <<"n", 3>>, <<"s", 5>>, <<"s", 6>>,
            <<"s", 99>>, <<"x">>, <<"r">>, <<"0">>, <<"E", <<"e">>>>, <<"h">>}

ByWord == INSTANCE XargsRead WITH
    EofStrs <- {<<>>, <<"e">>}, Room <- 3, CommandSize <- 0, MaxChars <- 5
ByLine == INSTANCE XargsRead WITH
    EofStrs <- {<<>>, <<"e">>}, Room <- 4, CommandSize <- 2, MaxChars <- 5

Item == {"short", "long"}
Size == [a \in Item |-> IF a = "short" THEN 1 ELSE 3]
PrefixLen == 0
InitialChars == InitialSize
MustAccept == 0
Query == FALSE

N == INSTANCE XargsMain WITH
    ArgsPerExec <- 3, LinesPerExec <- 0, ExitIfSizeExceeded <- FALSE,
    ArgMax <- 6, MaxArgCount <- 20, MaxPushes <- 5, InitialArgc <- 1, ReplacePat <- FALSE

L == INSTANCE XargsMain WITH
    ArgsPerExec <- 0, LinesPerExec <- 2, ExitIfSizeExceeded <- TRUE,
    ArgMax <- 8, MaxArgCount <- 4, MaxPushes <- 5, InitialArgc <- 1, ReplacePat <- FALSE

TemplateWords == 3
InputLines == 1 .. 4
Template == (1 .. TemplateWords) \X InputLines
I == INSTANCE XargsReplace WITH
    Words <- TemplateWords, Lines <- InputLines, Item <- Template,
    Size <- [a \in Template |-> IF a[1] = 1 THEN 1 ELSE <<1, 2, 3, 5>>[a[2]]],
    ArgsPerExec <- 0, LinesPerExec <- 0, ExitIfSizeExceeded <- TRUE,
    ArgMax <- 5, MaxArgCount <- 20, MaxPushes <- 9, InitialArgc <- 0, ReplacePat <- TRUE

ASSUME OptionsAssumption ==
    /\ N!MainOptions /\ L!MainOptions /\ I!ReplaceOptions
    /\ ByWord!XargsReadAssumption /\ ByLine!XargsReadAssumption

readVars == <<mode, state, quotc, prevc, seen_arg, linebuf, args, input>>
libraryVars == <<cmd_argv, cmd_argv_chars, todo, largest, smallest, limit, done, pc, ret,
                 pending, taken, delivered>>
replaceOnly == <<line, word, refused>>
mainOnly == <<lineDone, procs_executed, listLines, emptyRuns>>
sharedVars == <<phase, eof, first, lineno>>
settledVars == <<environment, act_on_init_result, ctl, delimited, start, typed>>

MCInit ==
    /\ OptionsInit /\ N!MainInit /\ I!ReplaceInit /\ line = 1
    /\ ByWord!Init /\ mode = "words"

\* The settings of ctl and the limits that a stage is run with.
Settled(replace, argsPer, linesPer, exit, argMax) ==
    ctl = [replace_pat |-> replace, args_per_exec |-> argsPer, lines_per_exec |-> linesPer,
           exit_if_size_exceeded |-> exit, arg_max |-> argMax]
Count(n) == ArgCountMax(environment) = n
PlainInput == ~delimited /\ eof_str = <<>>

Stage(s) ==
    CASE s = "words" -> Settled(FALSE, 0, 0, FALSE, 5) /\ always_run_command
      [] s = "lines" -> Settled(TRUE, 0, 0, TRUE, 5) /\ always_run_command
      [] s = "n" -> Settled(FALSE, 3, 0, FALSE, 6) /\ Count(20) /\ PlainInput
      [] s = "L" -> Settled(FALSE, 0, 2, TRUE, 8) /\ Count(4) /\ PlainInput
      [] s = "I" -> Settled(TRUE, 0, 0, TRUE, 5) /\ Count(20) /\ PlainInput

\* The options are known; from here on it does not matter how they were typed.
Begin(s) ==
    /\ start = "started" /\ Stage(s)
    /\ start' = s
    /\ mode' = IF delimited THEN "strings" ELSE IF ctl.replace_pat THEN "lines" ELSE "words"
    /\ typed' = <<>> /\ environment' = 0
    /\ UNCHANGED <<act_on_init_result, ctl, always_run_command, delimited, eof_str,
                   libraryVars, sharedVars, mainOnly, replaceOnly, state, quotc, prevc,
                   seen_arg, linebuf, args, input>>

MCNext ==
    \/ \E s \in {"words", "lines", "n", "L", "I"} : Begin(s)
    \/ /\ UNCHANGED <<mainOnly, replaceOnly, sharedVars, libraryVars, readVars>>
       /\ OptionsNext
    \/ /\ UNCHANGED <<settledVars, mainOnly, replaceOnly, libraryVars, always_run_command>>
       /\ \/ start = "words" /\ ByWord!Next
          \/ start = "lines" /\ ByLine!Next
    \/ /\ UNCHANGED <<settledVars, readVars, eof_str>>
       /\ \/ start = "n" /\ N!MainNext /\ UNCHANGED replaceOnly
          \/ start = "L" /\ L!MainNext /\ UNCHANGED replaceOnly
          \/ /\ start = "I" /\ I!ReplaceNext
             /\ UNCHANGED <<mainOnly, eof, first, lineno, always_run_command>>

MCVars == <<settledVars, readVars, eof_str, always_run_command, libraryVars, sharedVars,
            mainOnly, replaceOnly>>
MCSpec == MCInit /\ [][MCNext]_MCVars

------------------------------------------------------------------------------
(* The properties of the modules, each at the stage it is about; those of    *)
(* XargsOptions are checked as they are.                                   *)

\* The items read are those the text has, the lines counted those of -L, and
\* the errors of read_line are given for inputs they are true of only.
ItemsFound == /\ start = "words" => ByWord!ItemsFound /\ ByWord!ErrorsAreTrue
              /\ start = "lines" => ByLine!ItemsFound /\ ByLine!ErrorsAreTrue

\* Every argument main reads reaches a command, in order, when main returns.
AllInputUsed == start \in {"n", "L"} => N!AllInputUsed

\* A run without input executes the command once, with -r not at all; and with
\* -n no command is executed without arguments after some input.  (With -L one
\* is, when the words of the last line fill the list: README.)
EmptyInputRule ==
    /\ start \in {"n", "L"} => N!EmptyInputRule
    /\ start = "n" => N!NoEmptyCommandAfterInput

\* -L: no command gets more lines than it asks for.
LinesBounded == start = "L" => L!LinesBounded

\* -x, which -L implies: before the end of the input no command is run on fewer
\* lines than asked for because of its size.
ShortOnlyAtEnd == start = "L" => L!ShortOnlyAtEnd

\* -I: a command is first tried with the whole template of one line, and a
\* line is called too long only if it is.
WholeTemplate == start = "I" => I!WholeTemplate /\ I!TooLongIsTrue
=============================================================================
