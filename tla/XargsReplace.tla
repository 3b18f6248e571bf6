---------------------------- MODULE XargsReplace ----------------------------
(***************************************************************************)
(* xargs -I: the second loop of main.  Each input line is substituted into *)
(* every initial argument but the command name, and one command is meant   *)
(* to run per line.  ctl->initial_argc stays 0 in this mode, so for        *)
(* buildcmd.c the whole template is an ordinary list of arguments.         *)
(* An argument is <<w, l>>: word w of the template with line l put in it.  *)
(***************************************************************************)
EXTENDS BuildCmd

CONSTANTS
    Words,            \* the words of the template; word 1 is the command
    Lines             \* the different lines the input may hold

\* The options this loop is run with.
ReplaceOptions ==
    /\ Words \in Nat \ {0}
    /\ ReplacePat /\ ExitIfSizeExceeded
    /\ InitialArgc = 0 /\ PrefixLen = 0
    /\ ArgsPerExec = 0 /\ LinesPerExec = 0
    /\ Item = (1 .. Words) \X Lines

VARIABLES
    line,             \* the input line in linebuf
    word,             \* the word of the template to push next
    phase,            \* where the loop stands
    refused           \* history: exec has reported E2BIG for this line

replaceVars == <<vars, line, word, phase, refused>>

Ended == {"finished", "failed"}

ReplaceInit == Init /\ line \in Lines /\ word = 1 /\ phase = "reading" /\ refused = FALSE

\* bc_clear_args, then "begin at start of buffer".
StartLine == cmd_argv' = <<>> /\ cmd_argv_chars' = 0 /\ todo' = FALSE /\ done' = 0

\* read_line returns a line.
ReadLine ==
    /\ phase = "reading" /\ pc = "idle"
    /\ Len(taken) + Words <= MaxPushes
    /\ phase' = "pushing"
    /\ line' \in Lines /\ word' = 1 /\ refused' = FALSE
    /\ StartLine
    /\ UNCHANGED <<largest, smallest, limit, pc, ret, pending, taken, delivered>>

ReadEof ==
    /\ phase = "reading" /\ pc = "idle"
    /\ phase' = "finished"
    /\ UNCHANGED <<vars, line, word, refused>>

\* bc_do_insert refuses a word that alone fills the buffer.
TooLongToInsert(a) == word > 1 /\ Size[a] >= ArgMax

\* The command name is pushed as it is, the other words by bc_do_insert.
PushWord ==
    /\ phase = "pushing" /\ word <= Words
    /\ LET a == <<word, line>>
       IN /\ pc = "idle"
          /\ IF TooLongToInsert(a)
             THEN phase' = "failed" /\ UNCHANGED <<vars, word>>
             ELSE PushArg(a) /\ word' = word + 1 /\ UNCHANGED phase
    /\ UNCHANGED <<line, refused>>

RunLine ==
    /\ phase = "pushing" /\ word > Words
    /\ DoExec
    /\ phase' = "reading"
    /\ UNCHANGED <<line, word, refused>>

Library ==
    /\ phase \notin Ended
    /\ \/ (CheckCount \/ AppendArg \/ ExecAccepted) /\ UNCHANGED refused
       \/ ExecTooBig /\ refused' = TRUE
    /\ UNCHANGED <<line, word, phase>>

LibraryError ==
    /\ phase \notin Ended /\ pc \in Failed
    /\ phase' = "failed"
    /\ UNCHANGED <<vars, line, word, refused>>

ReplaceNext == ReadLine \/ ReadEof \/ PushWord \/ RunLine \/ Library \/ LibraryError

ReplaceSpec == ReplaceInit /\ [][ReplaceNext]_replaceVars

------------------------------------------------------------------------------
(* Properties.                                                             *)

\* The words of the template for the line being worked on.
Template == [w \in 1 .. Words |-> <<w, line>>]

\* Until exec refuses it with E2BIG, what is given to exec is the whole
\* template with the same line in every word, whatever limits the line runs
\* into.  After E2BIG it is a part of it, and the next part begins with a word
\* that was to be an argument: initial_argc is 0, so the command name is not
\* repeated.
WholeTemplate == pc = "exec" /\ ~refused => WorkingArgs = Template

\* The characters of the first n words of the template with line l in them.
CharsUpTo(l) ==
    LET chars[n \in 0 .. Words] == IF n = 0 THEN 0 ELSE chars[n - 1] + Size[<<n, l>>]
    IN chars

\* "argument list too long" is said only of a line for which it is true: the
\* characters counted for one line do not carry over to the next.
TooLongIsTrue ==
    pc \in {"list_too_long", "cannot_fit"} => CharsUpTo(line)[Words] > ArgMax
=============================================================================
