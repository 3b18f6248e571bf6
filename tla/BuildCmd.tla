------------------------------ MODULE BuildCmd ------------------------------
(***************************************************************************)
(* lib/buildcmd.c: struct buildcmd_control (the constants) and struct      *)
(* buildcmd_state (the variables) of one command line under construction,  *)
(* with bc_push_arg, bc_do_exec and the search for an argument count the   *)
(* system accepts (update_limit).  xargs drives one such state from its    *)
(* input; find drives one per -exec ... + and -execdir ... + predicate.    *)
(*                                                                         *)
(* cmd_argv holds only what follows the initial arguments, and never the   *)
(* terminating NULL: the counts of the C code that include them are        *)
(* written out with InitialArgc and + 1.  bc_push_arg may call bc_do_exec  *)
(* before and after it appends, so the two C frames are the variables pc   *)
(* (where the innermost one stands) and ret (where bc_do_exec returns to). *)
(***************************************************************************)
EXTENDS Integers, Sequences

CONSTANTS
    Item,                 \* the arguments that may be pushed
    Size,                 \* Size[a] = strlen (a) + 1, the LEN of bc_push_arg
    PrefixLen,            \* PFXLEN: 2 for the "./" of -execdir, 0 otherwise
    InitialArgc,          \* ctl->initial_argc
    InitialChars,         \* state->cmd_initial_argv_chars
    ArgMax,               \* ctl->arg_max
    MaxArgCount,          \* ctl->max_arg_count
    ArgsPerExec,          \* ctl->args_per_exec (-n), 0 when unset
    LinesPerExec,         \* ctl->lines_per_exec (-L), 0 when unset
    ExitIfSizeExceeded,   \* ctl->exit_if_size_exceeded (-x, -L, -I)
    ReplacePat,           \* ctl->replace_pat is set (-I)
    MustAccept,           \* exec never reports E2BIG for this many arguments
    MaxPushes             \* bound: the arguments pushed in one behaviour

ASSUME BuildCmdAssumption ==
    /\ Size \in [Item -> Nat \ {0}]
    /\ PrefixLen \in Nat /\ InitialArgc \in Nat /\ InitialChars \in Nat
    /\ ArgMax \in Nat /\ ArgsPerExec \in Nat /\ LinesPerExec \in Nat
    /\ MaxArgCount \in Nat /\ MaxArgCount > InitialArgc
    /\ ExitIfSizeExceeded \in BOOLEAN /\ ReplacePat \in BOOLEAN
    /\ MustAccept \in Int /\ MaxPushes \in Nat

VARIABLES
    cmd_argv,         \* the arguments after the initial ones
    cmd_argv_chars,   \* bytes of argbuf in use
    todo,             \* state->todo
    largest,          \* largest_successful_arg_count
    smallest,         \* smallest_failed_arg_count, 0 when there is none
    limit, done,      \* the locals of bc_do_exec
    pc,               \* "idle", inside bc_push_arg, inside bc_do_exec, or dead
    ret,              \* where bc_do_exec returns to
    pending,          \* the argument a bc_push_arg in progress has to append
    taken, delivered  \* history: arguments pushed, arguments commands ran with

argVars  == <<cmd_argv, cmd_argv_chars, todo>>
execVars == <<largest, smallest, limit, done>>
vars == <<argVars, execVars, pc, ret, pending, taken, delivered>>

\* error (EXIT_FAILURE, ...) and its three messages.
Failed == {"cannot_fit", "list_too_long", "exec_too_big"}

Init ==
    /\ cmd_argv = <<>> /\ cmd_argv_chars = InitialChars /\ todo = FALSE
    /\ largest = 0 /\ smallest = 0 /\ limit = 0 /\ done = 0
    /\ pc = "idle" /\ ret = "idle" /\ pending = <<>>
    /\ taken = <<>> /\ delivered = <<>>

Larger(m, n)  == IF m < n THEN n ELSE m
Smaller(m, n) == IF m < n THEN m ELSE n

------------------------------------------------------------------------------
(* update_limit: the next guess at how many words a command may have.      *)
(* The definitions whose names begin with Bad are plausible slips in the   *)
(* code above or below them; no specification uses them.                   *)

\* The guess leaves room for one argument (the two last tests of the code).
Floor == InitialArgc + 1

NewLargest(success)  == IF success THEN Larger(largest, limit) ELSE largest
NewSmallest(success) ==
    IF ~success /\ (smallest = 0 \/ limit < smallest) THEN limit ELSE smallest

BadUnflooredLimit(success) ==
    IF success THEN limit + 1 ELSE limit \div 2 - InitialArgc - 1

UpdateLimit(success) ==
    LET big    == NewLargest(success)
        small  == NewSmallest(success)
        bisect == big # 0 /\ small > big
        shift  == IF bisect THEN Larger((small - big) \div 2, 1) ELSE 1
    IN Larger(Floor, IF success       THEN limit + shift
                     ELSE IF bisect   THEN limit - shift
                     ELSE limit \div 2)

------------------------------------------------------------------------------
(* bc_do_exec.                                                             *)

BadArgcLimitReached(argc) ==
    \/ ArgsPerExec # 0 /\ argc > ArgsPerExec
    \/ InitialArgc + argc > MaxArgCount

\* -n is reached, or the number of words the system allows.
ArgcLimitReached(argc) ==
    \/ ArgsPerExec # 0 /\ argc = ArgsPerExec
    \/ InitialArgc + argc = MaxArgCount

\* Entering bc_do_exec; pushing the terminating NULL sets the to-do flag.
StartExec(argv, returnTo) ==
    /\ pc' = "exec" /\ ret' = returnTo
    /\ limit' = InitialArgc + Len(argv) + 1
    /\ done' = 0

\* How many entries of the list, its NULL included, copy_args takes, and the
\* arguments among them.
BadCopied == Smaller(limit - InitialArgc - 1, Len(cmd_argv) - done)
Copied == Smaller(limit - InitialArgc, Len(cmd_argv) + 1 - done)

BadShortArgs == SubSeq(cmd_argv, done + 1, Smaller(done + Copied - 1, Len(cmd_argv)))
BadArgsFromStart == SubSeq(cmd_argv, 1, Smaller(Copied, Len(cmd_argv)))
WorkingArgs == SubSeq(cmd_argv, done + 1, Smaller(done + Copied, Len(cmd_argv)))

BadClearArgs == cmd_argv' = <<>> /\ todo' = FALSE /\ done' = 0
                /\ UNCHANGED cmd_argv_chars
ClearArgs == /\ cmd_argv' = <<>>
             /\ cmd_argv_chars' = InitialChars
             /\ todo' = FALSE
             /\ done' = 0

\* exec_callback took the command: bc_do_exec goes on with the rest of the
\* list, or clears it and returns.
ExecAccepted ==
    /\ pc = "exec"
    /\ delivered' = delivered \o WorkingArgs
    /\ largest' = NewLargest(TRUE) /\ smallest' = NewSmallest(TRUE)
    /\ limit' = UpdateLimit(TRUE)
    /\ IF done + Copied < Len(cmd_argv)
       THEN /\ done' = done + Copied
            /\ UNCHANGED <<argVars, pc, ret>>
       ELSE /\ ClearArgs
            /\ pc' = ret /\ ret' = "idle"
    /\ UNCHANGED <<pending, taken>>

BadAtLowestLimit == limit <= InitialArgc + 2
AtLowestLimit == limit <= InitialArgc + 1

\* exec_callback reported E2BIG: bc_do_exec tries fewer words or gives up.
ExecTooBig ==
    /\ pc = "exec"
    /\ Len(WorkingArgs) > MustAccept
    /\ IF AtLowestLimit
       THEN /\ pc' = "exec_too_big"
            /\ UNCHANGED execVars
       ELSE /\ smallest' = NewSmallest(FALSE) /\ largest' = NewLargest(FALSE)
            /\ limit' = UpdateLimit(FALSE)
            /\ UNCHANGED <<done, pc>>
    /\ UNCHANGED <<argVars, ret, pending, taken, delivered>>

\* A caller of the library runs what it has collected.
DoExec ==
    /\ pc = "idle"
    /\ StartExec(cmd_argv, "idle")
    /\ todo' = TRUE
    /\ UNCHANGED <<cmd_argv, cmd_argv_chars, largest, smallest, pending, taken,
                   delivered>>

------------------------------------------------------------------------------
(* bc_push_arg, for an argument that is not an initial one.                *)

\* -I, and -x with -L or -n, make a line that is too long an error.
BadTakesReplaceForExit == ExitIfSizeExceeded /\ (LinesPerExec # 0 \/ ArgsPerExec # 0)
BadSizeIsError == ReplacePat \/ (ExitIfSizeExceeded /\ ArgsPerExec # 0)
SizeIsError == ReplacePat \/ (ExitIfSizeExceeded /\ (LinesPerExec # 0 \/ ArgsPerExec # 0))

\* Up to the first bc_do_exec: the to-do flag, then the size of the line.
PushArg(a) ==
    /\ pc = "idle"
    /\ Len(taken) < MaxPushes
    /\ taken' = Append(taken, a) /\ pending' = <<a>>
    /\ todo' = TRUE
    /\ \/ /\ cmd_argv_chars + Size[a] <= ArgMax
          /\ pc' = "count"
          /\ UNCHANGED <<ret, limit, done>>
       \/ /\ cmd_argv_chars + Size[a] > ArgMax
          /\ \/ /\ cmd_argv = <<>>
                /\ pc' = "cannot_fit"
                /\ UNCHANGED <<ret, limit, done>>
             \/ /\ cmd_argv # <<>> /\ SizeIsError
                /\ pc' = "list_too_long"
                /\ UNCHANGED <<ret, limit, done>>
             \/ /\ cmd_argv # <<>> /\ ~SizeIsError
                /\ StartExec(cmd_argv, "count")
    /\ UNCHANGED <<cmd_argv, cmd_argv_chars, largest, smallest, delivered>>

\* The count of words before the argument is appended.
CheckCount ==
    /\ pc = "count"
    /\ IF ArgcLimitReached(Len(cmd_argv))
       THEN /\ StartExec(cmd_argv, "append")
            /\ todo' = TRUE
       ELSE /\ pc' = "append"
            /\ UNCHANGED <<ret, limit, done, todo>>
    /\ UNCHANGED <<cmd_argv, cmd_argv_chars, largest, smallest, pending, taken,
                   delivered>>

\* The append itself, and the bc_do_exec of a list that is now complete.
AppendArg ==
    /\ pc = "append"
    /\ cmd_argv' = cmd_argv \o pending
    /\ cmd_argv_chars' = cmd_argv_chars + PrefixLen + Size[pending[1]]
    /\ pending' = <<>>
    /\ IF ArgcLimitReached(Len(cmd_argv) + 1)
       THEN /\ StartExec(cmd_argv', "idle")
            /\ todo' = TRUE
       ELSE /\ pc' = "idle"
            /\ UNCHANGED <<ret, limit, done, todo>>
    /\ UNCHANGED <<largest, smallest, taken, delivered>>

------------------------------------------------------------------------------
LibraryStep == CheckCount \/ AppendArg \/ ExecAccepted \/ ExecTooBig

Next == LibraryStep \/ DoExec \/ \E a \in Item : PushArg(a)

Spec == Init /\ [][Next]_vars

\* The library code runs to completion once called: one thread, no waiting
\* of its own, and a callback that always returns.
FairSpec == Spec /\ WF_vars(LibraryStep)

------------------------------------------------------------------------------
(* Properties.                                                             *)

TypeOK ==
    /\ cmd_argv \in Seq(Item) /\ cmd_argv_chars \in Nat /\ todo \in BOOLEAN
    /\ largest \in Nat /\ smallest \in Nat /\ limit \in Nat /\ done \in Nat
    /\ pc \in {"idle", "count", "append", "exec"} \cup Failed
    /\ ret \in {"idle", "count", "append"}
    /\ pending \in {<<>>} \cup {<<a>> : a \in Item}
    /\ taken \in Seq(Item) /\ delivered \in Seq(Item)

\* The arguments of the list that no command has been run with yet.
Rest == SubSeq(cmd_argv, done + 1, Len(cmd_argv))

\* No argument is lost, repeated or moved by bc_push_arg and bc_do_exec,
\* however often exec fails with E2BIG and the list is cut differently: what
\* ran, then what is still in the list, then the argument being pushed, is
\* exactly what the callers pushed.
ExactlyOnceInOrder == taken = delivered \o Rest \o pending

\* The equality test of bc_argc_limit_reached is never stepped over: no list
\* gets longer than -n or the system's limit allows.
WithinArgCount ==
    /\ ArgsPerExec # 0 => Len(cmd_argv) <= ArgsPerExec
    /\ InitialArgc + Len(cmd_argv) <= MaxArgCount

\* The library gives up only on a command with at most one argument of its
\* own: E2BIG for a longer list always leads to a shorter try.
GivesUpOnSingleArg == pc = "exec_too_big" => Len(WorkingArgs) <= 1

\* cmd_argv_chars never passes ctl->arg_max ("The maximum number of
\* characters that can be used per command line", buildcmd.h).
WithinArgMax == cmd_argv_chars <= ArgMax

\* After E2BIG the next try is for fewer words, so that the tries of one
\* command end.
RetryShrinks == [][ExecTooBig /\ pc' = "exec" => limit' < limit]_vars

\* bc_do_exec returns or gives up, however the callback answers.
ExecEnds == pc = "exec" ~> pc # "exec"

\* What callers may rely on.
Stream == INSTANCE ArgStream WITH Item <- Item, taken <- taken, delivered <- delivered
ImplementsArgStream == Stream!Spec
=============================================================================
