---------------------------- MODULE XargsOptions ----------------------------
(***************************************************************************)
(* The start of xargs: bc_init_controlinfo and bc_use_sensible_arg_max     *)
(* (lib/buildcmd.c), which measure what exec takes, and the option loop of *)
(* main (xargs/xargs.c), up to the push of the initial arguments.  An      *)
(* option is <<letter>> or <<letter, value>>; sizes are in bytes, and the  *)
(* limits of the system are constants, so that they can be small.  The     *)
(* definitions whose names begin with Bad are slips; nothing uses them.    *)
(***************************************************************************)
EXTENDS Integers, Sequences

CONSTANTS
    SysArgMax,          \* bc_get_arg_max: sysconf (_SC_ARG_MAX)
    EnvSizes,           \* the sizes of the environments considered
    Headroom,           \* XARGS_POSIX_HEADROOM
    LineMax,            \* LINE_MAX
    DefaultArgSize,     \* DEFAULT_ARG_SIZE, 128 KiB
    PointerSize,        \* sizeof (char *)
    SizeModulus,        \* 2^64, where size_t wraps around
    InitialSize,        \* bytes of the command and its initial arguments
    Typed,              \* the options that may be typed
    MaxOptions          \* bound: the options of one command line

\* The options of the option loop, with numbers where parse_num wants them.
OptionsTyped ==
    \A o \in Typed : /\ o[1] = "I" => o = <<"I">>
                     /\ o[1] \in {"L", "n", "s"} => o[2] \in Int /\ o = <<o[1], o[2]>>

ASSUME XargsOptionsAssumption ==
    /\ SysArgMax \in Nat /\ EnvSizes \subseteq Nat /\ MaxOptions \in Nat
    /\ Headroom \in Nat /\ Headroom < SysArgMax /\ SysArgMax < SizeModulus
    /\ LineMax \in Nat /\ DefaultArgSize \in Nat \ {0} /\ InitialSize \in Nat
    /\ PointerSize \in Nat \ {0} /\ SizeModulus \in Nat \ {0}
    /\ OptionsTyped

VARIABLES
    environment,        \* bc_size_of_environment
    act_on_init_result, \* "noop" or "fail_due_to_env_size"
    ctl,                \* bc_ctl: the fields that options set
    always_run_command, \* no -r
    delimited,          \* read_args is read_string (-0, -d)
    eof_str,            \* -E, <<>> for none
    start,              \* where main stands
    typed               \* history: the options so far

optionVars == <<environment, act_on_init_result, ctl, always_run_command, delimited,
                eof_str, start, typed>>

\* error (EXIT_FAILURE), usage, abort and the end of --help.
Stopped == {"aborted", "usage", "help", "env_too_big", "cannot_fit"}

Least(m, n) == IF m < n THEN m ELSE n

------------------------------------------------------------------------------
(* bc_init_controlinfo and what main makes of it.                          *)

TooBig(env) == env > SysArgMax \/ Headroom + env >= SysArgMax
PosixArgSizeMax(env) == SysArgMax - env - Headroom

\* "need to subtract 2 on the following line": an unsigned subtraction.
ArgCountMax(env) == (PosixArgSizeMax(env) \div PointerSize - 2) % SizeModulus

BadSensibleArgMax(env) == DefaultArgSize
\* bc_use_sensible_arg_max.  (The default is above _POSIX_ARG_MAX.)
SensibleArgMax(env) == Least(DefaultArgSize, PosixArgSizeMax(env))

\* The assertions of bc_init_controlinfo and of main on LINE_MAX.
Asserted(env) == ArgCountMax(env) > 0 /\ PosixArgSizeMax(env) >= LineMax

OptionsInit ==
    /\ environment \in EnvSizes
    /\ act_on_init_result = IF TooBig(environment) THEN "fail_due_to_env_size" ELSE "noop"
    /\ start = IF TooBig(environment) \/ Asserted(environment) THEN "options" ELSE "aborted"
    /\ ctl = [replace_pat |-> FALSE, args_per_exec |-> 0, lines_per_exec |-> 0,
              exit_if_size_exceeded |-> FALSE,
              arg_max |-> IF TooBig(environment) THEN 0 ELSE SensibleArgMax(environment)]
    /\ always_run_command = TRUE /\ delimited = FALSE /\ eof_str = <<>> /\ typed = <<>>

------------------------------------------------------------------------------
(* The option loop.                                                        *)

\* parse_num with fatal: -L and -n take numbers from 1.
Numeric(o) == o[1] \in {"L", "n"}
Refused(o) == Numeric(o) /\ o[2] < 1

BadExcludeL(v) == [ctl EXCEPT !.lines_per_exec = v, !.args_per_exec = 0]
ExcludeL(v) == [ctl EXCEPT !.lines_per_exec = v, !.args_per_exec = 0, !.replace_pat = FALSE]

\* "ignore -n1 in '-i -n1'".
ExcludeN(v) ==
    [ctl EXCEPT !.lines_per_exec = 0,
                !.args_per_exec = IF v = 1 /\ ctl.replace_pat THEN 0 ELSE v,
                !.replace_pat = @ /\ v = 1]

\* parse_num without fatal: the nearest size that is allowed.
Clamped(v) == IF v < 1 THEN 1 ELSE Least(v, PosixArgSizeMax(environment))

Settings(o) ==
    CASE o[1] = "I" -> [ctl EXCEPT !.lines_per_exec = 0, !.args_per_exec = 0,
                                   !.replace_pat = TRUE]
      [] o[1] = "L" -> ExcludeL(o[2])
      [] o[1] = "n" -> ExcludeN(o[2])
      [] o[1] = "s" -> [ctl EXCEPT !.arg_max = Clamped(o[2])]
      [] o[1] = "x" -> [ctl EXCEPT !.exit_if_size_exceeded = TRUE]
      [] OTHER -> ctl

\* -s needs the limits, so it acts on the initial result at once.
Outcome(o) ==
    CASE o[1] = "h" -> "help"
      [] Refused(o) -> "usage"
      [] o[1] = "s" /\ act_on_init_result = "fail_due_to_env_size" -> "env_too_big"
      [] OTHER -> "options"

Option(o) ==
    /\ start = "options" /\ Len(typed) < MaxOptions
    /\ typed' = Append(typed, o)
    /\ start' = Outcome(o)
    /\ IF start' = "options"
       THEN /\ ctl' = Settings(o)
            /\ always_run_command' = (always_run_command /\ o[1] # "r")
            /\ delimited' = (delimited \/ o[1] = "0")
            /\ eof_str' = IF o[1] = "E" THEN o[2] ELSE eof_str
       ELSE UNCHANGED <<ctl, always_run_command, delimited, eof_str>>
    /\ UNCHANGED <<environment, act_on_init_result>>

\* -I and -L imply -x.
ImpliesExit == ctl.replace_pat \/ ctl.lines_per_exec # 0

\* The last option: the deferred failure, then the initial arguments, which
\* bc_push_arg takes up to arg_max.
EndOfOptions ==
    /\ start = "options"
    /\ IF act_on_init_result = "fail_due_to_env_size"
       THEN start' = "env_too_big" /\ UNCHANGED ctl
       ELSE /\ ctl' = [ctl EXCEPT !.exit_if_size_exceeded = @ \/ ImpliesExit]
            /\ start' = IF ~ctl.replace_pat /\ InitialSize > ctl.arg_max
                        THEN "cannot_fit" ELSE "started"
    /\ UNCHANGED <<environment, act_on_init_result, always_run_command, delimited,
                   eof_str, typed>>

OptionsNext == EndOfOptions \/ \E o \in Typed : Option(o)

OptionsSpec == OptionsInit /\ [][OptionsNext]_optionVars

------------------------------------------------------------------------------
(* Properties.                                                             *)

Given(letter) == {i \in DOMAIN typed : typed[i][1] = letter}
Last(S) == CHOOSE i \in S : \A j \in S : j <= i

\* Of -I, -L and -n, those that count: a -n1 after a -I with nothing but -n1
\* in between does not.
Exclusive == Given("I") \cup Given("L") \cup Given("n")
Ignored(i) ==
    /\ typed[i] = <<"n", 1>>
    /\ \E j \in Given("I") : j < i /\ \A k \in Exclusive \cap (j + 1 .. i) :
                                          typed[k] = <<"n", 1>>
Counting == {i \in Exclusive : ~Ignored(i)}

\* xargs.1: -I, -L and -n exclude each other, and the last one typed takes
\* effect; -x is in force when typed or implied by the one that does.
LastOptionWins ==
    start \in {"started", "cannot_fit"} =>
        LET wins(o) == Counting # {} /\ typed[Last(Counting)] = o
            value(letter) ==
                IF \E o \in Typed : o[1] = letter /\ wins(o)
                THEN typed[Last(Counting)][2] ELSE 0
        IN /\ ctl.replace_pat = wins(<<"I">>)
           /\ ctl.lines_per_exec = value("L")
           /\ ctl.args_per_exec = value("n")
           /\ ctl.exit_if_size_exceeded =
                 (Given("x") # {} \/ ctl.replace_pat \/ ctl.lines_per_exec # 0)

\* xargs.1, -s: "The largest allowed value is ... the argument length limit
\* for exec, less the size of your environment, less 2048 bytes of headroom.
\* If this value is more than 128KiB, 128Kib is used as the default value;
\* otherwise, the default value is the maximum."
SizeIsAllowed ==
    start \in {"started", "cannot_fit"} =>
        LET largest == SysArgMax - environment - Headroom
        IN /\ 1 <= ctl.arg_max /\ ctl.arg_max <= largest
           /\ Given("s") = {} => ctl.arg_max = (IF largest > DefaultArgSize
                                                THEN DefaultArgSize ELSE largest)

\* xargs.c: "The bc_init_controlinfo call may have determined that the
\* environment is too big.  In that case, we will fail with an error message
\* after processing the command-line options, as "xargs --help" should still
\* work even if the environment is too big."
EnvironmentIsReported == start # "aborted"
=============================================================================
