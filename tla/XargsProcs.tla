----------------------------- MODULE XargsProcs -----------------------------
(***************************************************************************)
(* The processes of xargs: xargs_do_exec, add_proc, wait_for_proc, the     *)
(* atexit handler wait_for_proc_all and the handlers of SIGUSR1 and        *)
(* SIGUSR2, with the commands as processes of their own.  What a command   *)
(* line holds is left to BuildCmd and XargsMain; here it is only counted.  *)
(*                                                                         *)
(* pc is the statement xargs is at.  A value that ends in "_block" is a    *)
(* system call in progress: the signal handlers are installed without      *)
(* SA_RESTART, so a signal ends it with EINTR.  The operators named Bad... *)
(* are plausible slips in the definition that follows them; no             *)
(* specification uses them.                                                *)
(***************************************************************************)
EXTENDS Integers, FiniteSets

CONSTANTS
    Pid, NoPid,       \* the process ids the system hands out, and no id
    Commands,         \* bound: command lines the input makes
    ProcMax,          \* -P, 0 for no limit
    MaxSignals,       \* bound: SIGUSR1 and SIGUSR2 received
    MaxTooBig         \* bound: E2BIG reports

ASSUME XargsProcsAssumption ==
    /\ IsFiniteSet(Pid) /\ NoPid \notin Pid
    /\ Commands \in Nat /\ ProcMax \in Nat /\ MaxSignals \in Nat /\ MaxTooBig \in Nat

VARIABLES
    pc,
    commands,              \* command lines still to be run
    child,                 \* the process xargs_do_exec has just forked
    procs_executing,
    pids,                  \* the process ids in the slots of the array
    child_error, original_exit_value,
    proc_max, stop_waiting,
    w,                     \* arguments, locals and return of wait_for_proc
    exit_status,           \* the argument of the last call of exit
    at_exit,               \* wait_for_proc_all has been entered
    status,                \* what xargs ends with
    kid, how,              \* each process: what it is doing, how it ended
    pipe,                  \* what the errno pipe of the last fork delivers
    signals, tooBig,       \* how many there have been
    counted,               \* history: statuses wait_for_proc acted on
    outcomes,              \* history: how the commands that ran have ended
    peak                   \* history: the largest proc_max so far

mainVars    == <<commands, child, original_exit_value>>
poolVars    == <<procs_executing, pids, child_error>>
limitVars   == <<proc_max, stop_waiting, peak>>
exitVars    == <<exit_status, at_exit, status>>
systemVars  == <<kid, how, pipe>>
boundVars   == <<signals, tooBig>>
historyVars == <<counted, outcomes>>
vars == <<pc, w, mainVars, poolVars, limitVars, exitVars, systemVars, boundVars,
          historyVars>>

Outcome == {"ok", "fail", "stop", "killed"}  \* exit 0, 1-125, 255, a signal

\* XARGS_EXIT_CLIENT_EXIT_NONZERO and its companions.
Nonzero == 123
Exit255 == 124
FatalSignal == 125
CannotBeRun == 126
NotFound == 127
ExitFailure == 1

Init ==
    /\ pc = "input_block" /\ commands = Commands /\ child = NoPid
    /\ procs_executing = 0 /\ pids = {}
    /\ child_error = 0 /\ original_exit_value = 0
    /\ proc_max = ProcMax /\ stop_waiting = FALSE /\ peak = ProcMax
    /\ w = [all |-> FALSE, minreap |-> 0, reaped |-> 0, nohang |-> FALSE,
            ret |-> "fork"]
    /\ exit_status = 0 /\ at_exit = FALSE /\ status = 0
    /\ kid = [p \in Pid |-> "none"] /\ how = [p \in Pid |-> "ok"] /\ pipe = "open"
    /\ signals = 0 /\ tooBig = 0
    /\ counted = {} /\ outcomes = {}

Zombies == {p \in Pid : kid[p] = "zombie"}
Living  == {p \in Pid : kid[p] \in {"forked", "running"}}

------------------------------------------------------------------------------
(* exit and wait_for_proc.                                                 *)

\* exit (s): the atexit handler runs, unless it is the handler that calls.
Exit(s) == /\ exit_status' = s
           /\ IF at_exit THEN pc' = "gone" /\ status' = s
                         ELSE pc' = "at_exit" /\ UNCHANGED status
           /\ UNCHANGED at_exit

\* wait_for_proc (all, minreap), to come back to r.
CallWait(all, minreap, r) ==
    /\ pc' = "w_test"
    /\ w' = [all |-> all, minreap |-> minreap, reaped |-> 0, nohang |-> FALSE,
             ret |-> r]

\* waitpid need not wait: enough children have been reaped.
EnoughReaped == ~w.all /\ w.reaped >= w.minreap

\* while (procs_executing), and the flags of the next waitpid.
WaitTest ==
    /\ pc = "w_test"
    /\ IF procs_executing > 0
       THEN /\ pc' = "w_reset"
            /\ w' = [w EXCEPT !.nohang = EnoughReaped]
       ELSE pc' = w.ret /\ UNCHANGED w
    /\ UNCHANGED <<mainVars, poolVars, limitVars, exitVars, systemVars, boundVars,
                   historyVars>>

WaitReset ==
    /\ pc = "w_reset" /\ pc' = "w_call"
    /\ stop_waiting' = FALSE
    /\ UNCHANGED <<w, mainVars, poolVars, proc_max, peak, exitVars, systemVars,
                   boundVars, historyVars>>

WaitCall ==
    /\ pc = "w_call" /\ pc' = "w_block"
    /\ UNCHANGED <<w, mainVars, poolVars, limitVars, exitVars, systemVars,
                   boundVars, historyVars>>

\* errno == EINTR: after SIGUSR1 go on without waiting.
WaitInterrupted ==
    /\ pc = "w_intr" /\ pc' = "w_call"
    /\ w' = [w EXCEPT !.nohang = @ \/ (stop_waiting /\ ~w.all)]
    /\ UNCHANGED <<mainVars, poolVars, limitVars, exitVars, systemVars, boundVars,
                   historyVars>>

\* WNOHANG, and nothing to reap.
WaitNothing ==
    /\ pc = "w_block" /\ w.nohang /\ Zombies = {}
    /\ pc' = w.ret
    /\ UNCHANGED <<w, mainVars, poolVars, limitVars, exitVars, systemVars,
                   boundVars, historyVars>>

BadOurs == Pid
\* The children the search through the slots finds.
Ours == pids

\* A child that is in no slot: call waitpid again.
WaitUnknown(p) ==
    /\ pc = "w_block" /\ p \in Zombies \ Ours
    /\ pc' = "w_call"
    /\ kid' = [kid EXCEPT ![p] = "none"]
    /\ UNCHANGED <<w, mainVars, poolVars, limitVars, exitVars, how, pipe,
                   boundVars, historyVars>>

\* The statuses that end the run at once.
BadAborts(o) == o = "killed"
Aborts(o) == o \in {"stop", "killed"}

\* child_error after a status that lets the run go on.
ErrorAfter(o) == IF o = "fail" THEN Nonzero ELSE child_error

BadAbortStatus(o) == IF o = "stop" THEN FatalSignal ELSE Exit255
AbortStatus(o) == IF o = "stop" THEN Exit255 ELSE FatalSignal

\* A child of ours: its slot is freed, its status looked at.
WaitReap(p) ==
    /\ pc = "w_block" /\ p \in Zombies \cap Ours
    /\ kid' = [kid EXCEPT ![p] = "none"]
    /\ pids' = pids \ {p} /\ procs_executing' = procs_executing - 1
    /\ counted' = counted \cup {how[p]}
    /\ IF Aborts(how[p])
       THEN /\ Exit(AbortStatus(how[p]))
            /\ UNCHANGED <<child_error, w>>
       ELSE /\ child_error' = ErrorAfter(how[p])
            /\ w' = [w EXCEPT !.reaped = @ + 1]
            /\ pc' = "w_test"
            /\ UNCHANGED exitVars
    /\ UNCHANGED <<mainVars, limitVars, how, pipe, boundVars, outcomes>>

------------------------------------------------------------------------------
(* main and the atexit handler.                                            *)

\* Enough arguments have been read for a command.
NextCommand ==
    /\ pc = "input_block" /\ commands > 0
    /\ pc' = "check"
    /\ UNCHANGED <<w, mainVars, poolVars, limitVars, exitVars, systemVars,
                   boundVars, historyVars>>

\* original_exit_value = child_error; return child_error.
MainReturns ==
    /\ pc = "input_block" /\ commands = 0
    /\ original_exit_value' = child_error
    /\ Exit(child_error)
    /\ UNCHANGED <<w, commands, child, poolVars, limitVars, systemVars, boundVars,
                   historyVars>>

\* wait_for_proc_all, up to its wait.
AtExit ==
    /\ pc = "at_exit"
    /\ at_exit' = TRUE
    /\ CallWait(TRUE, 0, "all_reaped")
    /\ UNCHANGED <<mainVars, poolVars, limitVars, exit_status, status, systemVars,
                   boundVars, historyVars>>

\* The rest of it: a changed child_error replaces the status.
Leave ==
    /\ pc = "all_reaped" /\ pc' = "gone"
    /\ status' = IF original_exit_value # child_error THEN child_error
                 ELSE exit_status
    /\ UNCHANGED <<w, mainVars, poolVars, limitVars, exit_status, at_exit,
                   systemVars, boundVars, historyVars>>

------------------------------------------------------------------------------
(* xargs_do_exec.                                                          *)

BadMustWait == proc_max # 0 /\ procs_executing > proc_max
MustWait == proc_max # 0 /\ procs_executing >= proc_max

\* while (procs_executing >= proc_max) wait_for_proc (false, 1u), and then
\* wait_for_proc (false, 0u).
Check ==
    /\ pc = "check"
    /\ IF MustWait THEN CallWait(FALSE, 1, "check") ELSE CallWait(FALSE, 0, "fork")
    /\ UNCHANGED <<mainVars, poolVars, limitVars, exitVars, systemVars, boundVars,
                   historyVars>>

Fork(p) ==
    /\ pc = "fork" /\ kid[p] = "none"
    /\ child' = p /\ kid' = [kid EXCEPT ![p] = "forked"] /\ pipe' = "open"
    /\ pc' = "read_block"
    /\ UNCHANGED <<w, commands, original_exit_value, poolVars, limitVars, exitVars,
                   how, boundVars, historyVars>>

\* fork fails, or no pipe: with EAGAIN and a child to wait for, try again.
ForkFails ==
    /\ pc = "fork"
    /\ \/ /\ procs_executing > 0
          /\ CallWait(FALSE, 1, "fork")
          /\ UNCHANGED exitVars
       \/ Exit(ExitFailure) /\ UNCHANGED w
    /\ UNCHANGED <<mainVars, poolVars, limitVars, systemVars, boundVars,
                   historyVars>>

BadAddProc == procs_executing' = procs_executing + 1 /\ UNCHANGED pids
AddProc == procs_executing' = procs_executing + 1 /\ pids' = pids \cup {child}

\* read returns 0, the exec worked: add_proc.
ReadNothing ==
    /\ pc = "read_block" /\ pipe = "closed"
    /\ AddProc
    /\ commands' = commands - 1
    /\ pc' = "input_block"
    /\ UNCHANGED <<w, child, original_exit_value, child_error, limitVars, exitVars,
                   systemVars, boundVars, historyVars>>

\* read returns an errno: waitpid (child, ...) comes first.
ReadErrno ==
    /\ pc = "read_block" /\ pipe \notin {"open", "closed"}
    /\ pc' = "settle_block"
    /\ UNCHANGED <<w, mainVars, poolVars, limitVars, exitVars, systemVars,
                   boundVars, historyVars>>

\* ... and then the errno decides: E2BIG is for bc_do_exec to retry with fewer
\* arguments, or to give up on; anything else ends the run.
Refused ==
    CASE pipe = "E2BIG"  -> \/ pc' = "check" /\ UNCHANGED exitVars
                            \/ Exit(ExitFailure)
      [] pipe = "ENOENT" -> Exit(NotFound)
      [] OTHER           -> Exit(CannotBeRun)

Settle ==
    /\ pc = "settle_block" /\ kid[child] = "zombie"
    /\ kid' = [kid EXCEPT ![child] = "none"]
    /\ Refused
    /\ UNCHANGED <<w, mainVars, poolVars, limitVars, how, pipe, boundVars,
                   historyVars>>

------------------------------------------------------------------------------
(* The commands.                                                           *)

\* What the errno pipe of the last fork delivers once p has acted.
PipeAfter(p, end) == IF p = child THEN end ELSE pipe

\* execvp works and the close-on-exec end of the pipe goes away.
ChildExecs(p) ==
    /\ kid[p] = "forked"
    /\ kid' = [kid EXCEPT ![p] = "running"] /\ pipe' = PipeAfter(p, "closed")
    /\ UNCHANGED <<pc, w, mainVars, poolVars, limitVars, exitVars, how, boundVars,
                   historyVars>>

\* execvp fails: the child reports errno and goes.
ChildRefused(p, e) ==
    /\ kid[p] = "forked"
    /\ e = "E2BIG" => tooBig < MaxTooBig
    /\ kid' = [kid EXCEPT ![p] = "refused"] /\ pipe' = PipeAfter(p, e)
    /\ tooBig' = IF e = "E2BIG" THEN tooBig + 1 ELSE tooBig
    /\ UNCHANGED <<pc, w, mainVars, poolVars, limitVars, exitVars, how, signals,
                   historyVars>>

ChildGone(p) ==
    /\ kid[p] = "refused"
    /\ kid' = [kid EXCEPT ![p] = "zombie"]
    /\ UNCHANGED <<pc, w, mainVars, poolVars, limitVars, exitVars, how, pipe,
                   boundVars, historyVars>>

\* A command ends; a signal may kill it before its exec.
ChildEnds(p, o) ==
    /\ kid[p] = "running" \/ (kid[p] = "forked" /\ o = "killed")
    /\ kid' = [kid EXCEPT ![p] = "zombie"] /\ how' = [how EXCEPT ![p] = o]
    /\ pipe' = IF kid[p] = "forked" THEN PipeAfter(p, "closed") ELSE pipe
    /\ outcomes' = outcomes \cup {o}
    /\ UNCHANGED <<pc, w, mainVars, poolVars, limitVars, exitVars, boundVars,
                   counted>>

------------------------------------------------------------------------------
(* Signals.                                                                *)

Decremented == IF proc_max > 1 THEN proc_max - 1 ELSE proc_max

\* increment_proc_max and decrement_proc_max.
Handler == \/ /\ proc_max' = proc_max + 1 /\ stop_waiting' = TRUE
              /\ peak' = IF proc_max' > peak THEN proc_max' ELSE peak
           \/ /\ proc_max' = Decremented
              /\ UNCHANGED <<stop_waiting, peak>>

\* Where a signal arrives: between two statements, or at a system call that
\* returns all the same.
SignalRuns ==
    /\ UNCHANGED <<pc, w, mainVars, poolVars, exitVars, systemVars, historyVars>>

\* waitpid (-1, ...) fails with EINTR.
SignalInWait ==
    /\ pc = "w_block" /\ ~w.nohang /\ Zombies = {}
    /\ pc' = "w_intr"
    /\ UNCHANGED <<w, mainVars, poolVars, exitVars, systemVars, historyVars>>

\* read of the errno pipe fails with EINTR: a message, and xargs_do_exec
\* returns 1 without add_proc.
SignalInRead ==
    /\ pc = "read_block" /\ pipe = "open"
    /\ pc' = "input_block" /\ commands' = commands - 1
    /\ UNCHANGED <<w, child, original_exit_value, poolVars, exitVars, systemVars,
                   historyVars>>

\* The result of waitpid (child, ...) is not looked at.
SignalInSettle ==
    /\ pc = "settle_block" /\ kid[child] # "zombie"
    /\ Refused
    /\ UNCHANGED <<w, mainVars, poolVars, systemVars, historyVars>>

\* getc returns EOF when its read fails with EINTR; the arguments collected by
\* then may still make a last command.
SignalInInput ==
    /\ pc = "input_block" /\ commands > 0
    /\ commands' \in {0, 1}
    /\ UNCHANGED <<pc, w, child, original_exit_value, poolVars, exitVars,
                   systemVars, historyVars>>

InBlockedCall ==
    \/ pc = "w_block" /\ ~w.nohang /\ Zombies = {}
    \/ pc = "read_block" /\ pipe = "open"
    \/ pc = "settle_block" /\ kid[child] # "zombie"

Signal ==
    /\ pc # "gone" /\ signals < MaxSignals /\ signals' = signals + 1
    /\ Handler
    /\ \/ SignalRuns /\ ~InBlockedCall
       \/ SignalInWait \/ SignalInRead \/ SignalInSettle \/ SignalInInput
    /\ UNCHANGED tooBig

------------------------------------------------------------------------------
XargsStep ==
    \/ NextCommand \/ MainReturns \/ AtExit \/ Leave
    \/ Check \/ ForkFails \/ ReadNothing \/ ReadErrno \/ Settle
    \/ WaitTest \/ WaitReset \/ WaitCall \/ WaitInterrupted \/ WaitNothing
    \/ \E p \in Pid : Fork(p) \/ WaitUnknown(p) \/ WaitReap(p)

ChildStarts(p) ==
    ChildExecs(p) \/ ChildGone(p) \/ \E e \in {"E2BIG", "ENOENT", "EACCES"} : ChildRefused(p, e)
ChildEnding(p) == \E o \in Outcome : ChildEnds(p, o)

Next == XargsStep \/ Signal \/ \E p \in Pid : ChildStarts(p) \/ ChildEnding(p)

Spec == Init /\ [][Next]_vars

\* xargs is scheduled, its children are until they run the command, and the
\* commands end by themselves.
FairSpec ==
    /\ Spec /\ WF_vars(XargsStep)
    /\ \A p \in Pid : WF_vars(ChildStarts(p)) /\ WF_vars(ChildEnding(p))

------------------------------------------------------------------------------
(* Properties.                                                             *)

TypeOK ==
    /\ pc \in {"input_block", "check", "fork", "read_block", "settle_block",
               "w_test", "w_reset", "w_call", "w_block", "w_intr",
               "at_exit", "all_reaped", "gone"}
    /\ commands \in 0 .. Commands /\ child \in Pid \cup {NoPid}
    /\ procs_executing \in Nat /\ pids \subseteq Pid
    /\ child_error \in {0, Nonzero} /\ original_exit_value \in {0, Nonzero}
    /\ proc_max \in Nat /\ stop_waiting \in BOOLEAN /\ peak \in Nat
    /\ w \in [all : BOOLEAN, minreap : {0, 1}, reaped : Nat, nohang : BOOLEAN,
              ret : {"check", "fork", "all_reaped"}]
    /\ at_exit \in BOOLEAN
    /\ {exit_status, status} \subseteq
         {0, Nonzero, Exit255, FatalSignal, CannotBeRun, NotFound, ExitFailure}
    /\ kid \in [Pid -> {"none", "forked", "running", "refused", "zombie"}]
    /\ how \in [Pid -> Outcome] /\ counted \cup outcomes \subseteq Outcome
    /\ pipe \in {"open", "closed", "E2BIG", "ENOENT", "EACCES"}
    /\ signals \in 0 .. MaxSignals /\ tooBig \in 0 .. MaxTooBig

\* procs_executing and the slots agree, and every slot holds a child that has
\* not been reaped: wait_for_proc never waits for nobody ("Lost track of %d
\* child processes", or ECHILD), whatever signals arrive.
PoolIsTrue ==
    /\ procs_executing = Cardinality(pids)
    /\ \A p \in pids : kid[p] \in {"running", "zombie"}

\* Every command that runs is in a slot, except while xargs_do_exec is still
\* reading its errno pipe; each signal can make at most one escape.
EveryCommandTracked ==
    Cardinality({p \in Pid : /\ kid[p] = "running" /\ p \notin pids
                            /\ ~(p = child /\ pc = "read_block")}) <= signals

\* xargs.1, -P: "Run up to max-procs processes at a time".  Exact without
\* signals; a command that a signal has made escape is one too many, so each
\* signal can add one to the largest value -P has had.
RunsAtMostMaxProcs == ProcMax # 0 => Cardinality(Living) <= peak + signals

\* EXIT STATUS of xargs.1, read from the status to its cause.  Status 0, when no
\* signal came, means that every command line of the input was run and exited
\* with 0, and that none is still running.
StatusHasCause ==
    pc = "gone" =>
        /\ status = 0 /\ signals = 0 =>
              outcomes \subseteq {"ok"} /\ commands = 0 /\ Living = {}
        /\ status = Nonzero => "fail" \in counted
        /\ status = Exit255 => "stop" \in counted
        /\ status = FatalSignal => "killed" \in counted
        /\ status \in {0, Nonzero} /\ exit_status = status => pids = {}

\* Once a command has exited with 255 or was killed, no other one is started.
NothingStartsAfterAbort ==
    [][counted \cap {"stop", "killed"} # {} => \A p \in Pid : ~Fork(p)]_vars

\* When the commands end, xargs ends.
XargsEnds == <>(pc = "gone")
=============================================================================
