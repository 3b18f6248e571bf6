-------------------------- MODULE XargsProcsProofs --------------------------
(***************************************************************************)
(* Theorems about the processes of xargs, for any number of processes,     *)
(* command lines and signals: what xargs believes of its children is true  *)
(* of them, after a command that aborts the run none is started, and -P    *)
(* is kept, but for one command for each signal.                           *)
(*                                                                         *)
(* PoolIsTrue is not inductive: add_proc puts child into a slot on the     *)
(* word of the errno pipe, so AtChild says what the pipe tells of child,   *)
(* however the child's steps and the signals fall between the fork and the *)
(* read.  AfterExit says where xargs can be once exit has been called.     *)
(***************************************************************************)
EXTENDS XargsProcs, FiniteSetTheorems, TLAPS

Waiting == {"w_test", "w_reset", "w_call", "w_block", "w_intr"}
Errnos == {"E2BIG", "ENOENT", "EACCES"}

PoolType ==
    /\ pids \subseteq Pid /\ procs_executing \in Nat
    /\ kid \in [Pid -> {"none", "forked", "running", "refused", "zombie"}]
    /\ how \in [Pid -> Outcome]
    /\ pipe \in {"open", "closed"} \cup Errnos
    /\ w \in [all : BOOLEAN, minreap : {0, 1}, reaped : Nat, nohang : BOOLEAN,
              ret : {"check", "fork", "all_reaped"}]

\* What the errno pipe says of the child is true of it.
AtChild ==
    /\ pc = "read_block" =>
          /\ child \in Pid \ pids
          /\ pipe = "open" => kid[child] = "forked"
          /\ pipe = "closed" => kid[child] \in {"running", "zombie"}
          /\ pipe \in Errnos => kid[child] \in {"refused", "zombie"}
    /\ pc = "settle_block" =>
          /\ child \in Pid \ pids
          /\ pipe \in Errnos /\ kid[child] \in {"refused", "zombie"}

\* After exit, xargs is on its way through wait_for_proc_all; a command that
\* aborts the run makes it call exit.
AfterExit ==
    /\ at_exit \in BOOLEAN
    /\ at_exit => pc \in Waiting \cup {"all_reaped", "gone"}
    /\ at_exit /\ pc \in Waiting => w.ret = "all_reaped"
    /\ counted \cap {"stop", "killed"} # {} => at_exit \/ pc = "at_exit"

IInv == PoolType /\ PoolIsTrue /\ AtChild /\ AfterExit

LEMMA InitInvariant == Init => IInv
<1> SUFFICES ASSUME Init PROVE IInv
  OBVIOUS
<1>1. Cardinality({}) = 0
  BY FS_EmptySet
<1> QED BY <1>1 DEF Init, IInv, PoolType, PoolIsTrue, AtChild, AfterExit, Outcome

\* The slots are a finite set.
LEMMA SlotsFinite ==
    ASSUME PoolType
    PROVE  IsFiniteSet(pids)
  BY FS_Subset, XargsProcsAssumption DEF PoolType

------------------------------------------------------------------------------
(* Statements of xargs that change neither a slot nor a child.             *)

LEMMA QuietInvariant ==
    ASSUME IInv, UNCHANGED <<procs_executing, pids, kid, how, pipe>>,
           PoolType', pc' \notin {"read_block", "settle_block"}, AfterExit'
    PROVE  IInv'
  BY DEF IInv, PoolType, PoolIsTrue, AtChild

LEMMA WaitInvariant ==
    ASSUME IInv,
           WaitTest \/ WaitReset \/ WaitCall \/ WaitInterrupted \/ WaitNothing
    PROVE  IInv'
  <1> USE DEF IInv, AfterExit, Waiting, PoolType, poolVars, exitVars, systemVars,
              historyVars
  <1>1. CASE WaitTest
    <2>1. EnoughReaped \in BOOLEAN
      BY DEF EnoughReaped
    <2>2. PoolType' /\ pc' \in Waiting \cup {w.ret}
      BY <1>1, <2>1 DEF WaitTest
    <2>3. w'.ret = w.ret
      BY <1>1 DEF WaitTest
    <2> QED BY <1>1, <2>2, <2>3, QuietInvariant DEF WaitTest
  <1>2. CASE WaitReset
    BY <1>2, QuietInvariant DEF WaitReset
  <1>3. CASE WaitCall
    BY <1>3, QuietInvariant DEF WaitCall
  <1>4. CASE WaitInterrupted
    BY <1>4, QuietInvariant DEF WaitInterrupted
  <1>5. CASE WaitNothing
    BY <1>5, QuietInvariant DEF WaitNothing
  <1> QED BY <1>1, <1>2, <1>3, <1>4, <1>5

LEMMA MainInvariant ==
    ASSUME IInv, NextCommand \/ MainReturns \/ AtExit \/ Leave \/ Check \/ ForkFails
    PROVE  IInv'
  <1> USE DEF IInv, AfterExit, Waiting, PoolType, poolVars, exitVars, systemVars,
              historyVars, Exit, CallWait
  <1>1. CASE NextCommand
    BY <1>1, QuietInvariant DEF NextCommand
  <1>2. CASE MainReturns
    BY <1>2, QuietInvariant DEF MainReturns
  <1>3. CASE AtExit
    BY <1>3, QuietInvariant DEF AtExit
  <1>4. CASE Leave
    BY <1>4, QuietInvariant DEF Leave
  <1>5. CASE Check
    <2>1. w' \in [all : BOOLEAN, minreap : {0, 1}, reaped : Nat, nohang : BOOLEAN,
                  ret : {"check", "fork", "all_reaped"}]
      <3>1. CallWait(FALSE, 1, "check") \/ CallWait(FALSE, 0, "fork")
        BY <1>5 DEF Check
      <3>2. CASE CallWait(FALSE, 1, "check")
        BY <3>2
      <3>3. CASE CallWait(FALSE, 0, "fork")
        BY <3>3
      <3> QED BY <3>1, <3>2, <3>3
    <2>2. PoolType' /\ UNCHANGED <<procs_executing, pids, kid, how, pipe, at_exit, counted>>
      BY <1>5, <2>1 DEF Check
    <2>3. pc = "check" /\ pc' = "w_test"
      BY <1>5 DEF Check
    <2> QED BY <2>2, <2>3, QuietInvariant
  <1>6. CASE ForkFails
    <2>1. CASE Exit(ExitFailure) /\ UNCHANGED w
      BY <1>6, <2>1, QuietInvariant DEF ForkFails
    <2>2. CASE CallWait(FALSE, 1, "fork") /\ UNCHANGED exitVars
      <3>1. w' \in [all : BOOLEAN, minreap : {0, 1}, reaped : Nat, nohang : BOOLEAN,
                    ret : {"check", "fork", "all_reaped"}]
        BY <2>2
      <3> QED BY <1>6, <2>2, <3>1, QuietInvariant DEF ForkFails
    <2> QED BY <1>6, <2>1, <2>2 DEF ForkFails
  <1> QED BY <1>1, <1>2, <1>3, <1>4, <1>5, <1>6

------------------------------------------------------------------------------
(* Statements of xargs that reap or start a child.                         *)

LEMMA ReapInvariant ==
    ASSUME IInv, NEW p \in Pid, WaitUnknown(p) \/ WaitReap(p)
    PROVE  IInv'
  <1>1. CASE WaitUnknown(p)
    BY <1>1 DEF IInv, PoolType, PoolIsTrue, AtChild, AfterExit, Waiting, WaitUnknown,
       Ours, poolVars, exitVars, historyVars, mainVars
  <1>2. CASE WaitReap(p)
    <2>1. PoolType' /\ pc' \notin {"read_block", "settle_block"}
      <3>1. procs_executing > 0
        BY <1>2, SlotsFinite, FS_EmptySet, FS_CardinalityType DEF IInv, PoolType,
           PoolIsTrue, WaitReap, Ours
      <3> QED BY <1>2, <3>1 DEF IInv, PoolType, WaitReap, Ours, Exit, exitVars
    <2>2. PoolIsTrue'
      <3>1. Cardinality(pids \ {p}) = Cardinality(pids) - 1
        BY <1>2, SlotsFinite, FS_RemoveElement DEF IInv, WaitReap, Ours
      <3> QED BY <1>2, <3>1 DEF IInv, PoolType, PoolIsTrue, WaitReap, Ours
    <2>3. AfterExit'
      <3>1. CASE Aborts(how[p])
        BY <1>2, <3>1 DEF IInv, AfterExit, Waiting, WaitReap, Exit
      <3>2. CASE ~Aborts(how[p])
        BY <1>2, <3>2 DEF IInv, PoolType, AfterExit, Waiting, WaitReap, Aborts, exitVars
      <3> QED BY <3>1, <3>2
    <2> QED BY <2>1, <2>2, <2>3 DEF IInv, AtChild
  <1> QED BY <1>1, <1>2

LEMMA ForkInvariant ==
    ASSUME IInv, NEW p \in Pid, Fork(p)
    PROVE  IInv'
  BY DEF IInv, PoolType, PoolIsTrue, AtChild, AfterExit, Waiting, Fork, poolVars,
     exitVars, historyVars, Errnos

LEMMA EnterInvariant ==
    ASSUME IInv, ReadNothing \/ ReadErrno
    PROVE  IInv'
  <1>1. CASE ReadNothing
    <2>1. child \in Pid \ pids /\ kid[child] \in {"running", "zombie"}
      BY <1>1 DEF IInv, AtChild, ReadNothing
    <2>2. Cardinality(pids \cup {child}) = Cardinality(pids) + 1
      BY <2>1, SlotsFinite, FS_AddElement DEF IInv
    <2>3. PoolType' /\ PoolIsTrue'
      BY <1>1, <2>1, <2>2 DEF IInv, PoolType, PoolIsTrue, ReadNothing, AddProc, systemVars
    <2> QED
      BY <1>1, <2>3 DEF IInv, AtChild, AfterExit, Waiting, ReadNothing, exitVars,
         historyVars
  <1>2. CASE ReadErrno
    BY <1>2 DEF IInv, PoolType, PoolIsTrue, AtChild, AfterExit, Waiting, ReadErrno,
       poolVars, exitVars, systemVars, historyVars, mainVars
  <1> QED BY <1>1, <1>2

\* What xargs does with a refusal: run the rest, or exit.
LEMMA RefusedGoes ==
    ASSUME Refused, pipe \in Errnos
    PROVE  /\ UNCHANGED at_exit
           /\ pc' \in {"check", "at_exit", "gone"}
           /\ at_exit \/ pc' \in {"check", "at_exit"}
           /\ pc' = "check" => UNCHANGED exitVars
  <1>1. CASE pipe = "E2BIG"
    BY <1>1 DEF Refused, Exit, exitVars
  <1>2. CASE pipe = "ENOENT"
    BY <1>2 DEF Refused, Exit
  <1>3. CASE pipe = "EACCES"
    BY <1>3 DEF Refused, Exit
  <1> QED BY <1>1, <1>2, <1>3 DEF Errnos

LEMMA SettleInvariant ==
    ASSUME IInv, Settle
    PROVE  IInv'
  <1>1. child \in Pid \ pids /\ pipe \in Errnos
    BY DEF IInv, AtChild, Settle
  <1>2. ~at_exit /\ counted \cap {"stop", "killed"} = {}
    BY DEF IInv, AfterExit, Waiting, Settle
  <1>3. UNCHANGED at_exit /\ pc' \in {"check", "at_exit"}
    BY <1>1, <1>2, RefusedGoes DEF Settle
  <1> QED
    BY <1>1, <1>2, <1>3 DEF IInv, PoolType, PoolIsTrue, AtChild, AfterExit, Settle,
       poolVars, historyVars

------------------------------------------------------------------------------
(* The commands, and the signals.                                          *)

LEMMA ChildInvariant ==
    ASSUME IInv, NEW p \in Pid, ChildStarts(p) \/ ChildEnding(p)
    PROVE  IInv'
  <1> USE DEF IInv, PoolType, PoolIsTrue, AtChild, AfterExit, PipeAfter, mainVars,
              poolVars, exitVars, historyVars, Errnos
  <1>1. CASE ChildExecs(p)
    BY <1>1 DEF ChildExecs
  <1>2. CASE ChildGone(p)
    BY <1>2 DEF ChildGone
  <1>3. ASSUME NEW e \in Errnos, ChildRefused(p, e)
        PROVE  IInv'
    BY <1>3 DEF ChildRefused
  <1>4. ASSUME NEW o \in Outcome, ChildEnds(p, o)
        PROVE  IInv'
    BY <1>4 DEF ChildEnds
  <1> QED BY <1>1, <1>2, <1>3, <1>4 DEF ChildStarts, ChildEnding

LEMMA SignalInvariant ==
    ASSUME IInv, Signal
    PROVE  IInv'
  <1>1. CASE SignalRuns
    BY <1>1 DEF IInv, PoolType, PoolIsTrue, AtChild, AfterExit, SignalRuns, mainVars,
       poolVars, exitVars, systemVars, historyVars
  <1>2. CASE SignalInWait \/ SignalInRead \/ SignalInInput
    BY <1>2, QuietInvariant DEF IInv, AfterExit, Waiting, PoolType, SignalInWait,
       SignalInRead, SignalInInput, poolVars, exitVars, systemVars, historyVars
  <1>3. CASE SignalInSettle
    <2>1. ~at_exit /\ counted \cap {"stop", "killed"} = {} /\ pipe \in Errnos
      BY <1>3 DEF IInv, AfterExit, Waiting, AtChild, SignalInSettle
    <2>2. UNCHANGED at_exit /\ pc' \in {"check", "at_exit"}
      BY <1>3, <2>1, RefusedGoes DEF SignalInSettle
    <2> QED
      BY <1>3, <2>1, <2>2, QuietInvariant DEF IInv, AfterExit, PoolType, SignalInSettle,
         poolVars, systemVars, historyVars
  <1> QED BY <1>1, <1>2, <1>3 DEF Signal

LEMMA NextInvariant ==
    ASSUME IInv, [Next]_vars
    PROVE  IInv'
  <1>1. CASE XargsStep
    BY <1>1, MainInvariant, WaitInvariant, EnterInvariant, SettleInvariant,
       ForkInvariant, ReapInvariant DEF XargsStep
  <1>2. CASE Signal
    BY <1>2, SignalInvariant
  <1>3. ASSUME NEW p \in Pid, ChildStarts(p) \/ ChildEnding(p)
        PROVE  IInv'
    BY <1>3, ChildInvariant
  <1>4. CASE UNCHANGED vars
    BY <1>4 DEF vars, mainVars, poolVars, exitVars, systemVars, historyVars, IInv,
       PoolType, PoolIsTrue, AtChild, AfterExit
  <1> QED BY <1>1, <1>2, <1>3, <1>4 DEF Next

THEOREM InductiveInvariant == Spec => []IInv
<1>1. Init => IInv
  BY InitInvariant
<1>2. IInv /\ [Next]_vars => IInv'
  BY NextInvariant
<1> QED BY <1>1, <1>2, PTL DEF Spec

\* wait_for_proc waits only for children that are there: procs_executing counts
\* the slots, and every slot holds a child that has not been reaped.
THEOREM PoolTrue == Spec => []PoolIsTrue
<1>1. IInv => PoolIsTrue
  BY DEF IInv
<1> QED BY <1>1, InductiveInvariant, PTL

\* After a command has exited with 255 or was killed, xargs starts no other.
THEOREM NoneStartedAfterAbort == Spec => NothingStartsAfterAbort
<1>1. ASSUME IInv, counted \cap {"stop", "killed"} # {}, NEW p \in Pid
      PROVE  ~Fork(p)
  BY <1>1 DEF IInv, AfterExit, Waiting, Fork
<1>2. IInv => [counted \cap {"stop", "killed"} # {} => \A p \in Pid : ~Fork(p)]_vars
  BY <1>1
<1> QED BY <1>2, InductiveInvariant, PTL DEF NothingStartsAfterAbort

------------------------------------------------------------------------------
(* How many there are.  A command that no slot holds has escaped by a      *)
(* signal; and xargs forks only when there is room below the largest       *)
(* proc_max so far, which the waits between the test and the fork keep.    *)

Reading == IF pc = "read_block" THEN {child} ELSE {}
Escaped == Living \ (pids \cup Reading)

\* Each signal makes one command escape at most.
FewEscape == signals \in Nat /\ Cardinality(Escaped) <= signals

\* xargs is between the test of procs_executing and add_proc.
Starting == pc \in {"fork", "read_block"} \/ (pc \in Waiting /\ w.ret = "fork")

RoomToStart ==
    /\ proc_max \in Nat /\ peak \in Nat
    /\ ProcMax # 0 =>
          /\ proc_max # 0 /\ proc_max <= peak /\ procs_executing <= peak
          /\ Starting => procs_executing < peak

LEMMA EscapedFinite == IsFiniteSet(Living) /\ IsFiniteSet(Escaped)
  BY FS_Subset, XargsProcsAssumption DEF Escaped, Living

LEMMA InitCounts == Init => FewEscape /\ RoomToStart
<1> SUFFICES ASSUME Init PROVE FewEscape /\ RoomToStart
  OBVIOUS
<1>1. Escaped = {}
  BY DEF Init, Escaped, Living
<1>2. Cardinality({}) = 0
  BY FS_EmptySet
<1> QED
  BY <1>1, <1>2, XargsProcsAssumption DEF Init, FewEscape, RoomToStart, Starting, Waiting

\* What a step adds to the commands that have escaped.
LEMMA NoneEscapes ==
    ASSUME FewEscape, Escaped' \subseteq Escaped, signals' \in Nat, signals' >= signals
    PROVE  FewEscape'
<1>1. Cardinality(Escaped') <= Cardinality(Escaped)
  BY EscapedFinite, FS_Subset
<1>2. Cardinality(Escaped) \in Nat /\ Cardinality(Escaped') \in Nat
  BY EscapedFinite, FS_Subset, FS_CardinalityType
<1> QED BY <1>1, <1>2 DEF FewEscape

LEMMA OneEscapes ==
    ASSUME FewEscape, NEW p, Escaped' \subseteq Escaped \cup {p}, signals' = signals + 1
    PROVE  FewEscape'
<1> DEFINE S == Escaped
<1>0. IsFiniteSet(S) /\ Cardinality(S) \in Nat
  BY EscapedFinite, FS_CardinalityType
<1> HIDE DEF S
<1>1. IsFiniteSet(S \cup {p}) /\ Cardinality(S \cup {p}) <= Cardinality(S) + 1
  <2>1. CASE p \in S
    <3>1. S \cup {p} = S
      BY <2>1
    <3> QED BY <3>1, <1>0
  <2>2. CASE p \notin S
    <3>1. IsFiniteSet(S \cup {p}) /\ Cardinality(S \cup {p}) = Cardinality(S) + 1
      BY <2>2, <1>0, FS_AddElement
    <3> QED BY <3>1, <1>0
  <2> QED BY <2>1, <2>2
<1> USE DEF S
<1>2. IsFiniteSet(Escaped') /\ Cardinality(Escaped') <= Cardinality(Escaped \cup {p})
  BY <1>1, FS_Subset
<1>3. /\ Cardinality(Escaped) \in Nat /\ Cardinality(Escaped') \in Nat
      /\ Cardinality(Escaped \cup {p}) \in Nat
  BY <1>1, <1>2, EscapedFinite, FS_CardinalityType
<1> QED BY <1>1, <1>2, <1>3 DEF FewEscape

LEMMA XargsEscapes ==
    ASSUME IInv, FewEscape, XargsStep
    PROVE  FewEscape'
<1>1. UNCHANGED signals
  BY DEF XargsStep, NextCommand, MainReturns, AtExit, Leave, Check, ForkFails,
     ReadNothing, ReadErrno, Settle, WaitTest, WaitReset, WaitCall, WaitInterrupted,
     WaitNothing, Fork, WaitUnknown, WaitReap, boundVars
<1>2. Escaped' \subseteq Escaped
  <2> USE DEF IInv, Escaped, Living, Reading, mainVars, poolVars, systemVars, CallWait, Exit
  <2>1. CASE NextCommand \/ MainReturns \/ AtExit \/ Leave \/ Check \/ ForkFails
    <3>1. UNCHANGED <<kid, pids, child>> /\ pc # "read_block"
      BY <2>1 DEF NextCommand, MainReturns, AtExit, Leave, Check, ForkFails
    <3> QED BY <3>1
  <2>2. CASE WaitTest \/ WaitReset \/ WaitCall \/ WaitInterrupted \/ WaitNothing
    <3>1. UNCHANGED <<kid, pids, child>> /\ pc # "read_block"
      BY <2>2 DEF WaitTest, WaitReset, WaitCall, WaitInterrupted, WaitNothing
    <3> QED BY <3>1
  <2>3. CASE ReadNothing
    BY <2>3 DEF ReadNothing, AddProc
  <2>4. CASE ReadErrno
    <3>1. kid[child] \in {"refused", "zombie"}
      BY <2>4 DEF ReadErrno, AtChild, PoolType
    <3> QED BY <2>4, <3>1 DEF ReadErrno
  <2>5. CASE Settle
    BY <2>5 DEF Settle, PoolType
  <2>6. ASSUME NEW p \in Pid, Fork(p)
        PROVE  Escaped' \subseteq Escaped
    BY <2>6 DEF Fork, PoolType
  <2>7. ASSUME NEW p \in Pid, WaitUnknown(p) \/ WaitReap(p)
        PROVE  Escaped' \subseteq Escaped
    BY <2>7 DEF WaitUnknown, WaitReap, PoolType
  <2> QED BY <2>1, <2>2, <2>3, <2>4, <2>5, <2>6, <2>7 DEF XargsStep
<1> QED BY <1>1, <1>2, NoneEscapes DEF FewEscape

LEMMA ChildEscapes ==
    ASSUME IInv, FewEscape, NEW p \in Pid, ChildStarts(p) \/ ChildEnding(p)
    PROVE  FewEscape'
<1>1. UNCHANGED signals /\ Escaped' \subseteq Escaped
  BY DEF IInv, PoolType, Escaped, Living, Reading, ChildStarts, ChildEnding, ChildExecs,
     ChildGone, ChildRefused, ChildEnds, mainVars, poolVars, boundVars
<1> QED BY <1>1, NoneEscapes DEF FewEscape

LEMMA SignalEscapes ==
    ASSUME IInv, FewEscape, Signal
    PROVE  FewEscape'
<1>1. signals' = signals + 1
  BY DEF Signal
<1>2. CASE SignalInRead
  <2>1. Escaped' \subseteq Escaped \cup {child}
    BY <1>2 DEF SignalInRead, Escaped, Living, Reading, poolVars, systemVars
  <2> QED BY <1>1, <2>1, OneEscapes
<1>3. CASE SignalRuns \/ SignalInWait \/ SignalInSettle \/ SignalInInput
  <2>1. Escaped' \subseteq Escaped
    BY <1>3 DEF SignalRuns, SignalInWait, SignalInSettle, SignalInInput, Escaped,
       Living, Reading, mainVars, poolVars, systemVars
  <2> QED BY <1>1, <2>1, NoneEscapes DEF FewEscape
<1> QED BY <1>2, <1>3 DEF Signal

\* Statements that add no child and raise no limit, and do not come nearer to a
\* fork than they were.
LEMMA NoStart ==
    ASSUME IInv, RoomToStart, procs_executing' \in Nat, procs_executing' <= procs_executing,
           UNCHANGED <<proc_max, peak>>, Starting' => Starting
    PROVE  RoomToStart'
  BY DEF IInv, PoolType, RoomToStart

LEMMA XargsRoom ==
    ASSUME IInv, RoomToStart, XargsStep
    PROVE  RoomToStart'
<1> USE DEF Starting, Waiting, mainVars, poolVars, limitVars
<1>0. procs_executing \in Nat
  BY DEF IInv, PoolType
<1>1. CASE NextCommand \/ MainReturns \/ AtExit \/ Leave \/ ReadErrno
  <2>1. UNCHANGED <<procs_executing, proc_max, peak>> /\ ~Starting'
    BY <1>1 DEF NextCommand, MainReturns, AtExit, Leave, ReadErrno, CallWait, Exit
  <2> QED BY <2>1, <1>0, NoStart
<1>2. CASE WaitTest \/ WaitReset \/ WaitCall \/ WaitInterrupted \/ WaitNothing
  <2>1. UNCHANGED <<procs_executing, proc_max, peak>> /\ pc \in Waiting
    BY <1>2 DEF WaitTest, WaitReset, WaitCall, WaitInterrupted, WaitNothing
  <2>2. w'.ret = w.ret /\ pc' \in Waiting \cup {w.ret}
    BY <1>2 DEF IInv, PoolType, WaitTest, WaitReset, WaitCall, WaitInterrupted, WaitNothing
  <2>3. w.ret # "read_block"
    BY DEF IInv, PoolType
  <2> QED BY <2>1, <2>2, <2>3, <1>0, NoStart
<1>3. CASE Check
  <2>1. UNCHANGED <<procs_executing, proc_max, peak>>
    BY <1>3 DEF Check
  <2>2. CASE MustWait
    <3>1. ~Starting'
      BY <1>3, <2>2 DEF Check, CallWait
    <3> QED BY <2>1, <3>1, <1>0, NoStart
  <2>3. CASE ~MustWait
    BY <2>1, <2>3, <1>0 DEF MustWait, RoomToStart
  <2> QED BY <2>2, <2>3
<1>4. CASE ForkFails
  <2>1. UNCHANGED <<procs_executing, proc_max, peak>> /\ Starting
    BY <1>4 DEF ForkFails
  <2> QED BY <2>1, <1>0, NoStart
<1>5. CASE ReadNothing
  <2>1. /\ UNCHANGED <<proc_max, peak>> /\ ~Starting' /\ Starting
        /\ procs_executing' = procs_executing + 1
    BY <1>5 DEF ReadNothing, AddProc
  <2> QED BY <2>1, <1>0 DEF RoomToStart
<1>6. CASE Settle
  <2>1. pc' \in {"check", "at_exit", "gone"}
    BY <1>6, RefusedGoes DEF IInv, AtChild, Settle
  <2>2. UNCHANGED <<procs_executing, proc_max, peak>>
    BY <1>6 DEF Settle
  <2> QED BY <2>1, <2>2, <1>0, NoStart
<1>7. ASSUME NEW p \in Pid, Fork(p) \/ WaitUnknown(p)
      PROVE  RoomToStart'
  <2>1. Starting' => Starting
    BY <1>7 DEF Fork, WaitUnknown
  <2>2. UNCHANGED <<procs_executing, proc_max, peak>>
    BY <1>7 DEF Fork, WaitUnknown
  <2> QED BY <2>1, <2>2, <1>0, NoStart
<1>8. ASSUME NEW p \in Pid, WaitReap(p)
      PROVE  RoomToStart'
  <2>1. procs_executing' \in Nat /\ procs_executing' = procs_executing - 1
    BY <1>8, ReapInvariant DEF IInv, PoolType, WaitReap
  <2>2. UNCHANGED <<proc_max, peak>>
    BY <1>8 DEF WaitReap
  <2>3. Starting' => Starting
    <3>1. pc = "w_block" /\ pc' \in {"gone", "at_exit", "w_test"}
      BY <1>8 DEF WaitReap, Exit
    <3>2. pc' = "w_test" => w'.ret = w.ret
      BY <1>8 DEF WaitReap, Exit, IInv, PoolType
    <3> QED BY <3>1, <3>2
  <2> QED BY <2>1, <2>2, <2>3, <1>0, NoStart
<1> QED BY <1>1, <1>2, <1>3, <1>4, <1>5, <1>6, <1>7, <1>8 DEF XargsStep

\* The handlers lower proc_max to 1 at least, and peak goes up with it.
LEMMA SignalRoom ==
    ASSUME IInv, RoomToStart, Signal
    PROVE  RoomToStart'
<1>1. UNCHANGED procs_executing /\ procs_executing \in Nat
  BY DEF IInv, PoolType, Signal, SignalRuns, SignalInWait, SignalInRead, SignalInSettle,
     SignalInInput, poolVars
<1>2. /\ proc_max' \in Nat /\ peak' \in Nat /\ peak' >= peak
      /\ ProcMax # 0 => proc_max' # 0 /\ proc_max' <= peak'
  BY DEF Signal, Handler, Decremented, RoomToStart
<1>3. Starting' => Starting
  <2>1. CASE SignalRuns
    BY <2>1 DEF SignalRuns, Starting
  <2>2. CASE SignalInWait
    BY <2>2 DEF SignalInWait, Starting, Waiting
  <2>3. CASE SignalInRead \/ SignalInInput
    BY <2>3 DEF SignalInRead, SignalInInput, Starting, Waiting
  <2>4. CASE SignalInSettle
    <3>1. pc' \in {"check", "at_exit", "gone"}
      BY <2>4, RefusedGoes DEF IInv, AtChild, SignalInSettle
    <3> QED BY <3>1 DEF Starting, Waiting
  <2> QED BY <2>1, <2>2, <2>3, <2>4 DEF Signal
<1> QED BY <1>1, <1>2, <1>3 DEF RoomToStart

CountInv == IInv /\ FewEscape /\ RoomToStart

THEOREM CountInvariant == Spec => []CountInv
<1>1. Init => CountInv
  BY InitInvariant, InitCounts DEF CountInv
<1>2. CountInv /\ [Next]_vars => CountInv'
  <2> SUFFICES ASSUME CountInv, [Next]_vars PROVE CountInv'
    OBVIOUS
  <2>1. IInv'
    BY NextInvariant DEF CountInv
  <2>2. CASE XargsStep
    BY <2>1, <2>2, XargsEscapes, XargsRoom DEF CountInv
  <2>3. CASE Signal
    BY <2>1, <2>3, SignalEscapes, SignalRoom DEF CountInv
  <2>4. ASSUME NEW p \in Pid, ChildStarts(p) \/ ChildEnding(p)
        PROVE  CountInv'
    <3>1. FewEscape'
      BY <2>4, ChildEscapes DEF CountInv
    <3>2. RoomToStart'
      BY <2>4 DEF CountInv, RoomToStart, Starting, ChildStarts, ChildEnding, ChildExecs,
         ChildGone, ChildRefused, ChildEnds, poolVars, limitVars
    <3> QED BY <2>1, <3>1, <3>2 DEF CountInv
  <2>5. CASE UNCHANGED vars
    BY <2>1, <2>5 DEF CountInv, FewEscape, RoomToStart, Escaped, Living, Reading,
       Starting, vars, mainVars, poolVars, limitVars, systemVars, boundVars
  <2> QED BY <2>2, <2>3, <2>4, <2>5 DEF Next
<1> QED BY <1>1, <1>2, PTL DEF Spec

\* Every command that runs is in a slot, but for one for each signal.
THEOREM CommandsTracked == Spec => []EveryCommandTracked
<1>1. ASSUME CountInv PROVE EveryCommandTracked
  <2> DEFINE Loose == {p \in Pid : /\ kid[p] = "running" /\ p \notin pids
                                  /\ ~(p = child /\ pc = "read_block")}
  <2>1. Loose \subseteq Escaped
    BY DEF Escaped, Living, Reading
  <2>2. Cardinality(Loose) <= Cardinality(Escaped)
    BY <2>1, EscapedFinite, FS_Subset
  <2>3. Cardinality(Loose) \in Nat /\ Cardinality(Escaped) \in Nat
    BY <2>1, EscapedFinite, FS_Subset, FS_CardinalityType
  <2> QED BY <1>1, <2>2, <2>3 DEF CountInv, FewEscape, EveryCommandTracked
<1> QED BY <1>1, CountInvariant, PTL

\* Never more children than -P, its increases and one for each signal.
THEOREM AtMostMaxProcs == Spec => []RunsAtMostMaxProcs
<1>1. ASSUME CountInv, ProcMax # 0 PROVE Cardinality(Living) <= peak + signals
  <2> DEFINE Slots == Living \cap (pids \cup Reading)
  <2>1. IsFiniteSet(pids) /\ Cardinality(pids) = procs_executing /\ procs_executing \in Nat
    BY <1>1, SlotsFinite DEF CountInv, IInv, PoolIsTrue, PoolType
  <2>2. /\ IsFiniteSet(pids \cup Reading)
        /\ Cardinality(pids \cup Reading) <= peak /\ peak \in Nat
    <3>1. CASE pc = "read_block"
      <4>1. child \notin pids /\ procs_executing < peak /\ peak \in Nat
        BY <1>1, <3>1 DEF CountInv, IInv, AtChild, RoomToStart, Starting
      <4>2. /\ IsFiniteSet(pids \cup {child})
            /\ Cardinality(pids \cup {child}) = Cardinality(pids) + 1
        BY <4>1, <2>1, FS_AddElement
      <4> QED BY <3>1, <4>1, <4>2, <2>1 DEF Reading
    <3>2. CASE pc # "read_block"
      <4>1. pids \cup Reading = pids
        BY <3>2 DEF Reading
      <4> QED BY <1>1, <4>1, <2>1 DEF CountInv, RoomToStart
    <3> QED BY <3>1, <3>2
  <2>3. /\ IsFiniteSet(Slots) /\ Cardinality(Slots) <= Cardinality(pids \cup Reading)
        /\ Cardinality(Slots) \in Nat /\ Cardinality(pids \cup Reading) \in Nat
    <3>1. Slots \subseteq pids \cup Reading
      OBVIOUS
    <3> HIDE DEF Slots
    <3> QED BY <3>1, <2>2, FS_Subset, FS_CardinalityType
  <2>4. Living = Slots \cup Escaped
    BY DEF Escaped
  <2>5. Cardinality(Slots \cup Escaped) <= Cardinality(Slots) + Cardinality(Escaped)
    <3>1. /\ Cardinality(Slots \cup Escaped)
             = Cardinality(Slots) + Cardinality(Escaped) - Cardinality(Slots \cap Escaped)
      BY <2>3, EscapedFinite, FS_Union
    <3>2. Cardinality(Slots \cap Escaped) \in Nat
      BY <2>3, FS_Intersection, FS_CardinalityType
    <3>3. Cardinality(Escaped) \in Nat
      BY EscapedFinite, FS_CardinalityType
    <3> HIDE DEF Slots
    <3> QED BY <2>3, <3>1, <3>2, <3>3
  <2>6. Cardinality(Escaped) <= signals /\ signals \in Nat /\ Cardinality(Escaped) \in Nat
    BY <1>1, EscapedFinite, FS_CardinalityType DEF CountInv, FewEscape
  <2>7. Cardinality(Living) <= Cardinality(Slots) + Cardinality(Escaped)
    BY <2>4, <2>5
  <2>8. Cardinality(Living) \in Nat
    BY EscapedFinite, FS_CardinalityType
  <2> HIDE DEF Slots
  <2> QED BY <2>2, <2>3, <2>6, <2>7, <2>8
<1>2. CountInv => RunsAtMostMaxProcs
  BY <1>1 DEF RunsAtMostMaxProcs
<1> QED BY <1>2, CountInvariant, PTL

------------------------------------------------------------------------------
(* The status.  What has been counted is in child_error or in the argument *)
(* of exit, what has ended and is not counted is a zombie xargs knows of,  *)
(* and the atexit handler returns when there is none of these.             *)

\* The status s has its cause among the statuses that were looked at.
Caused(s) ==
    /\ s = Nonzero => "fail" \in counted
    /\ s = Exit255 => "stop" \in counted
    /\ s = FatalSignal => "killed" \in counted

Values ==
    /\ counted \subseteq Outcome
    /\ child_error = (IF "fail" \in counted THEN Nonzero ELSE 0)
    /\ original_exit_value \in {0, Nonzero}
    /\ original_exit_value = Nonzero => child_error = Nonzero /\ exit_status # 0
    /\ Caused(exit_status)
    /\ counted \cap {"stop", "killed"} # {} => exit_status \in {Exit255, FatalSignal}

Exited == at_exit \/ pc = "at_exit"

\* The wait of the atexit handler is for all, and is never cut short.
LastWait ==
    /\ pc \in {"all_reaped", "gone"} => at_exit
    /\ pc \in Waiting => /\ w.ret = "all_reaped" => at_exit
                         /\ at_exit => w.all /\ ~w.nohang
    /\ pc = "all_reaped" => pids = {}
    /\ Exited /\ exit_status = 0 => commands = 0

AtEnd ==
    pc = "gone" =>
        /\ Caused(status)
        /\ status \in {0, Nonzero} => pids = {}
        /\ status = 0 => exit_status = 0 /\ child_error = 0

CauseInv == Values /\ LastWait /\ AtEnd

\* The child add_proc is about to enter.
Entering == IF pc = "read_block" /\ pipe = "closed" THEN {child} ELSE {}

\* Without signals, a command that has ended is counted or still to be reaped.
EndsKnown ==
    signals = 0 =>
        \A o \in outcomes :
            o \in counted \/ \E p \in pids \cup Entering : kid[p] = "zombie" /\ how[p] = o

Codes == Nonzero = 123 /\ Exit255 = 124 /\ FatalSignal = 125 /\ CannotBeRun = 126
         /\ NotFound = 127 /\ ExitFailure = 1

LEMMA CodesDiffer == Codes
  BY DEF Codes, Nonzero, Exit255, FatalSignal, CannotBeRun, NotFound, ExitFailure

\* Statements that neither count nor exit.
LEMMA PlainCause ==
    ASSUME CauseInv,
           UNCHANGED <<counted, child_error, original_exit_value, exit_status, at_exit,
                       commands, status, pids, pc, w>>
    PROVE  CauseInv'
  BY DEF CauseInv, Values, LastWait, AtEnd, Caused, Exited

LEMMA MainCause ==
    ASSUME IInv, CauseInv, NextCommand \/ MainReturns \/ AtExit \/ Leave
    PROVE  CauseInv'
<1> USE CodesDiffer DEF Codes, CauseInv, mainVars, poolVars, exitVars, historyVars
<1>1. CASE NextCommand
  BY <1>1 DEF NextCommand, Values, LastWait, AtEnd, Caused, Exited, Waiting
<1>2. CASE MainReturns
  <2>1. ~at_exit /\ counted \cap {"stop", "killed"} = {}
    BY <1>2 DEF IInv, AfterExit, Waiting, MainReturns
  <2>2. pc' = "at_exit" /\ exit_status' = child_error /\ original_exit_value' = child_error
        /\ commands = 0 /\ UNCHANGED <<counted, child_error, commands, at_exit>>
    BY <1>2, <2>1 DEF MainReturns, Exit
  <2>3. Values'
    BY <2>1, <2>2 DEF Values, Caused
  <2> QED BY <2>1, <2>2, <2>3 DEF LastWait, AtEnd, Exited, Waiting
<1>3. CASE AtExit
  <2>1. w' = [all |-> TRUE, minreap |-> 0, reaped |-> 0, nohang |-> FALSE,
              ret |-> "all_reaped"]
    BY <1>3 DEF AtExit, CallWait
  <2>2. w'.all /\ ~w'.nohang
    BY <2>1
  <2>3. /\ pc = "at_exit" /\ pc' = "w_test" /\ at_exit'
        /\ UNCHANGED <<counted, child_error, original_exit_value, exit_status, commands>>
    BY <1>3 DEF AtExit, CallWait
  <2>4. Values'
    BY <2>3 DEF Values, Caused
  <2>5. LastWait'
    BY <2>2, <2>3 DEF LastWait, Exited, Waiting
  <2> QED BY <2>3, <2>4, <2>5 DEF AtEnd
<1>4. CASE Leave
  <2>1. /\ pc = "all_reaped" /\ pc' = "gone"
        /\ UNCHANGED <<counted, child_error, original_exit_value, exit_status, commands,
                       at_exit, pids>>
        /\ status' = IF original_exit_value # child_error THEN child_error ELSE exit_status
    BY <1>4 DEF Leave
  <2>2. Values' /\ LastWait'
    BY <2>1 DEF Values, Caused, LastWait, Exited, Waiting
  <2>3. AtEnd'
    BY <2>1 DEF Values, Caused, LastWait, AtEnd
  <2> QED BY <2>2, <2>3
<1> QED BY <1>1, <1>2, <1>3, <1>4

\* The waits: that of the atexit handler ends with no slot in use.
LEMMA WaitCause ==
    ASSUME IInv, CauseInv,
           WaitTest \/ WaitReset \/ WaitCall \/ WaitInterrupted \/ WaitNothing
    PROVE  CauseInv'
<1> USE DEF CauseInv
<1>1. /\ UNCHANGED <<counted, child_error, original_exit_value, exit_status, at_exit,
                     commands, pids>>
      /\ pc \in Waiting /\ pc' \in Waiting \cup {w.ret}
      /\ w'.ret = w.ret /\ w'.all = w.all
  BY DEF IInv, PoolType, WaitTest, WaitReset, WaitCall, WaitInterrupted, WaitNothing,
     Waiting, mainVars, poolVars, exitVars, historyVars
<1>2. Values'
  BY <1>1 DEF Values, Caused
<1>3. w.ret \in {"check", "fork", "all_reaped"}
  BY DEF IInv, PoolType
<1>4. AtEnd'
  BY <1>1, <1>3 DEF AtEnd, Waiting
<1>5. pc' = "all_reaped" => at_exit /\ pids = {}
  <2> SUFFICES ASSUME pc' = "all_reaped" PROVE at_exit /\ pids = {}
    OBVIOUS
  <2>1. w.ret = "all_reaped"
    BY <1>1 DEF Waiting
  <2>2. at_exit /\ w.all /\ ~w.nohang
    BY <1>1, <2>1 DEF LastWait
  <2>3. WaitTest /\ ~(procs_executing > 0)
    BY <2>2 DEF WaitTest, WaitReset, WaitCall, WaitInterrupted, WaitNothing
  <2>4. Cardinality(pids) = 0
    BY <2>3 DEF IInv, PoolType, PoolIsTrue
  <2> QED BY <2>2, <2>4, SlotsFinite, FS_EmptySet DEF IInv
<1>6. at_exit /\ pc' \in Waiting => ~w'.nohang
  <2>1. at_exit => w.all /\ ~w.nohang
    BY <1>1 DEF LastWait
  <2>2. CASE WaitTest
    BY <2>1, <2>2 DEF WaitTest, EnoughReaped, IInv, PoolType
  <2>3. CASE WaitInterrupted
    BY <2>1, <2>3 DEF WaitInterrupted, IInv, PoolType
  <2>4. CASE WaitReset \/ WaitCall \/ WaitNothing
    BY <2>1, <2>4 DEF WaitReset, WaitCall, WaitNothing
  <2> QED BY <2>2, <2>3, <2>4
<1>7. pc' # "at_exit" /\ pc' # "gone"
  BY <1>1, <1>3 DEF Waiting
<1>8. LastWait'
  BY <1>1, <1>3, <1>5, <1>6, <1>7 DEF LastWait, Exited, Waiting
<1> QED BY <1>2, <1>4, <1>8

\* A child that has been reaped is counted, and may make xargs exit.
LEMMA ReapCause ==
    ASSUME IInv, CauseInv, NEW p \in Pid, WaitReap(p)
    PROVE  CauseInv'
<1> USE CodesDiffer DEF CauseInv, Codes
<1>1. /\ counted' = counted \cup {how[p]} /\ how[p] \in Outcome
      /\ UNCHANGED <<original_exit_value, commands, at_exit>>
      /\ pc = "w_block" /\ pc \in Waiting
  BY DEF WaitReap, IInv, PoolType, mainVars, Exit, exitVars, Waiting
<1>2. CASE Aborts(how[p])
  <2>1. /\ UNCHANGED child_error /\ exit_status' = AbortStatus(how[p])
        /\ at_exit => pc' = "gone" /\ status' = AbortStatus(how[p])
        /\ ~at_exit => pc' = "at_exit"
    BY <1>2 DEF WaitReap, Exit
  <2>2. /\ how[p] \in {"stop", "killed"}
        /\ AbortStatus(how[p]) = IF how[p] = "stop" THEN Exit255 ELSE FatalSignal
    BY <1>2 DEF Aborts, AbortStatus
  <2>3. Values'
    BY <1>1, <2>1, <2>2 DEF Values, Caused
  <2>4. LastWait' /\ AtEnd'
    BY <1>1, <2>1, <2>2 DEF LastWait, AtEnd, Exited, Waiting, Caused, IInv, AfterExit
  <2> QED BY <2>3, <2>4
<1>3. CASE ~Aborts(how[p])
  <2>1. /\ child_error' = ErrorAfter(how[p]) /\ pc' = "w_test"
        /\ UNCHANGED <<exit_status, status>>
        /\ w'.ret = w.ret /\ w'.all = w.all /\ w'.nohang = w.nohang
    BY <1>3 DEF WaitReap, IInv, PoolType, exitVars
  <2>2. how[p] \in {"ok", "fail"}
    BY <1>1, <1>3 DEF Aborts, Outcome
  <2>3. Values'
    BY <1>1, <2>1, <2>2 DEF Values, Caused, ErrorAfter
  <2>4. LastWait' /\ AtEnd'
    BY <1>1, <2>1 DEF LastWait, AtEnd, Exited, Waiting
  <2> QED BY <2>3, <2>4
<1> QED BY <1>2, <1>3

\* xargs_do_exec: it runs before exit, and what makes it exit is its own status.
LEMMA ExitCause ==
    ASSUME CauseInv, ~at_exit, pc # "at_exit", counted \cap {"stop", "killed"} = {},
           NEW s \in {ExitFailure, NotFound, CannotBeRun}, Exit(s),
           UNCHANGED <<counted, child_error, original_exit_value, commands, pids>>
    PROVE  CauseInv'
<1>1. pc' = "at_exit" /\ exit_status' = s /\ UNCHANGED at_exit
  BY DEF Exit
<1>2. Values' /\ LastWait' /\ AtEnd'
  BY <1>1, CodesDiffer DEF CauseInv, Codes, Values, LastWait, AtEnd, Caused, Exited, Waiting
<1> QED BY <1>2 DEF CauseInv

\* Statements before any exit that count nothing.
LEMMA StartCause ==
    ASSUME CauseInv, ~at_exit, pc # "at_exit",
           pc' \notin {"at_exit", "all_reaped", "gone"},
           pc' \in Waiting => w'.ret # "all_reaped",
           UNCHANGED <<counted, child_error, original_exit_value, exit_status, at_exit>>
    PROVE  CauseInv'
  BY DEF CauseInv, Values, LastWait, AtEnd, Caused, Exited

\* Where xargs_do_exec runs, exit has not been called.
LEMMA NotExited ==
    ASSUME IInv, pc \in {"input_block", "check", "fork", "read_block", "settle_block"}
    PROVE  ~at_exit /\ pc # "at_exit" /\ counted \cap {"stop", "killed"} = {}
  BY DEF IInv, AfterExit, Waiting

\* What ends a run that was refused is the status of the refusal.
LEMMA RefusedCause ==
    ASSUME IInv, CauseInv, pc = "settle_block", Refused,
           UNCHANGED <<counted, child_error, original_exit_value, commands, pids>>
    PROVE  CauseInv'
<1>1. ~at_exit /\ pc # "at_exit" /\ counted \cap {"stop", "killed"} = {}
  BY NotExited
<1>2. \/ pc' = "check" /\ UNCHANGED exitVars
      \/ \E s \in {ExitFailure, NotFound, CannotBeRun} : Exit(s)
  <2>1. pipe \in Errnos
    BY DEF IInv, AtChild
  <2>2. CASE pipe = "E2BIG"
    BY <2>2 DEF Refused
  <2>3. CASE pipe = "ENOENT"
    BY <2>3 DEF Refused
  <2>4. CASE pipe = "EACCES"
    BY <2>4 DEF Refused
  <2> QED BY <2>1, <2>2, <2>3, <2>4 DEF Errnos
<1>3. CASE pc' = "check" /\ UNCHANGED exitVars
  BY <1>1, <1>3, StartCause DEF exitVars, Waiting
<1>4. CASE \E s \in {ExitFailure, NotFound, CannotBeRun} : Exit(s)
  BY <1>1, <1>4, ExitCause
<1> QED BY <1>2, <1>3, <1>4

LEMMA ExecCause ==
    ASSUME IInv, CauseInv,
           \/ Check \/ ForkFails \/ ReadNothing \/ ReadErrno \/ Settle
           \/ \E p \in Pid : Fork(p)
    PROVE  CauseInv'
<1> USE DEF mainVars, poolVars, exitVars, historyVars, Waiting
<1>1. CASE Check
  <2>1. pc' = "w_test" /\ w'.ret \in {"check", "fork"}
    BY <1>1 DEF Check, CallWait
  <2> QED BY <1>1, <2>1, NotExited, StartCause DEF Check
<1>2. CASE ForkFails
  <2>1. CASE CallWait(FALSE, 1, "fork") /\ UNCHANGED exitVars
    <3>1. pc' = "w_test" /\ w'.ret = "fork"
      BY <2>1 DEF CallWait
    <3> QED BY <1>2, <2>1, <3>1, NotExited, StartCause DEF ForkFails
  <2>2. CASE Exit(ExitFailure)
    BY <1>2, <2>2, NotExited, ExitCause DEF ForkFails
  <2> QED BY <1>2, <2>1, <2>2 DEF ForkFails
<1>3. CASE ReadNothing
  BY <1>3, NotExited, StartCause DEF ReadNothing
<1>4. CASE ReadErrno
  BY <1>4, NotExited, StartCause DEF ReadErrno
<1>5. CASE Settle
  BY <1>5, RefusedCause DEF Settle
<1>6. ASSUME NEW p \in Pid, Fork(p)
      PROVE  CauseInv'
  BY <1>6, NotExited, StartCause DEF Fork
<1> QED BY <1>1, <1>2, <1>3, <1>4, <1>5, <1>6

LEMMA SignalCause ==
    ASSUME IInv, CauseInv, Signal
    PROVE  CauseInv'
<1> USE DEF mainVars, poolVars, exitVars, historyVars
<1>1. CASE SignalRuns
  BY <1>1, PlainCause DEF SignalRuns
<1>2. CASE SignalInWait
  <2>1. /\ UNCHANGED <<counted, child_error, original_exit_value, exit_status, at_exit,
                       commands, pids, w>>
        /\ pc = "w_block" /\ pc' = "w_intr"
    BY <1>2 DEF SignalInWait
  <2> QED BY <2>1 DEF CauseInv, Values, LastWait, AtEnd, Caused, Exited, Waiting
<1>3. CASE SignalInRead \/ SignalInInput
  BY <1>3, NotExited, StartCause DEF SignalInRead, SignalInInput, Waiting
<1>4. CASE SignalInSettle
  BY <1>4, RefusedCause DEF SignalInSettle
<1> QED BY <1>1, <1>2, <1>3, <1>4 DEF Signal

LEMMA NextCause ==
    ASSUME IInv, CauseInv, [Next]_vars
    PROVE  CauseInv'
<1>1. CASE XargsStep
  <2>1. ASSUME NEW p \in Pid, WaitUnknown(p)
        PROVE  CauseInv'
    <3>1. /\ UNCHANGED <<counted, child_error, original_exit_value, exit_status, at_exit,
                         commands, pids, w>>
          /\ pc = "w_block" /\ pc' = "w_call"
      BY <2>1 DEF WaitUnknown, mainVars, poolVars, exitVars, historyVars
    <3> QED BY <3>1 DEF CauseInv, Values, LastWait, AtEnd, Caused, Exited, Waiting
  <2> QED BY <1>1, <2>1, MainCause, WaitCause, ReapCause, ExecCause DEF XargsStep
<1>2. CASE Signal
  BY <1>2, SignalCause
<1>3. ASSUME NEW p \in Pid, ChildStarts(p) \/ ChildEnding(p)
      PROVE  CauseInv'
  <2>1. UNCHANGED <<pc, w, mainVars, poolVars, exitVars, counted>>
    BY <1>3 DEF ChildStarts, ChildEnding, ChildExecs, ChildGone, ChildRefused, ChildEnds,
       historyVars
  <2> QED BY <2>1, PlainCause DEF mainVars, poolVars, exitVars
<1>4. CASE UNCHANGED vars
  BY <1>4, PlainCause DEF vars, mainVars, poolVars, exitVars, historyVars
<1> QED BY <1>1, <1>2, <1>3, <1>4 DEF Next

\* No ending is forgotten.
LEMMA KeepsKnown ==
    ASSUME EndsKnown, UNCHANGED <<outcomes, signals>>, counted \subseteq counted',
           \A p \in pids \cup Entering :
               kid[p] = "zombie" => \/ p \in (pids \cup Entering)' /\ kid'[p] = "zombie"
                                       /\ how'[p] = how[p]
                                    \/ how[p] \in counted'
    PROVE  EndsKnown'
  BY DEF EndsKnown

LEMMA XargsKnows ==
    ASSUME IInv, EndsKnown, XargsStep
    PROVE  EndsKnown'
<1> USE DEF IInv, Entering, mainVars, poolVars, systemVars, boundVars, historyVars
<1>1. CASE NextCommand \/ MainReturns \/ AtExit \/ Leave \/ Check \/ ForkFails
  <2>1. UNCHANGED <<kid, how, pids, outcomes, counted, signals>> /\ pc # "read_block"
    BY <1>1 DEF NextCommand, MainReturns, AtExit, Leave, Check, ForkFails
  <2> QED BY <2>1, KeepsKnown
<1>2. CASE WaitTest \/ WaitReset \/ WaitCall \/ WaitInterrupted \/ WaitNothing
  <2>1. UNCHANGED <<kid, how, pids, outcomes, counted, signals>> /\ pc # "read_block"
    BY <1>2 DEF WaitTest, WaitReset, WaitCall, WaitInterrupted, WaitNothing
  <2> QED BY <2>1, KeepsKnown
<1>3. CASE ReadNothing
  BY <1>3, KeepsKnown DEF ReadNothing, AddProc
<1>4. CASE ReadErrno
  BY <1>4, KeepsKnown DEF ReadErrno
<1>5. CASE Settle
  <2>1. child \notin pids /\ pc # "read_block"
    BY <1>5 DEF Settle, AtChild
  <2> QED BY <1>5, <2>1, KeepsKnown DEF Settle, PoolType
<1>6. ASSUME NEW p \in Pid, Fork(p)
      PROVE  EndsKnown'
  BY <1>6, KeepsKnown DEF Fork, PoolType
<1>7. ASSUME NEW p \in Pid, WaitUnknown(p)
      PROVE  EndsKnown'
  BY <1>7, KeepsKnown DEF WaitUnknown, Ours, PoolType
<1>8. ASSUME NEW p \in Pid, WaitReap(p)
      PROVE  EndsKnown'
  <2>1. /\ pids' = pids \ {p} /\ pc = "w_block" /\ counted' = counted \cup {how[p]}
        /\ kid' = [kid EXCEPT ![p] = "none"] /\ UNCHANGED <<how, outcomes, signals>>
    BY <1>8 DEF WaitReap
  <2> QED BY <2>1, KeepsKnown DEF PoolType
<1> QED BY <1>1, <1>2, <1>3, <1>4, <1>5, <1>6, <1>7, <1>8 DEF XargsStep

\* Without signals no command is loose, so the one that ends is known.
LEMMA ChildKnown ==
    ASSUME IInv, FewEscape, EndsKnown, NEW p \in Pid, ChildStarts(p) \/ ChildEnding(p)
    PROVE  EndsKnown'
<1> USE DEF IInv, PoolType, Entering, PipeAfter, mainVars, poolVars, boundVars, historyVars
<1>1. CASE ChildExecs(p)
  BY <1>1, KeepsKnown DEF ChildExecs
<1>2. CASE ChildGone(p)
  BY <1>2, KeepsKnown DEF ChildGone
<1>3. ASSUME NEW e \in Errnos, ChildRefused(p, e)
      PROVE  EndsKnown'
  <2>1. kid[child] = "forked" /\ pc = "read_block" => pipe # "closed"
    BY DEF AtChild
  <2> QED BY <1>3, <2>1, KeepsKnown DEF ChildRefused
<1>4. ASSUME NEW o \in Outcome, ChildEnds(p, o), signals = 0
      PROVE  EndsKnown'
  <2>1. Escaped = {}
    <3>1. Cardinality(Escaped) = 0
      BY <1>4, EscapedFinite, FS_CardinalityType DEF FewEscape
    <3> QED BY <3>1, EscapedFinite, FS_EmptySet
  <2>2. p \in pids \cup Reading
    BY <1>4, <2>1 DEF ChildEnds, Escaped, Living
  <2>3. p \in Reading => pipe' = "closed" /\ pc' = "read_block" /\ p = child'
    BY <1>4 DEF ChildEnds, Reading, AtChild
  <2>4. p \in (pids \cup Entering)' /\ kid'[p] = "zombie" /\ how'[p] = o
    BY <1>4, <2>2, <2>3 DEF ChildEnds
  <2>5. /\ outcomes' = outcomes \cup {o} /\ UNCHANGED <<counted, signals, pids, child, pc>>
        /\ \A q \in Pid \ {p} : kid'[q] = kid[q] /\ how'[q] = how[q]
        /\ kid[p] # "zombie" /\ pc = "read_block" /\ pipe = "closed" => pipe' = "closed"
    BY <1>4 DEF ChildEnds
  <2>6. kid[p] # "zombie" /\ Entering \subseteq Pid /\ Entering \subseteq Entering'
    BY <1>4, <2>5 DEF ChildEnds, AtChild
  <2>7. ASSUME NEW x \in outcomes, x \notin counted
        PROVE  \E q \in (pids \cup Entering)' : kid'[q] = "zombie" /\ how'[q] = x
    <3>1. PICK q \in pids \cup Entering : kid[q] = "zombie" /\ how[q] = x
      BY <1>4, <2>7 DEF EndsKnown
    <3>2. q \in Pid \ {p} /\ q \in (pids \cup Entering)'
      BY <2>5, <2>6, <3>1
    <3> QED BY <2>5, <3>1, <3>2
  <2> QED BY <2>4, <2>5, <2>7 DEF EndsKnown
<1>5. ASSUME NEW o \in Outcome, ChildEnds(p, o), signals # 0
      PROVE  EndsKnown'
  BY <1>5 DEF ChildEnds, EndsKnown
<1> QED BY <1>1, <1>2, <1>3, <1>4, <1>5 DEF ChildStarts, ChildEnding, Errnos

StatusInv == CountInv /\ CauseInv /\ EndsKnown

THEOREM StatusInvariant == Spec => []StatusInv
<1>1. Init => CauseInv /\ EndsKnown
  BY CodesDiffer DEF Init, CauseInv, Values, LastWait, AtEnd, Caused, Exited, EndsKnown,
     Waiting, Codes
<1>2. CountInv /\ CauseInv /\ EndsKnown /\ [Next]_vars => CauseInv' /\ EndsKnown'
  <2> SUFFICES ASSUME CountInv, CauseInv, EndsKnown, [Next]_vars
               PROVE  CauseInv' /\ EndsKnown'
    OBVIOUS
  <2>1. CauseInv'
    BY NextCause DEF CountInv
  <2>2. CASE XargsStep
    BY <2>1, <2>2, XargsKnows DEF CountInv
  <2>3. CASE Signal
    <3>1. signals' # 0
      BY <2>3 DEF Signal, CountInv, FewEscape
    <3> QED BY <2>1, <3>1 DEF EndsKnown
  <2>4. ASSUME NEW p \in Pid, ChildStarts(p) \/ ChildEnding(p)
        PROVE  EndsKnown'
    BY <2>4, ChildKnown DEF CountInv
  <2>5. CASE UNCHANGED vars
    BY <2>1, <2>5 DEF EndsKnown, Entering, vars, mainVars, poolVars, systemVars, boundVars,
       historyVars
  <2> QED BY <2>1, <2>2, <2>3, <2>4, <2>5 DEF Next
<1> QED BY <1>1, <1>2, CountInvariant, PTL DEF Spec, StatusInv

\* Status 0 without signals: every command line was run, none failed and none is
\* left; and each other status that tells of a command has one to tell of.
THEOREM StatusTrue == Spec => []StatusHasCause
<1>1. ASSUME StatusInv, pc = "gone"
      PROVE  /\ status = 0 /\ signals = 0 =>
                    outcomes \subseteq {"ok"} /\ commands = 0 /\ Living = {}
             /\ Caused(status)
             /\ status \in {0, Nonzero} => pids = {}
  <2>1. Caused(status) /\ (status \in {0, Nonzero} => pids = {})
    BY <1>1 DEF StatusInv, CauseInv, AtEnd
  <2>2. ASSUME status = 0, signals = 0
        PROVE  outcomes \subseteq {"ok"} /\ commands = 0 /\ Living = {}
    <3>1. pids = {} /\ Reading = {} /\ Entering = {} /\ exit_status = 0 /\ child_error = 0
      BY <1>1, <2>2 DEF StatusInv, CauseInv, AtEnd, Reading, Entering
    <3>2. commands = 0
      BY <1>1, <3>1 DEF StatusInv, CauseInv, LastWait, Exited
    <3>3. Cardinality(Escaped) = 0
      BY <1>1, <2>2, EscapedFinite, FS_CardinalityType DEF StatusInv, CountInv, FewEscape
    <3>4. Living = {}
      BY <3>1, <3>3, EscapedFinite, FS_EmptySet DEF Escaped
    <3>5. outcomes \subseteq counted
      BY <1>1, <2>2, <3>1 DEF StatusInv, EndsKnown
    <3>6. "fail" \notin counted /\ counted \cap {"stop", "killed"} = {}
      BY <1>1, <3>1, CodesDiffer DEF StatusInv, CauseInv, Values, Codes
    <3>7. outcomes \subseteq {"ok"}
      BY <1>1, <3>5, <3>6 DEF StatusInv, CauseInv, Values, Outcome
    <3> QED BY <3>2, <3>4, <3>7
  <2> QED BY <2>1, <2>2
<1>2. StatusInv => StatusHasCause
  BY <1>1 DEF StatusHasCause, Caused
<1> QED BY <1>2, StatusInvariant, PTL
=============================================================================
