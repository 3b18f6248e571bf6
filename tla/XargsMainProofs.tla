--------------------------- MODULE XargsMainProofs --------------------------
(***************************************************************************)
(* What holds of the loop of main for every input, every combination of    *)
(* limits and every answer of exec.  main only uses the library as it is   *)
(* meant to be used, so BuildCmd's invariant holds throughout.  Added to   *)
(* it are: where the last command leaves the list (Ending), that the -L    *)
(* counter is ahead of the lines in the list whatever bc_push_arg runs on  *)
(* its own (Counting), and what may happen before the first argument       *)
(* (NoInput) and after it (NoneEmpty).  The other loop of main, that of    *)
(* -I, has an invariant of its own, at the end (Collecting).               *)
(***************************************************************************)
EXTENDS XargsMain, BuildCmdProofs, WellFoundedInduction

Ending ==
    /\ phase = "finishing" => /\ pc \in {"exec", "idle"} \cup Failed
                              /\ pc = "exec" => ret = "idle"
                              /\ pc = "idle" => cmd_argv = <<>>
    /\ phase = "finished" => pc = "idle" /\ cmd_argv = <<>>

\* The argument in hand ends a counted line that is not in the list yet.
LineInHand == pending # <<>> /\ lineDone
Lines == listLines + (IF LineInHand THEN 1 ELSE 0)

Counting ==
    LinesPerExec # 0 =>
        /\ lineno \in Nat /\ listLines \in Nat
        /\ lineno <= LinesPerExec /\ Lines <= LinesPerExec
        /\ phase = "reading" => lineno < LinesPerExec
        /\ LineInHand => lineno > 0
        /\ pc \notin {"exec", "exec_too_big"} => Lines <= lineno

\* After some input: every command has something to run with.
NoneEmpty ==
    LinesPerExec = 0 /\ ~Query =>
        /\ taken # <<>> => emptyRuns = 0
        /\ taken # <<>> /\ pc = "exec" => done < Len(cmd_argv)
        /\ ~procs_executed => delivered = <<>>

NothingRun == emptyRuns = 0 /\ ~procs_executed

NoInput ==
    /\ ~first \/ phase = "line_end" => taken # <<>>
    /\ taken = <<>> /\ ~Query =>
          /\ pc \in {"idle", "exec"} \cup Failed
          /\ pc = "exec" => phase \in {"finishing", "failed"} /\ ret = "idle"
          /\ phase \in {"reading", "ending"} => NothingRun
          /\ phase = "finishing" =>
                /\ always_run_command
                /\ pc = "exec" => NothingRun
                /\ pc = "idle" => emptyRuns = 1
          /\ phase = "finished" => emptyRuns = IF always_run_command THEN 1 ELSE 0

------------------------------------------------------------------------------
(* main uses the library.                                                  *)

LEMMA StepsOfLibrary == [MainNext]_allVars => [Next]_vars
  BY DEF MainNext, MainStep, Reading, ReadArg, ReadLastArg, ReadArgAtEof, ReadEofString,
     ReadEof, ReadError, LineEnd, LastExec, LastExecDone, Push, Accepted, TooBig, CannotRun,
     LibraryError, Next, LibraryStep, allVars

\* main never calls bc_push_arg or bc_do_exec but from where it may.
THEOREM UsesLibrary == MainSpec => Spec
<1>1. MainInit => Init
  BY DEF MainInit
<1> QED BY <1>1, StepsOfLibrary, PTL DEF MainSpec, Spec

LEMMA LibraryInvariant == MainSpec => []IInv
  BY UsesLibrary, InductiveInvariant, PTL

------------------------------------------------------------------------------
(* The last command.                                                       *)

LEMMA EndingStep == Ending /\ [MainNext]_allVars => Ending'
<1> SUFFICES ASSUME Ending, [MainNext]_allVars PROVE Ending'
  OBVIOUS
<1>1. CASE Reading
  BY <1>1 DEF Reading, ReadArg, ReadLastArg, ReadArgAtEof, ReadEofString, ReadEof, ReadError,
     Ending
<1>2. CASE LineEnd \/ LastExec \/ LastExecDone
  BY <1>2 DEF LineEnd, LastExec, LastExecDone, NeedsLastExec, DoExec, StartExec, Ending, vars,
     argVars
<1>3. CASE Push
  BY <1>3 DEF Push, CheckCount, AppendArg, Ending, Ended, mainVars, Failed
<1>4. CASE Accepted
  BY <1>4 DEF Accepted, ExecAccepted, ClearArgs, Ending, Ended, argVars
<1>5. CASE TooBig
  BY <1>5 DEF TooBig, ExecTooBig, Ending, Ended, mainVars, argVars, Failed
<1>6. CASE CannotRun \/ LibraryError
  BY <1>6 DEF CannotRun, LibraryError, Ending
<1>7. CASE UNCHANGED allVars
  BY <1>7 DEF allVars, mainVars, vars, argVars, Ending
<1> QED BY <1>1, <1>2, <1>3, <1>4, <1>5, <1>6, <1>7 DEF MainNext, MainStep

\* Every argument xargs has read has been given to a command when main returns.
THEOREM InputIsUsed == MainSpec => []AllInputUsed
<1>1. MainInit => Ending
  BY DEF MainInit, Ending
<1>2. IInv /\ Ending => AllInputUsed
  <2> SUFFICES ASSUME IInv, Ending, phase = "finished"
               PROVE  delivered = taken /\ cmd_argv = <<>>
    BY DEF AllInputUsed
  <2>1. pc = "idle" /\ cmd_argv = <<>>
    BY DEF Ending
  <2>2. TypeOK /\ done = 0 /\ pending = <<>> /\ taken = delivered \o Rest \o pending
    BY <2>1 DEF IInv, ControlOK, ExactlyOnceInOrder
  <2>3. Rest = <<>> /\ delivered \in Seq(Item)
    BY <2>1, <2>2, RestIsAll DEF TypeOK
  <2> QED BY <2>1, <2>2, <2>3
<1> QED BY <1>1, <1>2, EndingStep, LibraryInvariant, PTL DEF MainSpec

------------------------------------------------------------------------------
(* -L.                                                                     *)

LEMMA CountingStep == IInv /\ Counting /\ [MainNext]_allVars => Counting'
<1> SUFFICES ASSUME IInv, Counting, LinesPerExec # 0, [MainNext]_allVars PROVE Counting'
  BY DEF Counting
<1> USE BuildCmdAssumption DEF BuildCmdAssumption
<1>1. ASSUME NEW a \in Item, ReadArg(a) \/ ReadLastArg(a) \/ ReadArgAtEof(a)
      PROVE  Counting'
  <2>1. pc = "idle" /\ phase = "reading" /\ pending = <<>> /\ UNCHANGED listLines
    BY <1>1 DEF ReadArg, ReadLastArg, ReadArgAtEof, PushArg, IInv, ControlOK
  <2>2. listLines <= lineno /\ lineno < LinesPerExec
    BY <2>1 DEF Counting, Lines, LineInHand
  <2>3. \/ ~lineDone' /\ lineno' = lineno
        \/ lineDone' /\ lineno' = lineno + 1 /\ phase' = "line_end"
    BY <1>1 DEF ReadArg, ReadLastArg, ReadArgAtEof
  <2> QED BY <2>1, <2>2, <2>3 DEF Counting, Lines, LineInHand
<1>2. CASE ReadEofString \/ ReadEof \/ ReadError
  <2>1. /\ pc = "idle" /\ phase = "reading" /\ UNCHANGED <<pending, listLines>>
        /\ pending = <<>> /\ lineno' \in {lineno, lineno + 1}
        /\ phase' # "reading"
    BY <1>2 DEF ReadEofString, ReadEof, ReadError, DoExec, vars, IInv, ControlOK
  <2> QED BY <2>1 DEF Counting, Lines, LineInHand
<1>3. CASE LineEnd
  <2>1. pc = "idle" /\ pending = <<>> /\ UNCHANGED <<pending, listLines>>
    BY <1>3 DEF LineEnd, DoExec, vars, IInv, ControlOK
  <2>2. listLines <= lineno
    BY <2>1 DEF Counting, Lines, LineInHand
  <2>3. \/ pc' = "exec" /\ lineno' = 0
        \/ UNCHANGED lineno /\ lineno < LinesPerExec
    BY <1>3 DEF LineEnd, EnoughLines, DoExec, StartExec, Counting
  <2> QED BY <2>1, <2>2, <2>3 DEF Counting, Lines, LineInHand
<1>4. CASE LastExec \/ LastExecDone \/ CannotRun \/ LibraryError
  <2>1. UNCHANGED <<pending, lineDone, lineno, listLines>> /\ phase' # "reading"
    BY <1>4 DEF LastExec, LastExecDone, CannotRun, LibraryError, DoExec, vars
  <2>2. pc' = pc \/ pc' = "exec"
    BY <1>4 DEF LastExec, LastExecDone, CannotRun, LibraryError, DoExec, StartExec, vars
  <2> QED BY <2>1, <2>2 DEF Counting, Lines, LineInHand
<1>5. CASE Push
  <2>1. /\ UNCHANGED <<phase, lineno, lineDone>> /\ pc \in {"count", "append"}
        /\ pending # <<>> /\ pending' \in {pending, <<>>}
        /\ listLines' = IF pending' = <<>> /\ lineDone THEN listLines + 1 ELSE listLines
    BY <1>5 DEF Push, mainVars, CheckCount, AppendArg, IInv, ControlOK
  <2>2. Lines' = Lines
    BY <2>1 DEF Lines, LineInHand, Counting
  <2> QED BY <2>1, <2>2 DEF Counting, LineInHand
<1>6. CASE Accepted
  <2>1. /\ UNCHANGED <<phase, lineno, lineDone, pending>> /\ pc = "exec"
        /\ listLines' = IF pc' = "exec" THEN listLines ELSE 0
    BY <1>6 DEF Accepted, ExecAccepted
  <2> QED BY <2>1 DEF Counting, Lines, LineInHand
<1>7. CASE TooBig
  <2>1. /\ UNCHANGED <<phase, lineno, lineDone, pending, listLines>>
        /\ pc' \in {"exec", "exec_too_big"}
    BY <1>7 DEF TooBig, ExecTooBig, mainVars
  <2> QED BY <2>1 DEF Counting, Lines, LineInHand
<1>8. CASE UNCHANGED allVars
  BY <1>8 DEF allVars, mainVars, vars, Counting, Lines, LineInHand
<1> QED
  BY <1>1, <1>2, <1>3, <1>4, <1>5, <1>6, <1>7, <1>8 DEF MainNext, MainStep, Reading

\* -L: no command gets more than LinesPerExec lines.
THEOREM LinesAreBounded == MainSpec => []LinesBounded
<1>1. MainInit => Counting
  BY BuildCmdAssumption DEF MainInit, Init, Counting, Lines, LineInHand, BuildCmdAssumption
<1>2. Counting => LinesBounded
  BY BuildCmdAssumption DEF Counting, Lines, LineInHand, LinesBounded, BuildCmdAssumption
<1> QED BY <1>1, <1>2, CountingStep, LibraryInvariant, PTL DEF MainSpec

------------------------------------------------------------------------------
(* -x.                                                                     *)

LEMMA ShortStep == IInv /\ ShortOnlyAtEnd /\ [MainNext]_allVars => ShortOnlyAtEnd'
<1> SUFFICES ASSUME IInv, ShortOnlyAtEnd, ExitIfSizeExceeded, LinesPerExec + ArgsPerExec > 0,
                    [MainNext]_allVars
             PROVE  ShortOnlyAtEnd'
  BY DEF ShortOnlyAtEnd
<1>0. SizeIsError
  BY BuildCmdAssumption DEF SizeIsError, BuildCmdAssumption
<1>1. CASE Reading
  <2>1. ASSUME NEW a \in Item, ReadArg(a) \/ ReadLastArg(a) \/ ReadArgAtEof(a)
        PROVE  pc' # "exec"
    BY <1>0, <2>1 DEF ReadArg, ReadLastArg, ReadArgAtEof, PushArg
  <2>2. CASE ReadEofString \/ ReadEof
    BY <2>2 DEF ReadEofString, ReadEof, vars, ShortOnlyAtEnd
  <2>3. CASE ReadError
    BY <2>3 DEF ReadError, ShortOnlyAtEnd
  <2> QED BY <1>1, <2>1, <2>2, <2>3 DEF Reading, ShortOnlyAtEnd
<1>2. CASE LineEnd
  <2>1. pending = <<>>
    BY <1>2 DEF LineEnd, IInv, ControlOK
  <2> QED BY <1>2, <2>1 DEF LineEnd, EnoughLines, DoExec, vars, ShortOnlyAtEnd
<1>3. CASE LastExec \/ LastExecDone \/ CannotRun \/ LibraryError
  BY <1>3 DEF LastExec, LastExecDone, CannotRun, LibraryError, ShortOnlyAtEnd
<1>4. CASE Push
  <2>1. CASE CheckCount
    BY <1>4, <2>1 DEF Push, CheckCount, ArgcLimitReached, ShortOnlyAtEnd
  <2>2. CASE AppendArg
    <3>1. PICK a \in Item : pending = <<a>>
      BY <2>2 DEF AppendArg, IInv, ControlOK, TypeOK
    <3>2. Len(cmd_argv') = Len(cmd_argv) + 1
      BY <2>2, <3>1 DEF AppendArg, IInv, TypeOK
    <3> QED BY <2>2, <3>2 DEF AppendArg, ArgcLimitReached, ShortOnlyAtEnd
  <2> QED BY <1>4, <2>1, <2>2 DEF Push
<1>5. CASE Accepted \/ TooBig \/ UNCHANGED allVars
  <2>1. \/ pc' # "exec"
        \/ pc = "exec" /\ UNCHANGED <<phase, cmd_argv, lineno, pending>>
    BY <1>5 DEF Accepted, TooBig, ExecAccepted, ExecTooBig, ClearArgs, argVars, mainVars, vars,
       allVars, IInv, TypeOK
  <2> QED BY <2>1 DEF ShortOnlyAtEnd
<1> QED BY <1>1, <1>2, <1>3, <1>4, <1>5 DEF MainNext, MainStep

\* "Exit if the size is exceeded": whatever the limits, a command run before the
\* input has ended was not cut short by its size.
THEOREM NeverCutShort == MainSpec => []ShortOnlyAtEnd
<1>1. MainInit => ShortOnlyAtEnd
  BY DEF MainInit, Init, ShortOnlyAtEnd
<1> QED BY <1>1, ShortStep, LibraryInvariant, PTL DEF MainSpec

------------------------------------------------------------------------------
(* No input.                                                               *)

\* Before the first argument the list is empty, and its one try ends the call.
LEMMA NothingTaken ==
    ASSUME IInv, taken = <<>>
    PROVE  /\ pending = <<>>
           /\ done = Len(cmd_argv)
           /\ pc = "idle" => cmd_argv = <<>>
           /\ pc = "exec" => WorkingArgs = <<>> /\ ~(done + Copied < Len(cmd_argv))
<1>1. TypeOK /\ done <= Len(cmd_argv) /\ Len(cmd_argv) \in Nat
  BY LenProperties DEF IInv, ControlOK, TypeOK
<1>2. delivered \in Seq(Item) /\ Rest \in Seq(Item) /\ pending \in Seq(Item)
  BY <1>1, PartsType DEF TypeOK
<1>3. Len(delivered \o Rest \o pending) = Len(delivered) + Len(Rest) + Len(pending)
  BY <1>2
<1>4. Len(Rest) = 0 /\ Len(pending) = 0
  BY <1>2, <1>3 DEF IInv, ExactlyOnceInOrder
<1>5. pending = <<>>
  BY <1>2, <1>4
<1>6. done = Len(cmd_argv)
  BY <1>1, <1>4 DEF Rest, TypeOK
<1>7. pc = "idle" => cmd_argv = <<>>
  BY <1>1, <1>6, EmptySeq DEF IInv, ControlOK, TypeOK
<1>8. ASSUME pc = "exec" PROVE WorkingArgs = <<>> /\ ~(done + Copied < Len(cmd_argv))
  <2>1. Copied \in Nat
    BY <1>1, <1>8, OneTry DEF IInv, ControlOK
  <2> DEFINE last == Smaller(done + Copied, Len(cmd_argv))
  <2>2. last \in Int /\ last < done + 1
    BY <1>1, <1>6, <2>1 DEF Smaller
  <2> HIDE DEF last
  <2>3. SubSeq(cmd_argv, done + 1, last) = <<>>
    BY <1>1, <2>2 DEF TypeOK
  <2> QED BY <1>1, <1>6, <2>1, <2>3 DEF WorkingArgs, last
<1> QED BY <1>5, <1>6, <1>7, <1>8

LEMMA NoInputStep == IInv /\ NoInput /\ [MainNext]_allVars => NoInput'
<1> SUFFICES ASSUME IInv, NoInput, [MainNext]_allVars PROVE NoInput'
  OBVIOUS
<1>1. ASSUME NEW a \in Item, ReadArg(a) \/ ReadLastArg(a) \/ ReadArgAtEof(a)
      PROVE  NoInput'
  <2>1. taken' # <<>>
    BY <1>1 DEF ReadArg, ReadLastArg, ReadArgAtEof, PushArg, IInv, TypeOK
  <2> QED BY <2>1 DEF NoInput
<1>2. CASE ReadEofString \/ ReadEof
  BY <1>2 DEF ReadEofString, ReadEof, NoInput, NothingRun, vars, Failed
<1>3. CASE ReadError
  <2>1. UNCHANGED <<taken, first, always_run_command>> /\ phase' \in {"failed", "failing"}
    BY <1>3 DEF ReadError, DoExec, MainNext, vars, allVars
  <2>2. taken = <<>> => phase' = "failed" /\ UNCHANGED vars
    BY <1>3, NothingTaken DEF ReadError
  <2> QED BY <1>3, <2>1, <2>2 DEF ReadError, NoInput, vars, Failed
<1>4. CASE LineEnd
  BY <1>4 DEF LineEnd, DoExec, NoInput, vars
<1>5. CASE LastExec
  <2>1. /\ phase = "ending" /\ pc = "idle"
        /\ UNCHANGED <<taken, first, always_run_command, emptyRuns, procs_executed>>
    BY <1>5 DEF LastExec, DoExec, MainNext, vars, allVars
  <2>2. taken = <<>> /\ ~Query => NothingRun /\ cmd_argv = <<>>
    BY <2>1, NothingTaken DEF NoInput
  <2>3. CASE NeedsLastExec
    BY <1>5, <2>1, <2>2, <2>3 DEF LastExec, DoExec, StartExec, NeedsLastExec, NoInput,
       NothingRun
  <2>4. CASE ~NeedsLastExec
    BY <1>5, <2>1, <2>2, <2>4 DEF LastExec, NeedsLastExec, NoInput, NothingRun, vars
  <2> QED BY <2>3, <2>4
<1>6. CASE LastExecDone \/ CannotRun \/ LibraryError
  BY <1>6 DEF LastExecDone, CannotRun, LibraryError, NoInput, vars, MainNext, allVars
<1>7. CASE Push
  <2>1. /\ UNCHANGED <<phase, first, taken, always_run_command, emptyRuns, procs_executed>>
        /\ pc \in {"count", "append"}
    BY <1>7 DEF Push, CheckCount, AppendArg, mainVars, MainNext, allVars
  <2>2. taken # <<>>
    BY <2>1, NothingTaken DEF IInv, ControlOK
  <2> QED BY <2>1, <2>2 DEF NoInput
<1>8. CASE Accepted
  <2>1. UNCHANGED <<phase, first, taken, always_run_command>> /\ pc = "exec"
        /\ phase \notin Ended
    BY <1>8 DEF Accepted, ExecAccepted, MainNext, allVars, vars
  <2>2. ASSUME taken = <<>>, ~Query
        PROVE  phase = "finishing" /\ pc' = "idle" /\ emptyRuns' = 1
    <3>1. phase = "finishing" /\ ret = "idle" /\ emptyRuns = 0
      BY <2>1, <2>2 DEF NoInput, NothingRun, Ended
    <3>2. WorkingArgs = <<>> /\ ~(done + Copied < Len(cmd_argv))
      BY <2>1, <2>2, NothingTaken
    <3> QED BY <1>8, <2>2, <3>1, <3>2 DEF Accepted, ExecAccepted, Smaller
  <2> QED BY <2>1, <2>2 DEF NoInput
<1>9. CASE TooBig
  <2>1. /\ UNCHANGED <<phase, first, taken, ret, always_run_command, emptyRuns,
                       procs_executed>>
        /\ pc = "exec" /\ pc' \in {"exec", "exec_too_big"} /\ phase \notin Ended
    BY <1>9 DEF TooBig, ExecTooBig, mainVars, MainNext, allVars
  <2> QED BY <2>1 DEF NoInput, NothingRun, Failed, Ended
<1>10. CASE UNCHANGED allVars
  BY <1>10 DEF allVars, mainVars, vars, NoInput, NothingRun
<1> QED
  BY <1>1, <1>2, <1>3, <1>4, <1>5, <1>6, <1>7, <1>8, <1>9, <1>10
  DEF MainNext, MainStep, Reading

\* Without input the command runs once, with -r not at all.
THEOREM NoInputRunsOnce == MainSpec => []EmptyInputRule
<1>1. MainInit => NoInput
  BY DEF MainInit, Init, NoInput, NothingRun
<1>2. NoInput => EmptyInputRule
  BY DEF NoInput, EmptyInputRule
<1> QED BY <1>1, <1>2, NoInputStep, LibraryInvariant, PTL DEF MainSpec

------------------------------------------------------------------------------
(* Some input.                                                             *)

LEMMA NoneEmptyStep == IInv /\ NoInput /\ NoneEmpty /\ [MainNext]_allVars => NoneEmpty'
<1> SUFFICES ASSUME IInv, NoInput, NoneEmpty, LinesPerExec = 0, ~Query, [MainNext]_allVars
             PROVE  NoneEmpty'
  BY DEF NoneEmpty
<1>0. TypeOK /\ Len(cmd_argv) \in Nat /\ (cmd_argv # <<>> => Len(cmd_argv) > 0)
  BY LenProperties, EmptySeq DEF IInv, TypeOK
<1>1. ASSUME NEW a \in Item, ReadArg(a) \/ ReadLastArg(a) \/ ReadArgAtEof(a)
      PROVE  NoneEmpty'
  <2>1. /\ UNCHANGED <<emptyRuns, procs_executed, delivered, cmd_argv>> /\ phase = "reading"
        /\ pc' = "exec" => cmd_argv # <<>> /\ done' = 0
    BY <1>1 DEF ReadArg, ReadLastArg, ReadArgAtEof, PushArg, StartExec
  <2>2. emptyRuns = 0
    BY <2>1 DEF NoneEmpty, NoInput, NothingRun
  <2> QED BY <1>0, <2>1, <2>2 DEF NoneEmpty
<1>2. CASE ReadEofString \/ ReadEof \/ LastExecDone \/ CannotRun \/ LibraryError
  BY <1>2 DEF ReadEofString, ReadEof, LastExecDone, CannotRun, LibraryError, NoneEmpty, vars,
     argVars, execVars
<1>3. CASE ReadError \/ LineEnd
  <2>1. /\ UNCHANGED <<taken, delivered, cmd_argv, emptyRuns, procs_executed>>
        /\ \/ UNCHANGED <<pc, done>>
           \/ cmd_argv # <<>> /\ done' = 0
    BY <1>3 DEF ReadError, LineEnd, EnoughLines, DoExec, StartExec, vars, argVars, execVars
  <2> QED BY <1>0, <2>1 DEF NoneEmpty
<1>4. CASE LastExec
  <2>1. /\ UNCHANGED <<taken, delivered, cmd_argv, emptyRuns, procs_executed>> /\ pc = "idle"
        /\ \/ UNCHANGED pc
           \/ done' = 0 /\ NeedsLastExec
    BY <1>4 DEF LastExec, DoExec, StartExec, vars, argVars
  <2>2. taken # <<>> /\ cmd_argv = <<>> => delivered # <<>>
    <3>1. done = 0 /\ pending = <<>> /\ taken = delivered \o Rest \o pending
      BY <2>1 DEF IInv, ControlOK, ExactlyOnceInOrder
    <3> QED BY <1>0, <3>1, RestIsAll DEF TypeOK
  <2>3. taken # <<>> /\ NeedsLastExec => cmd_argv # <<>>
    BY <2>2 DEF NeedsLastExec, NoneEmpty
  <2> QED BY <1>0, <2>1, <2>3 DEF NoneEmpty
<1>5. CASE Push
  <2>1. UNCHANGED <<taken, delivered, emptyRuns, procs_executed>>
    BY <1>5 DEF Push, CheckCount, AppendArg, mainVars
  <2>2. pc' = "exec" => done' = 0 /\ Len(cmd_argv') > 0
    <3>1. CASE CheckCount
      <4>1. ~ArgcLimitReached(Len(cmd_argv))
        BY <1>0, <3>1, BuildCmdAssumption
        DEF CheckCount, ArgcLimitReached, IInv, RoomOK, BuildCmdAssumption
      <4> QED BY <3>1, <4>1 DEF CheckCount
    <3>2. CASE AppendArg
      <4>1. PICK a \in Item : pending = <<a>>
        BY <3>2 DEF AppendArg, IInv, ControlOK, TypeOK
      <4>2. Len(cmd_argv') = Len(cmd_argv) + 1
        BY <1>0, <3>2, <4>1 DEF AppendArg, TypeOK
      <4> QED BY <1>0, <3>2, <4>2 DEF AppendArg, StartExec, IInv, ControlOK
    <3> QED BY <1>5, <3>1, <3>2 DEF Push
  <2>3. done \in Nat
    BY <1>0 DEF TypeOK
  <2> QED BY <2>1, <2>2 DEF NoneEmpty
<1>6. CASE Accepted
  <2>1. UNCHANGED <<taken>> /\ pc = "exec" /\ procs_executed'
    BY <1>6 DEF Accepted, ExecAccepted
  <2>2. ASSUME taken # <<>>
        PROVE  emptyRuns' = 0 /\ (pc' = "exec" => done' < Len(cmd_argv'))
    <3>1. done < Len(cmd_argv) /\ done \in Nat /\ limit >= Floor /\ limit \in Nat
      BY <1>0, <2>1, <2>2 DEF NoneEmpty, IInv, ControlOK, TypeOK
    <3>2. Copied \in Nat /\ Copied > 0
      BY <1>0, <3>1, BuildCmdAssumption DEF Copied, Smaller, Floor, BuildCmdAssumption
    <3> DEFINE last == Smaller(done + Copied, Len(cmd_argv))
    <3>3. last \in Int /\ last >= done + 1
      BY <1>0, <3>1, <3>2 DEF Smaller
    <3>4. last <= Len(cmd_argv)
      BY <1>0, <3>1, <3>2 DEF Smaller
    <3> HIDE DEF last
    <3>5. SubSeq(cmd_argv, done + 1, last) # <<>>
      BY <1>0, <3>1, <3>3, <3>4 DEF TypeOK
    <3>6. WorkingArgs # <<>>
      BY <3>5 DEF WorkingArgs, last
    <3>7. emptyRuns' = 0
      BY <1>6, <2>2, <3>6 DEF Accepted, NoneEmpty
    <3>8. CASE done + Copied < Len(cmd_argv)
      BY <1>6, <3>7, <3>8 DEF Accepted, ExecAccepted, argVars
    <3>9. CASE ~(done + Copied < Len(cmd_argv))
      BY <1>0, <1>6, <3>7, <3>9, <2>1 DEF Accepted, ExecAccepted, TypeOK
    <3> QED BY <3>8, <3>9
  <2> QED BY <2>1, <2>2 DEF NoneEmpty
<1>7. CASE TooBig
  <2>1. UNCHANGED <<taken, delivered, cmd_argv, done, emptyRuns, procs_executed>> /\ pc = "exec"
    BY <1>7 DEF TooBig, ExecTooBig, mainVars, argVars, execVars
  <2> QED BY <2>1 DEF NoneEmpty
<1>8. CASE UNCHANGED allVars
  BY <1>8 DEF allVars, mainVars, vars, argVars, execVars, NoneEmpty
<1> QED
  BY <1>1, <1>2, <1>3, <1>4, <1>5, <1>6, <1>7, <1>8 DEF MainNext, MainStep, Reading

\* After some input no command runs without arguments, unless lines are
\* counted.  (With -L one may: see NoEmptyCommandAfterInput.)
THEOREM CommandsHaveArguments ==
    ASSUME LinesPerExec = 0, ~Query
    PROVE  MainSpec => []NoEmptyCommandAfterInput
<1>1. MainInit => NoInput /\ NoneEmpty
  BY DEF MainInit, Init, NoInput, NothingRun, NoneEmpty
<1>2. NoneEmpty => NoEmptyCommandAfterInput
  BY DEF NoneEmpty, NoEmptyCommandAfterInput
<1> QED BY <1>1, <1>2, NoInputStep, NoneEmptyStep, LibraryInvariant, PTL DEF MainSpec

------------------------------------------------------------------------------
(* The loop of -I.                                                         *)

CONSTANTS Words, ReplaceLines
VARIABLES line, word, refused

Replace == INSTANCE XargsReplace WITH Lines <- ReplaceLines

\* The template leaves room in the list: a word that filled it would make
\* bc_push_arg run the list before main does.
TemplateFits == Replace!ReplaceOptions /\ Words < MaxArgCount

\* The first n words of the template for the line in hand.
FirstWords(n) == [w \in 1 .. n |-> <<w, line>>]

\* How many words are in the list: the last one may still be pending.
WordsIn == IF pc = "idle" THEN word - 1 ELSE word - 2

\* While words are pushed, the list and its characters are those of the words
\* pushed, and bc_push_arg runs no command; main runs the whole template, and the
\* first try of bc_do_exec is for all of it.
Collecting ==
    /\ line \in ReplaceLines /\ word \in 1 .. Words + 1
    /\ phase \in {"reading", "pushing"} \cup Replace!Ended
    /\ phase = "reading" => /\ pc \in {"idle", "exec", "exec_too_big"}
                            /\ pc = "exec" => cmd_argv = Replace!Template /\ ret = "idle"
                            /\ pc = "exec" /\ ~refused => done = 0 /\ limit = Words + 1
    /\ phase = "pushing" =>
          /\ pc \in {"idle", "count", "append", "cannot_fit", "list_too_long"}
          /\ pc # "idle" => word > 1
          /\ pc \in {"count", "append"} => pending = << <<word - 1, line>> >>
          /\ cmd_argv = FirstWords(WordsIn)
          /\ cmd_argv_chars = Replace!CharsUpTo(line)[WordsIn]
    /\ phase \in Replace!Ended => pc # "exec"
    /\ Replace!TooLongIsTrue

\* The characters of a line are counted word by word.
SumOf(f, n, size) ==
    /\ f \in [0 .. n -> Nat]
    /\ f[0] = 0 /\ \A k \in 1 .. n : f[k] = f[k - 1] + size[k]

\* What holds of 0, and of each number up to n if of the one before, holds of
\* all of them.
LEMMA UpToAll ==
    ASSUME NEW n \in Nat, NEW T, 0 \in T, \A k \in 1 .. n : k - 1 \in T => k \in T
    PROVE  0 .. n \subseteq T
<1> DEFINE bad == {k \in 0 .. n : k \notin T}
<1>1. SUFFICES ASSUME bad # {} PROVE FALSE
  OBVIOUS
<1>2. PICK k \in bad : \A j \in bad : <<j, k>> \notin OpToRel(<, Nat)
  <2>1. bad \subseteq Nat
    OBVIOUS
  <2> HIDE DEF bad
  <2> QED BY <1>1, <2>1, NatLessThanWellFounded, WFMin, Zenon
<1>3. k \in 1 .. n /\ k - 1 \in Nat /\ k \in Nat /\ k - 1 < k /\ k - 1 \in 0 .. n
  OBVIOUS
<1>4. k - 1 \notin bad
  BY <1>2, <1>3 DEF OpToRel
<1> QED BY <1>3, <1>4

LEMMA SumsExist ==
    ASSUME NEW n \in Nat, NEW size \in [1 .. n -> Nat]
    PROVE  \E f : SumOf(f, n, size)
<1> DEFINE Upto(m, f) == /\ f \in [0 .. m -> Nat]
                         /\ f[0] = 0 /\ \A k \in 1 .. m : f[k] = f[k - 1] + size[k]
           T == {m \in 0 .. n : \E f : Upto(m, f)}
<1>1. 0 \in T
  <2>1. Upto(0, [k \in 0 .. 0 |-> 0])
    OBVIOUS
  <2> HIDE DEF Upto
  <2> QED BY <2>1
<1>2. ASSUME NEW m \in 1 .. n, m - 1 \in T PROVE m \in T
  <2>1. PICK f : Upto(m - 1, f)
    BY <1>2
  <2> DEFINE g == [k \in 0 .. m |-> IF k = m THEN f[m - 1] + size[m] ELSE f[k]]
  <2>2. f[m - 1] \in Nat /\ size[m] \in Nat /\ \A k \in 0 .. m - 1 : f[k] \in Nat
    BY <2>1
  <2>3. g \in [0 .. m -> Nat]
    BY <2>2
  <2>4. g[0] = 0
    BY <2>1
  <2>5. ASSUME NEW k \in 1 .. m PROVE g[k] = g[k - 1] + size[k]
    <3>1. CASE k = m
      BY <3>1
    <3>2. CASE k # m
      <4>1. k \in 1 .. m - 1
        BY <3>2
      <4> QED BY <2>1, <4>1
    <3> QED BY <3>1, <3>2
  <2> HIDE DEF g
  <2>6. Upto(m, g)
    BY <2>3, <2>4, <2>5
  <2> HIDE DEF Upto
  <2> QED BY <2>6
<1> HIDE DEF Upto
<1>3. 0 .. n \subseteq T
  <2> HIDE DEF T
  <2> QED BY <1>1, <1>2, UpToAll
<1>4. PICK f : Upto(n, f)
  <2>1. n \in 0 .. n
    OBVIOUS
  <2> QED BY <1>3, <2>1
<1> QED BY <1>4 DEF Upto, SumOf

LEMMA CharsAreSums ==
    ASSUME Replace!ReplaceOptions, NEW l \in ReplaceLines
    PROVE  SumOf(Replace!CharsUpTo(l), Words, [k \in 1 .. Words |-> Size[<<k, l>>]])
<1> DEFINE size == [k \in 1 .. Words |-> Size[<<k, l>>]]
           Is(f) == f = [k \in 0 .. Words |->
                            IF k = 0 THEN 0 ELSE f[k - 1] + Size[<<k, l>>]]
<1>1. Words \in Nat /\ size \in [1 .. Words -> Nat]
  BY BuildCmdAssumption DEF BuildCmdAssumption, Replace!ReplaceOptions
<1>2. PICK f : SumOf(f, Words, size)
  <2> HIDE DEF size
  <2> QED BY <1>1, SumsExist
<1>3. Is(f)
  <2>1. ASSUME NEW k \in 0 .. Words
        PROVE  f[k] = IF k = 0 THEN 0 ELSE f[k - 1] + Size[<<k, l>>]
    BY <1>1, <1>2 DEF SumOf
  <2>2. f = [k \in 0 .. Words |-> f[k]]
    BY <1>2 DEF SumOf
  <2> QED BY <2>1, <2>2
<1>4. Replace!CharsUpTo(l) = CHOOSE f1 : Is(f1)
  BY DEF Replace!CharsUpTo
<1>5. Is(Replace!CharsUpTo(l))
  <2> HIDE DEF Is
  <2> QED BY <1>3, <1>4
<1> DEFINE chars == Replace!CharsUpTo(l)
<1>6. /\ chars = [k \in 0 .. Words |-> chars[k]]
      /\ \A k \in 0 .. Words : chars[k] = IF k = 0 THEN 0 ELSE chars[k - 1] + Size[<<k, l>>]
  BY <1>5
<1> HIDE DEF chars, Is
<1>7. chars[0] = 0 /\ \A k \in 1 .. Words : chars[k] = chars[k - 1] + size[k]
  <2>1. ASSUME NEW k \in 1 .. Words PROVE chars[k] = chars[k - 1] + size[k]
    <3>1. k \in 0 .. Words /\ k # 0
      BY <1>1
    <3>2. size[k] = Size[<<k, l>>]
      OBVIOUS
    <3> HIDE DEF size
    <3> QED BY <1>6, <3>1, <3>2
  <2>2. 0 \in 0 .. Words
    BY <1>1
  <2> QED BY <1>6, <2>1, <2>2
<1>8. \A k \in 0 .. Words : chars[k] \in Nat
  <2> DEFINE T == {k \in 0 .. Words : chars[k] \in Nat}
  <2>1. 0 \in T /\ \A k \in 1 .. Words : k - 1 \in T => k \in T
    <3> HIDE DEF size
    <3> QED BY <1>1, <1>7
  <2>2. 0 .. Words \subseteq T
    <3> HIDE DEF T
    <3> QED BY <1>1, <2>1, UpToAll
  <2> QED BY <2>2
<1> HIDE DEF size
<1>9. chars \in [0 .. Words -> Nat]
  BY <1>6, <1>8
<1>10. SumOf(chars, Words, size)
  BY <1>7, <1>9 DEF SumOf
<1> QED BY <1>10 DEF chars, size

\* No prefix of a line has more characters than the line.
LEMMA CharsGrow ==
    ASSUME Replace!ReplaceOptions, NEW l \in ReplaceLines
    PROVE  LET chars == Replace!CharsUpTo(l)
           IN /\ chars[0] = 0
              /\ \A k \in 1 .. Words : chars[k] = chars[k - 1] + Size[<<k, l>>]
              /\ \A k \in 0 .. Words : chars[k] \in Nat /\ chars[k] <= chars[Words]
<1> DEFINE chars == Replace!CharsUpTo(l)
           size == [k \in 1 .. Words |-> Size[<<k, l>>]]
<1>1. Words \in Nat /\ size \in [1 .. Words -> Nat]
  BY BuildCmdAssumption DEF BuildCmdAssumption, Replace!ReplaceOptions
<1>2. SumOf(chars, Words, size)
  BY CharsAreSums
<1> HIDE DEF chars
<1>3. \A k \in 1 .. Words : chars[k] = chars[k - 1] + Size[<<k, l>>]
  BY <1>2 DEF SumOf
<1> HIDE DEF size
<1>4. chars[0] = 0 /\ \A k \in 0 .. Words : chars[k] \in Nat
  BY <1>2 DEF SumOf
<1>5. \A k \in 1 .. Words : chars[k - 1] <= chars[k]
  <2>1. ASSUME NEW k \in 1 .. Words PROVE chars[k - 1] <= chars[k]
    <3>1. k - 1 \in 0 .. Words /\ chars[k - 1] \in Nat /\ size[k] \in Nat
      BY <1>1, <1>4
    <3>2. chars[k] = chars[k - 1] + size[k]
      BY <1>2 DEF SumOf
    <3> QED BY <3>1, <3>2
  <2> QED BY <2>1
<1> DEFINE T == {j \in 0 .. Words : chars[Words - j] <= chars[Words]}
<1>6. 0 \in T
  BY <1>1, <1>4
<1>7. ASSUME NEW j \in 1 .. Words, j - 1 \in T PROVE j \in T
  <2> DEFINE k == Words - (j - 1)
  <2>1. k \in 1 .. Words /\ k \in 0 .. Words /\ k - 1 \in 0 .. Words /\ k - 1 = Words - j
        /\ Words \in 0 .. Words
    BY <1>1
  <2>2. chars[k] <= chars[Words]
    BY <1>7
  <2> HIDE DEF k
  <2>3. chars[k - 1] <= chars[Words]
    BY <1>4, <1>5, <2>1, <2>2
  <2> QED BY <2>1, <2>3
<1>8. 0 .. Words \subseteq T
  <2> HIDE DEF T
  <2> QED BY <1>1, <1>6, <1>7, UpToAll
<1>9. ASSUME NEW k \in 0 .. Words PROVE chars[k] <= chars[Words]
  <2>1. Words - k \in 0 .. Words /\ Words - (Words - k) = k
    BY <1>1
  <2>2. Words - k \in T
    <3> HIDE DEF T
    <3> QED BY <1>8, <2>1
  <2> QED BY <2>1, <2>2
<1> QED BY <1>3, <1>4, <1>9 DEF chars

LEMMA CollectingInit ==
    ASSUME TemplateFits, Replace!ReplaceInit
    PROVE  Collecting
BY DEF TemplateFits, Replace!ReplaceOptions, Replace!ReplaceInit, Replace!Init, Collecting,
       Replace!TooLongIsTrue

LEMMA PushStep ==
    ASSUME TemplateFits, Collecting, Replace!PushWord
    PROVE  Collecting'
<1> DEFINE a == <<word, line>>
           chars == Replace!CharsUpTo(line)
<1>1. /\ phase = "pushing" /\ word \in 1 .. Words /\ pc = "idle" /\ line \in ReplaceLines
      /\ line' = line /\ Words \in Nat
  BY DEF Replace!PushWord, Collecting, TemplateFits, Replace!ReplaceOptions
<1>2. CASE Replace!TooLongToInsert(a)
  BY <1>1, <1>2 DEF Replace!PushWord, Replace!vars, Replace!argVars, Replace!execVars,
     Collecting, Replace!Ended, Replace!TooLongIsTrue
<1>3. CASE ~Replace!TooLongToInsert(a)
  <2>1. /\ Replace!PushArg(a) /\ word' = word + 1 /\ phase' = phase
        /\ UNCHANGED <<cmd_argv, cmd_argv_chars>>
    BY <1>3 DEF Replace!PushWord, Replace!PushArg
  <2>2. /\ pc' \in {"count", "cannot_fit", "list_too_long"} /\ pending' = <<a>>
        /\ pc' # "count" => cmd_argv_chars + Size[a] > ArgMax
    BY <2>1 DEF Replace!PushArg, Replace!SizeIsError, TemplateFits, Replace!ReplaceOptions
  <2>3. WordsIn = word - 1 /\ WordsIn' = word - 1 /\ word' - 1 = word
    BY <1>1, <2>1, <2>2 DEF WordsIn
  <2>4. cmd_argv = FirstWords(word - 1) /\ cmd_argv_chars = chars[word - 1]
    BY <1>1, <2>3 DEF Collecting
  <2>5. cmd_argv' = FirstWords(WordsIn)' /\ cmd_argv_chars' = Replace!CharsUpTo(line')[WordsIn']
    BY <1>1, <2>1, <2>3, <2>4 DEF FirstWords
  <2>6. ASSUME pc' # "count" PROVE Replace!CharsUpTo(line')[Words] > ArgMax
    <3> HIDE DEF chars
    <3>0. ArgMax \in Nat
      BY BuildCmdAssumption DEF BuildCmdAssumption
    <3>1. chars[word] = chars[word - 1] + Size[a]
      BY <1>1, CharsGrow DEF chars, TemplateFits
    <3>2. /\ word \in 0 .. Words /\ Words \in 0 .. Words
          /\ chars[word] \in Nat /\ chars[Words] \in Nat /\ chars[word] <= chars[Words]
      BY <1>1, CharsGrow DEF chars, TemplateFits
    <3>3. chars[word] > ArgMax
      BY <2>2, <2>4, <2>6, <3>1
    <3>4. chars[Words] > ArgMax
      BY <3>0, <3>2, <3>3
    <3> QED BY <1>1, <3>4 DEF chars
  <2>7. word' \in 1 .. Words + 1 /\ word' > 1
    BY <1>1, <2>1
  <2> QED
    BY <1>1, <2>1, <2>2, <2>3, <2>5, <2>6, <2>7 DEF Collecting, Replace!Ended,
       Replace!TooLongIsTrue
<1> QED BY <1>2, <1>3

LEMMA LibraryCollects ==
    ASSUME TemplateFits, Collecting, Replace!Library
    PROVE  Collecting'
<1> DEFINE chars == Replace!CharsUpTo(line)
           room == Replace!ArgcLimitReached(Len(cmd_argv))
<1>1. /\ phase \notin Replace!Ended /\ UNCHANGED <<line, word, phase>>
      /\ Words \in Nat
      /\ line \in ReplaceLines /\ word \in 1 .. Words + 1
  BY DEF Replace!Library, Collecting, TemplateFits, Replace!ReplaceOptions
<1>2. \A n \in Nat : Len(FirstWords(n)) = n
  BY DEF FirstWords
<1>3. \A n \in 0 .. Words : ~Replace!ArgcLimitReached(n)
  BY <1>1, BuildCmdAssumption DEF Replace!ArgcLimitReached, TemplateFits,
     Replace!ReplaceOptions, BuildCmdAssumption
<1>4. CASE Replace!CheckCount
  <2>1. pc = "count" /\ phase = "pushing"
    BY <1>1, <1>4 DEF Replace!CheckCount, Collecting, Replace!Ended
  <2>2. /\ word > 1 /\ word - 2 \in 0 .. Words /\ cmd_argv = FirstWords(word - 2)
        /\ cmd_argv_chars = Replace!CharsUpTo(line)[word - 2]
        /\ pending = << <<word - 1, line>> >>
    BY <1>1, <2>1 DEF Collecting, WordsIn
  <2>3. ~room
    BY <1>2, <1>3, <2>2
  <2>4. pc' = "append" /\ UNCHANGED <<cmd_argv, cmd_argv_chars, pending>>
    BY <1>4, <2>3 DEF Replace!CheckCount
  <2>5. WordsIn' = word - 2
    BY <1>1, <2>4 DEF WordsIn
  <2> QED
    BY <1>1, <2>1, <2>2, <2>4, <2>5 DEF Collecting, FirstWords, Replace!Ended,
       Replace!TooLongIsTrue
<1>5. CASE Replace!AppendArg
  <2>1. pc = "append" /\ phase = "pushing"
    BY <1>1, <1>5 DEF Replace!AppendArg, Collecting, Replace!Ended
  <2>2. /\ word > 1 /\ word - 2 \in 0 .. Words /\ cmd_argv = FirstWords(word - 2)
        /\ cmd_argv_chars = chars[word - 2]
        /\ pending = << <<word - 1, line>> >>
    BY <1>1, <2>1 DEF Collecting, WordsIn
  <2>3. Len(cmd_argv) + 1 = word - 1 /\ word - 1 \in 1 .. Words /\ word - 1 \in 0 .. Words
    BY <1>1, <1>2, <2>2
  <2>4. ~Replace!ArgcLimitReached(Len(cmd_argv) + 1)
    BY <1>3, <2>3
  <2>5. /\ pc' = "idle" /\ cmd_argv' = cmd_argv \o pending
        /\ cmd_argv_chars' = cmd_argv_chars + Size[<<word - 1, line>>]
    <3>1. PrefixLen = 0
      BY DEF TemplateFits, Replace!ReplaceOptions
    <3>2. chars[word - 2] \in Nat
      <4> HIDE DEF chars
      <4> QED BY <1>1, <2>2, CharsGrow DEF chars, TemplateFits
    <3>3. Size[<<word - 1, line>>] \in Nat
      BY <1>1, <2>3, BuildCmdAssumption DEF BuildCmdAssumption, TemplateFits,
         Replace!ReplaceOptions
    <3> HIDE DEF chars
    <3> QED BY <1>5, <2>2, <2>4, <3>1, <3>2, <3>3 DEF Replace!AppendArg
  <2>6. FirstWords(word - 2) \o << <<word - 1, line>> >> = FirstWords(word - 1)
    <3>1. ASSUME NEW n \in Nat, n = word - 2
          PROVE  FirstWords(n) \o << <<n + 1, line>> >> = FirstWords(n + 1)
      BY DEF FirstWords
    <3> QED BY <1>1, <2>2, <3>1
  <2>7. chars[word - 1] = chars[word - 2] + Size[<<word - 1, line>>]
    <3> HIDE DEF chars
    <3>1. \A k \in 1 .. Words : chars[k] = chars[k - 1] + Size[<<k, line>>]
      BY <1>1, CharsGrow DEF chars, TemplateFits
    <3>2. word - 1 - 1 = word - 2
      BY <1>1
    <3> QED BY <2>3, <3>1, <3>2
  <2>8. WordsIn' = word - 1
    BY <1>1, <2>5 DEF WordsIn
  <2> QED
    BY <1>1, <2>1, <2>2, <2>5, <2>6, <2>7, <2>8 DEF Collecting, FirstWords, Replace!Ended,
       Replace!TooLongIsTrue
<1>6. CASE Replace!ExecAccepted /\ UNCHANGED refused
  <2>1. pc = "exec" /\ phase = "reading" /\ ret = "idle" /\ cmd_argv = Replace!Template
    BY <1>1, <1>6 DEF Replace!ExecAccepted, Collecting, Replace!Ended
  <2>2. \/ pc' = "exec" /\ ret' = "idle" /\ cmd_argv' = cmd_argv
           /\ done + Replace!Copied < Len(cmd_argv)
        \/ pc' = "idle"
    BY <1>6, <2>1 DEF Replace!ExecAccepted, Replace!argVars
  <2>3. Replace!Template' = Replace!Template
    BY <1>1 DEF Replace!Template
  <2>4. pc' = "exec" => refused /\ refused'
    <3>1. Len(cmd_argv) = Words
      BY <1>1, <2>1 DEF Replace!Template
    <3>2. ASSUME ~refused PROVE ~(done + Replace!Copied < Len(cmd_argv))
      <4>1. done = 0 /\ limit = Words + 1
        BY <2>1, <3>2 DEF Collecting
      <4> QED BY <1>1, <3>1, <4>1 DEF Replace!Copied, Replace!Smaller, TemplateFits,
                 Replace!ReplaceOptions
    <3> QED BY <1>6, <2>2, <3>2
  <2> QED
    BY <1>1, <1>6, <2>1, <2>2, <2>3, <2>4 DEF Collecting, Replace!Ended, Replace!TooLongIsTrue
<1>7. CASE Replace!ExecTooBig /\ refused'
  <2>1. pc = "exec" /\ phase = "reading" /\ ret = "idle" /\ cmd_argv = Replace!Template
    BY <1>1, <1>7 DEF Replace!ExecTooBig, Collecting, Replace!Ended
  <2>2. pc' \in {"exec", "exec_too_big"} /\ UNCHANGED <<ret, cmd_argv>>
    BY <1>7, <2>1 DEF Replace!ExecTooBig, Replace!argVars
  <2>3. Replace!Template' = Replace!Template
    BY <1>1 DEF Replace!Template
  <2> QED
    BY <1>1, <1>7, <2>1, <2>2, <2>3 DEF Collecting, Replace!Ended, Replace!TooLongIsTrue
<1> QED BY <1>4, <1>5, <1>6, <1>7 DEF Replace!Library

LEMMA CollectingStep ==
    ASSUME TemplateFits, Collecting, [Replace!ReplaceNext]_(Replace!replaceVars)
    PROVE  Collecting'
<1>1. CASE Replace!ReadLine
  <2>1. /\ pc = "idle" /\ pc' = "idle" /\ phase' = "pushing" /\ word' = 1
        /\ line' \in ReplaceLines /\ cmd_argv' = <<>> /\ cmd_argv_chars' = 0
    BY <1>1 DEF Replace!ReadLine, Replace!StartLine
  <2>2. WordsIn' = 0 /\ cmd_argv' = FirstWords(WordsIn)'
    BY <2>1 DEF WordsIn, FirstWords
  <2>3. cmd_argv_chars' = Replace!CharsUpTo(line')[WordsIn']
    BY <2>1, <2>2, CharsGrow DEF TemplateFits
  <2>4. word' \in 1 .. Words + 1
    BY <2>1 DEF TemplateFits, Replace!ReplaceOptions
  <2> QED
    BY <2>1, <2>2, <2>3, <2>4 DEF Collecting, Replace!Ended, Replace!TooLongIsTrue
<1>2. CASE Replace!ReadEof
  BY <1>2 DEF Replace!ReadEof, Replace!vars, Replace!argVars, Replace!execVars, Collecting,
     Replace!Ended, Replace!TooLongIsTrue
<1>3. CASE Replace!PushWord
  BY <1>3, PushStep
<1>4. CASE Replace!RunLine
  <2>1. /\ phase = "pushing" /\ word = Words + 1 /\ pc = "idle" /\ Words \in Nat
        /\ UNCHANGED <<line, word, cmd_argv>>
        /\ pc' = "exec" /\ ret' = "idle" /\ phase' = "reading"
    BY <1>4 DEF Replace!RunLine, Replace!DoExec, Replace!StartExec, Collecting, TemplateFits,
       Replace!ReplaceOptions
  <2>2. cmd_argv' = Replace!Template' /\ Len(cmd_argv) = Words
    BY <2>1 DEF Collecting, WordsIn, FirstWords, Replace!Template
  <2>3. done' = 0 /\ limit' = Words + 1
    BY <1>4, <2>1, <2>2 DEF Replace!RunLine, Replace!DoExec, Replace!StartExec, TemplateFits,
       Replace!ReplaceOptions
  <2> QED
    BY <2>1, <2>2, <2>3 DEF Collecting, Replace!Ended, Replace!TooLongIsTrue
<1>5. CASE Replace!Library
  BY <1>5, LibraryCollects
<1>6. CASE Replace!LibraryError
  BY <1>6 DEF Replace!LibraryError, Replace!vars, Replace!argVars, Replace!execVars, Collecting,
     Replace!Ended, Replace!Failed, Replace!TooLongIsTrue
<1>7. CASE UNCHANGED Replace!replaceVars
  BY <1>7 DEF Replace!replaceVars, Replace!vars, Replace!argVars, Replace!execVars, Collecting,
     WordsIn, FirstWords, Replace!Template, Replace!TooLongIsTrue
<1> QED
  BY <1>1, <1>2, <1>3, <1>4, <1>5, <1>6, <1>7 DEF Replace!ReplaceNext

\* -I: what is first given to exec is the whole template of one line, and a line
\* is called too long only if it is, for any template, lines and sizes.
THEOREM TemplateIsWhole ==
    ASSUME TemplateFits
    PROVE  Replace!ReplaceSpec => [](Replace!WholeTemplate /\ Replace!TooLongIsTrue)
<1>1. Replace!ReplaceInit => Collecting
  BY CollectingInit
<1>2. Collecting /\ [Replace!ReplaceNext]_(Replace!replaceVars) => Collecting'
  BY CollectingStep
<1>3. ASSUME Collecting, pc = "exec", ~refused
      PROVE  Replace!WorkingArgs = Replace!Template
  <2>1. /\ cmd_argv = Replace!Template /\ done = 0 /\ limit = Words + 1
        /\ Words \in Nat /\ InitialArgc = 0
    BY <1>3 DEF Collecting, Replace!Ended, TemplateFits, Replace!ReplaceOptions
  <2>2. Len(cmd_argv) = Words /\ SubSeq(cmd_argv, 1, Words) = cmd_argv
    BY <2>1 DEF Replace!Template
  <2>3. Replace!Copied = Words + 1
    BY <2>1, <2>2 DEF Replace!Copied, Replace!Smaller
  <2>4. Replace!Smaller(done + Replace!Copied, Len(cmd_argv)) = Words
    BY <2>1, <2>2, <2>3 DEF Replace!Smaller
  <2> QED BY <2>1, <2>2, <2>4 DEF Replace!WorkingArgs
<1>4. Collecting => Replace!WholeTemplate /\ Replace!TooLongIsTrue
  BY <1>3 DEF Collecting, Replace!WholeTemplate
<1> QED BY <1>1, <1>2, <1>4, PTL DEF Replace!ReplaceSpec
=============================================================================
