--------------------------- MODULE FindExecProofs ---------------------------
(***************************************************************************)
(* When -exec ... + and -execdir ... + do what they promise, for any       *)
(* hierarchy, any files and any limits: as long as bc_push_arg never runs  *)
(* a list by itself.  (When it does, neither promise is kept:              *)
(* FindExec_wrongdir.)  find only uses the library as it is meant to be    *)
(* used, so BuildCmd's invariant holds throughout; Collecting says that    *)
(* todo, which decides whether find completes a command line, is true of   *)
(* exactly the lists with something in them, and InDirectory that such a   *)
(* list never outlives the stay in its directory.                          *)
(***************************************************************************)
EXTENDS FindExec, BuildCmdProofs

\* Every list that is run is one find has asked for.
NeverFull == pc = "exec" => completing

Collecting ==
    /\ phase \in {"search", "cleanup", "ended", "close_failed"}
    /\ ~todo => cmd_argv = <<>> /\ pending = <<>>
    /\ completing => /\ pc \in {"exec", "idle"} \cup Failed
                     /\ pc = "exec" => todo /\ ret = "idle"
                     /\ pc = "idle" => ~todo
    /\ pc \in {"count", "append"} => phase = "search" /\ todo
    /\ ~completing /\ phase \in {"cleanup", "ended"} /\ pc = "idle" => ~todo
    /\ phase = "ended" => ~completing /\ pc = "idle"

AllAt(list, d) == \A i \in DOMAIN list : Home[list[i]] = d

InDirectory ==
    /\ Local =>
          /\ wdsOpen = (IF todo \/ completing THEN 1 ELSE 0)
          /\ todo => AllAt(cmd_argv, wd) /\ AllAt(pending, wd)
          /\ todo /\ ~completing /\ phase = "search" => outstanding /\ wd = here
    /\ ~Local => wdsOpen = 0

DirInv == Collecting /\ InDirectory

------------------------------------------------------------------------------
(* find uses the library.                                                  *)

LEMMA StepsOfLibrary == [FindNext]_allVars => [Next]_vars
  BY DEF FindNext, FindStep, Push, Launch, LaunchWaitFails, DoExecReturns, Exit, Finish,
     CloseFails, Visit, Enter, Next, LibraryStep, allVars

\* find never calls bc_push_arg or bc_do_exec but from where it may.
THEOREM UsesLibrary == FindSpec => Spec
<1>1. FindInit => Init
  BY DEF FindInit
<1> QED BY <1>1, StepsOfLibrary, PTL DEF FindSpec, Spec

------------------------------------------------------------------------------
(* The steps.                                                              *)

LEMMA InitDirInv == FindInit => DirInv
  BY DEF FindInit, Init, DirInv, Collecting, InDirectory, AllAt

LEMMA VisitDirInv ==
    ASSUME IInv, DirInv, NeverFull', NEW f \in Item, Visit(f)
    PROVE  DirInv'
<1>1. /\ pc = "idle" /\ ~completing /\ phase = "search" /\ Home[f] = here
      /\ todo' /\ pending' = <<f>> /\ UNCHANGED <<cmd_argv, here, completing, phase>>
      /\ outstanding'
      /\ pc' \in {"count", "cannot_fit", "list_too_long"}
  BY DEF Visit, Searching, PushArg, StartExec, NeverFull
<1>2. Collecting'
  BY <1>1 DEF DirInv, Collecting, Failed
<1>3. pending = <<>> /\ todo \in BOOLEAN
  BY <1>1 DEF IInv, ControlOK, TypeOK
<1>4. CASE Local
  <2>1. wd' = here /\ wdsOpen' = 1
    BY <1>1, <1>4 DEF Visit, RecordExecDir, DirInv, InDirectory
  <2>2. AllAt(cmd_argv, here)
    <3>1. CASE todo
      BY <1>1, <1>4, <3>1 DEF DirInv, InDirectory, AllAt
    <3>2. CASE ~todo
      BY <3>2 DEF DirInv, Collecting, AllAt
    <3> QED BY <3>1, <3>2
  <2>3. AllAt(pending', here)
    BY <1>1 DEF AllAt
  <2>4. AllAt(cmd_argv, wd)' /\ AllAt(pending, wd)'
    BY <1>1, <2>1, <2>2, <2>3 DEF AllAt
  <2> QED BY <1>1, <1>2, <1>4, <2>1, <2>4 DEF DirInv, InDirectory
<1>5. CASE ~Local
  BY <1>2, <1>5 DEF Visit, RecordExecDir, DirInv, InDirectory
<1> QED BY <1>4, <1>5

LEMMA PushDirInv ==
    ASSUME IInv, DirInv, NeverFull', Push
    PROVE  DirInv'
<1>1. /\ pc \in {"count", "append"} /\ phase = "search" /\ todo /\ ~completing
      /\ UNCHANGED findVars
  BY DEF Push, CheckCount, AppendArg, DirInv, Collecting, Failed
<1>2. CASE CheckCount
  <2>1. pc' = "append" /\ UNCHANGED <<todo, cmd_argv, pending>>
    BY <1>1, <1>2 DEF CheckCount, StartExec, NeverFull, findVars
  <2> QED BY <1>1, <2>1 DEF DirInv, Collecting, InDirectory, AllAt, findVars, Failed
<1>3. CASE AppendArg
  <2>1. pc' = "idle" /\ UNCHANGED todo /\ cmd_argv' = cmd_argv \o pending /\ pending' = <<>>
    BY <1>1, <1>3 DEF AppendArg, StartExec, NeverFull, findVars
  <2>2. Collecting'
    BY <1>1, <2>1 DEF DirInv, Collecting, findVars
  <2>3. Local => AllAt(cmd_argv \o pending, wd)
    <3> SUFFICES ASSUME Local, NEW i \in DOMAIN (cmd_argv \o pending)
                 PROVE  Home[(cmd_argv \o pending)[i]] = wd
      BY DEF AllAt
    <3>1. cmd_argv \in Seq(Item) /\ pending \in Seq(Item)
      <4>1. TypeOK /\ done = 0
        BY <1>1 DEF IInv, ControlOK
      <4>2. done <= Len(cmd_argv)
        BY <4>1, LenProperties DEF TypeOK
      <4> QED BY <4>1, <4>2, PartsType DEF TypeOK
    <3>2. AllAt(cmd_argv, wd) /\ AllAt(pending, wd)
      BY <1>1 DEF DirInv, InDirectory
    <3>3. /\ i \in 1 .. Len(cmd_argv) + Len(pending)
          /\ (cmd_argv \o pending)[i] = IF i <= Len(cmd_argv) THEN cmd_argv[i]
                                        ELSE pending[i - Len(cmd_argv)]
      BY <3>1, ConcatProperties
    <3>4. CASE i <= Len(cmd_argv)
      BY <3>1, <3>2, <3>3, <3>4 DEF AllAt
    <3>5. CASE ~(i <= Len(cmd_argv))
      <4>1. i - Len(cmd_argv) \in DOMAIN pending
        BY <3>1, <3>3, <3>5
      <4> QED BY <3>2, <3>3, <3>5, <4>1 DEF AllAt
    <3> QED BY <3>4, <3>5
  <2>4. InDirectory'
    BY <1>1, <2>1, <2>3 DEF DirInv, InDirectory, AllAt, findVars
  <2> QED BY <2>2, <2>4 DEF DirInv
<1> QED BY <1>2, <1>3 DEF Push

LEMMA LaunchDirInv ==
    ASSUME IInv, DirInv, NeverFull, Launch \/ LaunchWaitFails
    PROVE  DirInv'
<1>1. /\ pc = "exec" /\ completing /\ todo /\ ret = "idle" /\ phase # "ended"
      /\ UNCHANGED <<here, wd, wdsOpen, outstanding, completing, phase, pending>>
  BY DEF Launch, LaunchWaitFails, ExecAccepted, ExecTooBig, NeverFull, DirInv, Collecting
<1>2. CASE UNCHANGED <<argVars, pc, ret>>
  BY <1>1, <1>2 DEF DirInv, Collecting, InDirectory, AllAt, argVars
<1>3. CASE UNCHANGED <<argVars, ret>> /\ pc' = "exec_too_big"
  BY <1>1, <1>3 DEF DirInv, Collecting, InDirectory, AllAt, argVars, Failed
<1>4. CASE cmd_argv' = <<>> /\ ~todo' /\ pc' = "idle"
  <2>1. pending = <<>>
    BY <1>1 DEF IInv, ControlOK
  <2> QED BY <1>1, <1>4, <2>1 DEF DirInv, Collecting, InDirectory
<1> QED
  BY <1>1, <1>2, <1>3, <1>4 DEF Launch, LaunchWaitFails, ExecAccepted, ExecTooBig, ClearArgs

\* Leaving a directory, or the hierarchy: what is in the list is run.
LEMMA CompleteDirInv ==
    ASSUME IInv, DirInv, Finish \/ \E d \in Dir : Enter(d)
    PROVE  DirInv'
<1>1. /\ pc = "idle" /\ ~completing /\ phase = "search" /\ todo \in BOOLEAN
      /\ UNCHANGED <<wd, wdsOpen>> /\ phase' \in {"search", "cleanup"}
  BY DEF Finish, Enter, Searching, IInv, TypeOK
<1>2. todo => NeedsDoExec
  BY <1>1 DEF DirInv, InDirectory, NeedsDoExec
<1>3. CASE DoExec /\ completing' = TRUE /\ todo
  <2>1. pc' = "exec" /\ ret' = "idle" /\ todo' /\ UNCHANGED <<cmd_argv, pending>>
    BY <1>3 DEF DoExec, StartExec
  <2> QED BY <1>1, <1>3, <2>1 DEF DirInv, Collecting, InDirectory, AllAt, Failed
<1>4. CASE UNCHANGED <<vars, completing>> /\ ~todo
  BY <1>1, <1>4 DEF DirInv, Collecting, InDirectory, AllAt, vars, argVars, Failed
<1>5. CASE UNCHANGED <<vars, completing>> /\ todo /\ ~Local /\ phase' = "search"
  BY <1>1, <1>5 DEF DirInv, Collecting, InDirectory, AllAt, vars, argVars, Failed
<1> QED BY <1>1, <1>2, <1>3, <1>4, <1>5 DEF Finish, Enter, NeedsDoExec

LEMMA OtherDirInv ==
    ASSUME IInv, DirInv, CloseFails \/ DoExecReturns \/ Exit \/ UNCHANGED allVars
    PROVE  DirInv'
<1>1. CASE CloseFails
  BY <1>1 DEF CloseFails, Searching, DirInv, Collecting, InDirectory, AllAt, vars, argVars,
     Failed
<1>2. CASE DoExecReturns
  BY <1>2 DEF DoExecReturns, FreeWd, DirInv, Collecting, InDirectory, AllAt, vars, argVars,
     Failed
<1>3. CASE Exit
  BY <1>3 DEF Exit, DirInv, Collecting, InDirectory, AllAt, vars, argVars, Failed
<1>4. CASE UNCHANGED allVars
  BY <1>4 DEF allVars, findVars, DirInv, Collecting, InDirectory, AllAt, vars, argVars
<1> QED BY <1>1, <1>2, <1>3, <1>4

THEOREM DirInvariant == FindSpec /\ []NeverFull => [](IInv /\ DirInv)
<1>1. FindSpec => []IInv
  BY UsesLibrary, InductiveInvariant, PTL
<1>2. IInv /\ DirInv /\ NeverFull /\ NeverFull' /\ [FindNext]_allVars => DirInv'
  <2> SUFFICES ASSUME IInv, DirInv, NeverFull, NeverFull', [FindNext]_allVars
               PROVE  DirInv'
    OBVIOUS
  <2> QED
    BY VisitDirInv, PushDirInv, LaunchDirInv, CompleteDirInv, OtherDirInv
    DEF FindNext, FindStep
<1> QED BY <1>1, <1>2, InitDirInv, PTL DEF FindSpec

\* "any given invocation of command will only list files that exist in the same
\* subdirectory" (find.1, -execdir), if bc_push_arg never runs a list.
THEOREM OwnDirectory == FindSpec /\ []NeverFull => []RunsInOwnDirectory
<1>1. IInv /\ DirInv /\ NeverFull => RunsInOwnDirectory
  <2> SUFFICES ASSUME IInv, DirInv, NeverFull, pc = "exec", Local,
                      NEW i \in DOMAIN WorkingArgs
               PROVE  Home[WorkingArgs[i]] = wd
    BY DEF RunsInOwnDirectory
  <2>1. AllAt(cmd_argv, wd)
    BY DEF DirInv, Collecting, InDirectory, NeverFull
  <2> DEFINE last == Smaller(done + Copied, Len(cmd_argv))
  <2>2. cmd_argv \in Seq(Item) /\ done \in Nat /\ last \in Int /\ last <= Len(cmd_argv)
    <3>1. limit >= Floor /\ done <= Len(cmd_argv) /\ TypeOK
      BY DEF IInv, ControlOK
    <3>2. Copied \in Nat /\ Len(cmd_argv) \in Nat
      BY <3>1, OneTry, PartsType DEF IInv
    <3> QED BY <3>1, <3>2 DEF TypeOK, Smaller
  <2>3. WorkingArgs = SubSeq(cmd_argv, done + 1, last)
    BY DEF WorkingArgs
  <2> HIDE DEF last
  <2>4. i + done \in DOMAIN cmd_argv /\ WorkingArgs[i] = cmd_argv[i + done]
    BY <2>2, <2>3
  <2> QED BY <2>1, <2>4 DEF AllAt
<1> QED BY <1>1, DirInvariant, PTL

\* Every file the predicate was true of is run, and every directory opened is
\* closed, if bc_push_arg never runs a list.
THEOREM AllRun == FindSpec /\ []NeverFull => []AllMatchedRun
<1>1. IInv /\ DirInv => AllMatchedRun
  <2> SUFFICES ASSUME IInv, DirInv, phase = "ended"
               PROVE  delivered = taken /\ wdsOpen = 0
    BY DEF AllMatchedRun
  <2>1. pc = "idle" /\ ~completing /\ ~todo /\ cmd_argv = <<>> /\ pending = <<>>
    BY DEF DirInv, Collecting
  <2>2. delivered \in Seq(Item) /\ taken = delivered \o Rest \o pending /\ Rest = cmd_argv
    <3>1. TypeOK /\ done = 0
      BY <2>1 DEF IInv, ControlOK
    <3> QED BY <3>1, RestIsAll DEF IInv, TypeOK, ExactlyOnceInOrder
  <2>3. taken = delivered
    BY <2>1, <2>2
  <2> QED BY <2>1, <2>3 DEF DirInv, InDirectory
<1> QED BY <1>1, DirInvariant, PTL
=============================================================================
