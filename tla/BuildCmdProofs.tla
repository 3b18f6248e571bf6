--------------------------- MODULE BuildCmdProofs ---------------------------
(***************************************************************************)
(* What holds of BuildCmd for every set of arguments, every limit and      *)
(* every answer of the exec callback.  The inductive invariant IInv adds   *)
(* to the type invariant how the two C frames fit together (ControlOK) and *)
(* that a list that is not being executed has room for one more argument   *)
(* (RoomOK): without them ExactlyOnceInOrder and WithinArgCount are not    *)
(* preserved by the steps that leave bc_do_exec.                           *)
(***************************************************************************)
EXTENDS BuildCmd, SequenceTheorems, TLAPS

\* How bc_push_arg and bc_do_exec nest: who has an argument in hand, and that
\* the locals of bc_do_exec describe a part of the list.
ControlOK ==
    /\ pc = "idle" => pending = <<>>
    /\ pc \in {"count", "append"} => pending # <<>>
    /\ pc = "exec" => (ret = "idle" <=> pending = <<>>)
    /\ pc \in {"exec", "exec_too_big"} => limit >= Floor /\ done <= Len(cmd_argv)
    /\ pc \notin {"exec", "exec_too_big"} => done = 0
    /\ pc = "exec_too_big" => limit <= InitialArgc + 1

\* Outside bc_do_exec one more argument may always be appended.
RoomOK ==
    pc \in {"idle", "count", "append"} =>
        /\ ArgsPerExec # 0 => Len(cmd_argv) < ArgsPerExec
        /\ InitialArgc + Len(cmd_argv) < MaxArgCount

IInv == TypeOK /\ ControlOK /\ RoomOK /\ WithinArgCount /\ ExactlyOnceInOrder

------------------------------------------------------------------------------
(* update_limit.                                                           *)

\* Whatever the callback said, the next guess is a natural number that leaves
\* room for one argument after the initial ones.
LEMMA UpdateLimitType ==
    ASSUME TypeOK, NEW success \in BOOLEAN
    PROVE  /\ UpdateLimit(success) \in Nat
           /\ UpdateLimit(success) >= Floor
           /\ NewLargest(success) \in Nat
           /\ NewSmallest(success) \in Nat
BY BuildCmdAssumption, SMT
   DEF TypeOK, UpdateLimit, NewLargest, NewSmallest, Larger, Floor,
       BuildCmdAssumption

\* After E2BIG the next guess is strictly smaller, so that a command is tried
\* only finitely often.
LEMMA UpdateLimitShrinks ==
    ASSUME TypeOK, limit > Floor
    PROVE  UpdateLimit(FALSE) < limit
BY BuildCmdAssumption, SMT
   DEF TypeOK, UpdateLimit, NewLargest, NewSmallest, Larger, Floor,
       BuildCmdAssumption

------------------------------------------------------------------------------
(* Cutting the list.                                                       *)

\* What copy_args takes and what it leaves make up what was left before.
LEMMA WorkingArgsSplit ==
    ASSUME NEW s \in Seq(Item), NEW i \in Nat, NEW j \in Nat,
           i <= j, j <= Len(s)
    PROVE  /\ SubSeq(s, i + 1, j) \in Seq(Item)
           /\ SubSeq(s, j + 1, Len(s)) \in Seq(Item)
           /\ SubSeq(s, i + 1, Len(s)) \in Seq(Item)
           /\ SubSeq(s, i + 1, j) \o SubSeq(s, j + 1, Len(s))
                = SubSeq(s, i + 1, Len(s))
<1>1. Len(s) \in Nat /\ \A k \in 1 .. Len(s) : s[k] \in Item
  BY LenProperties, ElementOfSeq
<1>2. SubSeq(s, i + 1, j) \in Seq(Item)
  <2>1. \A k \in i + 1 .. j : s[k] \in Item
    BY <1>1
  <2> QED BY <2>1, SubSeqProperties
<1>3. SubSeq(s, j + 1, Len(s)) \in Seq(Item)
  <2>1. \A k \in j + 1 .. Len(s) : s[k] \in Item
    BY <1>1
  <2> QED BY <1>1, <2>1, SubSeqProperties
<1>4. SubSeq(s, i + 1, Len(s)) \in Seq(Item)
  <2>1. \A k \in i + 1 .. Len(s) : s[k] \in Item
    BY <1>1
  <2> QED BY <1>1, <2>1, SubSeqProperties
<1>5. SubSeq(s, i + 1, j) \o SubSeq(s, j + 1, Len(s)) = SubSeq(s, i + 1, Len(s))
  <2>1. i + 1 \in 1 .. Len(s) + 1 /\ j \in (i + 1) - 1 .. Len(s) /\ Len(s) \in j .. Len(s)
    BY <1>1
  <2> QED BY <2>1, ConcatAdjacentSubSeq
<1> QED BY <1>2, <1>3, <1>4, <1>5
------------------------------------------------------------------------------
(* Facts about one state that several steps use.                           *)

\* The list, its remainder and the argument in hand are sequences of Item.
LEMMA PartsType ==
    ASSUME TypeOK, done <= Len(cmd_argv)
    PROVE  Len(cmd_argv) \in Nat /\ Rest \in Seq(Item) /\ pending \in Seq(Item)
<1>1. Len(cmd_argv) \in Nat
  BY LenProperties DEF TypeOK
<1>2. Rest \in Seq(Item)
  BY <1>1, WorkingArgsSplit DEF Rest, TypeOK
<1>3. pending \in Seq(Item)
  <2>1. CASE pending = <<>>
    BY <2>1
  <2>2. CASE pending # <<>>
    <3>1. PICK a \in Item : pending = <<a>>
      BY <2>2 DEF TypeOK
    <3>2. <<a>> \in Seq(Item)
      OBVIOUS
    <3> QED BY <3>1, <3>2
  <2> QED BY <2>1, <2>2
<1> QED BY <1>1, <1>2, <1>3

\* Outside bc_do_exec nothing of the list has run.
LEMMA RestIsAll ==
    ASSUME TypeOK, done = 0
    PROVE  Rest = cmd_argv
BY SubSeqFull DEF Rest, TypeOK

\* One try of bc_do_exec hands over a part of the list that starts where the
\* last one ended; what it leaves is the new remainder.
LEMMA OneTry ==
    ASSUME TypeOK, limit >= Floor, done <= Len(cmd_argv)
    PROVE  /\ Copied \in Nat
           /\ WorkingArgs \in Seq(Item)
           /\ WorkingArgs \o SubSeq(cmd_argv, done + Copied + 1, Len(cmd_argv))
                = Rest
           /\ done + Copied >= Len(cmd_argv) => WorkingArgs = Rest
<1> DEFINE n == Len(cmd_argv)
           j == Smaller(done + Copied, n)
<1>1. n \in Nat
  BY PartsType
<1>2. Copied \in Nat
  BY <1>1, BuildCmdAssumption, SMT
     DEF TypeOK, Copied, Smaller, Floor, BuildCmdAssumption
<1>3. j \in Nat /\ done <= j /\ j <= n
  BY <1>1, <1>2, SMT DEF TypeOK, Smaller
<1>4. /\ WorkingArgs \in Seq(Item)
      /\ WorkingArgs \o SubSeq(cmd_argv, j + 1, n) = Rest
  BY <1>3, WorkingArgsSplit DEF WorkingArgs, Rest, TypeOK
<1>5. CASE done + Copied < n
  <2>1. j = done + Copied
    BY <1>1, <1>2, <1>5, SMT DEF TypeOK, Smaller
  <2>2. ~(done + Copied >= n)
    BY <1>1, <1>2, <1>5, SMT DEF TypeOK
  <2>3. WorkingArgs \o SubSeq(cmd_argv, done + Copied + 1, n) = Rest
    BY <1>4, <2>1
  <2> QED BY <1>2, <1>4, <2>2, <2>3
<1>6. CASE done + Copied >= n
  <2>1. j = n
    BY <1>1, <1>2, <1>6, SMT DEF TypeOK, Smaller
  <2>2. WorkingArgs = Rest
    BY <2>1 DEF WorkingArgs, Rest
  <2>3. SubSeq(cmd_argv, done + Copied + 1, n) = <<>>
    <3>1. done + Copied + 1 \in Int /\ n \in Int /\ n < done + Copied + 1
      BY <1>1, <1>2, <1>6, SMT DEF TypeOK
    <3> QED BY <3>1, SubSeqEmpty
  <2> QED BY <1>2, <1>4, <2>2, <2>3, ConcatEmptySeq
<1>7. done + Copied < n \/ done + Copied >= n
  BY <1>1, <1>2, SMT DEF TypeOK
<1> QED BY <1>5, <1>6, <1>7
------------------------------------------------------------------------------
(* The invariant.                                                          *)

\* The program starts with an empty list and nothing pushed.
LEMMA InitInvariant == Init => IInv
<1> SUFFICES ASSUME Init PROVE IInv
  OBVIOUS
<1>1. Rest = <<>>
  <2>1. Len(cmd_argv) = 0
    BY DEF Init
  <2> QED BY <2>1, SubSeqEmpty DEF Init, Rest
<1>2. TypeOK
  BY BuildCmdAssumption, EmptySeq DEF Init, TypeOK, BuildCmdAssumption
<1>5. ControlOK
  BY DEF Init, ControlOK
<1>3. RoomOK /\ WithinArgCount
  BY BuildCmdAssumption, SMT DEF Init, RoomOK, WithinArgCount, BuildCmdAssumption
<1>4. ExactlyOnceInOrder
  BY <1>1 DEF Init, ExactlyOnceInOrder
<1> QED BY <1>2, <1>3, <1>4, <1>5 DEF IInv

\* A step of bc_push_arg up to its first bc_do_exec.
LEMMA PushArgInvariant ==
    ASSUME IInv, NEW a \in Item, PushArg(a)
    PROVE  IInv'
<1> USE DEF IInv
<1>1. /\ pc = "idle" /\ pending = <<>> /\ done = 0 /\ done' = 0
      /\ cmd_argv' = cmd_argv /\ pending' = <<a>> /\ delivered' = delivered
      /\ taken' = Append(taken, a)
  BY DEF PushArg, StartExec, ControlOK
<1>2. Len(cmd_argv) \in Nat
  BY PartsType, SMT DEF TypeOK, ControlOK
<1>3. TypeOK'
  <2>1. taken' \in Seq(Item)
    BY <1>1 DEF TypeOK
  <2>2. limit' \in Nat /\ pc' \in {"idle", "count", "append", "exec"} \cup Failed
        /\ ret' \in {"idle", "count", "append"}
    BY <1>2, BuildCmdAssumption, SMT
       DEF PushArg, StartExec, TypeOK, Failed, BuildCmdAssumption
  <2>3. cmd_argv_chars' = cmd_argv_chars /\ todo' = TRUE /\ largest' = largest
        /\ smallest' = smallest
    BY DEF PushArg
  <2> QED BY <1>1, <2>1, <2>2, <2>3 DEF TypeOK
<1>4. ControlOK'
  <2>1. pc' \in {"count", "exec", "cannot_fit", "list_too_long"}
    BY DEF PushArg, StartExec
  <2>2. pc' = "exec" => ret' # "idle" /\ limit' >= Floor
    BY <1>2, BuildCmdAssumption, SMT
       DEF PushArg, StartExec, Floor, BuildCmdAssumption
  <2> QED BY <1>1, <1>2, <2>1, <2>2, SMT DEF ControlOK, Floor
<1>5. RoomOK' /\ WithinArgCount'
  BY <1>1 DEF RoomOK, WithinArgCount
<1>6. ExactlyOnceInOrder'
  <2>1. Rest' = cmd_argv /\ Rest = cmd_argv
    <3>1. SubSeq(cmd_argv, 0 + 1, Len(cmd_argv)) = cmd_argv
      BY SubSeqFull DEF TypeOK
    <3> QED BY <1>1, <3>1 DEF Rest
  <2>2. taken = delivered \o cmd_argv
    BY <1>1, <2>1, ConcatProperties, ConcatEmptySeq DEF ExactlyOnceInOrder, TypeOK
  <2>3. Append(taken, a) = taken \o <<a>>
    BY AppendIsConcat DEF TypeOK
  <2> QED BY <1>1, <2>1, <2>2, <2>3 DEF ExactlyOnceInOrder
<1> QED BY <1>3, <1>4, <1>5, <1>6

\* The check of the argument count, before the append.
LEMMA CheckCountInvariant ==
    ASSUME IInv, CheckCount
    PROVE  IInv'
<1> USE DEF IInv
<1>1. /\ pc = "count" /\ pending # <<>> /\ done = 0 /\ done' = 0
      /\ cmd_argv' = cmd_argv /\ pending' = pending /\ delivered' = delivered
      /\ taken' = taken
  BY DEF CheckCount, StartExec, ControlOK
<1>2. Len(cmd_argv) \in Nat
  BY PartsType, SMT DEF TypeOK, ControlOK
<1>3. TypeOK'
  <2>1. pc' \in {"append", "exec"} /\ ret' \in {"idle", "count", "append"}
        /\ todo' \in BOOLEAN
    BY DEF CheckCount, StartExec, TypeOK
  <2>3. limit' = limit \/ limit' = InitialArgc + Len(cmd_argv) + 1
    BY DEF CheckCount, StartExec
  <2>4. limit' \in Nat
    BY <1>2, <2>3, BuildCmdAssumption, SMT DEF TypeOK, BuildCmdAssumption
  <2>2. cmd_argv_chars' = cmd_argv_chars /\ largest' = largest
        /\ smallest' = smallest
    BY DEF CheckCount
  <2> QED BY <1>1, <2>1, <2>2, <2>4 DEF TypeOK
<1>4. ControlOK'
  <2>1. pc' \in {"append", "exec"}
    BY DEF CheckCount, StartExec
  <2>2. pc' = "exec" => ret' # "idle" /\ limit' >= Floor
    BY <1>2, BuildCmdAssumption, SMT
       DEF CheckCount, StartExec, Floor, BuildCmdAssumption
  <2> QED BY <1>1, <1>2, <2>1, <2>2, SMT DEF ControlOK, Floor
<1>5. RoomOK' /\ WithinArgCount'
  BY <1>1 DEF RoomOK, WithinArgCount
<1>6. ExactlyOnceInOrder'
  BY <1>1 DEF ExactlyOnceInOrder, Rest
<1> QED BY <1>3, <1>4, <1>5, <1>6

\* The append: the argument in hand becomes the last of the list.
LEMMA AppendArgInvariant ==
    ASSUME IInv, AppendArg
    PROVE  IInv'
<1> USE DEF IInv
<1>1. /\ pc = "append" /\ pending # <<>> /\ done = 0 /\ done' = 0
      /\ cmd_argv' = cmd_argv \o pending /\ pending' = <<>>
      /\ delivered' = delivered /\ taken' = taken
  BY DEF AppendArg, StartExec, ControlOK
<1>2. PICK a \in Item : pending = <<a>>
  BY <1>1 DEF TypeOK
<1>3. /\ pending \in Seq(Item) /\ Len(pending) = 1 /\ pending[1] = a
      /\ cmd_argv' \in Seq(Item) /\ Len(cmd_argv) \in Nat
      /\ Len(cmd_argv') = Len(cmd_argv) + 1
  <2>1. pending \in Seq(Item) /\ Len(pending) = 1 /\ pending[1] = a
    BY <1>2
  <2>2. Len(cmd_argv) \in Nat
    BY LenProperties DEF TypeOK
  <2>3. cmd_argv \in Seq(Item)
    BY DEF TypeOK
  <2>4. cmd_argv' \in Seq(Item) /\ Len(cmd_argv') = Len(cmd_argv) + Len(pending)
    BY <1>1, <2>1, <2>3, ConcatProperties
  <2> QED BY <2>1, <2>2, <2>4
<1>4. /\ pc' \in {"idle", "exec"}
      /\ pc' = "exec" => ret' = "idle" /\ limit' = InitialArgc + Len(cmd_argv') + 1
      /\ pc' = "idle" => ~ArgcLimitReached(Len(cmd_argv) + 1) /\ limit' = limit
      /\ ret' \in {"idle", "count", "append"} /\ todo' \in BOOLEAN
  BY DEF AppendArg, StartExec, TypeOK
<1>5. TypeOK'
  <2>1. limit' \in Nat
    BY <1>3, <1>4, BuildCmdAssumption, SMT DEF TypeOK, BuildCmdAssumption
  <2>2. cmd_argv_chars' \in Nat
    <3>1. Size[a] \in Nat /\ PrefixLen \in Nat
      BY BuildCmdAssumption DEF BuildCmdAssumption
    <3>2. cmd_argv_chars' = cmd_argv_chars + PrefixLen + Size[a]
      BY <1>3 DEF AppendArg
    <3>3. cmd_argv_chars \in Nat
      BY DEF TypeOK
    <3> QED BY <3>1, <3>2, <3>3, SMT
  <2>3. largest' = largest /\ smallest' = smallest
    BY DEF AppendArg
  <2> QED BY <1>1, <1>3, <1>4, <2>1, <2>2, <2>3 DEF TypeOK
<1>6. ControlOK'
  <2>1. pc' = "exec" => limit' >= Floor
    BY <1>3, <1>4, BuildCmdAssumption, SMT DEF Floor, BuildCmdAssumption
  <2> QED BY <1>1, <1>3, <1>4, <2>1, SMT DEF ControlOK, Floor
<1>7. RoomOK' /\ WithinArgCount'
  <2>1. /\ ArgsPerExec # 0 => Len(cmd_argv) < ArgsPerExec
        /\ InitialArgc + Len(cmd_argv) < MaxArgCount
    BY <1>1 DEF RoomOK
  <2>2. /\ ArgsPerExec # 0 => Len(cmd_argv') <= ArgsPerExec
        /\ InitialArgc + Len(cmd_argv') <= MaxArgCount
    BY <1>3, <2>1, BuildCmdAssumption, SMT DEF BuildCmdAssumption
  <2>3. pc' = "idle" => /\ ArgsPerExec # 0 => Len(cmd_argv') < ArgsPerExec
                        /\ InitialArgc + Len(cmd_argv') < MaxArgCount
    BY <1>3, <1>4, <2>2, BuildCmdAssumption, SMT
       DEF ArgcLimitReached, BuildCmdAssumption
  <2> QED BY <1>4, <2>2, <2>3 DEF RoomOK, WithinArgCount
<1>8. ExactlyOnceInOrder'
  <2>1. Rest = cmd_argv /\ Rest' = cmd_argv'
    <3>1. /\ SubSeq(cmd_argv, 0 + 1, Len(cmd_argv)) = cmd_argv
          /\ SubSeq(cmd_argv', 0 + 1, Len(cmd_argv')) = cmd_argv'
      BY <1>3, SubSeqFull DEF TypeOK
    <3> QED BY <1>1, <3>1 DEF Rest
  <2>2. cmd_argv \in Seq(Item) /\ delivered \in Seq(Item)
    BY DEF TypeOK
  <2>3. (delivered \o cmd_argv) \o pending = delivered \o cmd_argv'
    BY <1>1, <1>3, <2>2, ConcatAssociative
  <2>4. delivered \o cmd_argv' \in Seq(Item)
    BY <1>3, <2>2, ConcatProperties
  <2>5. (delivered \o cmd_argv') \o <<>> = delivered \o cmd_argv'
    BY <2>4, ConcatEmptySeq
  <2> QED BY <1>1, <2>1, <2>3, <2>5 DEF ExactlyOnceInOrder
<1> QED BY <1>5, <1>6, <1>7, <1>8

\* A caller starts bc_do_exec.
LEMMA DoExecInvariant ==
    ASSUME IInv, DoExec
    PROVE  IInv'
<1> USE DEF IInv
<1>1. /\ pc = "idle" /\ pc' = "exec" /\ ret' = "idle" /\ todo' = TRUE
      /\ done = 0 /\ done' = 0 /\ pending = <<>> /\ pending' = <<>>
      /\ limit' = InitialArgc + Len(cmd_argv) + 1
      /\ cmd_argv' = cmd_argv /\ cmd_argv_chars' = cmd_argv_chars
      /\ largest' = largest /\ smallest' = smallest
      /\ delivered' = delivered /\ taken' = taken
  BY DEF DoExec, StartExec, ControlOK
<1>2. Len(cmd_argv) \in Nat
  BY LenProperties DEF TypeOK
<1>3. limit' \in Nat /\ limit' >= Floor
  BY <1>1, <1>2, BuildCmdAssumption, SMT DEF Floor, BuildCmdAssumption
<1>4. TypeOK'
  BY <1>1, <1>3 DEF TypeOK
<1>5. ControlOK'
  BY <1>1, <1>2, <1>3, SMT DEF ControlOK, Floor
<1>6. RoomOK' /\ WithinArgCount' /\ ExactlyOnceInOrder'
  BY <1>1 DEF RoomOK, WithinArgCount, ExactlyOnceInOrder, Rest
<1> QED BY <1>4, <1>5, <1>6

\* E2BIG changes the guess only.
LEMMA ExecTooBigInvariant ==
    ASSUME IInv, ExecTooBig
    PROVE  IInv'
<1> USE DEF IInv
<1>1. /\ pc = "exec" /\ pc' \in {"exec", "exec_too_big"} /\ ret' = ret
      /\ UNCHANGED <<argVars, done, pending, taken, delivered>>
      /\ pc' = "exec_too_big" => limit <= InitialArgc + 1
      /\ \/ UNCHANGED <<limit, largest, smallest>>
         \/ /\ limit' = UpdateLimit(FALSE)
            /\ largest' = NewLargest(FALSE) /\ smallest' = NewSmallest(FALSE)
            /\ pc' = "exec"
  BY DEF ExecTooBig, AtLowestLimit, execVars
<1>2. limit \in Nat /\ limit >= Floor /\ done <= Len(cmd_argv)
  BY <1>1 DEF TypeOK, ControlOK
<1>3. limit' \in Nat /\ limit' >= Floor /\ largest' \in Nat /\ smallest' \in Nat
  BY <1>1, <1>2, UpdateLimitType DEF TypeOK
<1>4. TypeOK'
  BY <1>1, <1>3 DEF TypeOK, argVars, Failed
<1>5. pc' = "exec_too_big" => limit' <= InitialArgc + 1
  BY <1>1
<1>6. ControlOK'
  BY <1>1, <1>2, <1>3, <1>5 DEF ControlOK, argVars
<1>7. RoomOK' /\ WithinArgCount' /\ ExactlyOnceInOrder'
  BY <1>1 DEF RoomOK, WithinArgCount, ExactlyOnceInOrder, Rest, argVars
<1> QED BY <1>4, <1>6, <1>7

\* A command took its part of the list; the list may now be finished.
LEMMA ExecAcceptedInvariant ==
    ASSUME IInv, ExecAccepted
    PROVE  IInv'
<1> USE DEF IInv
<1>1. /\ pc = "exec" /\ pending' = pending /\ taken' = taken
      /\ delivered' = delivered \o WorkingArgs
      /\ limit' = UpdateLimit(TRUE)
      /\ largest' = NewLargest(TRUE) /\ smallest' = NewSmallest(TRUE)
  BY DEF ExecAccepted
<1>2. /\ limit \in Nat /\ limit >= Floor /\ done \in Nat /\ done <= Len(cmd_argv)
      /\ cmd_argv \in Seq(Item) /\ delivered \in Seq(Item)
      /\ (ret = "idle" <=> pending = <<>>)
  BY <1>1 DEF TypeOK, ControlOK
<1>3. Len(cmd_argv) \in Nat /\ pending \in Seq(Item) /\ Rest \in Seq(Item)
  BY <1>2, PartsType
<1>4. limit' \in Nat /\ limit' >= Floor /\ largest' \in Nat /\ smallest' \in Nat
  BY <1>1, UpdateLimitType
<1>5. /\ Copied \in Nat /\ WorkingArgs \in Seq(Item)
      /\ WorkingArgs \o SubSeq(cmd_argv, done + Copied + 1, Len(cmd_argv)) = Rest
      /\ done + Copied >= Len(cmd_argv) => WorkingArgs = Rest
  BY <1>2, OneTry
<1>6. delivered' \in Seq(Item)
  BY <1>1, <1>2, <1>5, ConcatProperties
<1>7. CASE done + Copied < Len(cmd_argv)
  <2>1. /\ done' = done + Copied /\ pc' = pc /\ ret' = ret
        /\ cmd_argv' = cmd_argv /\ cmd_argv_chars' = cmd_argv_chars
        /\ todo' = todo
    BY <1>7 DEF ExecAccepted, argVars
  <2>2. done' \in Nat /\ done' <= Len(cmd_argv)
    BY <1>2, <1>3, <1>5, <1>7, <2>1, SMT
  <2>3. TypeOK'
    BY <1>1, <1>4, <1>6, <2>1, <2>2 DEF TypeOK
  <2>4. ControlOK'
    BY <1>1, <1>4, <2>1, <2>2 DEF ControlOK
  <2>5. RoomOK' /\ WithinArgCount'
    BY <1>1, <2>1 DEF RoomOK, WithinArgCount
  <2>6. ExactlyOnceInOrder'
    <3>1. Rest' = SubSeq(cmd_argv, done + Copied + 1, Len(cmd_argv))
      BY <2>1 DEF Rest
    <3>2. Rest' \in Seq(Item)
      <4>1. done + Copied \in Nat /\ done + Copied <= Len(cmd_argv)
        BY <2>1, <2>2
      <4> QED BY <1>2, <1>3, <3>1, <4>1, WorkingArgsSplit
    <3>3. (delivered \o WorkingArgs) \o Rest' = delivered \o Rest
      <4> DEFINE w == WorkingArgs
                 r == Rest'
      <4>1. w \o r = Rest
        BY <1>5, <3>1
      <4>2. w \in Seq(Item) /\ r \in Seq(Item) /\ delivered \in Seq(Item)
        BY <1>2, <1>5, <3>2
      <4> HIDE DEF w, r
      <4>3. (delivered \o w) \o r = delivered \o (w \o r)
        BY <4>2, ConcatAssociative
      <4>4. (delivered \o w) \o r = delivered \o Rest
        BY <4>1, <4>3
      <4> QED BY <4>4 DEF w, r
    <3> QED BY <1>1, <3>3 DEF ExactlyOnceInOrder
  <2> QED BY <2>3, <2>4, <2>5, <2>6
<1>8. CASE done + Copied >= Len(cmd_argv)
  <2>1. /\ done' = 0 /\ pc' = ret /\ ret' = "idle" /\ cmd_argv' = <<>>
        /\ cmd_argv_chars' = InitialChars /\ todo' = FALSE
    <3>1. ~(done + Copied < Len(cmd_argv))
      BY <1>2, <1>3, <1>5, <1>8, SMT
    <3> QED BY <3>1 DEF ExecAccepted, ClearArgs
  <2>2. pc' \in {"idle", "count", "append"}
    BY <2>1 DEF TypeOK
  <2>3. TypeOK'
    <3>1. InitialChars \in Nat
      BY BuildCmdAssumption DEF BuildCmdAssumption
    <3>2. cmd_argv' \in Seq(Item)
      BY <2>1, EmptySeq
    <3> QED BY <1>1, <1>4, <1>6, <2>1, <2>2, <3>1, <3>2 DEF TypeOK
  <2>4. ControlOK'
    BY <1>1, <1>2, <2>1, <2>2 DEF ControlOK
  <2>5. RoomOK' /\ WithinArgCount'
    <3>1. Len(cmd_argv') = 0
      BY <2>1
    <3> QED BY <3>1, BuildCmdAssumption, SMT
            DEF RoomOK, WithinArgCount, BuildCmdAssumption
  <2>6. ExactlyOnceInOrder'
    <3>1. Rest' = <<>>
      BY <2>1, SubSeqEmpty DEF Rest
    <3>2. delivered' \o Rest' = delivered \o Rest
      BY <1>1, <1>5, <1>6, <1>8, <3>1, ConcatEmptySeq
    <3> QED BY <1>1, <3>2 DEF ExactlyOnceInOrder
  <2> QED BY <2>3, <2>4, <2>5, <2>6
<1>9. done + Copied < Len(cmd_argv) \/ done + Copied >= Len(cmd_argv)
  BY <1>2, <1>3, <1>5, SMT
<1> QED BY <1>7, <1>8, <1>9

\* Every step preserves the invariant.
LEMMA NextInvariant == IInv /\ [Next]_vars => IInv'
<1> SUFFICES ASSUME IInv, [Next]_vars PROVE IInv'
  OBVIOUS
<1>1. CASE \E a \in Item : PushArg(a)
  BY <1>1, PushArgInvariant
<1>2. CASE CheckCount
  BY <1>2, CheckCountInvariant
<1>3. CASE AppendArg
  BY <1>3, AppendArgInvariant
<1>4. CASE ExecAccepted
  BY <1>4, ExecAcceptedInvariant
<1>5. CASE ExecTooBig
  BY <1>5, ExecTooBigInvariant
<1>6. CASE DoExec
  BY <1>6, DoExecInvariant
<1>7. CASE UNCHANGED vars
  BY <1>7 DEF vars, argVars, execVars, IInv, TypeOK, ControlOK, RoomOK,
              WithinArgCount, ExactlyOnceInOrder, Rest
<1> QED BY <1>1, <1>2, <1>3, <1>4, <1>5, <1>6, <1>7 DEF Next, LibraryStep

------------------------------------------------------------------------------
(* The theorems.                                                           *)

\* The strengthened invariant holds in every reachable state.
THEOREM InductiveInvariant == Spec => []IInv
BY InitInvariant, NextInvariant, PTL DEF Spec

\* Every variable keeps its type, update_limit's counters included.
THEOREM TypeCorrect == Spec => []TypeOK
<1>1. IInv => TypeOK
  BY DEF IInv
<1> QED BY <1>1, InductiveInvariant, PTL

\* bc_push_arg and bc_do_exec neither lose nor repeat nor reorder arguments,
\* for every list of sizes, every limit and every pattern of E2BIG.
THEOREM ArgumentsExactlyOnce == Spec => []ExactlyOnceInOrder
<1>1. IInv => ExactlyOnceInOrder
  BY DEF IInv
<1> QED BY <1>1, InductiveInvariant, PTL

\* The equality tests of bc_argc_limit_reached are enough.
THEOREM ArgumentCountBounded == Spec => []WithinArgCount
<1>1. IInv => WithinArgCount
  BY DEF IInv
<1> QED BY <1>1, InductiveInvariant, PTL

\* E2BIG ends a run of xargs or find only when the command carried no more
\* than one argument.
THEOREM GivesUpOnlyOnSingleArg == Spec => []GivesUpOnSingleArg
<1>1. IInv => GivesUpOnSingleArg
  <2> SUFFICES ASSUME IInv, pc = "exec_too_big" PROVE Len(WorkingArgs) <= 1
    BY DEF GivesUpOnSingleArg
  <2> DEFINE j == Smaller(done + Copied, Len(cmd_argv))
  <2>1. /\ limit \in Nat /\ done \in Nat /\ Len(cmd_argv) \in Nat
        /\ limit <= InitialArgc + 1 /\ limit >= Floor /\ done <= Len(cmd_argv)
    BY PartsType DEF IInv, TypeOK, ControlOK
  <2>2. j \in Nat /\ done <= j /\ j <= done + 1 /\ j <= Len(cmd_argv)
    BY <2>1, BuildCmdAssumption, SMT DEF Copied, Smaller, Floor, BuildCmdAssumption
  <2>3. \A i \in done + 1 .. j : cmd_argv[i] \in Item
    BY <2>1, <2>2, ElementOfSeq DEF IInv, TypeOK
  <2>4. Len(SubSeq(cmd_argv, done + 1, j))
          = IF done + 1 <= j THEN j - (done + 1) + 1 ELSE 0
    <3>1. done + 1 \in Int /\ j \in Int
      BY <2>1, <2>2
    <3> HIDE DEF j
    <3> QED BY <2>3, <3>1, SubSeqProperties
  <2>5. Len(SubSeq(cmd_argv, done + 1, j)) <= 1
    BY <2>1, <2>2, <2>4, SMT
  <2> QED BY <2>5 DEF WorkingArgs
<1> QED BY <1>1, InductiveInvariant, PTL

\* Each E2BIG lowers the guess: a command is tried finitely often.
THEOREM RetriesShrink == Spec => RetryShrinks
<1>1. IInv /\ [Next]_vars => [ExecTooBig /\ pc' = "exec" => limit' < limit]_vars
  <2> SUFFICES ASSUME IInv, ExecTooBig, pc' = "exec" PROVE limit' < limit
    OBVIOUS
  <2>1. limit > InitialArgc + 1 /\ limit' = UpdateLimit(FALSE)
    <3>1. ~(limit <= InitialArgc + 1) /\ limit' = UpdateLimit(FALSE)
      BY DEF ExecTooBig, AtLowestLimit
    <3> QED BY <3>1, BuildCmdAssumption, SMT DEF IInv, TypeOK, BuildCmdAssumption
  <2> QED BY <2>1, UpdateLimitShrinks DEF IInv, Floor
<1> QED BY <1>1, InductiveInvariant, PTL DEF Spec, RetryShrinks

------------------------------------------------------------------------------
(* The size of the command line.                                           *)

\* xargs reads no argument that would not fit on a line of its own (endbuf in
\* read_line and read_string) and uses no prefix.
FitsAlone ==
    /\ PrefixLen = 0
    /\ InitialChars <= ArgMax
    /\ \A a \in Item : InitialChars + Size[a] <= ArgMax

\* An argument in hand fits what is in the buffer.
PendingFits ==
    /\ WithinArgMax
    /\ pc \in {"count", "append"} => cmd_argv_chars + Size[pending[1]] <= ArgMax

\* The buffer of ArgMax bytes is never overrun when every argument fits alone,
\* although bc_push_arg does not look at the size again after the bc_do_exec
\* that makes room.
THEOREM SizeBounded == ASSUME FitsAlone PROVE Spec => []WithinArgMax
<1>1. Init => PendingFits
  BY FitsAlone DEF FitsAlone, Init, PendingFits, WithinArgMax
<1>2. IInv /\ PendingFits /\ [Next]_vars => PendingFits'
  <2> SUFFICES ASSUME IInv, PendingFits, [Next]_vars PROVE PendingFits'
    OBVIOUS
  <2>1. CASE \E a \in Item : PushArg(a)
    <3>1. PICK a \in Item : PushArg(a)
      BY <2>1
    <3>2. pending' = <<a>> /\ cmd_argv_chars' = cmd_argv_chars
      BY <3>1 DEF PushArg
    <3>3. pc' \in {"count", "append"} => cmd_argv_chars + Size[a] <= ArgMax
      BY <3>1 DEF PushArg, StartExec
    <3> QED BY <3>2, <3>3 DEF PendingFits, WithinArgMax
  <2>2. CASE CheckCount
    BY <2>2 DEF CheckCount, StartExec, PendingFits, WithinArgMax
  <2>3. CASE AppendArg
    <3>1. /\ cmd_argv_chars' = cmd_argv_chars + PrefixLen + Size[pending[1]]
          /\ pc = "append" /\ pc' \notin {"count", "append"}
      BY <2>3 DEF AppendArg, StartExec
    <3>2. PICK a \in Item : pending = <<a>>
      BY <3>1 DEF IInv, TypeOK, ControlOK
    <3>3. PrefixLen = 0 /\ Size[a] \in Nat /\ cmd_argv_chars \in Nat
      BY BuildCmdAssumption DEF FitsAlone, BuildCmdAssumption, IInv, TypeOK
    <3>4. cmd_argv_chars' = cmd_argv_chars + Size[a]
      BY <3>1, <3>2, <3>3, SMT
    <3> QED BY <3>1, <3>2, <3>4 DEF PendingFits, WithinArgMax
  <2>4. CASE ExecAccepted
    <3>1. CASE pc' = "exec"
      BY <2>4, <3>1 DEF ExecAccepted, ClearArgs, argVars, PendingFits, WithinArgMax,
                       IInv, TypeOK
    <3>2. CASE pc' # "exec"
      <4>1. /\ cmd_argv_chars' = InitialChars /\ pending' = pending /\ pc' = ret
            /\ pc = "exec"
        BY <2>4, <3>2 DEF ExecAccepted, ClearArgs
      <4>2. pc' \in {"count", "append"} => pending[1] \in Item
        BY <4>1 DEF IInv, TypeOK, ControlOK
      <4> QED BY <4>1, <4>2 DEF FitsAlone, PendingFits, WithinArgMax
    <3> QED BY <3>1, <3>2
  <2>5. CASE ExecTooBig
    BY <2>5 DEF ExecTooBig, argVars, PendingFits, WithinArgMax
  <2>6. CASE DoExec
    BY <2>6 DEF DoExec, StartExec, PendingFits, WithinArgMax
  <2>7. CASE UNCHANGED vars
    BY <2>7 DEF vars, argVars, PendingFits, WithinArgMax
  <2> QED BY <2>1, <2>2, <2>3, <2>4, <2>5, <2>6, <2>7 DEF Next, LibraryStep
<1>3. PendingFits => WithinArgMax
  BY DEF PendingFits
<1> QED BY <1>1, <1>2, <1>3, InductiveInvariant, PTL DEF Spec

------------------------------------------------------------------------------
(* The refinement.                                                         *)

\* The front of a concatenation, as ArgStream cuts it off.
LEMMA FrontOfConcat ==
    ASSUME NEW s \in Seq(Item), NEW t \in Seq(Item)
    PROVE  SubSeq(s \o t, 1, Len(s)) = s
<1>1. Len(s) \in Nat
  BY LenProperties
<1>2. CASE Len(s) = 0
  <2>1. s = <<>>
    BY <1>2, EmptySeq
  <2> QED BY <1>2, <2>1, SubSeqEmpty
<1>3. CASE Len(s) # 0
  <2>1. 1 \in 1 .. Len(s) /\ Len(s) \in 1 .. Len(s)
    BY <1>1, <1>3
  <2>2. SubSeq(s \o t, 1, Len(s)) = SubSeq(s, 1, Len(s))
    BY <2>1, SubSeqOfConcat1
  <2> QED BY <2>2, SubSeqFull
<1> QED BY <1>2, <1>3

FrontDelivered == /\ delivered = SubSeq(taken, 1, Len(delivered))
                  /\ Len(delivered) \in Nat /\ Len(delivered) <= Len(taken)

\* What has been delivered is always the front of what was pushed.
LEMMA DeliveredIsFront == IInv => FrontDelivered
<1> SUFFICES ASSUME IInv PROVE FrontDelivered
  OBVIOUS
<1>1. delivered \in Seq(Item) /\ Rest \in Seq(Item) /\ pending \in Seq(Item)
  <2>1. done <= Len(cmd_argv) \/ (done = 0 /\ Len(cmd_argv) \in Nat)
    BY LenProperties DEF IInv, TypeOK, ControlOK
  <2>2. done <= Len(cmd_argv)
    BY <2>1, SMT
  <2> QED BY <2>2, PartsType DEF IInv, TypeOK
<1> DEFINE t == Rest \o pending
<1>2. t \in Seq(Item)
  BY <1>1, ConcatProperties
<1>3. taken = delivered \o t
  BY <1>1, ConcatAssociative DEF IInv, ExactlyOnceInOrder
<1> HIDE DEF t
<1>4. Len(taken) = Len(delivered) + Len(t) /\ Len(t) \in Nat /\ Len(delivered) \in Nat
  BY <1>1, <1>2, <1>3, ConcatProperties, LenProperties
<1>5. delivered = SubSeq(taken, 1, Len(delivered))
  BY <1>1, <1>2, <1>3, FrontOfConcat
<1> QED BY <1>4, <1>5, SMT DEF FrontDelivered

\* buildcmd.c implements the promise of ArgStream: every step is a push, the
\* delivery of the next arguments, or invisible to its caller.
THEOREM BuildCmdImplementsArgStream == Spec => ImplementsArgStream
<1>1. Init => Stream!Init
  BY DEF Init, Stream!Init
<1>2. IInv' => FrontDelivered'
  BY DeliveredIsFront, PTL
<1>3. IInv /\ IInv' /\ [Next]_vars => [Stream!Next]_Stream!vars
  <2> SUFFICES ASSUME IInv, IInv', [Next]_vars
               PROVE  Stream!Next \/ UNCHANGED Stream!vars
    OBVIOUS
  <2>1. CASE \E a \in Item : PushArg(a)
    <3>1. PICK a \in Item : PushArg(a)
      BY <2>1
    <3>2. Stream!Take(a)
      BY <3>1 DEF PushArg, Stream!Take
    <3> QED BY <3>2 DEF Stream!Next
  <2>2. CASE ExecAccepted
    <3>1. taken' = taken /\ delivered' = delivered \o WorkingArgs
      BY <2>2 DEF ExecAccepted
    <3>2. WorkingArgs \in Seq(Item) /\ delivered \in Seq(Item)
      <4>1. limit >= Floor /\ done <= Len(cmd_argv)
        BY <2>2 DEF IInv, ControlOK, ExecAccepted
      <4> QED BY <4>1, OneTry DEF IInv, TypeOK
    <3>3. Len(delivered') = Len(delivered) + Len(WorkingArgs)
          /\ Len(WorkingArgs) \in Nat /\ Len(delivered) \in Nat
      BY <3>1, <3>2, ConcatProperties, LenProperties
    <3>4. /\ delivered' = SubSeq(taken', 1, Len(delivered'))
          /\ Len(delivered') <= Len(taken')
      BY <1>2 DEF FrontDelivered
    <3>5. Len(taken) \in Nat
      BY LenProperties DEF IInv, TypeOK
    <3>6. Len(delivered') \in Len(delivered) .. Len(taken)
      BY <3>1, <3>3, <3>4, <3>5, SMT
    <3>7. Stream!Deliver
      BY <3>1, <3>4, <3>6 DEF Stream!Deliver
    <3> QED BY <3>7 DEF Stream!Next
  <2>3. CASE CheckCount \/ AppendArg \/ ExecTooBig \/ DoExec \/ UNCHANGED vars
    BY <2>3 DEF CheckCount, AppendArg, ExecTooBig, DoExec, vars, Stream!vars
  <2> QED BY <2>1, <2>2, <2>3 DEF Next, LibraryStep
<1> QED BY <1>1, <1>3, InductiveInvariant, PTL
        DEF Spec, ImplementsArgStream, Stream!Spec
=============================================================================
