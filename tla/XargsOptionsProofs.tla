------------------------- MODULE XargsOptionsProofs -------------------------
(***************************************************************************)
(* What the option loop of xargs makes of any sequence of options, in any  *)
(* environment: of -I, -L and -n the last one counts, and the size of a    *)
(* command is one that exec takes.  The loop keeps no record of what was   *)
(* typed: Winner says which option the fields of bc_ctl stand for.         *)
(***************************************************************************)
EXTENDS XargsOptions, TLAPS

\* The fields of bc_ctl that -I, -L and -n set, as option o leaves them.
SetBy(o) ==
    /\ ctl.replace_pat <=> o = <<"I">>
    /\ ctl.lines_per_exec = IF o[1] = "L" THEN o[2] ELSE 0
    /\ ctl.args_per_exec = IF o[1] = "n" THEN o[2] ELSE 0

NoneSet == ~ctl.replace_pat /\ ctl.lines_per_exec = 0 /\ ctl.args_per_exec = 0

\* Nothing of the kind was typed, or the last option that counts is in force.
Winner ==
    \/ Counting = {} /\ NoneSet
    \/ \E l \in Counting : (\A j \in Counting : j <= l) /\ SetBy(typed[l])

ExitFlag == ctl.exit_if_size_exceeded = (Given("x") # {})

\* The limit is set from an environment that leaves room.
SizeInRange ==
    act_on_init_result = "noop" =>
        /\ environment \in Nat /\ PosixArgSizeMax(environment) \in Nat \ {0}
        /\ ctl.arg_max \in 1 .. PosixArgSizeMax(environment)
        /\ Given("s") = {} => ctl.arg_max = SensibleArgMax(environment)

CtlFields == [replace_pat : BOOLEAN, args_per_exec : Int, lines_per_exec : Int,
              exit_if_size_exceeded : BOOLEAN, arg_max : Int]
CtlType == ctl \in CtlFields

OptionsInv ==
    /\ typed \in Seq(Typed) /\ CtlType
    /\ environment \in EnvSizes /\ act_on_init_result \in {"noop", "fail_due_to_env_size"}
    /\ start \in {"options", "started"} \cup Stopped
    /\ start = "options" => Winner /\ ExitFlag /\ SizeInRange
    /\ LastOptionWins /\ SizeIsAllowed

------------------------------------------------------------------------------
(* Typed options.                                                          *)

LEMMA SetThree ==
    ASSUME NEW c \in CtlFields, NEW r \in BOOLEAN, NEW a \in Int, NEW l \in Int
    PROVE  [c EXCEPT !.lines_per_exec = l, !.args_per_exec = a, !.replace_pat = r] \in CtlFields
BY DEF CtlFields

LEMMA SetExit ==
    ASSUME NEW c \in CtlFields, NEW x \in BOOLEAN
    PROVE  [c EXCEPT !.exit_if_size_exceeded = x] \in CtlFields
BY DEF CtlFields

LEMMA TypedAppend ==
    ASSUME typed \in Seq(Typed), NEW o \in Typed, typed' = Append(typed, o)
    PROVE  /\ Len(typed) \in Nat
           /\ DOMAIN typed = 1 .. Len(typed) /\ DOMAIN typed' = 1 .. Len(typed) + 1
           /\ \A i \in 1 .. Len(typed) : typed'[i] = typed[i] /\ typed[i] \in Typed
           /\ typed'[Len(typed) + 1] = o
           /\ typed' \in Seq(Typed)
OBVIOUS

LEMMA GivenAppend ==
    ASSUME typed \in Seq(Typed), NEW o \in Typed, typed' = Append(typed, o), NEW letter
    PROVE  Given(letter)' = Given(letter) \cup {i \in {Len(typed) + 1} : o[1] = letter}
<1>1. /\ Len(typed) \in Nat
      /\ DOMAIN typed = 1 .. Len(typed) /\ DOMAIN typed' = 1 .. Len(typed) + 1
      /\ \A i \in 1 .. Len(typed) : typed'[i] = typed[i]
      /\ typed'[Len(typed) + 1] = o
    BY TypedAppend
<1> QED
    BY <1>1 DEF Given

LEMMA ExclusiveAppend ==
    ASSUME typed \in Seq(Typed), NEW o \in Typed, typed' = Append(typed, o)
    PROVE  Exclusive' = Exclusive \cup {i \in {Len(typed) + 1} : o[1] \in {"I", "L", "n"}}
BY GivenAppend DEF Exclusive

\* Whether an option counts does not depend on what is typed after it.
LEMMA IgnoredKept ==
    ASSUME typed \in Seq(Typed), NEW o \in Typed, typed' = Append(typed, o),
           NEW i \in 1 .. Len(typed)
    PROVE  Ignored(i)' = Ignored(i)
<1>1. /\ Len(typed) \in Nat /\ i < Len(typed) + 1
      /\ \A j \in 1 .. Len(typed) : typed'[j] = typed[j]
    BY TypedAppend
<1>2. \A j : j \in Given("I")' /\ j < i <=> j \in Given("I") /\ j < i
    BY <1>1, GivenAppend
<1>3. \A j \in Given("I") : Exclusive' \cap (j + 1 .. i) = Exclusive \cap (j + 1 .. i)
    BY <1>1, ExclusiveAppend DEF Given
<1>4. \A k \in Exclusive : typed'[k] = typed[k]
    BY <1>1, TypedAppend DEF Exclusive, Given
<1> QED
    BY <1>1, <1>2, <1>3, <1>4 DEF Ignored

\* "ignore -n1 in '-i -n1'": -n1 does not count just when -I is in force.
LEMMA IgnoredNew ==
    ASSUME typed \in Seq(Typed), NEW o \in Typed, typed' = Append(typed, o), Winner,
           NEW n, n = Len(typed)
    PROVE  Ignored(n + 1)' <=> o = <<"n", 1>> /\ ctl.replace_pat
<1> DEFINE Starts(j) == j \in Given("I") /\ \A k \in Exclusive \cap (j + 1 .. n) :
                                              typed[k] = <<"n", 1>>
<1>1. /\ n \in Nat /\ DOMAIN typed = 1 .. n
      /\ \A i \in 1 .. n : typed'[i] = typed[i] /\ typed[i] \in Typed
      /\ typed'[n + 1] = o
    BY TypedAppend
<1>2. /\ Given("I") \subseteq Exclusive /\ Exclusive \subseteq 1 .. n
      /\ Counting \subseteq Exclusive
      /\ \A j \in Given("I") : typed[j] = <<"I">> /\ typed[j] # <<"n", 1>>
    <2>1. \A j \in Given("I") : typed[j] = <<"I">>
        BY <1>1, XargsOptionsAssumption DEF Given, XargsOptionsAssumption, OptionsTyped
    <2>2. \A j \in Given("I") : typed[j][1] # <<"n", 1>>[1]
        BY DEF Given
    <2> QED
        BY <1>1, <2>1, <2>2 DEF Given, Exclusive, Counting
<1>3. Ignored(n + 1)' <=> o = <<"n", 1>> /\ \E j : Starts(j)
  <2>1. \A j : j \in Given("I")' /\ j < n + 1 <=> j \in Given("I")
    <3>1. Given("I")' = Given("I") \cup {i \in {n + 1} : o[1] = "I"}
        BY GivenAppend
    <3>2. \A j \in Given("I") : j < n + 1
      <4>1. Given("I") \subseteq 1 .. n
          BY <1>2
      <4>2. \A j \in 1 .. n : j < n + 1
          BY <1>1
      <4> QED
          BY <4>1, <4>2
    <3>3. \A j \in {i \in {n + 1} : o[1] = "I"} : ~(j < n + 1)
        BY <1>1
    <3> QED
        BY <3>1, <3>2, <3>3
  <2>2. ASSUME o = <<"n", 1>>, NEW j \in Given("I")
        PROVE  (\A k \in Exclusive' \cap (j + 1 .. n + 1) : typed'[k] = <<"n", 1>>) <=> Starts(j)
    <3>1. Exclusive' = Exclusive \cup {n + 1}
        BY <2>2, ExclusiveAppend
    <3> QED
        BY <1>1, <1>2, <2>2, <3>1
  <2>3. Ignored(n + 1)' <=>
            /\ typed'[n + 1] = <<"n", 1>>
            /\ \E j \in Given("I")' : /\ j < n + 1
                                     /\ \A k \in Exclusive' \cap (j + 1 .. n + 1) :
                                            typed'[k] = <<"n", 1>>
      BY DEF Ignored
  <2>4. CASE o = <<"n", 1>>
      BY <1>1, <2>1, <2>2, <2>3, <2>4
  <2>5. CASE o # <<"n", 1>>
      BY <1>1, <2>3, <2>5
  <2> QED
      BY <2>4, <2>5
<1>4. ASSUME NEW j, Starts(j) PROVE ctl.replace_pat
  <2>1. j \in Counting
      BY <1>2, <1>4 DEF Counting, Ignored
  <2>2. \A i \in Counting : i <= j
    <3>1. SUFFICES ASSUME NEW i \in Counting, i > j PROVE FALSE
        BY <1>1, <1>2, <2>1
    <3>2. typed[i] = <<"n", 1>>
      <4>1. i \in Exclusive /\ i \in 1 .. n /\ j \in 1 .. n
          BY <1>2, <1>4, <3>1
      <4>2. i \in j + 1 .. n
          BY <1>1, <3>1, <4>1
      <4> QED
          BY <1>4, <4>1, <4>2
    <3>3. \A k \in Exclusive \cap (j + 1 .. i) : typed[k] = <<"n", 1>>
        BY <1>1, <1>2, <1>4, <3>1
    <3> QED
        BY <1>4, <3>1, <3>2, <3>3 DEF Counting, Ignored
  <2>3. PICK l \in Counting : (\A i \in Counting : i <= l) /\ SetBy(typed[l])
      BY <2>1 DEF Winner
  <2>4. l = j
      BY <1>1, <1>2, <2>1, <2>2, <2>3
  <2> QED
      BY <1>2, <1>4, <2>3, <2>4 DEF SetBy
<1>5. ASSUME ctl.replace_pat PROVE \E j : Starts(j)
  <2>1. PICK l \in Counting : (\A i \in Counting : i <= l) /\ SetBy(typed[l])
      BY <1>5 DEF Winner, NoneSet
  <2>2. typed[l] = <<"I">> /\ l \in Given("I")
      BY <1>1, <1>2, <1>5, <2>1 DEF SetBy, Given
  <2>3. ASSUME NEW k \in Exclusive \cap (l + 1 .. n) PROVE typed[k] = <<"n", 1>>
    <3>1. k \notin Counting
        BY <1>1, <1>2, <2>1, <2>3
    <3> QED
        BY <3>1 DEF Counting, Ignored
  <2> QED
      BY <2>2, <2>3
<1> HIDE DEF Starts
<1> QED
    BY <1>3, <1>4, <1>5

LEMMA CountingAppend ==
    ASSUME typed \in Seq(Typed), NEW o \in Typed, typed' = Append(typed, o), Winner
    PROVE  Counting' = Counting \cup {i \in {Len(typed) + 1} :
                                         /\ o[1] \in {"I", "L", "n"}
                                         /\ ~(o = <<"n", 1>> /\ ctl.replace_pat)}
<1>1. Exclusive' = Exclusive \cup {i \in {Len(typed) + 1} : o[1] \in {"I", "L", "n"}}
    BY ExclusiveAppend
<1>2. Exclusive \subseteq 1 .. Len(typed) /\ Len(typed) \in Nat
    BY TypedAppend DEF Exclusive, Given
<1>3. \A i \in 1 .. Len(typed) : Ignored(i)' <=> Ignored(i)
    BY IgnoredKept
<1>4. \A i \in {Len(typed) + 1} : Ignored(i)' <=> o = <<"n", 1>> /\ ctl.replace_pat
    BY IgnoredNew
<1>5. \A i \in Exclusive : Ignored(i)' <=> Ignored(i)
    BY <1>2, <1>3
<1>6. Counting' = {i \in Exclusive' : ~Ignored(i)'}
    BY DEF Counting
<1> QED
    BY <1>1, <1>4, <1>5, <1>6 DEF Counting

------------------------------------------------------------------------------
(* The steps.                                                              *)

LEMMA InitOptions ==
    ASSUME OptionsInit
    PROVE  OptionsInv
<1>1. typed = <<>> /\ typed \in Seq(Typed) /\ \A letter : Given(letter) = {}
    BY DEF OptionsInit, Given
<1>2. environment \in EnvSizes /\ environment \in Nat
    BY XargsOptionsAssumption DEF OptionsInit, XargsOptionsAssumption
<1>3. /\ act_on_init_result = IF TooBig(environment) THEN "fail_due_to_env_size" ELSE "noop"
      /\ start \in {"options", "aborted"}
    BY DEF OptionsInit
<1>4. ~TooBig(environment) =>
          /\ PosixArgSizeMax(environment) \in Nat \ {0}
          /\ SensibleArgMax(environment) \in 1 .. PosixArgSizeMax(environment)
    BY <1>2, XargsOptionsAssumption
    DEF TooBig, PosixArgSizeMax, SensibleArgMax, Least, XargsOptionsAssumption
<1>5. ctl = [replace_pat |-> FALSE, args_per_exec |-> 0, lines_per_exec |-> 0,
             exit_if_size_exceeded |-> FALSE,
             arg_max |-> IF TooBig(environment) THEN 0 ELSE SensibleArgMax(environment)]
    BY DEF OptionsInit
<1>6. CtlType
  <2>1. ctl.arg_max \in Int
      BY <1>4, <1>5
  <2> QED
      BY <1>5, <2>1 DEF CtlType, CtlFields
<1>7. Winner /\ ExitFlag
    BY <1>1, <1>5 DEF Winner, NoneSet, Counting, Exclusive, ExitFlag
<1>8. SizeInRange
    BY <1>1, <1>2, <1>3, <1>4, <1>5 DEF SizeInRange
<1>9. LastOptionWins /\ SizeIsAllowed
    BY <1>3 DEF LastOptionWins, SizeIsAllowed
<1> QED
    BY <1>1, <1>2, <1>3, <1>6, <1>7, <1>8, <1>9 DEF OptionsInv, Stopped


\* The fields of bc_ctl that an option leaves as it finds them, or sets.
LEMMA SettingsOf ==
    ASSUME CtlType, NEW o \in Typed, ctl' = Settings(o), Winner
    PROVE  /\ o[1] \in {"I", "L", "n"} /\ ~(o = <<"n", 1>> /\ ctl.replace_pat) => SetBy(o)'
           /\ o[1] \notin {"I", "L", "n"} \/ (o = <<"n", 1>> /\ ctl.replace_pat) =>
                  /\ ctl'.replace_pat = ctl.replace_pat
                  /\ ctl'.lines_per_exec = ctl.lines_per_exec
                  /\ ctl'.args_per_exec = ctl.args_per_exec
           /\ ctl'.exit_if_size_exceeded = (ctl.exit_if_size_exceeded \/ o[1] = "x")
           /\ ctl'.arg_max = IF o[1] = "s" THEN Clamped(o[2]) ELSE ctl.arg_max
<1>1. /\ o[1] = "I" <=> o = <<"I">>
      /\ o[1] = "n" => (o = <<"n", 1>> <=> o[2] = 1)
      /\ o[1] # "n" => o # <<"n", 1>>
  <2>1. /\ o[1] = "I" => o = <<"I">>
        /\ o[1] = "n" => o = <<o[1], o[2]>>
      BY XargsOptionsAssumption DEF XargsOptionsAssumption, OptionsTyped
  <2> QED
      BY <2>1
<1>2. ctl \in [replace_pat : BOOLEAN, args_per_exec : Int, lines_per_exec : Int,
                 exit_if_size_exceeded : BOOLEAN, arg_max : Int]
    BY DEF CtlType, CtlFields
<1>3. CASE o[1] = "I"
  <2>1. ctl' = [ctl EXCEPT !.lines_per_exec = 0, !.args_per_exec = 0, !.replace_pat = TRUE]
      BY <1>3 DEF Settings
  <2>2. /\ ctl'.replace_pat /\ ctl'.lines_per_exec = 0 /\ ctl'.args_per_exec = 0
        /\ ctl'.exit_if_size_exceeded = ctl.exit_if_size_exceeded
        /\ ctl'.arg_max = ctl.arg_max
      BY <1>2, <2>1
  <2>3. SetBy(o)'
      BY <1>1, <1>3, <2>2 DEF SetBy
  <2> QED
      BY <1>1, <1>2, <1>3, <2>2, <2>3
<1>4. CASE o[1] = "L"
  <2>1. ctl' = [ctl EXCEPT !.lines_per_exec = o[2], !.args_per_exec = 0,
                           !.replace_pat = FALSE]
      BY <1>4 DEF Settings, ExcludeL
  <2>2. /\ ~ctl'.replace_pat /\ ctl'.lines_per_exec = o[2] /\ ctl'.args_per_exec = 0
        /\ ctl'.exit_if_size_exceeded = ctl.exit_if_size_exceeded
        /\ ctl'.arg_max = ctl.arg_max
      BY <1>2, <2>1
  <2>3. SetBy(o)'
      BY <1>1, <1>4, <2>2 DEF SetBy
  <2> QED
      BY <1>1, <1>2, <1>4, <2>2, <2>3
<1>5. CASE o[1] = "n"
  <2>1. ctl' = [ctl EXCEPT !.lines_per_exec = 0,
                           !.args_per_exec = IF o[2] = 1 /\ ctl.replace_pat THEN 0 ELSE o[2],
                           !.replace_pat = @ /\ o[2] = 1]
      BY <1>5 DEF Settings, ExcludeN
  <2>2. ctl.replace_pat => ctl.lines_per_exec = 0 /\ ctl.args_per_exec = 0
    <3>1. \A l : ctl.replace_pat /\ SetBy(typed[l]) => typed[l] = <<"I">>
        BY DEF SetBy
    <3> QED
        BY <3>1 DEF Winner, SetBy, NoneSet
  <2>3. /\ ctl'.replace_pat = (ctl.replace_pat /\ o[2] = 1)
        /\ ctl'.lines_per_exec = 0
        /\ ctl'.args_per_exec = IF o[2] = 1 /\ ctl.replace_pat THEN 0 ELSE o[2]
        /\ ctl'.exit_if_size_exceeded = ctl.exit_if_size_exceeded
        /\ ctl'.arg_max = ctl.arg_max
      BY <1>2, <2>1
  <2>4. CASE o = <<"n", 1>> /\ ctl.replace_pat
      BY <1>1, <1>2, <1>5, <2>2, <2>3, <2>4
  <2>5. CASE ~(o = <<"n", 1>> /\ ctl.replace_pat)
    <3>1. SetBy(o)'
        BY <1>1, <1>5, <2>3, <2>5 DEF SetBy
    <3> QED
        BY <1>2, <1>5, <2>3, <2>5, <3>1
  <2> QED
      BY <2>4, <2>5
<1>6. CASE o[1] = "s"
    BY <1>2, <1>6 DEF Settings
<1>7. CASE o[1] = "x"
    BY <1>2, <1>7 DEF Settings
<1>8. CASE o[1] \notin {"I", "L", "n", "s", "x"}
    BY <1>2, <1>8 DEF Settings
<1> QED
    BY <1>3, <1>4, <1>5, <1>6, <1>7, <1>8

\* An option that the loop takes.
LEMMA OptionTaken ==
    ASSUME OptionsInv, NEW o \in Typed, Option(o), start' = "options"
    PROVE  Winner' /\ ExitFlag' /\ SizeInRange' /\ CtlType'
<1> DEFINE n == Len(typed)
           counts == o[1] \in {"I", "L", "n"} /\ ~(o = <<"n", 1>> /\ ctl.replace_pat)
<1>1. /\ typed \in Seq(Typed) /\ typed' = Append(typed, o) /\ ctl' = Settings(o)
      /\ CtlType /\ Winner /\ ExitFlag /\ SizeInRange
      /\ UNCHANGED <<environment, act_on_init_result>>
      /\ Outcome(o) = "options"
    BY DEF OptionsInv, Option
<1>2. /\ n \in Nat /\ typed'[n + 1] = o
      /\ \A i \in 1 .. n : typed'[i] = typed[i]
    BY <1>1, TypedAppend
<1>3. Counting \subseteq 1 .. n
    BY <1>1, TypedAppend DEF Counting, Exclusive, Given
<1>4. Counting' = Counting \cup {i \in {n + 1} : counts}
    BY <1>1, CountingAppend
<1>5. /\ counts => SetBy(o)'
      /\ ~counts => /\ ctl'.replace_pat = ctl.replace_pat
                    /\ ctl'.lines_per_exec = ctl.lines_per_exec
                    /\ ctl'.args_per_exec = ctl.args_per_exec
      /\ ctl'.exit_if_size_exceeded = (ctl.exit_if_size_exceeded \/ o[1] = "x")
      /\ ctl'.arg_max = IF o[1] = "s" THEN Clamped(o[2]) ELSE ctl.arg_max
    BY <1>1, SettingsOf
<1>6. Winner'
  <2>1. CASE counts
    <3>1. n + 1 \in Counting' /\ \A j \in Counting' : j <= n + 1
        BY <1>2, <1>3, <1>4, <2>1
    <3>2. \A k \in {n + 1} : SetBy(typed[k])'
        BY <1>2, <1>5, <2>1 DEF SetBy
    <3> HIDE DEF n
    <3> QED
        BY <3>1, <3>2 DEF Winner
  <2>2. CASE ~counts
    <3>1. Counting' = Counting /\ \A l \in Counting : typed'[l] = typed[l]
        BY <1>2, <1>3, <1>4, <2>2
    <3>2. \A p : SetBy(p) => SetBy(p)'
        BY <1>5, <2>2 DEF SetBy
    <3>3. NoneSet => NoneSet'
        BY <1>5, <2>2 DEF NoneSet
    <3> QED
        BY <1>1, <3>1, <3>2, <3>3 DEF Winner
  <2> QED
      BY <2>1, <2>2
<1>7. ExitFlag'
  <2>1. Given("x")' # {} <=> Given("x") # {} \/ o[1] = "x"
      BY <1>1, GivenAppend
  <2> QED
      BY <1>1, <1>5, <2>1 DEF ExitFlag, CtlType
<1>8. SizeInRange'
  <2>1. SUFFICES ASSUME act_on_init_result = "noop" PROVE SizeInRange'
      BY <1>1 DEF SizeInRange
  <2>2. /\ environment \in Nat /\ PosixArgSizeMax(environment) \in Nat \ {0}
        /\ ctl.arg_max \in 1 .. PosixArgSizeMax(environment)
        /\ Given("s") = {} => ctl.arg_max = SensibleArgMax(environment)
      BY <1>1, <2>1 DEF SizeInRange
  <2>3. o[1] = "s" => o[2] \in Int
      BY XargsOptionsAssumption DEF XargsOptionsAssumption, OptionsTyped
  <2>4. o[1] = "s" => Clamped(o[2]) \in 1 .. PosixArgSizeMax(environment)
      BY <2>2, <2>3 DEF Clamped, Least
  <2>5. Given("s")' = {} => Given("s") = {} /\ o[1] # "s"
      BY <1>1, GivenAppend
  <2>6. PosixArgSizeMax(environment)' = PosixArgSizeMax(environment)
        /\ SensibleArgMax(environment)' = SensibleArgMax(environment)
      BY <1>1 DEF PosixArgSizeMax, SensibleArgMax
  <2> QED
      BY <1>1, <1>5, <2>2, <2>4, <2>5, <2>6 DEF SizeInRange
<1>9. CtlType'
  <2>1. PosixArgSizeMax(environment) \in Int
      BY XargsOptionsAssumption DEF XargsOptionsAssumption, PosixArgSizeMax, OptionsInv
  <2>2. o[1] = "s" => Clamped(o[2]) \in Int
      BY <2>1, XargsOptionsAssumption
      DEF XargsOptionsAssumption, OptionsTyped, Clamped, Least
  <2>3. o[1] \in {"L", "n"} => o[2] \in Int
      BY XargsOptionsAssumption DEF XargsOptionsAssumption, OptionsTyped
  <2>4. ctl \in CtlFields
      BY <1>1 DEF CtlType
  <2>5. ASSUME o[1] = "I" PROVE ctl' \in CtlFields
    <3>1. ctl' = [ctl EXCEPT !.lines_per_exec = 0, !.args_per_exec = 0,
                             !.replace_pat = TRUE]
        BY <1>1, <2>5 DEF Settings
    <3>2. TRUE \in BOOLEAN /\ 0 \in Int
        OBVIOUS
    <3> QED
        BY <2>4, <3>1, <3>2, SetThree, Zenon
  <2>6. ASSUME o[1] = "L" PROVE ctl' \in CtlFields
    <3>1. ctl' = [ctl EXCEPT !.lines_per_exec = o[2], !.args_per_exec = 0,
                             !.replace_pat = FALSE]
        BY <1>1, <2>6 DEF Settings, ExcludeL
    <3>2. o[2] \in Int /\ FALSE \in BOOLEAN /\ 0 \in Int
        BY <2>3, <2>6
    <3> QED
        BY <2>4, <3>1, <3>2, SetThree, Zenon
  <2>7. ASSUME o[1] = "n" PROVE ctl' \in CtlFields
    <3> DEFINE r == ctl.replace_pat /\ o[2] = 1
               a == IF o[2] = 1 /\ ctl.replace_pat THEN 0 ELSE o[2]
    <3>1. ctl' = [ctl EXCEPT !.lines_per_exec = 0, !.args_per_exec = a, !.replace_pat = r]
        BY <1>1, <2>7 DEF Settings, ExcludeN
    <3>2. r \in BOOLEAN
        BY Zenon
    <3>3. a \in Int /\ 0 \in Int
        BY <2>3, <2>7
    <3> HIDE DEF r, a
    <3> QED
        BY <2>4, <3>1, <3>2, <3>3, SetThree, Zenon
  <2>8. ASSUME o[1] = "s" PROVE ctl' \in CtlFields
      BY <1>1, <2>2, <2>4, <2>8 DEF CtlFields, Settings
  <2>9. ASSUME o[1] \notin {"I", "L", "n", "s"} PROVE ctl' \in CtlFields
      BY <1>1, <2>4, <2>9 DEF CtlFields, Settings
  <2>10. ctl' \in CtlFields
      BY <2>5, <2>6, <2>7, <2>8, <2>9
  <2> QED
      BY <2>10 DEF CtlType, CtlFields
<1> QED
    BY <1>6, <1>7, <1>8, <1>9

LEMMA OptionKept ==
    ASSUME OptionsInv, NEW o \in Typed, Option(o)
    PROVE  OptionsInv'
<1>1. /\ typed' \in Seq(Typed) /\ environment' \in EnvSizes
      /\ act_on_init_result' \in {"noop", "fail_due_to_env_size"}
    BY TypedAppend DEF OptionsInv, Option
<1>2. start' \in {"options", "help", "usage", "env_too_big"}
    BY DEF Option, Outcome
<1>3. start' = "options" => Winner' /\ ExitFlag' /\ SizeInRange' /\ CtlType'
    BY OptionTaken
<1>4. start' # "options" => CtlType'
    BY DEF Option, OptionsInv, CtlType
<1>5. LastOptionWins' /\ SizeIsAllowed'
    BY <1>2 DEF LastOptionWins, SizeIsAllowed
<1> QED
    BY <1>1, <1>2, <1>3, <1>4, <1>5 DEF OptionsInv, Stopped

\* What the winner and the flags come to when the last option has been read.
LEMMA WinnerWins ==
    ASSUME typed \in Seq(Typed), CtlType, Winner, ExitFlag, typed' = typed,
           ctl' = [ctl EXCEPT !.exit_if_size_exceeded = @ \/ ImpliesExit]
    PROVE  LastOptionWins'
<1> DEFINE wins(o) == Counting # {} /\ typed[Last(Counting)] = o
           value(letter) ==
                IF \E o \in Typed : o[1] = letter /\ wins(o)
                THEN typed[Last(Counting)][2] ELSE 0
<1>1. /\ ctl \in [replace_pat : BOOLEAN, args_per_exec : Int, lines_per_exec : Int,
                 exit_if_size_exceeded : BOOLEAN, arg_max : Int]
    BY DEF CtlType, CtlFields
<1>2. /\ ctl'.replace_pat = ctl.replace_pat
      /\ ctl'.lines_per_exec = ctl.lines_per_exec
      /\ ctl'.args_per_exec = ctl.args_per_exec
      /\ ctl'.exit_if_size_exceeded = (ctl.exit_if_size_exceeded \/ ImpliesExit)
    BY <1>1
<1>3. /\ ctl.replace_pat = wins(<<"I">>)
      /\ ctl.lines_per_exec = value("L") /\ ctl.args_per_exec = value("n")
  <2>1. CASE Counting = {} /\ NoneSet
      BY <1>1, <2>1 DEF NoneSet
  <2>2. CASE Counting # {}
    <3>1. PICK l \in Counting : (\A j \in Counting : j <= l) /\ SetBy(typed[l])
        BY <2>2 DEF Winner
    <3>2. Counting \subseteq DOMAIN typed /\ Counting \subseteq Int /\ typed[l] \in Typed
        BY <3>1, TypedAppend DEF Counting, Exclusive, Given
    <3>3. Last(Counting) = l
        BY <3>1, <3>2 DEF Last
    <3>4. \A o : wins(o) <=> typed[l] = o
        BY <2>2, <3>3
    <3>5. ctl.replace_pat = wins(<<"I">>)
        BY <1>1, <3>1, <3>4 DEF SetBy
    <3>6. \A letter : value(letter) = IF typed[l][1] = letter THEN typed[l][2] ELSE 0
        BY <3>2, <3>3, <3>4
    <3> QED
        BY <3>1, <3>5, <3>6 DEF SetBy
  <2> QED
      BY <2>1, <2>2 DEF Winner
<1>4. ctl'.exit_if_size_exceeded
          = (Given("x") # {} \/ ctl.replace_pat \/ ctl.lines_per_exec # 0)
    BY <1>1, <1>2 DEF ExitFlag, ImpliesExit
<1>5. Counting' = Counting /\ Given("x")' = Given("x")
    BY DEF Counting, Exclusive, Given, Ignored
<1> QED
    BY <1>2, <1>3, <1>4, <1>5 DEF LastOptionWins

LEMMA EndKept ==
    ASSUME OptionsInv, EndOfOptions
    PROVE  OptionsInv'
<1>1. /\ UNCHANGED <<environment, act_on_init_result, typed>> /\ start = "options"
      /\ Winner /\ ExitFlag /\ SizeInRange /\ CtlType /\ typed \in Seq(Typed)
      /\ environment \in EnvSizes /\ act_on_init_result \in {"noop", "fail_due_to_env_size"}
    BY DEF EndOfOptions, OptionsInv
<1>2. CASE act_on_init_result = "fail_due_to_env_size"
  <2>1. start' = "env_too_big" /\ UNCHANGED ctl
      BY <1>2 DEF EndOfOptions
  <2> QED
      BY <1>1, <2>1 DEF OptionsInv, Stopped, CtlType, LastOptionWins, SizeIsAllowed
<1>3. CASE act_on_init_result = "noop"
  <2>1. /\ ctl' = [ctl EXCEPT !.exit_if_size_exceeded = @ \/ ImpliesExit]
        /\ start' \in {"cannot_fit", "started"}
      BY <1>3 DEF EndOfOptions
  <2>2. LastOptionWins'
      BY <1>1, <2>1, WinnerWins
  <2>3. CtlType'
    <3>1. ctl' \in CtlFields
      <4> DEFINE x == ctl.exit_if_size_exceeded \/ ImpliesExit
      <4>1. x \in BOOLEAN /\ ctl \in CtlFields
          BY <1>1, Zenon DEF CtlType
      <4>2. ctl' = [ctl EXCEPT !.exit_if_size_exceeded = x]
          BY <2>1
      <4> HIDE DEF x
      <4> QED
          BY <4>1, <4>2, SetExit, Zenon
    <3> QED
        BY <3>1 DEF CtlType, CtlFields
  <2>4. SizeIsAllowed'
    <3>1. /\ environment \in Nat /\ PosixArgSizeMax(environment) \in Nat \ {0}
          /\ ctl.arg_max \in 1 .. PosixArgSizeMax(environment)
          /\ Given("s") = {} => ctl.arg_max = SensibleArgMax(environment)
        BY <1>1, <1>3 DEF SizeInRange
    <3>2. ctl'.arg_max = ctl.arg_max
        BY <1>1, <2>1 DEF CtlType
    <3>3. Given("s")' = Given("s")
        BY <1>1 DEF Given
    <3>4. SysArgMax \in Nat /\ Headroom \in Nat /\ DefaultArgSize \in Nat
        BY XargsOptionsAssumption DEF XargsOptionsAssumption
    <3> QED
        BY <1>1, <3>1, <3>2, <3>3, <3>4
        DEF SizeIsAllowed, PosixArgSizeMax, SensibleArgMax, Least
  <2> QED
      BY <1>1, <2>1, <2>2, <2>3, <2>4 DEF OptionsInv, Stopped
<1> QED
    BY <1>1, <1>2, <1>3

LEMMA NextOptions ==
    ASSUME OptionsInv, [OptionsNext]_optionVars
    PROVE  OptionsInv'
<1>1. CASE EndOfOptions
    BY <1>1, EndKept
<1>2. CASE \E o \in Typed : Option(o)
    BY <1>2, OptionKept
<1>3. CASE UNCHANGED optionVars
  <2>1. UNCHANGED <<typed, ctl, environment, act_on_init_result, start>>
      BY <1>3 DEF optionVars
  <2>2. /\ Counting' = Counting /\ \A letter : Given(letter)' = Given(letter)
        /\ \A p : SetBy(p)' <=> SetBy(p)
      BY <2>1 DEF Counting, Exclusive, Given, Ignored, SetBy
  <2>3. Winner' <=> Winner
      BY <2>1, <2>2 DEF Winner, NoneSet
  <2>4. (ExitFlag' <=> ExitFlag) /\ (SizeInRange' <=> SizeInRange)
      BY <2>1, <2>2 DEF ExitFlag, SizeInRange, PosixArgSizeMax, SensibleArgMax
  <2>5. LastOptionWins' <=> LastOptionWins
      BY <2>1, <2>2 DEF LastOptionWins, Last
  <2>6. SizeIsAllowed' <=> SizeIsAllowed
      BY <2>1, <2>2 DEF SizeIsAllowed
  <2> QED
      BY <2>1, <2>3, <2>4, <2>5, <2>6 DEF OptionsInv, CtlType, CtlFields, Stopped
<1> QED
    BY <1>1, <1>2, <1>3 DEF OptionsNext

------------------------------------------------------------------------------
(* The theorems.                                                           *)

\* While options are read, bc_ctl stands for the last option that counts, for
\* -x as typed, and for a size that exec takes.
THEOREM OptionsInvariant == OptionsSpec => []OptionsInv
BY InitOptions, NextOptions, PTL DEF OptionsSpec

\* Of any number of -I, -L and -n, in any order, the last takes effect, but for
\* a -n1 that follows -I; and -x is in force when typed or implied.
THEOREM LastOfOptionsWins == OptionsSpec => []LastOptionWins
<1>1. OptionsInv => LastOptionWins
    BY DEF OptionsInv
<1> QED
    BY <1>1, OptionsInvariant, PTL

\* The size of a command, by default or from -s, is at least 1 and leaves room
\* for the environment and the headroom.
THEOREM SizeAlwaysAllowed == OptionsSpec => []SizeIsAllowed
<1>1. OptionsInv => SizeIsAllowed
    BY DEF OptionsInv
<1> QED
    BY <1>1, OptionsInvariant, PTL
=============================================================================
