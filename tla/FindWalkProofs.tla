--------------------------- MODULE FindWalkProofs ---------------------------
(***************************************************************************)
(* Theorems about FindWalk, for any number of files, every hierarchy and   *)
(* all options: the types of its variables; that what -prune asks for is   *)
(* about one directory and no other; that the expression is applied once,  *)
(* in the order asked for, to all that is wanted and nothing else; and     *)
(* that -delete leaves nothing without saying so.                          *)
(***************************************************************************)
EXTENDS FindWalk, TLAPS, WellFoundedInduction

\* fts_cur is a file from the first fts_read on, and find looks at nothing
\* before it.
AtFile ==
    /\ pc = "consider" => cur \in Node
    /\ info # "none" \/ instr # "none" => cur \in Node
    /\ pc = "consider" => info \notin {"none", "NULL"}

IInv == TypeOK /\ AtFile /\ PruneIsTransient

\* The hierarchy and the options never change.
LEMMA TreeKept ==
    ASSUME TreeOK, UNCHANGED treeVars
    PROVE  TreeOK'
BY DEF TreeOK, treeVars, Node

\* A child of a directory is a file, and so is the parent of any file but a
\* starting point.
LEMMA TreeNodes ==
    ASSUME TreeOK
    PROVE  /\ \A n : Children(n) \subseteq Node
           /\ \A n \in Node : parent[n] # None => parent[n] \in Node
BY FindWalkAssumption DEF TreeOK, Children, Node, None, FindWalkAssumption

LEMMA FirstInfoType ==
    ASSUME NEW n
    PROVE  FirstInfo(n) \in {"D", "NS", "DC", "NSOK"}
BY DEF FirstInfo

LEMMA InitInvariant ==
    Init => IInv
<1> SUFFICES ASSUME Init PROVE IInv
    OBVIOUS
<1>1. TreeOK
    BY FindWalkAssumption DEF Init, TreeOK, FindWalkAssumption, Node
<1>2. /\ stop_at_current_level \in BOOLEAN
      /\ ~stop_at_current_level
    BY Zenon DEF Init
<1>3. TypeOK
    BY <1>1, <1>2 DEF Init, TypeOK, None
<1>4. AtFile
    BY DEF Init, AtFile
<1>5. PruneIsTransient
    BY <1>2, Zenon DEF PruneIsTransient
<1> QED
    BY <1>3, <1>4, <1>5 DEF IInv

------------------------------------------------------------------------------
(* fts_read.                                                               *)

\* A directory that -prune was applied to is left, whatever else fts may do.
LEMMA FtsReadInvariant ==
    ASSUME IInv, FtsRead
    PROVE  IInv'
<1> USE DEF IInv
<1>1. TreeOK /\ TreeOK'
    BY TreeKept DEF TypeOK, FtsRead
<1>2. /\ UNCHANGED <<stop_at_current_level, exit_status, evaluated, pruned, deleted,
                     troubles, do_dir_first, deleting>>
      /\ pc = "read" /\ instr' = "none"
      /\ pc' = IF info' = "NULL" THEN "read" ELSE "consider"
    BY DEF FtsRead, treeVars, history
<1>3. /\ cur' \in Node /\ unread' \subseteq Node /\ abandoned' \subseteq Node
      /\ info' \in {"NULL", "D", "DP", "DNR", "DC", "NS", "NSOK", "ERR"}
  <2>1. CASE ReadAgain \/ Skip \/ LeaveEmpty \/ CannotRead
      BY <2>1 DEF ReadAgain, Skip, LeaveEmpty, CannotRead, Entering, Entered, Returns, TypeOK,
                  AtFile
  <2>2. CASE CannotReadLeaf
      BY <2>2, <1>1, TreeNodes
         DEF CannotReadLeaf, Entering, Entered, Returns, TypeOK, AtFile
  <2>3. CASE Descend \/ NextSibling
      BY <2>3, <1>1, TreeNodes, FirstInfoType
         DEF Descend, NextSibling, ReturnsNew, Returns, TypeOK
  <2>4. CASE LeaveParent
      BY <2>4, <1>1, TreeNodes DEF LeaveParent, Leaving, Returns, TypeOK, None
  <2>5. CASE Stop
      BY <2>5 DEF Stop, Entering, Entered, Leaving, Returns, TypeOK, AtFile, None
  <2> QED
      BY <2>1, <2>2, <2>3, <2>4, <2>5 DEF FtsRead
<1>4. TypeOK'
    BY <1>1, <1>2, <1>3 DEF TypeOK
<1>5. AtFile'
    BY <1>2, <1>3 DEF AtFile
<1>6. PruneIsTransient'
  <2>1. SUFFICES ASSUME stop_at_current_level PROVE PruneIsTransient'
      BY <1>2 DEF PruneIsTransient
  <2>2. cur \in pruned /\ info = "D" /\ instr = "SKIP"
      BY <1>2, <2>1 DEF PruneIsTransient
  <2>3. Skip
      BY <2>2 DEF FtsRead, ReadAgain, LeaveEmpty, CannotRead, CannotReadLeaf, Descend,
                  NextSibling, LeaveParent, Stop, Entering, Entered, Leaving
  <2> QED
      BY <1>2, <2>2, <2>3 DEF Skip, Returns, PruneIsTransient
<1> QED
    BY <1>4, <1>5, <1>6

\* Where the walk is over, or another starting point is next, nothing is
\* pruned: a pruned directory has yet to be left.
LEMMA NothingPrunedAtTop ==
    ASSUME IInv, pc = "read", AtTop
    PROVE  ~stop_at_current_level
<1> SUFFICES ASSUME stop_at_current_level PROVE FALSE
    OBVIOUS
<1>1. cur \in pruned /\ info = "D"
    BY DEF IInv, PruneIsTransient
<1>2. cur # None
    BY <1>1 DEF IInv, TypeOK, Node, None
<1> QED
    BY <1>1, <1>2 DEF AtTop

LEMMA StartPointInvariant ==
    ASSUME IInv, StartPoint
    PROVE  IInv'
<1> USE DEF IInv
<1>1. TreeOK /\ TreeOK'
    BY TreeKept DEF TypeOK, StartPoint
<1>2. /\ UNCHANGED <<stop_at_current_level, exit_status, evaluated, pruned, deleted,
                     troubles, abandoned, do_dir_first, deleting>>
      /\ pc = "read" /\ instr' = "none" /\ pc' = "consider"
    BY DEF StartPoint, treeVars, history
<1>3. /\ cur' \in Node /\ unread' \subseteq Node
      /\ info' \in {"D", "NS", "DC", "NSOK"}
    BY <1>1, TreeNodes, FirstInfoType
       DEF StartPoint, StartingPoints, ReturnsNew, Returns, TypeOK
<1>4. TypeOK'
    BY <1>1, <1>2, <1>3 DEF TypeOK
<1>5. AtFile'
    BY <1>2, <1>3 DEF AtFile
<1>6. ~stop_at_current_level
    BY <1>2, NothingPrunedAtTop DEF StartPoint
<1>7. PruneIsTransient'
    BY <1>2, <1>6 DEF PruneIsTransient
<1> QED
    BY <1>4, <1>5, <1>7

LEMMA AbortInvariant ==
    ASSUME IInv, Abort
    PROVE  IInv'
<1> USE DEF IInv
<1>1. TreeOK'
    BY TreeKept DEF TypeOK, Abort
<1>2. /\ UNCHANGED <<cur, info, instr, unread, stop_at_current_level, exit_status,
                     evaluated, pruned, deleted, troubles, abandoned, do_dir_first,
                     deleting>>
      /\ pc = "read" /\ pc' = "aborted"
    BY DEF Abort, treeVars, ftsVars, history
<1>3. TypeOK'
    BY <1>1, <1>2 DEF TypeOK
<1>4. AtFile'
    BY <1>2 DEF AtFile
<1>5. PruneIsTransient'
    BY <1>2 DEF PruneIsTransient
<1> QED
    BY <1>3, <1>4, <1>5

LEMMA EndInvariant ==
    ASSUME IInv, CloseFails \/ Finish
    PROVE  IInv'
<1> USE DEF IInv
<1>1. TreeOK'
    BY TreeKept DEF TypeOK, CloseFails, Finish
<1>2. /\ UNCHANGED <<cur, info, instr, unread, stop_at_current_level, evaluated, pruned,
                     deleted, abandoned, do_dir_first, deleting>>
      /\ pc = "read" /\ AtTop /\ pc' \in {"close_failed", "finished"}
    BY DEF CloseFails, Finish, treeVars, ftsVars, history
<1>3. exit_status' \in {0, 1} /\ troubles' \subseteq Node
    BY DEF CloseFails, Finish, TypeOK, None, history
<1>4. TypeOK'
    BY <1>1, <1>2, <1>3 DEF TypeOK
<1>5. AtFile'
    BY <1>2 DEF AtFile
<1>6. PruneIsTransient'
    BY <1>2, NothingPrunedAtTop DEF PruneIsTransient
<1> QED
    BY <1>4, <1>5, <1>6

------------------------------------------------------------------------------
(* consider_visiting.                                                      *)

LEMMA ReportErrorInvariant ==
    ASSUME IInv, ReportError
    PROVE  IInv'
<1> USE DEF IInv
<1>1. TreeOK'
    BY TreeKept DEF TypeOK, ReportError
<1>2. /\ UNCHANGED <<cur, info, instr, unread, stop_at_current_level, evaluated, pruned,
                     deleted, abandoned, do_dir_first, deleting>>
      /\ pc = "consider" /\ pc' = "read"
      /\ exit_status' = 1 /\ troubles' = troubles \cup {cur}
    BY DEF ReportError, treeVars, ftsVars
<1>3. cur \in Node
    BY <1>2 DEF AtFile
<1>4. TypeOK'
    BY <1>1, <1>2, <1>3 DEF TypeOK
<1>5. AtFile'
    BY <1>2, <1>3 DEF AtFile
<1>6. ~stop_at_current_level
    BY <1>2 DEF ReportError, GivesUpOn, PruneIsTransient
<1>7. PruneIsTransient'
    BY <1>2, <1>6 DEF PruneIsTransient
<1> QED
    BY <1>4, <1>5, <1>7

LEMMA ForceStatInvariant ==
    ASSUME IInv, ForceStat
    PROVE  IInv'
<1> USE DEF IInv
<1>1. TreeOK'
    BY TreeKept DEF TypeOK, ForceStat
<1>2. /\ UNCHANGED <<cur, info, unread, stop_at_current_level, exit_status, evaluated,
                     pruned, deleted, troubles, abandoned, do_dir_first, deleting>>
      /\ pc = "consider" /\ pc' = "read" /\ instr' = "AGAIN" /\ info = "NSOK"
    BY DEF ForceStat, NeedsStat, treeVars, ftsVars, history
<1>3. cur \in Node
    BY <1>2 DEF AtFile
<1>4. TypeOK'
    BY <1>1, <1>2 DEF TypeOK
<1>5. AtFile'
    BY <1>2, <1>3 DEF AtFile
<1>6. PruneIsTransient'
    BY <1>2 DEF PruneIsTransient
<1> QED
    BY <1>4, <1>5, <1>6

\* What visit asks of fts, and when stop_at_current_level ends.
LEMMA AfterVisit ==
    ASSUME NEW flag \in BOOLEAN, SkipFor(flag)
    PROVE  /\ instr' \in {"none", "SKIP"}
           /\ flag => instr' = "SKIP"
           /\ FlagAfter(flag) \in BOOLEAN
           /\ FlagAfter(flag) => flag /\ info # "DP"
<1>1. instr' \in {"none", "SKIP"} /\ (flag => instr' = "SKIP")
    BY Zenon DEF SkipFor
<1>2. FlagAfter(flag) \in BOOLEAN /\ (FlagAfter(flag) => flag /\ info # "DP")
    BY Zenon DEF FlagAfter
<1> QED
    BY <1>1, <1>2

\* The message for a file that stat fails for.
LEMMA ReportType ==
    ASSUME TypeOK, cur \in Node, Report
    PROVE  exit_status' \in {0, 1} /\ troubles' \subseteq Node
BY DEF TypeOK, Report

\* While find looks at a file, stop_at_current_level is on only when that file
\* is a directory being left, which without -depth is passed over.
LEMMA PrunedIsPassedOver ==
    ASSUME IInv, pc = "consider", ~Ignore
    PROVE  ~stop_at_current_level
<1> SUFFICES ASSUME stop_at_current_level PROVE FALSE
    OBVIOUS
<1>1. cur \in pruned /\ info = "DP"
    BY DEF IInv, PruneIsTransient
<1>2. do_dir_first
    BY <1>1, Zenon DEF IInv, TypeOK
<1> QED
    BY <1>1, <1>2 DEF Ignore

LEMMA PassOverInvariant ==
    ASSUME IInv, PassOver
    PROVE  IInv'
<1> USE DEF IInv
<1>1. TreeOK'
    BY TreeKept DEF TypeOK, PassOver
<1>2. /\ UNCHANGED <<cur, info, unread, evaluated, pruned, deleted, abandoned,
                     do_dir_first, deleting>>
      /\ pc = "consider" /\ pc' = "read"
      /\ stop_at_current_level' = FlagAfter(stop_at_current_level)
    BY DEF PassOver, Considering, treeVars, ftsVars
<1>3. cur \in Node
    BY <1>2 DEF AtFile
<1>4. exit_status' \in {0, 1} /\ troubles' \subseteq Node
    BY <1>3, ReportType DEF PassOver
<1>5. instr' \in {"none", "SKIP"}
    BY AfterVisit DEF PassOver
<1>6. ~stop_at_current_level'
  <2>1. CASE stop_at_current_level
      BY <1>2, <2>1 DEF PruneIsTransient, FlagAfter
  <2>2. CASE ~stop_at_current_level
      BY <1>2, <2>2, Zenon DEF FlagAfter
  <2> QED
      BY <2>1, <2>2
<1>7. stop_at_current_level' \in BOOLEAN
    BY <1>2, Zenon DEF FlagAfter, TypeOK
<1>8. TypeOK'
    BY <1>1, <1>2, <1>3, <1>4, <1>5, <1>7 DEF TypeOK
<1>9. AtFile'
    BY <1>2, <1>3 DEF AtFile
<1>10. PruneIsTransient'
    BY <1>6 DEF PruneIsTransient
<1> QED
    BY <1>8, <1>9, <1>10

LEMMA VisitInvariant ==
    ASSUME IInv, Visit
    PROVE  IInv'
<1> USE DEF IInv
<1>1. TreeOK'
    BY TreeKept DEF TypeOK, Visit
<1>2. /\ UNCHANGED <<cur, info, unread, deleted, abandoned, do_dir_first, deleting>>
      /\ pc = "consider" /\ pc' = "read" /\ evaluated' = Append(evaluated, cur)
      /\ ~Ignore
    BY DEF Visit, Visited, Considering, treeVars, ftsVars
<1>3. cur \in Node /\ evaluated' \in Seq(Node)
    BY <1>2 DEF AtFile, TypeOK
<1>4. exit_status' \in {0, 1} /\ troubles' \subseteq Node
    BY <1>3, ReportType DEF Visit
<1>5. PICK prune \in IF CanPrune THEN BOOLEAN ELSE {FALSE} :
          /\ SkipFor(stop_at_current_level \/ prune)
          /\ stop_at_current_level' = FlagAfter(stop_at_current_level \/ prune)
          /\ pruned' = IF prune THEN pruned \cup {cur} ELSE pruned
    BY Zenon DEF Visit
<1>6. prune \in BOOLEAN /\ (prune => CanPrune)
    BY <1>5, Zenon
<1>7. ~stop_at_current_level
    BY <1>2, PrunedIsPassedOver
<1>8. /\ instr' \in {"none", "SKIP"} /\ stop_at_current_level' \in BOOLEAN
      /\ stop_at_current_level' => prune /\ instr' = "SKIP"
    BY <1>5, <1>6, <1>7, AfterVisit
<1>9. pruned' \subseteq Node /\ (~do_dir_first' => pruned' = {})
  <2>1. CASE prune
      BY <1>2, <1>3, <1>5, <1>6, <2>1 DEF CanPrune, TypeOK
  <2>2. CASE ~prune
      BY <1>2, <1>5, <2>2 DEF TypeOK
  <2> QED
      BY <2>1, <2>2
<1>10. TypeOK'
    BY <1>1, <1>2, <1>3, <1>4, <1>8, <1>9 DEF TypeOK
<1>11. AtFile'
    BY <1>2, <1>3 DEF AtFile
<1>12. PruneIsTransient'
  <2>1. SUFFICES ASSUME stop_at_current_level' PROVE PruneIsTransient'
      BY DEF PruneIsTransient
  <2>2. prune /\ instr' = "SKIP"
      BY <1>8, <2>1
  <2>3. info = "D" /\ cur \in pruned'
      BY <1>5, <1>6, <2>2 DEF CanPrune
  <2> QED
      BY <1>2, <2>2, <2>3 DEF PruneIsTransient
<1> QED
    BY <1>10, <1>11, <1>12

LEMMA VisitQuitsInvariant ==
    ASSUME IInv, VisitQuits
    PROVE  IInv'
<1> USE DEF IInv
<1>1. TreeOK'
    BY TreeKept DEF TypeOK, VisitQuits
<1>2. /\ UNCHANGED <<cur, info, instr, unread, stop_at_current_level, pruned, deleted,
                     abandoned, do_dir_first, deleting>>
      /\ pc = "consider" /\ pc' = "quit" /\ evaluated' = Append(evaluated, cur)
      /\ ~Ignore
    BY DEF VisitQuits, Visited, Considering, treeVars, ftsVars
<1>3. cur \in Node /\ evaluated' \in Seq(Node)
    BY <1>2 DEF AtFile, TypeOK
<1>4. exit_status' \in {0, 1} /\ troubles' \subseteq Node
    BY <1>3, ReportType DEF VisitQuits
<1>5. TypeOK'
    BY <1>1, <1>2, <1>3, <1>4 DEF TypeOK
<1>6. AtFile'
    BY <1>2, <1>3 DEF AtFile
<1>7. PruneIsTransient'
    BY <1>2, PrunedIsPassedOver DEF PruneIsTransient
<1> QED
    BY <1>5, <1>6, <1>7

LEMMA VisitDeletesInvariant ==
    ASSUME IInv, VisitDeletes
    PROVE  IInv'
<1> USE DEF IInv
<1>1. TreeOK'
    BY TreeKept DEF TypeOK, VisitDeletes
<1>2. /\ UNCHANGED <<cur, info, unread, pruned, abandoned, do_dir_first, deleting>>
      /\ pc = "consider" /\ pc' = "read" /\ evaluated' = Append(evaluated, cur)
      /\ ~Ignore /\ deleting
      /\ SkipFor(stop_at_current_level)
      /\ stop_at_current_level' = FlagAfter(stop_at_current_level)
    BY DEF VisitDeletes, Visited, Considering, treeVars, ftsVars
<1>3. cur \in Node /\ evaluated' \in Seq(Node)
    BY <1>2 DEF AtFile, TypeOK
<1>4. exit_status' \in {0, 1} /\ troubles' \subseteq Node /\ deleted' \subseteq Node
  <2>1. CASE deleted' \in {deleted, deleted \cup {cur}} /\ Report
      BY <1>3, <2>1, ReportType DEF TypeOK
  <2>2. CASE deleted' = deleted /\ exit_status' = 1 /\ troubles' = troubles \cup {cur}
      BY <1>3, <2>2 DEF TypeOK
  <2> QED
      BY <2>1, <2>2 DEF VisitDeletes
<1>5. ~stop_at_current_level
    BY <1>2, PrunedIsPassedOver
<1>6. /\ instr' \in {"none", "SKIP"} /\ stop_at_current_level' \in BOOLEAN
      /\ ~stop_at_current_level'
    BY <1>2, <1>5, AfterVisit DEF TypeOK
<1>7. TypeOK'
    BY <1>1, <1>2, <1>3, <1>4, <1>6 DEF TypeOK
<1>8. AtFile'
    BY <1>2, <1>3 DEF AtFile
<1>9. PruneIsTransient'
    BY <1>6 DEF PruneIsTransient
<1> QED
    BY <1>7, <1>8, <1>9

------------------------------------------------------------------------------
(* The theorems.                                                           *)

LEMMA NextInvariant ==
    ASSUME IInv, [Next]_vars
    PROVE  IInv'
<1>1. CASE FtsRead
    BY <1>1, FtsReadInvariant
<1>2. CASE StartPoint
    BY <1>2, StartPointInvariant
<1>3. CASE CloseFails \/ Finish
    BY <1>3, EndInvariant
<1>4. CASE ReportError
    BY <1>4, ReportErrorInvariant
<1>5. CASE ForceStat
    BY <1>5, ForceStatInvariant
<1>6. CASE PassOver
    BY <1>6, PassOverInvariant
<1>7. CASE Visit
    BY <1>7, VisitInvariant
<1>8. CASE VisitQuits
    BY <1>8, VisitQuitsInvariant
<1>9. CASE VisitDeletes
    BY <1>9, VisitDeletesInvariant
<1>10. CASE Abort
    BY <1>10, AbortInvariant
<1>11. CASE UNCHANGED vars
    BY <1>11 DEF vars, treeVars, ftsVars, history, IInv, TypeOK, TreeOK, AtFile,
                 PruneIsTransient, Node
<1> QED
    BY <1>1, <1>2, <1>3, <1>4, <1>5, <1>6, <1>7, <1>8, <1>9, <1>10,
       <1>11
    DEF Next, Consider

\* Types, what find knows of fts_cur, and PruneIsTransient hold together.
THEOREM InductiveInvariant == Spec => []IInv
BY InitInvariant, NextInvariant, PTL DEF Spec

\* The variables of find and fts_read keep their types; with -depth nothing
\* is ever pruned, and without -delete nothing is deleted.
THEOREM TypeCorrect == Spec => []TypeOK
<1>1. IInv => TypeOK
    BY DEF IInv
<1> QED
    BY <1>1, InductiveInvariant, PTL

\* state.stop_at_current_level never outlives the two visits of the directory
\* -prune was applied to, so that visit skips no other directory for it.
THEOREM PruneEndsWithDirectory == Spec => []PruneIsTransient
<1>1. IInv => PruneIsTransient
    BY DEF IInv
<1> QED
    BY <1>1, InductiveInvariant, PTL

------------------------------------------------------------------------------
(* The hierarchy.  Above, Level and Start are defined by recursion on the  *)
(* parent; that they satisfy their equations is an induction over the files, *)
(* which is got from the least element of a set of natural numbers.        *)

\* A set of natural numbers has a least element, of which an induction is made.
LEMMA LeastOf ==
    ASSUME NEW T, T \subseteq Nat, T # {}
    PROVE  \E x \in T : \A y \in T : x <= y
<1>1. PICK x \in T : \A y \in T : <<y, x>> \notin OpToRel(<, Nat)
    BY NatLessThanWellFounded, WFMin, Zenon
<1>2. \A y \in T : x <= y
  <2>1. SUFFICES ASSUME NEW y \in T, y < x PROVE FALSE
      OBVIOUS
  <2>2. <<y, x>> \in OpToRel(<, Nat)
      BY <2>1 DEF OpToRel
  <2> QED
      BY <1>1, <2>2
<1> QED
    BY <1>2

\* The hierarchy, as the initial states have it: a directory comes before its
\* entries, and only directories have entries.
Hierarchy ==
    /\ \A n \in Node : parent[n] < n
    /\ \A n \in Node : Children(n) # {} => kind[n] \in DirKinds

\* What holds of a file when it holds of its directory holds of all files.
LEMMA TreeInduction ==
    ASSUME TreeOK, Hierarchy, NEW T,
           \A n \in Node : (parent[n] # None => parent[n] \in T) => n \in T
    PROVE  Node \subseteq T
<1>1. SUFFICES ASSUME Node \ T # {} PROVE FALSE
    OBVIOUS
<1>2. Node \ T \subseteq Nat
    BY FindWalkAssumption DEF Node, FindWalkAssumption
<1>3. PICK n \in Node \ T : \A m \in Node \ T : n <= m
    BY <1>1, <1>2, LeastOf
<1>4. parent[n] < n
    BY DEF Hierarchy
<1>5. parent[n] # None => parent[n] \in Node
    BY TreeNodes
<1>6. parent[n] # None => parent[n] \in T
    BY <1>2, <1>3, <1>4, <1>5 DEF Node
<1> QED
    BY <1>3, <1>6

\* f is got for a file from what it is for its directory.
ByParent(f, base, step) ==
    \A n \in Node : f[n] = IF parent[n] = None THEN base[n] ELSE step[n][f[parent[n]]]

\* A function may be defined by what it is for the starting points, and by how
\* it is got for a file from what it is for its directory.
LEMMA TreeRecursion ==
    ASSUME TreeOK, Hierarchy, NEW S, NEW base \in [Node -> S],
           NEW step \in [Node -> [S -> S]]
    PROVE  \E f \in [Node -> S] : ByParent(f, base, step)
<1> DEFINE Upto(m) == {k \in Node : k <= m}
           Good(m, f) == \A n \in Upto(m) :
               f[n] = IF parent[n] = None THEN base[n] ELSE step[n][f[parent[n]]]
           Bad == {m \in Nat : \A f \in [Upto(m) -> S] : ~Good(m, f)}
<1>1. Bad = {}
  <2>1. SUFFICES ASSUME Bad # {} PROVE FALSE
      OBVIOUS
  <2>2. PICK m \in Bad : \A k \in Bad : m <= k
      BY <2>1, LeastOf
  <2>3. SUFFICES ASSUME m # 0 PROVE FALSE
    <3>1. Upto(0) = {}
        BY DEF Node
    <3>2. Good(0, [n \in Upto(0) |-> base[n]])
        BY <3>1
    <3>3. [n \in Upto(0) |-> base[n]] \in [Upto(0) -> S]
        BY <3>1
    <3>4. 0 \notin Bad
        BY <3>2, <3>3
    <3> QED
        BY <2>2, <3>4
  <2>4. m - 1 \in Nat /\ m - 1 < m
      BY <2>2, <2>3
  <2>5. m - 1 \notin Bad
      BY <2>2, <2>4
  <2>6. PICK f \in [Upto(m - 1) -> S] : Good(m - 1, f)
      BY <2>4, <2>5
  <2> DEFINE g == [n \in Upto(m) |->
                      IF parent[n] = None THEN base[n] ELSE step[n][f[parent[n]]]]
  <2>7. \A n \in Upto(m) : parent[n] # None => parent[n] \in Upto(m - 1)
      BY <2>4, TreeNodes DEF Hierarchy, Node
  <2>8. \A n \in Upto(m - 1) : n \in Upto(m) /\ g[n] = f[n]
      BY <2>4, <2>6 DEF Node
  <2>9. g \in [Upto(m) -> S]
      BY <2>6, <2>7
  <2>10. Good(m, g)
    <3> HIDE DEF Upto
    <3>1. \A n \in Upto(m) : parent[n] # None => g[parent[n]] = f[parent[n]]
        BY <2>7, <2>8
    <3> QED
        BY <3>1
  <2> HIDE DEF g, Good, Upto
  <2> QED
      BY <2>2, <2>9, <2>10
<1>2. Upto(Nodes) = Node /\ Nodes \in Nat
    BY FindWalkAssumption DEF FindWalkAssumption, Node
<1>3. PICK f \in [Upto(Nodes) -> S] : Good(Nodes, f)
    BY <1>1, <1>2
<1> QED
    BY <1>2, <1>3 DEF ByParent

LEMMA AboveDef ==
    ASSUME TreeOK, Hierarchy
    PROVE  Above = [n \in Node |->
                       IF parent[n] = None THEN {} ELSE {parent[n]} \cup Above[parent[n]]]
<1> DEFINE base == [n \in Node |-> {}]
           step == [n \in Node |-> [s \in SUBSET Nat |-> {parent[n]} \cup s]]
<1>1. base \in [Node -> SUBSET Nat] /\ step \in [Node -> [SUBSET Nat -> SUBSET Nat]]
  <2>1. \A n \in Node : parent[n] \in Nat
      BY FindWalkAssumption DEF TreeOK, FindWalkAssumption
  <2> QED
      BY <2>1
<1>2. PICK f \in [Node -> SUBSET Nat] : ByParent(f, base, step)
  <2> HIDE DEF base, step
  <2> QED BY <1>1, TreeRecursion, Zenon
<1>3. f = [n \in Node |-> IF parent[n] = None THEN {} ELSE {parent[n]} \cup f[parent[n]]]
    BY <1>2, TreeNodes DEF ByParent
<1> QED
    BY <1>3, Zenon DEF Above

LEMMA LevelDef ==
    ASSUME TreeOK, Hierarchy
    PROVE  Level = [n \in Node |-> IF parent[n] = None THEN 0 ELSE Level[parent[n]] + 1]
<1> DEFINE base == [n \in Node |-> 0]
           step == [n \in Node |-> [k \in Nat |-> k + 1]]
<1>1. base \in [Node -> Nat] /\ step \in [Node -> [Nat -> Nat]]
    OBVIOUS
<1>2. PICK f \in [Node -> Nat] : ByParent(f, base, step)
  <2> HIDE DEF base, step
  <2> QED BY <1>1, TreeRecursion, Zenon
<1>3. f = [n \in Node |-> IF parent[n] = None THEN 0 ELSE f[parent[n]] + 1]
    BY <1>2, TreeNodes DEF ByParent
<1> QED
    BY <1>3, Zenon DEF Level

LEMMA StartDef ==
    ASSUME TreeOK, Hierarchy
    PROVE  Start = [n \in Node |-> IF parent[n] = None THEN n ELSE Start[parent[n]]]
<1> DEFINE base == [n \in Node |-> n]
           step == [n \in Node |-> [k \in Node |-> k]]
<1>1. base \in [Node -> Node] /\ step \in [Node -> [Node -> Node]]
    OBVIOUS
<1>2. PICK f \in [Node -> Node] : ByParent(f, base, step)
  <2> HIDE DEF base, step
  <2> QED BY <1>1, TreeRecursion, Zenon
<1>3. f = [n \in Node |-> IF parent[n] = None THEN n ELSE f[parent[n]]]
    BY <1>2, TreeNodes DEF ByParent
<1> QED
    BY <1>3, Zenon DEF Start

LEMMA TreeOperatorsKept ==
    ASSUME UNCHANGED treeVars
    PROVE  Above' = Above /\ Level' = Level /\ Start' = Start
BY DEF treeVars, Above, Level, Start, Node

LEMMA HierarchyKept ==
    ASSUME Hierarchy, UNCHANGED treeVars
    PROVE  Hierarchy'
BY DEF treeVars, Hierarchy, Children, Node

\* What Above is, for a starting point and for the entry of a directory.
LEMMA AboveParent ==
    ASSUME TreeOK, Hierarchy, NEW n \in Node
    PROVE  /\ parent[n] = None => Above[n] = {}
           /\ parent[n] # None => /\ parent[n] \in Node
                                  /\ Above[n] = {parent[n]} \cup Above[parent[n]]
BY AboveDef, TreeNodes

\* Directories come before what is in them.
LEMMA AboveLower ==
    ASSUME TreeOK, Hierarchy
    PROVE  \A n \in Node : \A d \in Above[n] : d \in Node /\ d < n
<1> DEFINE T == {n \in Node : \A d \in Above[n] : d \in Node /\ d < n}
<1>1. ASSUME NEW n \in Node, parent[n] # None => parent[n] \in T
      PROVE  n \in T
  <2>1. CASE parent[n] = None
      BY <2>1, AboveParent
  <2>2. CASE parent[n] # None
    <3>1. parent[n] \in Node /\ Above[n] = {parent[n]} \cup Above[parent[n]] /\ parent[n] < n
        BY <2>2, AboveParent DEF Hierarchy
    <3> QED
        BY <1>1, <2>2, <3>1 DEF Node
  <2> QED
      BY <2>1, <2>2
<1>2. Node \subseteq T
  <2> HIDE DEF T
  <2> QED
      BY <1>1, TreeInduction
<1> QED
    BY <1>2

LEMMA NotAboveItself ==
    ASSUME TreeOK, Hierarchy, NEW n \in Node
    PROVE  n \notin Above[n] /\ Above[n] \subseteq Node
BY AboveLower DEF Node

\* What is above a directory is above all that is in it.
LEMMA AboveTransitive ==
    ASSUME TreeOK, Hierarchy
    PROVE  \A n \in Node : \A d \in Above[n] : Above[d] \subseteq Above[n]
<1> DEFINE T == {n \in Node : \A d \in Above[n] : Above[d] \subseteq Above[n]}
<1>1. ASSUME NEW n \in Node, parent[n] # None => parent[n] \in T
      PROVE  n \in T
    BY <1>1, AboveParent
<1>2. Node \subseteq T
  <2> HIDE DEF T
  <2> QED
      BY <1>1, TreeInduction
<1> QED
    BY <1>2

\* A file and the directories it is in.
Chain(n) == {n} \cup Above[n]

\* From a directory, the way down to a file below it starts with an entry.
LEMMA WayDown ==
    ASSUME TreeOK, Hierarchy
    PROVE  \A n \in Node : \A d \in Above[n] : \E t \in Chain(n) : parent[t] = d
<1> DEFINE T == {n \in Node : \A d \in Above[n] : \E t \in Chain(n) : parent[t] = d}
<1>1. ASSUME NEW n \in Node, parent[n] # None => parent[n] \in T
      PROVE  n \in T
  <2>1. SUFFICES ASSUME NEW d \in Above[n] PROVE \E t \in Chain(n) : parent[t] = d
      OBVIOUS
  <2>2. parent[n] \in T /\ Above[n] = {parent[n]} \cup Above[parent[n]]
      BY <1>1, <2>1, AboveParent
  <2>3. Chain(n) = {n} \cup Chain(parent[n])
      BY <2>2 DEF Chain
  <2>4. CASE d = parent[n]
      BY <2>3, <2>4
  <2>5. CASE d \in Above[parent[n]]
      BY <2>2, <2>3, <2>5
  <2> QED
      BY <2>2, <2>4, <2>5
<1>2. Node \subseteq T
  <2> HIDE DEF T
  <2> QED
      BY <1>1, TreeInduction
<1> QED
    BY <1>2

\* A file lies deeper than the directories it is in.
LEMMA LevelBelow ==
    ASSUME TreeOK, Hierarchy
    PROVE  \A n \in Node : /\ Level[n] \in Nat
                           /\ \A d \in Above[n] : Level[d] < Level[n]
<1> DEFINE T == {n \in Node : /\ Level[n] \in Nat
                       /\ \A d \in Above[n] : Level[d] \in Nat /\ Level[d] < Level[n]}
<1>1. ASSUME NEW n \in Node, parent[n] # None => parent[n] \in T
      PROVE  n \in T
  <2>1. CASE parent[n] = None
    <3>1. Level[n] = 0
        BY <2>1, LevelDef
    <3> QED
        BY <2>1, <3>1, AboveParent
  <2>2. CASE parent[n] # None
    <3>1. Level[n] = Level[parent[n]] + 1
        BY <2>2, LevelDef
    <3>2. Above[n] = {parent[n]} \cup Above[parent[n]] /\ parent[n] \in T
        BY <1>1, <2>2, AboveParent
    <3>3. \A d \in Above[n] : Level[d] \in Nat /\ Level[d] < Level[n]
      <4>1. SUFFICES ASSUME NEW d \in Above[n] PROVE Level[d] \in Nat /\ Level[d] < Level[n]
          OBVIOUS
      <4>2. CASE d = parent[n]
          BY <3>1, <3>2, <4>2
      <4>3. CASE d \in Above[parent[n]]
          BY <3>1, <3>2, <4>3
      <4> QED
          BY <3>2, <4>2, <4>3
    <3> QED
        BY <3>1, <3>2, <3>3
  <2> QED
      BY <2>1, <2>2
<1>2. Node \subseteq T
  <2> HIDE DEF T
  <2> QED
      BY <1>1, TreeInduction
<1> QED
    BY <1>2

\* A directory and all that is below it lie under one starting point.
LEMMA StartBelow ==
    ASSUME TreeOK, Hierarchy
    PROVE  \A n \in Node : \A d \in Above[n] : Start[d] = Start[n]
<1> DEFINE T == {n \in Node : \A d \in Above[n] : Start[d] = Start[n]}
<1>1. ASSUME NEW n \in Node, parent[n] # None => parent[n] \in T
      PROVE  n \in T
  <2>1. CASE parent[n] = None
      BY <2>1, AboveParent
  <2>2. CASE parent[n] # None
    <3>1. Start[n] = Start[parent[n]]
        BY <2>2, StartDef
    <3>2. Above[n] = {parent[n]} \cup Above[parent[n]] /\ parent[n] \in T
        BY <1>1, <2>2, AboveParent
    <3> QED
        BY <3>1, <3>2
  <2> QED
      BY <2>1, <2>2
<1>2. Node \subseteq T
  <2> HIDE DEF T
  <2> QED
      BY <1>1, TreeInduction
<1> QED
    BY <1>2

------------------------------------------------------------------------------
(* The order in which fts returns files.                                   *)

Below(n) == {m \in Node : n \in Above[m]}

\* fts returns a directory before anything that is in it, and find asks for a
\* second look at a file (FTS_AGAIN) while nothing below it has been read.
TopDown ==
    /\ cur # None => cur \notin unread
    /\ \A n \in Node \ unread : Above[n] \cap unread = {}
    /\ info \in {"D", "NSOK", "NS"} => Below(cur) \subseteq unread
    /\ instr = "AGAIN" => pc = "read" /\ info = "NSOK"

\* What fts is about to return for the first time.
ComesNext(c) ==
    /\ ReturnsNew(c) /\ c \in Node /\ c \in unread
    /\ Above[c] \cap unread = {} /\ Below(c) \subseteq unread \ {c}

LEMMA IsNext ==
    ASSUME IInv, Hierarchy, TopDown, NEW c \in Node, ReturnsNew(c), c \in unread,
           Above[c] \cap unread = {}
    PROVE  ComesNext(c)
<1>1. TreeOK
    BY DEF IInv, TypeOK
<1>2. \A m \in Below(c) : m \in unread /\ m # c
    BY <1>1, NotAboveItself DEF TopDown, Below
<1> QED
    BY <1>2 DEF ComesNext

LEMMA DescendReturns ==
    ASSUME IInv, Hierarchy, TopDown, Descend
    PROVE  /\ cur \in Node /\ info = "D" /\ instr = "none"
           /\ \E c : ComesNext(c) /\ Above[c] = {cur} \cup Above[cur]
<1>1. TreeOK
    BY DEF IInv, TypeOK
<1>2. cur \in Node /\ info = "D" /\ instr = "none"
    BY DEF Descend, Entering, Entered, IInv, AtFile
<1>3. PICK c \in Children(cur) : ReturnsNew(c)
    BY DEF Descend
<1>4. c \in Node /\ parent[c] = cur /\ parent[c] # None
    BY <1>2, <1>3 DEF Children, Node, None
<1>5. Above[c] = {cur} \cup Above[cur]
    BY <1>1, <1>4, AboveParent
<1>6. c \in unread
    BY <1>2, <1>4, <1>5 DEF TopDown, Below
<1>7. Above[c] \cap unread = {}
    BY <1>2, <1>4, <1>5 DEF TopDown
<1> QED
    BY <1>2, <1>3, <1>4, <1>5, <1>6, <1>7, IsNext

LEMMA NextSiblingReturns ==
    ASSUME IInv, Hierarchy, TopDown, NextSibling
    PROVE  /\ cur \in Node /\ info \notin {"D", "NULL"} /\ instr # "AGAIN"
           /\ \E c : ComesNext(c) /\ Above[c] = Above[cur]
<1>1. TreeOK
    BY DEF IInv, TypeOK
<1>2. cur \in Node /\ info \notin {"D", "NULL"} /\ instr # "AGAIN" /\ parent[cur] # None
    BY DEF NextSibling, Leaving, IInv, TypeOK
<1>3. PICK c \in Children(parent[cur]) \cap unread : ReturnsNew(c)
    BY DEF NextSibling
<1>4. c \in Node /\ parent[c] = parent[cur] /\ c \in unread
    BY <1>3 DEF Children
<1>5. Above[c] = Above[cur]
    BY <1>1, <1>2, <1>4, AboveParent
<1>6. Above[c] \cap unread = {}
    BY <1>2, <1>5 DEF TopDown, Node, None
<1> QED
    BY <1>2, <1>3, <1>4, <1>5, <1>6, IsNext

LEMMA LeaveParentReturns ==
    ASSUME IInv, Hierarchy, LeaveParent
    PROVE  /\ cur \in Node /\ info \notin {"D", "NULL"} /\ instr # "AGAIN"
           /\ cur' \in Node /\ cur' = parent[cur] /\ info' \in {"DP", "ERR"}
           /\ Above[cur] = {cur'} \cup Above[cur']
           /\ UNCHANGED <<unread, abandoned>>
<1>1. TreeOK
    BY DEF IInv, TypeOK
<1>2. /\ cur \in Node /\ parent[cur] # None
      /\ info \notin {"D", "NULL"} /\ instr # "AGAIN"
    BY DEF LeaveParent, Leaving, IInv, TypeOK
<1>3. cur' = parent[cur] /\ info' \in {"DP", "ERR"} /\ UNCHANGED <<unread, abandoned>>
    BY DEF LeaveParent, Returns
<1> QED
    BY <1>1, <1>2, <1>3, AboveParent

LEMMA StartPointReturns ==
    ASSUME IInv, Hierarchy, TopDown, StartPoint
    PROVE  \E c : ComesNext(c) /\ Above[c] = {}
<1>1. TreeOK
    BY DEF IInv, TypeOK
<1>2. PICK c \in StartingPoints : ReturnsNew(c)
    BY DEF StartPoint
<1>3. c \in Node /\ parent[c] = None /\ c \in unread
    BY <1>2 DEF StartingPoints, Children
<1>4. Above[c] = {}
    BY <1>1, <1>3, AboveParent
<1> QED
    BY <1>2, <1>3, <1>4, IsNext

\* fts_read stays with its file: it stats it again, skips or leaves it, cannot
\* read it, or gives up.
Stays == \/ ReadAgain \/ Skip \/ LeaveEmpty \/ CannotRead \/ CannotReadLeaf \/ Stop

LEMMA StaysAt ==
    ASSUME IInv, Stays
    PROVE  /\ cur \in Node /\ cur' = cur /\ unread' = unread
           /\ \/ info' \in {"D", "NS"} /\ instr = "AGAIN"
              \/ info' \in {"DP", "DNR", "ERR"} /\ info = "D" /\ instr # "AGAIN"
              \/ info' = "NULL"
BY DEF Stays, ReadAgain, Skip, LeaveEmpty, CannotRead, CannotReadLeaf, Stop, Entering, Entered,
       Leaving, Returns, IInv, AtFile, TypeOK, Node, None

LEMMA FtsReadFrame ==
    ASSUME FtsRead
    PROVE  /\ UNCHANGED <<treeVars, stop_at_current_level, exit_status, history>>
           /\ pc = "read" /\ instr' = "none"
           /\ pc' = IF info' = "NULL" THEN "read" ELSE "consider"
           /\ Stays \/ Descend \/ NextSibling \/ LeaveParent
BY DEF FtsRead, Stays

LEMMA StartPointFrame ==
    ASSUME StartPoint
    PROVE  /\ UNCHANGED <<treeVars, stop_at_current_level, exit_status, history, abandoned>>
           /\ pc = "read" /\ instr' = "none" /\ pc' = "consider" /\ AtTop
BY DEF StartPoint

\* find does not move fts.
LEMMA OthersFrame ==
    ASSUME Abort \/ CloseFails \/ Finish \/ Consider
    PROVE  UNCHANGED <<treeVars, ftsVars>>
BY DEF Abort, CloseFails, Finish, Consider, ReportError, ForceStat, PassOver, Visit, VisitQuits,
       VisitDeletes

LEMMA TreeVarsKept ==
    ASSUME [Next]_vars
    PROVE  UNCHANGED treeVars
BY FtsReadFrame, StartPointFrame, OthersFrame DEF Next, vars

LEMMA NextReturned ==
    ASSUME TypeOK, NEW c, ComesNext(c)
    PROVE  /\ cur' = c /\ cur' \in Node /\ unread' = unread \ {c}
           /\ c \in unread /\ c \notin unread' /\ Above[c] \cap unread = {}
           /\ Below(c) \subseteq unread' 
           /\ info' \in {"D", "NS", "DC", "NSOK"} /\ info' = FirstInfo(c)
BY FirstInfoType DEF ComesNext, ReturnsNew, Returns

LEMMA InitTopDown ==
    ASSUME Init
    PROVE  TopDown
BY DEF Init, TopDown, Node, None

LEMMA NewTopDown ==
    ASSUME IInv, TopDown, UNCHANGED treeVars, instr' = "none", NEW c, ComesNext(c)
    PROVE  TopDown'
<1>1. Above' = Above
    BY TreeOperatorsKept
<1>2. /\ cur' = c /\ unread' = unread \ {c} /\ c \notin unread'
      /\ Below(c) \subseteq unread' /\ Above[c] \cap unread = {}
    BY NextReturned DEF IInv
<1>3. \A n \in Node \ unread' : Above[n] \cap unread' = {}
    BY <1>2 DEF TopDown
<1>4. Below(c)' = Below(c)
    BY <1>1 DEF Below, Node
<1> QED
    BY <1>1, <1>2, <1>3, <1>4 DEF TopDown, Below, Node

LEMMA FtsTopDown ==
    ASSUME IInv, Hierarchy, TopDown, FtsRead \/ StartPoint
    PROVE  TopDown'
<1>1. UNCHANGED treeVars /\ instr' = "none"
    BY FtsReadFrame, StartPointFrame
<1>2. Above' = Above
    BY <1>1, TreeOperatorsKept
<1>3. CASE Stays
  <2>1. cur' = cur /\ unread' = unread
      BY <1>3, StaysAt
  <2>2. info' \in {"D", "NSOK", "NS"} => info = "NSOK"
      BY <1>3, StaysAt DEF TopDown
  <2> QED
      BY <1>1, <1>2, <2>1, <2>2 DEF TopDown, Below, Node
<1>4. CASE Descend \/ NextSibling \/ StartPoint
    BY <1>1, <1>4, DescendReturns, NextSiblingReturns, StartPointReturns, NewTopDown
<1>5. CASE LeaveParent
  <2>1. /\ cur' \in Above[cur] /\ cur \in Node /\ unread' = unread
        /\ info' \in {"DP", "ERR"}
      BY <1>5, LeaveParentReturns
  <2>2. cur' \notin unread
      BY <2>1 DEF TopDown, Node, None
  <2> QED
      BY <1>1, <1>2, <2>1, <2>2 DEF TopDown, Node
<1> QED
    BY <1>3, <1>4, <1>5, FtsReadFrame

LEMMA NextTopDown ==
    ASSUME IInv, Hierarchy, TopDown, [Next]_vars
    PROVE  TopDown'
<1>1. CASE FtsRead \/ StartPoint
    BY <1>1, FtsTopDown
<1>2. CASE Abort \/ CloseFails \/ Finish \/ Consider \/ UNCHANGED vars
  <2>1. UNCHANGED <<treeVars, cur, info, unread>>
      BY <1>2, OthersFrame DEF ftsVars, vars
  <2>2. Above' = Above
      BY <2>1, TreeOperatorsKept
  <2>3. instr' = "AGAIN" => pc' = "read" /\ info = "NSOK"
    <3>1. CASE Abort \/ UNCHANGED vars
        BY <3>1 DEF Abort, vars, TopDown
    <3>2. CASE CloseFails \/ Finish
        BY <3>2 DEF CloseFails, Finish, AtTop, TopDown, IInv, AtFile, Node, None
    <3>3. CASE ReportError \/ ForceStat \/ VisitQuits
        BY <3>3 DEF ReportError, ForceStat, NeedsStat, VisitQuits, Visited, Considering, TopDown
    <3>4. CASE PassOver \/ Visit \/ VisitDeletes
        BY <3>4, Zenon DEF PassOver, Visit, VisitDeletes, SkipFor
    <3> QED
        BY <1>2, <3>1, <3>2, <3>3, <3>4 DEF Consider
  <2>4. (\A n \in Node \ unread : Above[n] \cap unread = {})'
      BY <2>1, <2>2 DEF TopDown, Node
  <2> QED
      BY <2>1, <2>2, <2>3, <2>4 DEF TopDown, Below, Node
<1> QED
    BY <1>1, <1>2 DEF Next

------------------------------------------------------------------------------
(* The expression is applied to a file once, and in order.                 *)

\* A file find has not seen in full: it is considered for the first time, or
\* is to be returned again.
Fresh == (pc = "consider" /\ info \in {"D", "NSOK", "NS"}) \/ instr = "AGAIN"

\* What the expression has been applied to: nothing that is yet to be read or
\* seen, and with -depth no directory that is open.
NotTwice ==
    /\ AppliedOnce
    /\ Evaluated \cap unread = {}
    /\ Fresh => cur \notin Evaluated
    /\ ~do_dir_first /\ cur # None =>
          /\ Above[cur] \cap Evaluated = {}
          /\ info = "D" \/ (pc = "consider" /\ info = "DP") => cur \notin Evaluated

LEMMA InitNotTwice ==
    ASSUME Init
    PROVE  NotTwice
BY DEF Init, NotTwice, AppliedOnce, Evaluated, Fresh, None

LEMMA EvaluatedKept ==
    ASSUME evaluated' = evaluated
    PROVE  Evaluated' = Evaluated /\ (AppliedOnce => AppliedOnce')
BY DEF Evaluated, AppliedOnce

LEMMA FtsNotTwice ==
    ASSUME IInv, Hierarchy, TopDown, NotTwice, FtsRead \/ StartPoint
    PROVE  NotTwice'
<1>1. UNCHANGED treeVars /\ instr' = "none" /\ evaluated' = evaluated
      /\ do_dir_first' = do_dir_first
    BY FtsReadFrame, StartPointFrame DEF history, treeVars
<1>2. Above' = Above /\ Evaluated' = Evaluated /\ AppliedOnce'
    BY <1>1, TreeOperatorsKept, EvaluatedKept DEF NotTwice
<1>3. CASE Stays
  <2>1. cur' = cur /\ unread' = unread /\ cur \in Node
      BY <1>3, StaysAt
  <2>2. CASE info' \in {"D", "NS"} /\ instr = "AGAIN"
    <3>1. cur \notin Evaluated
        BY <2>2 DEF NotTwice, Fresh
    <3> QED
        BY <1>1, <1>2, <2>1, <3>1 DEF NotTwice
  <2>3. CASE info' \in {"DP", "DNR", "ERR"} /\ info = "D"
    <3>1. ~Fresh'
        BY <1>1, <2>3 DEF Fresh
    <3>2. ~do_dir_first => cur \notin Evaluated
        BY <2>1, <2>3 DEF NotTwice, Node, None
    <3> QED
        BY <1>1, <1>2, <2>1, <3>1, <3>2 DEF NotTwice
  <2>4. CASE info' = "NULL"
    <3>1. ~Fresh'
        BY <1>1, <2>4 DEF Fresh
    <3> QED
        BY <1>1, <1>2, <2>1, <2>4, <3>1 DEF NotTwice
  <2> QED
      BY <1>3, <2>2, <2>3, <2>4, StaysAt
<1>4. CASE Descend \/ NextSibling \/ StartPoint
  <2>2. PICK c : /\ ComesNext(c)
                 /\ \/ Above[c] = {}
                    \/ cur \in Node /\ Above[c] = Above[cur]
                    \/ cur \in Node /\ Above[c] = {cur} \cup Above[cur] /\ info = "D"
      BY <1>4, DescendReturns, NextSiblingReturns, StartPointReturns
  <2>3. cur' = c /\ c \in unread /\ unread' \subseteq unread
      BY <2>2, NextReturned DEF IInv
  <2>4. c \notin Evaluated
      BY <2>3 DEF NotTwice
  <2>5. ~do_dir_first => Above[c] \cap Evaluated = {}
      BY <2>2 DEF NotTwice, Node, None
  <2> QED
      BY <1>1, <1>2, <2>3, <2>4, <2>5 DEF NotTwice
<1>5. CASE LeaveParent
  <2>1. /\ cur' \in Above[cur] /\ cur \in Node /\ unread' = unread
        /\ info' \in {"DP", "ERR"} /\ Above[cur'] \subseteq Above[cur]
      BY <1>5, LeaveParentReturns
  <2>2. ~do_dir_first => cur' \notin Evaluated /\ Above[cur'] \cap Evaluated = {}
      BY <2>1 DEF NotTwice, Node, None
  <2>3. ~Fresh'
      BY <1>1, <2>1 DEF Fresh
  <2> QED
      BY <1>1, <1>2, <2>1, <2>2, <2>3 DEF NotTwice
<1> QED
    BY <1>3, <1>4, <1>5, FtsReadFrame

\* The file the expression is applied to has not been seen in full before.
LEMMA VisitedIsNew ==
    ASSUME IInv, TopDown, NotTwice, Visited
    PROVE  /\ cur \in Node /\ pc = "consider" /\ evaluated' = Append(evaluated, cur)
           /\ cur \notin Evaluated
           /\ do_dir_first => info \in {"D", "NSOK", "NS"}
           /\ ~do_dir_first => info \in {"DP", "NSOK", "NS"} /\ Above[cur] \cap Evaluated = {}
<1>1. /\ pc = "consider" /\ cur \in Node /\ ~Ignore
      /\ evaluated' = Append(evaluated, cur)
    BY DEF Visited, Considering, IInv, AtFile
<1>2. info \in {"D", "DP", "NS", "NSOK"}
    BY <1>1 DEF Visited, Considering, GivesUpOn, IInv, TypeOK, AtFile
<1>3. /\ do_dir_first => info # "DP"
      /\ ~do_dir_first => info # "D"
    BY <1>1, Zenon DEF Ignore
<1> QED
    BY <1>1, <1>2, <1>3 DEF NotTwice, Fresh, Node, None

\* What the expression has been applied to after one more file.
LEMMA EvaluatedAppend ==
    ASSUME evaluated \in Seq(Node), NEW n \in Node, evaluated' = Append(evaluated, n)
    PROVE  /\ Evaluated' = Evaluated \cup {n}
           /\ AppliedOnce /\ n \notin Evaluated => AppliedOnce'
           /\ DOMAIN evaluated' = 1 .. Len(evaluated) + 1 /\ Len(evaluated) \in Nat
           /\ DOMAIN evaluated = 1 .. Len(evaluated)
           /\ \A i \in DOMAIN evaluated : evaluated'[i] = evaluated[i] 
           /\ evaluated'[Len(evaluated) + 1] = n
<1>1. /\ DOMAIN evaluated' = 1 .. Len(evaluated) + 1 /\ Len(evaluated) \in Nat
      /\ DOMAIN evaluated = 1 .. Len(evaluated)
      /\ \A i \in DOMAIN evaluated : evaluated'[i] = evaluated[i] 
      /\ evaluated'[Len(evaluated) + 1] = n
    OBVIOUS
<1>2. Evaluated' = Evaluated \cup {n}
  <2>1. \A x \in Evaluated' : x \in Evaluated \cup {n}
      BY <1>1 DEF Evaluated
  <2>2. \A x \in Evaluated : x \in Evaluated'
      BY <1>1 DEF Evaluated
  <2>3. n \in Evaluated'
      BY <1>1 DEF Evaluated
  <2> QED
      BY <2>1, <2>2, <2>3
<1>3. ASSUME AppliedOnce, n \notin Evaluated PROVE AppliedOnce'
    BY <1>1, <1>3 DEF AppliedOnce, Evaluated
<1> QED
    BY <1>1, <1>2, <1>3

LEMMA VisitedNotTwice ==
    ASSUME IInv, Hierarchy, TopDown, NotTwice, Visited,
           UNCHANGED <<treeVars, ftsVars>>, pc' \in {"read", "quit"}, instr' # "AGAIN"
    PROVE  NotTwice'
<1>1. UNCHANGED <<do_dir_first, cur, info, unread>> /\ Above' = Above
    BY TreeOperatorsKept DEF treeVars, ftsVars
<1>2. /\ cur \in Node /\ cur \notin Evaluated
      /\ ~do_dir_first => info # "D" /\ Above[cur] \cap Evaluated = {}
    BY VisitedIsNew
<1>3. Evaluated' = Evaluated \cup {cur} /\ AppliedOnce'
    BY <1>2, VisitedIsNew, EvaluatedAppend DEF NotTwice, IInv, TypeOK
<1>4. cur \notin unread /\ cur \notin Above[cur]
    BY <1>2, NotAboveItself DEF TopDown, Node, None, IInv, TypeOK
<1>5. ~Fresh'
    BY DEF Fresh
<1> QED
    BY <1>1, <1>2, <1>3, <1>4, <1>5 DEF NotTwice

LEMMA NextNotTwice ==
    ASSUME IInv, Hierarchy, TopDown, NotTwice, [Next]_vars
    PROVE  NotTwice'
<1>1. CASE FtsRead \/ StartPoint
    BY <1>1, FtsNotTwice
<1>2. CASE Visit \/ VisitQuits \/ VisitDeletes
  <2>1. Visited /\ pc' \in {"read", "quit"} /\ UNCHANGED <<treeVars, ftsVars>>
      BY <1>2 DEF Visit, VisitQuits, VisitDeletes
  <2>2. instr' # "AGAIN"
    <3>1. CASE VisitQuits
        BY <3>1, <2>1 DEF VisitQuits, Visited, Considering, TopDown
    <3>2. CASE Visit \/ VisitDeletes
        BY <3>2, Zenon DEF Visit, VisitDeletes, SkipFor
    <3> QED
        BY <1>2, <3>1, <3>2
  <2> QED
      BY <2>1, <2>2, VisitedNotTwice
<1>3. CASE Abort \/ CloseFails \/ Finish \/ ReportError \/ ForceStat \/ PassOver \/ UNCHANGED vars
  <2>1. UNCHANGED <<treeVars, ftsVars, evaluated>>
      BY <1>3, OthersFrame
         DEF vars, history, Abort, CloseFails, Finish, Consider, ReportError, ForceStat, PassOver
  <2>2. UNCHANGED <<do_dir_first, cur, info, unread>> /\ Above' = Above
        /\ Evaluated' = Evaluated /\ AppliedOnce'
      BY <2>1, TreeOperatorsKept, EvaluatedKept DEF treeVars, ftsVars, NotTwice
  <2>3. pc' = "consider" => pc = "consider"
      BY <1>3 DEF Abort, CloseFails, Finish, ReportError, ForceStat, PassOver, vars
  <2>4. Fresh' => Fresh
    <3>1. CASE ForceStat
        BY <3>1 DEF ForceStat, NeedsStat, Fresh
    <3>2. CASE PassOver
        BY <3>2, Zenon DEF PassOver, SkipFor, Fresh
    <3>3. CASE Abort \/ CloseFails \/ Finish \/ ReportError \/ UNCHANGED vars
        BY <3>3, <2>2, <2>3 DEF Abort, CloseFails, Finish, ReportError, vars, Fresh
    <3> QED
        BY <1>3, <3>1, <3>2, <3>3
  <2> QED
      BY <2>2, <2>3, <2>4 DEF NotTwice
<1> QED
    BY <1>1, <1>2, <1>3 DEF Next, Consider


LEMMA NextOrder ==
    ASSUME IInv, Hierarchy, TopDown, NotTwice, OrderOfVisits, [Next]_vars
    PROVE  OrderOfVisits'
<1>1. Above' = Above /\ do_dir_first' = do_dir_first
    BY TreeVarsKept, TreeOperatorsKept DEF treeVars
<1>2. CASE evaluated' = evaluated
    BY <1>1, <1>2 DEF OrderOfVisits
<1>3. CASE Visited
  <2>1. /\ cur \in Node /\ evaluated' = Append(evaluated, cur) /\ evaluated \in Seq(Node)
        /\ do_dir_first => info \in {"D", "NSOK", "NS"}
        /\ ~do_dir_first => Above[cur] \cap Evaluated = {}
      BY <1>3, VisitedIsNew DEF IInv, TypeOK
  <2>2. do_dir_first => \A n \in Evaluated : cur \notin Above[n]
      BY <2>1 DEF TopDown, Below, NotTwice, Evaluated
  <2>3. /\ DOMAIN evaluated' = 1 .. Len(evaluated) + 1 /\ Len(evaluated) \in Nat
        /\ DOMAIN evaluated = 1 .. Len(evaluated)
        /\ \A i \in DOMAIN evaluated : evaluated'[i] = evaluated[i] 
        /\ evaluated'[Len(evaluated) + 1] = cur
      BY <2>1, EvaluatedAppend
  <2>4. SUFFICES ASSUME NEW i \in DOMAIN evaluated', NEW j \in DOMAIN evaluated', i < j
                 PROVE  IF do_dir_first THEN evaluated'[j] \notin Above[evaluated'[i]]
                        ELSE evaluated'[i] \notin Above[evaluated'[j]]
      BY <1>1 DEF OrderOfVisits
  <2>5. i \in DOMAIN evaluated /\ evaluated'[i] = evaluated[i] /\ evaluated[i] \in Evaluated
      BY <2>3, <2>4 DEF Evaluated
  <2>6. CASE j \in DOMAIN evaluated
      BY <2>3, <2>4, <2>5, <2>6 DEF OrderOfVisits
  <2>7. CASE j = Len(evaluated) + 1
      BY <2>1, <2>2, <2>3, <2>5, <2>7
  <2> QED
      BY <2>3, <2>6, <2>7
<1>4. Visited \/ evaluated' = evaluated
    BY FtsReadFrame, StartPointFrame
       DEF Next, Consider, Abort, CloseFails, Finish, ReportError, ForceStat, PassOver, Visit,
           VisitQuits, VisitDeletes, vars, history
<1> QED
    BY <1>2, <1>3, <1>4

------------------------------------------------------------------------------
(* The expression is applied to what is wanted alone.                      *)

\* find is never below a pruned directory, and applies the expression to what
\* is wanted alone.
PruneSteers ==
    /\ pruned \subseteq Evaluated
    /\ cur # None => Above[cur] \cap pruned = {}
    /\ pc = "read" /\ info = "D" /\ cur \in pruned => instr = "SKIP"
    /\ Evaluated \subseteq Wanted

LEMMA InitPruneSteers ==
    ASSUME Init
    PROVE  PruneSteers
BY DEF Init, PruneSteers, Evaluated, None

LEMMA WantedKept ==
    ASSUME UNCHANGED <<treeVars, pruned>>
    PROVE  Wanted' = Wanted
<1>1. Above' = Above /\ Level' = Level /\ UNCHANGED <<mindepth, maxdepth, pruned>>
    BY TreeOperatorsKept DEF treeVars
<1> QED
    BY <1>1 DEF Wanted, Node, NoLimit

\* Pruning a directory makes nothing wanted.
LEMMA WantedShrinks ==
    ASSUME UNCHANGED treeVars, pruned \subseteq pruned'
    PROVE  Wanted' \subseteq Wanted
<1>1. Above' = Above /\ Level' = Level /\ UNCHANGED <<mindepth, maxdepth>>
    BY TreeOperatorsKept DEF treeVars
<1> QED
    BY <1>1 DEF Wanted, Node, NoLimit

LEMMA FtsPruneSteers ==
    ASSUME IInv, Hierarchy, TopDown, PruneSteers, FtsRead \/ StartPoint
    PROVE  PruneSteers'
<1>1. UNCHANGED <<treeVars, evaluated, pruned>> /\ pc = "read"
      /\ (pc' = "read" => info' = "NULL")
    BY FtsReadFrame, StartPointFrame DEF history
<1>2. Above' = Above /\ Evaluated' = Evaluated /\ Wanted' = Wanted /\ pruned' = pruned
    BY <1>1, TreeOperatorsKept, EvaluatedKept, WantedKept
<1>3. cur' # None => Above[cur'] \cap pruned = {}
  <2>1. CASE Stays
      BY <2>1, StaysAt DEF PruneSteers
  <2>2. CASE Descend
    <3>1. PICK c : ComesNext(c) /\ Above[c] = {cur} \cup Above[cur]
        BY <2>2, DescendReturns
    <3>2. cur \notin pruned /\ Above[cur] \cap pruned = {}
        BY <1>1, <2>2, DescendReturns DEF PruneSteers, Node, None
    <3> QED
        BY <3>1, <3>2, NextReturned DEF IInv
  <2>3. CASE NextSibling
    <3>1. PICK c : ComesNext(c) /\ Above[c] = Above[cur]
        BY <2>3, NextSiblingReturns
    <3>2. Above[cur] \cap pruned = {}
        BY <2>3, NextSiblingReturns DEF PruneSteers, Node, None
    <3> QED
        BY <3>1, <3>2, NextReturned DEF IInv
  <2>4. CASE StartPoint
      BY <2>4, StartPointReturns, NextReturned DEF IInv
  <2>5. CASE LeaveParent
      BY <2>5, LeaveParentReturns DEF PruneSteers, Node, None
  <2> QED
      BY <2>1, <2>2, <2>3, <2>4, <2>5, FtsReadFrame
<1> QED
    BY <1>1, <1>2, <1>3 DEF PruneSteers

\* The depth of a file that is not passed over.
LEMMA NotIgnored ==
    ASSUME TreeOK, Hierarchy, cur \in Node, ~Ignore
    PROVE  Level[cur] >= mindepth /\ (maxdepth # NoLimit => Level[cur] <= maxdepth)
<1>1. ~(maxdepth # NoLimit /\ Level[cur] > maxdepth) /\ ~(Level[cur] < mindepth)
    BY Zenon DEF Ignore
<1>2. Level[cur] \in Nat
    BY LevelBelow
<1>3. mindepth \in Int /\ maxdepth \in Int
    BY FindWalkAssumption DEF TreeOK, FindWalkAssumption, NoLimit
<1> QED
    BY <1>1, <1>2, <1>3

\* The expression is applied to cur, and may prune it.
LEMMA VisitedPruneSteers ==
    ASSUME IInv, Hierarchy, TopDown, NotTwice, PruneSteers, Visited,
           UNCHANGED <<treeVars, ftsVars>>,
           \/ pruned' = pruned
           \/ pruned' = pruned \cup {cur} /\ info = "D" /\ instr' = "SKIP"
    PROVE  PruneSteers'
<1>1. UNCHANGED <<cur, info>> /\ Above' = Above /\ Level' = Level
      /\ UNCHANGED <<mindepth, maxdepth>>
    BY TreeOperatorsKept DEF treeVars, ftsVars
<1>2. /\ cur \in Node /\ cur \notin Evaluated /\ TreeOK /\ Evaluated \subseteq Node
      /\ evaluated \in Seq(Node) /\ evaluated' = Append(evaluated, cur)
    BY VisitedIsNew DEF IInv, TypeOK, Evaluated
<1>3. Evaluated' = Evaluated \cup {cur}
    BY <1>2, EvaluatedAppend
<1>4. pruned \subseteq Evaluated /\ cur \notin pruned /\ Above[cur] \cap pruned = {}
    BY <1>2 DEF PruneSteers, Node, None
<1>5. Above[cur] \cap pruned' = {}
    BY <1>2, <1>4, NotAboveItself
<1>6. \A n \in Evaluated : n \in Wanted'
  <2>1. SUFFICES ASSUME NEW n \in Evaluated PROVE Above[n] \cap pruned' = {}
      BY <1>1, <1>2 DEF Wanted, PruneSteers, Node, NoLimit
  <2>2. Above[n] \cap pruned = {} /\ n \in Node
      BY <1>2 DEF PruneSteers, Wanted
  <2>3. info = "D" => cur \notin Above[n]
      BY <2>2 DEF TopDown, Below, NotTwice
  <2> QED
      BY <2>2, <2>3
<1>7. cur \in Wanted'
  <2>1. Level[cur] >= mindepth /\ (maxdepth # NoLimit => Level[cur] <= maxdepth)
      BY <1>2, NotIgnored DEF Visited
  <2> QED
      BY <1>1, <1>2, <1>5, <2>1 DEF Wanted, Node, NoLimit
<1>8. info = "D" /\ cur \in pruned' => instr' = "SKIP"
    BY <1>4
<1> QED
    BY <1>1, <1>3, <1>4, <1>5, <1>6, <1>7, <1>8 DEF PruneSteers

LEMMA NextPruneSteers ==
    ASSUME IInv, Hierarchy, TopDown, NotTwice, PruneSteers, [Next]_vars
    PROVE  PruneSteers'
<1>1. CASE FtsRead \/ StartPoint
    BY <1>1, FtsPruneSteers
<1>2. CASE Visit
  <2>1. Visited /\ UNCHANGED <<treeVars, ftsVars>>
      BY <1>2 DEF Visit
  <2>2. PICK prune \in IF CanPrune THEN BOOLEAN ELSE {FALSE} :
          /\ SkipFor(stop_at_current_level \/ prune)
          /\ pruned' = IF prune THEN pruned \cup {cur} ELSE pruned
      BY <1>2, Zenon DEF Visit
  <2>3. prune => CanPrune /\ instr' = "SKIP"
    <3>1. prune => CanPrune
        BY <2>2, Zenon
    <3>2. prune => instr' = "SKIP"
        BY <2>2, Zenon DEF SkipFor
    <3> QED
        BY <3>1, <3>2
  <2>4. \/ pruned' = pruned
        \/ pruned' = pruned \cup {cur} /\ info = "D" /\ instr' = "SKIP"
    <3>1. CASE prune
        BY <2>2, <2>3, <3>1 DEF CanPrune
    <3>2. CASE ~prune
        BY <2>2, <3>2
    <3> QED
        BY <3>1, <3>2
  <2> QED
      BY <2>1, <2>4, VisitedPruneSteers
<1>3. CASE VisitQuits \/ VisitDeletes
    BY <1>3, VisitedPruneSteers DEF VisitQuits, VisitDeletes
<1>4. CASE Abort \/ CloseFails \/ Finish \/ ReportError \/ ForceStat \/ PassOver \/ UNCHANGED vars
  <2>1. UNCHANGED <<treeVars, ftsVars, evaluated, pruned>>
      BY <1>4, OthersFrame
         DEF vars, history, Abort, CloseFails, Finish, Consider, ReportError, ForceStat, PassOver
  <2>2. UNCHANGED <<cur, info, pruned>> /\ Above' = Above
        /\ Evaluated' = Evaluated /\ Wanted' = Wanted
      BY <2>1, TreeOperatorsKept, EvaluatedKept, WantedKept DEF ftsVars
  <2>3. (pc = "read" /\ info = "D" /\ cur \in pruned => instr = "SKIP")'
    <3>1. CASE Abort \/ CloseFails \/ Finish \/ UNCHANGED vars
        BY <3>1, <2>2 DEF Abort, CloseFails, Finish, vars, PruneSteers
    <3>2. CASE ReportError \/ ForceStat
        BY <3>2, <2>2 DEF ReportError, GivesUpOn, ForceStat, NeedsStat
    <3>3. CASE PassOver
      <4>1. pc = "consider"
          BY <3>3 DEF PassOver, Considering
      <4>2. info = "D" => cur \notin pruned
          BY <4>1 DEF NotTwice, Fresh, PruneSteers
      <4> QED
          BY <2>2, <4>2
    <3> QED
        BY <1>4, <3>1, <3>2, <3>3
  <2> QED
      BY <2>2, <2>3 DEF PruneSteers
<1> QED
    BY <1>1, <1>2, <1>3, <1>4 DEF Next, Consider

------------------------------------------------------------------------------
(* Messages and deletions.                                                 *)

\* Every message sets the exit status; -delete either deletes or complains;
\* and fts stats all that is not said to be a directory or a file.
TroublesTold ==
    /\ troubles # {} => exit_status = 1
    /\ deleting => Evaluated \subseteq deleted \cup troubles \cup {dot}
    /\ info = "NSOK" => kind[cur] \in {"unstated", "file"}

LEMMA InitTroublesTold ==
    ASSUME Init
    PROVE  TroublesTold
BY DEF Init, TroublesTold, Evaluated

LEMMA NextTroublesTold ==
    ASSUME IInv, Hierarchy, TopDown, TroublesTold, [Next]_vars
    PROVE  TroublesTold'
<1>1. UNCHANGED <<kind, dot, deleting>>
    BY TreeVarsKept DEF treeVars
<1>2. CASE FtsRead \/ StartPoint
  <2>1. UNCHANGED <<exit_status, evaluated, deleted, troubles>>
      BY <1>2, FtsReadFrame, StartPointFrame DEF history
  <2>2. info' = "NSOK" => kind[cur'] \in {"unstated", "file"}
    <3>1. CASE Stays \/ LeaveParent
        BY <3>1, StaysAt, LeaveParentReturns
    <3>2. CASE Descend \/ NextSibling \/ StartPoint
      <4>1. PICK c : ComesNext(c)
          BY <3>2, DescendReturns, NextSiblingReturns, StartPointReturns
      <4>2. cur' \in Node /\ info' = FirstInfo(cur')
          BY <4>1, NextReturned DEF IInv
      <4>3. kind[cur'] \in DirKinds \cup {"file", "broken", "loop"}
          BY <4>2, FindWalkAssumption DEF IInv, TypeOK, TreeOK, FindWalkAssumption
      <4> QED
          BY <4>2, <4>3 DEF FirstInfo, DirKinds
    <3> QED
        BY <1>2, <3>1, <3>2, FtsReadFrame
  <2> QED
      BY <1>1, <2>1, <2>2, EvaluatedKept DEF TroublesTold
<1>3. CASE Abort \/ CloseFails \/ Finish \/ Consider \/ UNCHANGED vars
  <2>1. UNCHANGED <<cur, info>>
      BY <1>3, OthersFrame DEF vars, ftsVars
  <2>2. troubles' # {} => exit_status' = 1
    <3>1. CASE Abort \/ Finish \/ ForceStat \/ UNCHANGED vars
        BY <3>1 DEF Abort, Finish, ForceStat, vars, history, TroublesTold
    <3>2. CASE CloseFails \/ ReportError
        BY <3>2 DEF CloseFails, ReportError
    <3>3. CASE PassOver \/ Visit \/ VisitQuits
        BY <3>3 DEF PassOver, Visit, VisitQuits, Report, TroublesTold
    <3>4. CASE VisitDeletes
        BY <3>4 DEF VisitDeletes, Report, TroublesTold
    <3> QED
        BY <1>3, <3>1, <3>2, <3>3, <3>4 DEF Consider
  <2>3. deleting => Evaluated' \subseteq deleted' \cup troubles' \cup {dot}
    <3>1. CASE VisitDeletes
      <4>1. cur \in Node /\ evaluated \in Seq(Node) /\ evaluated' = Append(evaluated, cur)
          BY <3>1 DEF VisitDeletes, Visited, Considering, IInv, AtFile, TypeOK
      <4>2. Evaluated' = Evaluated \cup {cur}
          BY <4>1, EvaluatedAppend
      <4>3. /\ cur \in deleted' \cup troubles' \cup {dot}
            /\ deleted \cup troubles \subseteq deleted' \cup troubles'
          BY <3>1 DEF VisitDeletes, Report
      <4> QED
          BY <4>2, <4>3 DEF TroublesTold
    <3>2. CASE Visit \/ VisitQuits
        BY <3>2 DEF Visit, VisitQuits
    <3>3. CASE Abort \/ Finish \/ ForceStat \/ CloseFails \/ ReportError \/ PassOver \/ UNCHANGED vars
      <4>1. /\ UNCHANGED <<evaluated, deleted>>
            /\ troubles \subseteq troubles'
          BY <3>3 DEF Abort, Finish, ForceStat, CloseFails, ReportError, PassOver, Report,
                      vars, history
      <4> QED
          BY <4>1, EvaluatedKept DEF TroublesTold
    <3> QED
        BY <1>3, <3>1, <3>2, <3>3 DEF Consider
  <2> QED
      BY <1>1, <2>1, <2>2, <2>3 DEF TroublesTold
<1> QED
    BY <1>2, <1>3 DEF Next

------------------------------------------------------------------------------
(* No file is lost: at any time, a file is settled, or fts is to return it, *)
(* or find is to consider it.                                              *)

\* A file about which nothing is left to be done.
Settled(n) ==
    n \in Wanted => n \in Evaluated \cup abandoned \/ Chain(n) \cap troubles # {}

\* fts is to read the entries of the directory it is at, or is yet to say if
\* it is one.
AtCur == \/ pc = "consider" /\ info # "DP"
         \/ instr = "AGAIN"
         \/ info = "D" /\ instr = "none"

\* The directories whose entries fts still returns.
Open == IF cur = None \/ info = "NULL" THEN {}
        ELSE Above[cur] \cup {n \in {cur} : AtCur}

\* fts is to return the file, or a directory it is in.
ToCome(n) == \E t \in Chain(n) \cap unread : parent[t] = None \/ parent[t] \in Open

\* find is to consider the file now, when fts returns it again, or (with
\* -depth) when fts leaves the directory.
Here(n) ==
    /\ cur # None /\ info # "NULL"
    /\ \/ n = cur /\ pc = "consider" /\ (info = "DP" => ~do_dir_first)
       \/ n = cur /\ instr = "AGAIN"
       \/ n = cur /\ ~do_dir_first /\ info = "D"
       \/ ~do_dir_first /\ n \in Above[cur]

NoneLost ==
    /\ pc \in {"read", "consider"} => \A n \in Node : Settled(n) \/ ToCome(n) \/ Here(n)
    /\ pc = "finished" => \A n \in Node : Settled(n)

LEMMA InitNoneLost ==
    ASSUME Init
    PROVE  NoneLost
<1>1. TreeOK /\ Hierarchy
    BY InitInvariant DEF Init, Hierarchy, IInv, TypeOK
<1>2. pc = "read" /\ unread = Node
    BY DEF Init
<1> DEFINE T == {n \in Node : ToCome(n)}
<1>3. ASSUME NEW n \in Node, parent[n] # None => parent[n] \in T
      PROVE  n \in T
  <2>1. CASE parent[n] = None
      BY <1>2, <2>1 DEF ToCome, Chain
  <2>2. CASE parent[n] # None
    <3>1. Chain(parent[n]) \subseteq Chain(n)
        BY <1>1, <2>2, AboveParent DEF Chain
    <3> QED
        BY <1>3, <2>2, <3>1 DEF ToCome
  <2> QED
      BY <2>1, <2>2
<1>4. Node \subseteq T
  <2> HIDE DEF T
  <2> QED
      BY <1>1, <1>3, TreeInduction
<1> QED
    BY <1>2, <1>4 DEF NoneLost

\* What is settled stays settled.
LEMMA SettledStays ==
    ASSUME IInv, [Next]_vars
    PROVE  \A n \in Node : Settled(n) => Settled(n)'
<1>1. UNCHANGED treeVars /\ Above' = Above
    BY TreeVarsKept, TreeOperatorsKept
<1>2. /\ pruned \subseteq pruned' /\ abandoned \subseteq abandoned'
      /\ troubles \subseteq troubles' /\ Evaluated \subseteq Evaluated'
  <2>1. CASE FtsRead \/ StartPoint
    <3>1. UNCHANGED <<evaluated, pruned, troubles>>
        BY <2>1, FtsReadFrame, StartPointFrame DEF history
    <3>2. abandoned \subseteq abandoned'
        BY <2>1 DEF FtsRead, StartPoint, ReadAgain, Skip, LeaveEmpty, CannotRead,
                    CannotReadLeaf, Descend, NextSibling, LeaveParent, Stop
    <3> QED
        BY <3>1, <3>2, EvaluatedKept
  <2>2. CASE Visit \/ VisitQuits \/ VisitDeletes
    <3>1. cur \in Node /\ evaluated \in Seq(Node) /\ evaluated' = Append(evaluated, cur)
          /\ abandoned' = abandoned
        BY <2>2 DEF Visit, VisitQuits, VisitDeletes, Visited, Considering, IInv, AtFile, TypeOK,
                    ftsVars
    <3>2. Evaluated \subseteq Evaluated'
        BY <3>1, EvaluatedAppend
    <3>3. pruned \subseteq pruned' /\ troubles \subseteq troubles'
        BY <2>2 DEF Visit, VisitQuits, VisitDeletes, Report
    <3> QED
        BY <3>1, <3>2, <3>3
  <2>3. CASE Abort \/ Finish \/ ForceStat \/ CloseFails \/ ReportError \/ PassOver \/ UNCHANGED vars
    <3>1. /\ UNCHANGED <<evaluated, pruned, abandoned>>
          /\ troubles \subseteq troubles'
        BY <2>3 DEF Abort, Finish, ForceStat, CloseFails, ReportError, PassOver, Report,
                    vars, history, ftsVars
    <3> QED
        BY <3>1, EvaluatedKept
  <2> QED
      BY <2>1, <2>2, <2>3 DEF Next, Consider
<1>3. Wanted' \subseteq Wanted
    BY <1>1, <1>2, WantedShrinks
<1> QED
    BY <1>1, <1>2, <1>3 DEF Settled, Chain

\* A file is settled by a message about it, or about a directory it is in.
LEMMA TroubleSettles ==
    ASSUME Above' = Above, NEW n \in Node, NEW d \in Chain(n), d \in troubles'
    PROVE  Settled(n)'
BY DEF Settled, Chain

\* When fts returns a new file, the rest of what was to come still is.
LEMMA NewNoneLost ==
    ASSUME IInv, Hierarchy, NEW c, ComesNext(c), Above' = Above, parent' = parent,
           pc' = "consider", Open \subseteq Chain(c),
           NEW n \in Node, ToCome(n)
    PROVE  ToCome(n)' \/ Here(n)'
<1>1. TreeOK
    BY DEF IInv, TypeOK
<1>2. /\ cur' = c /\ c \in Node /\ unread' = unread \ {c} /\ Below(c) \subseteq unread'
      /\ info' \in {"D", "NS", "DC", "NSOK"}
    BY NextReturned DEF IInv
<1>3. Open' = Chain(c)
  <2>1. AtCur' /\ cur' # None /\ info' # "NULL"
      BY <1>2 DEF AtCur, Node, None
  <2> QED
      BY <1>2, <2>1 DEF Open, Chain
<1>4. PICK t \in Chain(n) \cap unread : parent[t] = None \/ parent[t] \in Open
    BY DEF ToCome
<1>5. CASE t # c
    BY <1>2, <1>3, <1>4, <1>5 DEF ToCome, Chain
<1>6. CASE n = c
    BY <1>2, <1>6 DEF Here, Node, None
<1>7. CASE c \in Above[n]
  <2>1. PICK s \in Chain(n) : parent[s] = c
      BY <1>1, <1>7, WayDown
  <2>2. s \in Node
      BY <1>1, <2>1, NotAboveItself DEF Chain
  <2>3. c \in Above[s]
      BY <1>1, <1>2, <2>1, <2>2, AboveParent DEF Node, None
  <2>4. s \in unread'
      BY <1>2, <2>2, <2>3 DEF Below
  <2> QED
      BY <1>2, <1>3, <2>1, <2>4 DEF ToCome, Chain
<1> QED
    BY <1>4, <1>5, <1>6, <1>7 DEF Chain

\* No step of fts_read loses a file.
LEMMA FtsNoneLost ==
    ASSUME IInv, Hierarchy, TopDown, FtsRead \/ StartPoint,
           NEW n \in Node, ToCome(n) \/ Here(n)
    PROVE  Settled(n)' \/ ToCome(n)' \/ Here(n)'
<1>1. /\ UNCHANGED treeVars /\ UNCHANGED <<parent, kind, do_dir_first>>
      /\ Above' = Above /\ pc = "read" /\ instr' = "none"
      /\ pc' = IF info' = "NULL" THEN "read" ELSE "consider"
    <2>1. StartPoint => info' # "NULL"
        BY StartPointReturns, NextReturned DEF IInv
    <2> QED
        BY <2>1, FtsReadFrame, StartPointFrame, TreeOperatorsKept DEF treeVars
<1>2. TreeOK
    BY DEF IInv, TypeOK
<1>3. CASE ReadAgain
  <2>1. /\ cur' = cur /\ unread' = unread /\ info' \in {"D", "NS"} /\ cur \in Node
        /\ instr = "AGAIN" /\ info = "NSOK"
      BY <1>3 DEF ReadAgain, Returns, IInv, AtFile, TopDown
  <2>2. Open = Chain(cur) /\ Open' = Chain(cur)
      BY <1>1, <2>1 DEF Open, AtCur, Chain, Node, None
  <2>3. CASE ToCome(n)
      BY <1>1, <2>1, <2>2, <2>3 DEF ToCome, Chain
  <2>4. CASE Here(n)
      BY <1>1, <2>1, <2>4 DEF Here
  <2> QED
      BY <2>3, <2>4
<1>4. CASE Skip \/ LeaveEmpty \/ CannotRead
  <2>1. /\ cur' = cur /\ unread' = unread /\ cur \in Node /\ info = "D" /\ instr # "AGAIN"
        /\ info' \in {"DP", "DNR", "ERR"} /\ pc' = "consider"
      BY <1>1, <1>4 DEF Skip, LeaveEmpty, CannotRead, Entering, Entered, Returns, IInv, AtFile
  <2>2. CASE ToCome(n)
    <3>1. PICK t \in Chain(n) \cap unread : parent[t] = None \/ parent[t] \in Open
        BY <2>2 DEF ToCome
    <3>2. parent[t] = cur => CannotRead
      <4>1. t \in Node
          BY <1>2, <3>1, NotAboveItself DEF Chain
      <4>2. parent[t] = cur /\ parent[t] \in Open => instr # "SKIP" /\ Children(cur) # {}
          BY <1>1, <1>2, <2>1, <4>1, NotAboveItself DEF Open, AtCur, Children
      <4> QED
          BY <1>4, <2>1, <3>1, <4>2 DEF Skip, LeaveEmpty, Node, None
    <3>3. CannotRead => AtCur'
        BY <1>1, <2>1 DEF CannotRead, Returns, AtCur
    <3>4. parent[t] = None \/ parent[t] \in Open'
        BY <1>1, <2>1, <3>1, <3>2, <3>3 DEF Open, Node, None
    <3> QED
        BY <1>1, <2>1, <3>1, <3>4 DEF ToCome, Chain
  <2>3. CASE Here(n)
      BY <1>1, <2>1, <2>3 DEF Here
  <2> QED
      BY <2>2, <2>3
<1>5. CASE CannotReadLeaf
  <2>1. /\ cur' = cur /\ unread' = unread /\ cur \in Node /\ info = "D" /\ instr # "AGAIN"
        /\ info' = "DP" /\ pc' = "consider"
        /\ \A c \in Children(cur) : kind[c] \in {"file", "broken"}
        /\ abandoned' = abandoned \cup Children(cur)
      BY <1>1, <1>5 DEF CannotReadLeaf, Entering, Entered, Returns, IInv, AtFile
  <2>2. CASE ToCome(n)
    <3>1. PICK t \in Chain(n) \cap unread : parent[t] = None \/ parent[t] \in Open
        BY <2>2 DEF ToCome
    <3>2. t \in Node
        BY <1>2, <3>1, NotAboveItself DEF Chain
    <3>3. CASE parent[t] = cur
      <4>1. t \in Children(cur) /\ kind[t] \in {"file", "broken"}
          BY <2>1, <3>2, <3>3 DEF Children
      <4>2. Children(t) = {}
          BY <3>2, <4>1 DEF Hierarchy, DirKinds
      <4>3. t = n
        <5>1. ASSUME t \in Above[n] PROVE FALSE
          <6>1. PICK s \in Chain(n) : parent[s] = t
              BY <1>2, <5>1, WayDown
          <6>2. s \in Node
              BY <1>2, <6>1, NotAboveItself DEF Chain
          <6> QED
              BY <4>2, <6>1, <6>2 DEF Children
        <5> QED
            BY <3>1, <5>1 DEF Chain
      <4> QED
          BY <1>1, <2>1, <4>1, <4>3 DEF Settled
    <3>4. CASE parent[t] # cur
      <4>1. parent[t] = None \/ parent[t] \in Open'
          BY <1>1, <2>1, <3>1, <3>4 DEF Open, Node, None
      <4> QED
          BY <1>1, <2>1, <3>1, <4>1 DEF ToCome, Chain
    <3> QED
        BY <3>3, <3>4
  <2>3. CASE Here(n)
      BY <1>1, <2>1, <2>3 DEF Here
  <2> QED
      BY <2>2, <2>3
<1>6. CASE Descend
  <2>1. cur \in Node /\ info = "D" /\ instr = "none" /\ info # "NULL"
      BY <1>6, DescendReturns
  <2>2. PICK c : ComesNext(c) /\ Above[c] = {cur} \cup Above[cur]
      BY <1>6, DescendReturns
  <2>3. cur' = c /\ info' # "NULL" /\ c \in Node
      BY <2>2, NextReturned DEF IInv
  <2>4. CASE ToCome(n)
    <3>1. Open \subseteq Chain(c)
        BY <2>2 DEF Open, Chain
    <3> QED
        BY <1>1, <2>2, <2>3, <2>4, <3>1, NewNoneLost
  <2>5. CASE Here(n)
      BY <1>1, <2>1, <2>2, <2>3, <2>5 DEF Here, Node, None
  <2> QED
      BY <2>4, <2>5
<1>7. CASE NextSibling
  <2>1. cur \in Node /\ info \notin {"D", "NULL"} /\ instr # "AGAIN"
      BY <1>7, NextSiblingReturns
  <2>2. PICK c : ComesNext(c) /\ Above[c] = Above[cur]
      BY <1>7, NextSiblingReturns
  <2>3. cur' = c /\ info' # "NULL" /\ c \in Node
      BY <2>2, NextReturned DEF IInv
  <2>4. CASE ToCome(n)
    <3>1. Open \subseteq Chain(c)
        BY <1>1, <2>1, <2>2 DEF Open, Chain, AtCur
    <3> QED
        BY <1>1, <2>2, <2>3, <2>4, <3>1, NewNoneLost
  <2>5. CASE Here(n)
      BY <1>1, <2>1, <2>2, <2>3, <2>5 DEF Here, Node, None
  <2> QED
      BY <2>4, <2>5
<1>8. CASE LeaveParent
  <2>1. /\ cur \in Node /\ info \notin {"D", "NULL"} /\ instr # "AGAIN"
        /\ cur' \in Node /\ cur' = parent[cur] /\ info' \in {"DP", "ERR"}
        /\ Above[cur] = {cur'} \cup Above[cur'] /\ unread' = unread /\ pc' = "consider"
      BY <1>1, <1>8, LeaveParentReturns
  <2>2. Open = Above[cur] /\ Above[cur'] \subseteq Open'
      BY <1>1, <2>1 DEF Open, AtCur, Node, None
  <2>3. CASE ToCome(n)
    <3>1. PICK t \in Chain(n) \cap unread : parent[t] = None \/ parent[t] \in Open
        BY <2>3 DEF ToCome
    <3>2. t \in Node
        BY <1>2, <3>1, NotAboveItself DEF Chain
    <3>3. parent[t] # cur'
        BY <1>8, <2>1, <3>1, <3>2 DEF LeaveParent, Children
    <3> QED
        BY <1>1, <2>1, <2>2, <3>1, <3>3 DEF ToCome, Chain
  <2>4. CASE Here(n)
      BY <1>1, <2>1, <2>4 DEF Here, Node, None
  <2> QED
      BY <2>3, <2>4
<1>9. CASE Stop
  <2>1. /\ cur \in Node /\ info # "NULL" /\ info' = "NULL" /\ pc' = "read"
        /\ unread' = unread /\ cur' = cur
        /\ abandoned' = abandoned \cup {m \in Node : Start[m] = Start[cur]}
      BY <1>1, <1>9 DEF Stop, Entering, Entered, Leaving, Returns, IInv, AtFile, TypeOK, None
  <2>2. \A d \in Chain(cur) : Start[d] = Start[cur]
      BY <1>2, <2>1, StartBelow DEF Chain
  <2>3. ASSUME Start[n] = Start[cur] PROVE Settled(n)'
      BY <2>1, <2>3 DEF Settled
  <2>4. CASE ToCome(n)
    <3>1. PICK t \in Chain(n) \cap unread : parent[t] = None \/ parent[t] \in Open
        BY <2>4 DEF ToCome
    <3>2. t \in Node /\ Start[t] = Start[n]
        BY <1>2, <3>1, NotAboveItself, StartBelow DEF Chain
    <3>3. CASE parent[t] = None
        BY <1>1, <2>1, <3>1, <3>3 DEF ToCome, Chain
    <3>4. CASE parent[t] # None
      <4>1. Start[parent[t]] = Start[t]
          BY <1>2, <3>2, <3>4, AboveParent, StartBelow
      <4>2. parent[t] \in Chain(cur)
          BY <3>1, <3>4 DEF Open, Chain
      <4> QED
          BY <2>2, <2>3, <3>2, <4>1, <4>2
    <3> QED
        BY <3>3, <3>4
  <2>5. CASE Here(n)
      BY <2>2, <2>3, <2>5 DEF Here, Chain
  <2> QED
      BY <2>4, <2>5
<1>10. CASE StartPoint
  <2>1. Open = {} /\ ~Here(n)
    <3>1. AtTop
        BY <1>10, StartPointFrame
    <3>2. CASE cur = None \/ info = "NULL"
        BY <3>2 DEF Open, Here
    <3>3. CASE cur # None /\ info # "D" /\ instr # "AGAIN" /\ parent[cur] = None
      <4>1. Above[cur] = {} /\ ~AtCur
          BY <1>1, <1>2, <3>3, AboveParent DEF AtCur, IInv, TypeOK
      <4> QED
          BY <1>1, <3>3, <4>1 DEF Open, Here
    <3> QED
        BY <3>1, <3>2, <3>3 DEF AtTop
  <2>2. PICK c : ComesNext(c)
      BY <1>10, StartPointReturns
  <2>3. pc' = "consider"
      BY <1>10, StartPointFrame
  <2> QED
      BY <1>1, <2>1, <2>2, <2>3, NewNoneLost
<1> QED
    BY <1>3, <1>4, <1>5, <1>6, <1>7, <1>8, <1>9, <1>10 DEF FtsRead

LEMMA ParentIsAbove ==
    ASSUME TreeOK, Hierarchy, NEW n \in Node, NEW t \in Chain(n), parent[t] # None
    PROVE  t \in Node /\ parent[t] \in Node /\ parent[t] \in Above[n]
<1>1. t \in Node
    BY NotAboveItself DEF Chain
<1>2. parent[t] \in Node /\ parent[t] \in Above[t]
    BY <1>1, AboveParent
<1> QED
    BY <1>1, <1>2, AboveTransitive DEF Chain

\* After find has considered a file, what is below it is still to come, unless
\* it was pruned, or is too deep, or there is a message.
LEMMA ConsideredNoneLost ==
    ASSUME IInv, Hierarchy, TopDown, TroublesTold, Considering, UNCHANGED <<treeVars, ftsVars>>,
           pc' = "read", NEW flag \in BOOLEAN, SkipFor(flag), flag => cur \in pruned',
           info = "NS" => cur \in troubles',
           NEW n \in Node, ToCome(n) \/ (Here(n) /\ n # cur)
    PROVE  Settled(n)' \/ ToCome(n)' \/ Here(n)'
<1>1. /\ UNCHANGED <<parent, kind, do_dir_first, maxdepth, cur, info, unread>>
      /\ Above' = Above /\ Level' = Level
    BY TreeOperatorsKept DEF treeVars, ftsVars
<1>2. TreeOK
    BY DEF IInv, TypeOK
<1>3. /\ cur \in Node /\ pc = "consider" /\ info \in {"D", "DP", "NS", "NSOK"}
      /\ ~NeedsStat
    BY DEF Considering, GivesUpOn, IInv, TypeOK, AtFile
<1>4. /\ flag \/ AtMaxDepth => instr' = "SKIP"
      /\ ~(flag \/ AtMaxDepth) => instr' = "none"
    BY Zenon DEF SkipFor
<1>5. CASE ToCome(n)
  <2>1. PICK t \in Chain(n) \cap unread : parent[t] = None \/ parent[t] \in Open
      BY <1>5 DEF ToCome
  <2>2. Above[cur] \subseteq Open'
      BY <1>1, <1>3 DEF Open, Node, None
  <2>3. CASE parent[t] # cur \/ parent[t] \in Open'
    <3>1. parent[t] = None \/ parent[t] \in Open'
        BY <2>1, <2>2, <2>3 DEF Open
    <3> QED
        BY <1>1, <2>1, <3>1 DEF ToCome, Chain
  <2>4. CASE parent[t] = cur /\ cur \notin Open'
    <3>1. t \in Node /\ cur \in Above[n] /\ t \in Children(cur)
        BY <1>2, <1>3, <2>1, <2>4, ParentIsAbove DEF Node, None, Children
    <3>2. info # "DP"
      <4>1. info = "DP" => ~AtCur
          BY DEF AtCur, TopDown
      <4>2. cur \in Open /\ cur \notin Above[cur]
          BY <1>2, <1>3, <2>1, <2>4, NotAboveItself DEF Node, None
      <4> QED
          BY <4>1, <4>2 DEF Open
    <3>3. CASE info = "D"
      <4>1. instr' # "none"
          BY <1>1, <1>3, <2>4, <3>3 DEF Open, AtCur, Node, None
      <4>2. CASE flag
          BY <1>1, <3>1, <4>2 DEF Settled, Wanted
      <4>3. CASE AtMaxDepth
        <5>1. /\ maxdepth # NoLimit /\ Level[cur] >= maxdepth /\ maxdepth \in Nat
              /\ Level[cur] < Level[n] /\ Level[cur] \in Nat /\ Level[n] \in Nat
          <6>1. maxdepth # NoLimit /\ Level[cur] >= maxdepth
              BY <4>3 DEF AtMaxDepth
          <6>2. maxdepth \in Nat
              BY <1>2, <6>1, FindWalkAssumption DEF TreeOK, FindWalkAssumption
          <6> QED
              BY <1>2, <1>3, <3>1, <6>1, <6>2, LevelBelow
        <5>2. ~(Level[n] <= maxdepth)
            BY <5>1
        <5> QED
            BY <1>1, <5>1, <5>2 DEF Settled, Wanted, NoLimit
      <4> QED
          BY <1>4, <4>1, <4>2, <4>3
    <3>4. CASE info = "NS"
        BY <1>1, <3>1, <3>4, TroubleSettles DEF Chain
    <3>5. CASE info = "NSOK"
      <4>1. kind[cur] = "file"
          BY <1>3, <3>5 DEF NeedsStat, IsDir, TroublesTold
      <4> QED
          BY <1>3, <3>1, <4>1 DEF Hierarchy, DirKinds
    <3> QED
        BY <1>3, <3>2, <3>3, <3>4, <3>5
  <2> QED
      BY <2>3, <2>4
<1>6. CASE Here(n) /\ n # cur
    BY <1>1, <1>6 DEF Here
<1> QED
    BY <1>5, <1>6

LEMMA ReportErrorNoneLost ==
    ASSUME IInv, Hierarchy, ReportError, NEW n \in Node, ToCome(n) \/ Here(n)
    PROVE  Settled(n)' \/ ToCome(n)' \/ Here(n)'
<1>1. /\ UNCHANGED <<treeVars, ftsVars>>
      /\ pc = "consider" /\ cur \in Node /\ cur \in troubles'
    BY DEF ReportError, IInv, AtFile
<1>2. UNCHANGED <<parent, do_dir_first, cur, info, unread>> /\ Above' = Above
    BY <1>1, TreeOperatorsKept DEF treeVars, ftsVars
<1>3. TreeOK
    BY DEF IInv, TypeOK
<1>4. ASSUME cur \in Chain(n) PROVE Settled(n)'
    BY <1>1, <1>2, <1>4, TroubleSettles
<1>5. CASE ToCome(n)
  <2>1. PICK t \in Chain(n) \cap unread : parent[t] = None \/ parent[t] \in Open
      BY <1>5 DEF ToCome
  <2>2. CASE parent[t] = cur
      BY <1>1, <1>3, <1>4, <2>1, <2>2, ParentIsAbove DEF Chain, Node, None
  <2>3. CASE parent[t] # cur
    <3>1. parent[t] = None \/ parent[t] \in Open'
        BY <1>2, <2>1, <2>3 DEF Open
    <3> QED
        BY <1>2, <2>1, <3>1 DEF ToCome, Chain
  <2> QED
      BY <2>2, <2>3
<1>6. CASE Here(n)
  <2>1. CASE n = cur
      BY <1>4, <2>1 DEF Chain
  <2>2. CASE n # cur
      BY <1>2, <1>6, <2>2 DEF Here
  <2> QED
      BY <2>1, <2>2
<1> QED
    BY <1>5, <1>6

LEMMA ForceStatNoneLost ==
    ASSUME IInv, ForceStat, NEW n \in Node, ToCome(n) \/ Here(n)
    PROVE  ToCome(n)' \/ Here(n)'
<1>1. UNCHANGED <<treeVars, ftsVars>> /\ instr' = "AGAIN" /\ pc = "consider"
    BY DEF ForceStat
<1>2. UNCHANGED <<parent, do_dir_first, cur, info, unread>> /\ Above' = Above
    BY <1>1, TreeOperatorsKept DEF treeVars, ftsVars
<1>3. Open \subseteq Open'
    BY <1>1, <1>2 DEF Open, AtCur
<1>4. CASE ToCome(n)
    BY <1>2, <1>3, <1>4 DEF ToCome, Chain
<1>5. CASE Here(n)
    BY <1>1, <1>2, <1>5 DEF Here
<1> QED
    BY <1>4, <1>5

\* A file that is passed over is not wanted, or will come up again.
LEMMA PassOverNoneLost ==
    ASSUME IInv, Hierarchy, TopDown, TroublesTold, PassOver,
           NEW n \in Node, ToCome(n) \/ Here(n)
    PROVE  Settled(n)' \/ ToCome(n)' \/ Here(n)'
<1>1. /\ UNCHANGED <<treeVars, ftsVars>> /\ pc' = "read" /\ SkipFor(FALSE) /\ Considering
      /\ info = "NS" => cur \in troubles'
    BY DEF PassOver, Report
<1>2. CASE ToCome(n) \/ n # cur
    BY <1>1, <1>2, ConsideredNoneLost
<1>3. CASE Here(n) /\ n = cur
  <2>1. /\ UNCHANGED <<do_dir_first, mindepth, maxdepth, cur, info>> /\ Level' = Level
        /\ pc = "consider" /\ instr # "AGAIN"
      BY <1>1, TreeOperatorsKept DEF treeVars, ftsVars, Considering, TopDown
  <2>2. \/ maxdepth # NoLimit /\ Level[cur] > maxdepth
        \/ info = "D" /\ ~do_dir_first
        \/ info = "DP" /\ do_dir_first
        \/ Level[cur] < mindepth
      BY Zenon DEF PassOver, Ignore
  <2>3. /\ Level[cur] \in Nat /\ mindepth \in Int
        /\ maxdepth # NoLimit => maxdepth \in Nat
    <3>1. Level[cur] \in Nat
        BY <1>3, LevelBelow DEF IInv, TypeOK
    <3> QED
        BY <3>1, FindWalkAssumption DEF IInv, TypeOK, TreeOK, FindWalkAssumption, NoLimit
  <2>4. CASE (maxdepth # NoLimit /\ Level[cur] > maxdepth) \/ Level[cur] < mindepth
    <3>1. n \notin Wanted'
        BY <1>3, <2>1, <2>3, <2>4 DEF Wanted
    <3> QED
        BY <3>1 DEF Settled
  <2>5. CASE info = "D" /\ ~do_dir_first
      BY <1>3, <2>1, <2>5 DEF Here
  <2>6. CASE info = "DP" /\ do_dir_first
      BY <1>3, <2>1, <2>6, NotAboveItself DEF Here
  <2> QED
      BY <2>2, <2>4, <2>5, <2>6
<1> QED
    BY <1>2, <1>3

\* The expression is applied to cur.
LEMMA VisitNoneLost ==
    ASSUME IInv, Hierarchy, TopDown, TroublesTold, Visit \/ VisitDeletes,
           NEW n \in Node, ToCome(n) \/ Here(n)
    PROVE  Settled(n)' \/ ToCome(n)' \/ Here(n)'
<1>1. /\ UNCHANGED <<treeVars, ftsVars>> /\ pc' = "read" /\ Considering /\ ~Ignore
      /\ evaluated' = Append(evaluated, cur)
    BY DEF Visit, VisitDeletes, Visited
<1>2. cur \in Node /\ evaluated \in Seq(Node)
    BY <1>1 DEF Considering, IInv, AtFile, TypeOK
<1>3. info = "NS" => cur \in troubles'
    BY DEF Visit, VisitDeletes, Report
<1>4. ~stop_at_current_level
    BY <1>1, PrunedIsPassedOver DEF Considering
<1>5. \E flag \in BOOLEAN : SkipFor(flag) /\ (flag => cur \in pruned')
  <2>1. CASE Visit
    <3>1. PICK prune \in IF CanPrune THEN BOOLEAN ELSE {FALSE} :
            /\ SkipFor(stop_at_current_level \/ prune)
            /\ pruned' = IF prune THEN pruned \cup {cur} ELSE pruned
        BY <2>1, Zenon DEF Visit
    <3>2. stop_at_current_level \/ prune \in BOOLEAN
        BY <3>1, Zenon
    <3>3. (stop_at_current_level \/ prune) => cur \in pruned'
        BY <1>4, <3>1
    <3> QED
        BY <3>1, <3>2, <3>3
  <2>2. CASE VisitDeletes
      BY <1>4, <2>2 DEF VisitDeletes, IInv, TypeOK
  <2> QED
      BY <2>1, <2>2
<1>6. CASE ToCome(n) \/ n # cur
    BY <1>1, <1>3, <1>5, <1>6, ConsideredNoneLost
<1>7. CASE n = cur
    BY <1>1, <1>2, <1>7, EvaluatedAppend DEF Settled
<1> QED
    BY <1>6, <1>7

\* find ends when fts has returned everything.
LEMMA FinishNoneLost ==
    ASSUME IInv, Hierarchy, Finish, NEW n \in Node
    PROVE  ~ToCome(n) /\ ~Here(n)
<1>1. pc = "read" /\ AtTop /\ StartingPoints = {}
    BY DEF Finish
<1>2. TreeOK
    BY DEF IInv, TypeOK
<1>3. Open = {} /\ ~Here(n)
  <2>1. CASE cur = None \/ info = "NULL"
      BY <2>1 DEF Open, Here
  <2>2. CASE cur # None /\ info # "D" /\ instr # "AGAIN" /\ parent[cur] = None
    <3>1. Above[cur] = {} /\ ~AtCur
        BY <1>1, <1>2, <2>2, AboveParent DEF AtCur, IInv, TypeOK
    <3> QED
        BY <1>1, <2>2, <3>1 DEF Open, Here
  <2> QED
      BY <1>1, <2>1, <2>2 DEF AtTop
<1>4. \A t \in Chain(n) \cap unread : parent[t] # None
    BY <1>1, <1>2, NotAboveItself DEF StartingPoints, Children, Chain
<1> QED
    BY <1>3, <1>4 DEF ToCome

LEMMA NextNoneLost ==
    ASSUME IInv, Hierarchy, TopDown, TroublesTold, NoneLost, [Next]_vars
    PROVE  NoneLost'
<1>1. \A n \in Node : Settled(n) => Settled(n)'
    BY SettledStays
<1>2. CASE FtsRead \/ StartPoint
  <2>1. pc = "read" /\ pc' # "finished"
      BY <1>2, FtsReadFrame, StartPointFrame
  <2> QED
      BY <1>1, <1>2, <2>1, FtsNoneLost DEF NoneLost
<1>3. CASE ReportError \/ ForceStat \/ PassOver \/ Visit \/ VisitDeletes
  <2>1. pc = "consider" /\ pc' = "read"
      BY <1>3 DEF ReportError, ForceStat, PassOver, Visit, VisitDeletes, Visited, Considering
  <2>2. \A n \in Node : ToCome(n) \/ Here(n) => Settled(n)' \/ ToCome(n)' \/ Here(n)'
      BY <1>3, ReportErrorNoneLost, ForceStatNoneLost, PassOverNoneLost, VisitNoneLost
  <2> QED
      BY <1>1, <2>1, <2>2 DEF NoneLost
<1>4. CASE Finish
    BY <1>1, <1>4, FinishNoneLost DEF NoneLost, Finish
<1>5. CASE Abort \/ CloseFails \/ VisitQuits
    BY <1>5 DEF NoneLost, Abort, CloseFails, VisitQuits
<1>6. CASE UNCHANGED vars
  <2>1. /\ UNCHANGED <<treeVars, ftsVars, pc, instr, cur, info, unread, parent, do_dir_first>>
        /\ Above' = Above
      BY <1>6, TreeOperatorsKept DEF vars, treeVars, ftsVars
  <2>2. \A n \in Node : (ToCome(n) => ToCome(n)') /\ (Here(n) => Here(n)')
      BY <2>1 DEF ToCome, Here, Chain, Open, AtCur
  <2> QED
      BY <1>1, <2>1, <2>2 DEF NoneLost
<1> QED
    BY <1>2, <1>3, <1>4, <1>5, <1>6 DEF Next, Consider

------------------------------------------------------------------------------
(* The theorems about the whole walk.                                      *)

\* The invariants together: each is preserved with the help of those before it.
WalkInv ==
    /\ IInv /\ Hierarchy /\ TopDown /\ NotTwice /\ OrderOfVisits /\ PruneSteers
    /\ TroublesTold /\ NoneLost

LEMMA InitWalk ==
    Init => WalkInv
<1> SUFFICES ASSUME Init PROVE WalkInv
    OBVIOUS
<1>1. Hierarchy
    BY DEF Init, Hierarchy
<1>2. OrderOfVisits
    BY DEF Init, OrderOfVisits
<1> QED
    BY <1>1, <1>2, InitInvariant, InitTopDown, InitNotTwice, InitPruneSteers,
       InitTroublesTold, InitNoneLost
    DEF WalkInv

LEMMA NextWalk ==
    ASSUME WalkInv, [Next]_vars
    PROVE  WalkInv'
<1> USE DEF WalkInv
<1>1. IInv'
    BY NextInvariant
<1>2. Hierarchy'
    BY TreeVarsKept, HierarchyKept
<1>3. TopDown'
    BY NextTopDown
<1>4. NotTwice'
    BY NextNotTwice
<1>5. OrderOfVisits'
    BY NextOrder
<1>6. PruneSteers'
    BY NextPruneSteers
<1>7. TroublesTold'
    BY NextTroublesTold
<1>8. NoneLost'
    BY NextNoneLost
<1> QED
    BY <1>1, <1>2, <1>3, <1>4, <1>5, <1>6, <1>7, <1>8

\* The inductive invariant of the walk.
THEOREM WalkInvariant == Spec => []WalkInv
BY InitWalk, NextWalk, PTL DEF Spec

\* The expression is applied to no file twice, although fts returns a directory
\* before and after its contents, and again for FTS_AGAIN.
THEOREM NoFileTwice == Spec => []AppliedOnce
<1>1. WalkInv => AppliedOnce
    BY DEF WalkInv, NotTwice
<1> QED
    BY <1>1, WalkInvariant, PTL

\* A directory is visited before its contents, and with -depth after them.
THEOREM VisitsInOrder == Spec => []OrderOfVisits
<1>1. WalkInv => OrderOfVisits
    BY DEF WalkInv
<1> QED
    BY <1>1, WalkInvariant, PTL

\* find applies the expression to nothing that is too deep, not deep enough or
\* pruned; and when it is done, a file that was to be looked at has been, or
\* fts gave up on it, or a message and the exit status tell of it or of a
\* directory it is in.
THEOREM WalkIsComplete == Spec => []NothingMissed
<1>1. WalkInv => NothingMissed
  <2>1. SUFFICES ASSUME WalkInv PROVE NothingMissed
      OBVIOUS
  <2>2. Evaluated \subseteq Wanted
      BY <2>1 DEF WalkInv, PruneSteers
  <2>3. ASSUME pc = "finished", NEW n \in (Wanted \ Evaluated) \ abandoned
        PROVE  ({n} \cup Above[n]) \cap troubles # {} /\ exit_status = 1
    <3>1. Settled(n)
        BY <2>1, <2>3 DEF WalkInv, NoneLost, Wanted
    <3>2. ({n} \cup Above[n]) \cap troubles # {}
        BY <2>3, <3>1 DEF Settled, Chain
    <3> QED
        BY <2>1, <3>2 DEF WalkInv, TroublesTold
  <2> QED
      BY <2>2, <2>3 DEF NothingMissed
<1> QED
    BY <1>1, WalkInvariant, PTL

\* find -delete that exits with 0 has deleted every file in its scope, but for
\* "." and those fts gave up on without a word.
THEOREM DeleteIsComplete == Spec => []DeletesAll
<1>1. WalkInv => DeletesAll
  <2>1. SUFFICES ASSUME WalkInv, pc = "finished", deleting, exit_status = 0
                 PROVE  Wanted \ {dot} \subseteq deleted \cup abandoned
      BY DEF DeletesAll
  <2>2. troubles = {} /\ Evaluated \subseteq deleted \cup {dot}
      BY <2>1 DEF WalkInv, TroublesTold
  <2>3. \A n \in Wanted : n \in Evaluated \cup abandoned
      BY <2>1, <2>2 DEF WalkInv, NoneLost, Settled, Wanted
  <2> QED
      BY <2>2, <2>3
<1> QED
    BY <1>1, WalkInvariant, PTL

=============================================================================
