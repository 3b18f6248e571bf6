------------------------------ MODULE FindWalk ------------------------------
(***************************************************************************)
(* The walk of find (find/ftsfind.c) over a file hierarchy: the loop of    *)
(* find () over what fts_read returns, consider_visiting, visit, and the   *)
(* parts of the predicates that steer the walk (-prune, -quit, -delete).   *)
(* fts_read (gnulib/lib/fts.c) is a step of its own, with the ways it      *)
(* fails.  Every hierarchy of Nodes files, and every mixture of options,   *)
(* is an initial state; the order of the entries of a directory is left    *)
(* open, as readdir leaves it.  Symbolic links are not followed (-P).      *)
(***************************************************************************)
EXTENDS Integers, Sequences, FiniteSets

CONSTANTS
    Nodes,          \* the number of files
    Kinds,          \* the kinds of file considered
    Dots,           \* the starting points that may be typed as "."
    Depths          \* the values of -mindepth and -maxdepth considered

\* dir       a directory                        file    any other file
\* unstated  a directory fts did not stat, and whose entry says it is one
\* broken    a file that stat fails for          loop      an ancestor again
DirKinds == {"dir", "unstated"}

ASSUME FindWalkAssumption ==
    /\ Nodes \in Nat \ {0} /\ Depths \subseteq Nat /\ Dots \subseteq 1 .. Nodes
    /\ Kinds \subseteq DirKinds \cup {"file", "broken", "loop"}

Node == 1 .. Nodes
None == 0                      \* no file; the parent of a starting point
NoLimit == -1

VARIABLES
    parent, kind,              \* the hierarchy: never changes
    dot,                       \* the starting point typed as ".", or None
    do_dir_first,              \* options: no -depth
    maxdepth, mindepth,
    deleting,                  \* the expression is -delete
    pc,                        \* "read", "consider", or how find has ended
    cur, info, instr,          \* fts_cur, its fts_info and its fts_instr
    unread,                    \* files fts has not returned yet
    stop_at_current_level,
    exit_status,
    evaluated,                 \* history: the files the expression was applied to
    pruned, deleted, troubles, \* history: -prune, -delete, and messages
    abandoned                  \* history: files that fts gave up without a word

treeVars == <<parent, kind, dot, do_dir_first, maxdepth, mindepth, deleting>>
ftsVars  == <<cur, info, unread, abandoned>>
history  == <<evaluated, pruned, deleted, troubles>>
vars == <<treeVars, pc, ftsVars, instr, stop_at_current_level, exit_status, history>>

Children(n) == {c \in Node : parent[c] = n}

Level ==
    LET level[n \in Node] == IF parent[n] = None THEN 0 ELSE level[parent[n]] + 1
    IN level

\* The starting point n lies under.
Start ==
    LET start[n \in Node] == IF parent[n] = None THEN n ELSE start[parent[n]]
    IN start

Init ==
    /\ parent \in [Node -> 0 .. Nodes - 1]
    /\ \A n \in Node : parent[n] < n
    /\ \A m, n \in Node : m < n => parent[m] <= parent[n]  \* numbered by levels
    /\ kind \in [Node -> Kinds]
    /\ \A n \in Node : Children(n) # {} => kind[n] \in DirKinds
    /\ \A n \in Node : parent[n] = None => kind[n] # "unstated"
    /\ do_dir_first \in BOOLEAN /\ deleting \in BOOLEAN
    /\ deleting => ~do_dir_first
    /\ dot \in {None} \cup {n \in Dots : parent[n] = None /\ kind[n] = "dir" /\ deleting}
    /\ mindepth \in Depths \cup {NoLimit} /\ maxdepth \in Depths \cup {NoLimit}
    /\ pc = "read" /\ cur = None /\ info = "none" /\ instr = "none" /\ unread = Node
    /\ stop_at_current_level = FALSE /\ exit_status = 0
    /\ evaluated = <<>> /\ pruned = {} /\ deleted = {} /\ troubles = {}
    /\ abandoned = {}

------------------------------------------------------------------------------
(* fts_read.                                                               *)

\* How a file is returned the first time.
FirstInfo(n) ==
    CASE kind[n] = "dir"    -> "D"
      [] kind[n] = "broken" -> "NS"
      [] kind[n] = "loop"   -> "DC"
      [] OTHER              -> "NSOK"

Returns(n, how) == cur' = n /\ info' = how

ReturnsNew(n) == Returns(n, FirstInfo(n)) /\ unread' = unread \ {n}

\* The re-stat that FTS_AGAIN asks for, of a file that may be gone by now.
ReadAgain ==
    /\ instr = "AGAIN"
    /\ \E how \in {"D", "NS"} : Returns(cur, how)
    /\ UNCHANGED <<unread, abandoned>>

\* enter_dir is called when a file is returned for the first time, and then
\* only if it has been found to be a directory.
Entered == info = "D" /\ instr # "AGAIN" /\ kind[cur] # "unstated"

\* A directory that was skipped is left.
Skip ==
    /\ Entered /\ instr = "SKIP"
    /\ Returns(cur, "DP") /\ UNCHANGED <<unread, abandoned>>

Entering == Entered /\ instr = "none"

LeaveEmpty ==
    /\ Entering /\ Children(cur) = {}
    /\ Returns(cur, "DP") /\ UNCHANGED <<unread, abandoned>>

\* opendir fails, or fchdir does.
CannotRead ==
    /\ Entering
    /\ \E how \in {"DNR", "ERR"} : Returns(cur, how)
    /\ UNCHANGED <<unread, abandoned>>

\* fts_build forgets the failure of dup or fchdir if, by its link count, the
\* directory has no subdirectories.
CannotReadLeaf ==
    /\ Entering /\ \A c \in Children(cur) : kind[c] \in {"file", "broken"}
    /\ Returns(cur, "DP") /\ abandoned' = abandoned \cup Children(cur)
    /\ UNCHANGED unread

Descend ==
    /\ Entering
    /\ \E c \in Children(cur) : ReturnsNew(c)
    /\ UNCHANGED abandoned

\* fts_cur has no children left to return, and is not a starting point.
Leaving == cur # None /\ info \notin {"D", "NULL"} /\ instr # "AGAIN" /\ parent[cur] # None

NextSibling ==
    /\ Leaving
    /\ \E c \in Children(parent[cur]) \cap unread : ReturnsNew(c)
    /\ UNCHANGED abandoned

\* All files of the directory have been returned.  fts_errno is set when the
\* stat that follows opendir failed.
LeaveParent ==
    /\ Leaving /\ Children(parent[cur]) \cap unread = {}
    /\ \E how \in {"DP", "ERR"} : Returns(parent[cur], how)
    /\ UNCHANGED <<unread, abandoned>>

\* No memory, or no way back up (FTS_STOP): NULL, as at the end, and errno.
Stop ==
    /\ Entering \/ Leaving
    /\ Returns(cur, "NULL")
    /\ abandoned' = abandoned \cup {n \in Node : Start[n] = Start[cur]}
    /\ UNCHANGED unread

FtsRead ==
    /\ pc = "read" /\ instr' = "none"
    /\ \/ ReadAgain \/ Skip \/ LeaveEmpty \/ CannotRead \/ CannotReadLeaf
       \/ Descend \/ NextSibling \/ LeaveParent \/ Stop
    /\ pc' = IF info' = "NULL" THEN "read" ELSE "consider"
    /\ UNCHANGED <<treeVars, stop_at_current_level, exit_status, history>>

\* leave_dir calls abort for a directory that was not entered: fts_read cannot
\* read or skip a directory that FTS_AGAIN was asked for.
Abort ==
    /\ pc = "read" /\ info = "D" /\ instr # "AGAIN" /\ ~Entered
    /\ pc' = "aborted"
    /\ UNCHANGED <<treeVars, ftsVars, instr, stop_at_current_level, exit_status, history>>

\* fts_read has returned NULL, of which find does not ask the reason:
\* process_all_startpoints goes on with a new fts.
AtTop ==
    cur # None => \/ info = "NULL"
                  \/ info # "D" /\ instr # "AGAIN" /\ parent[cur] = None

StartingPoints == Children(None) \cap unread

StartPoint ==
    /\ pc = "read" /\ AtTop
    /\ \E n \in StartingPoints :
          /\ \A m \in StartingPoints : n <= m
          /\ ReturnsNew(n)
    /\ pc' = "consider" /\ instr' = "none"
    /\ UNCHANGED <<treeVars, abandoned, stop_at_current_level, exit_status, history>>

CloseFails ==
    /\ pc = "read" /\ cur # None /\ AtTop
    /\ pc' = "close_failed" /\ exit_status' = 1
    /\ troubles' = troubles \cup {cur}
    /\ UNCHANGED <<treeVars, ftsVars, instr, stop_at_current_level, evaluated, pruned,
                   deleted>>

Finish ==
    /\ pc = "read" /\ AtTop /\ StartingPoints = {}
    /\ pc' = "finished"
    /\ UNCHANGED <<treeVars, ftsVars, instr, stop_at_current_level, exit_status, history>>

------------------------------------------------------------------------------
(* consider_visiting.                                                      *)

\* FTS_ERR, FTS_DNR, FTS_DC, and starting points that cannot be found: a
\* message, and nothing else.
GivesUpOn ==
    info \in {"ERR", "DNR", "DC"} \/ (info = "NS" /\ parent[cur] = None)

ReportError ==
    /\ pc = "consider" /\ GivesUpOn
    /\ pc' = "read" /\ exit_status' = 1
    /\ troubles' = troubles \cup {cur}
    /\ UNCHANGED <<treeVars, ftsVars, instr, stop_at_current_level, evaluated, pruned,
                   deleted>>

IsDir == info \in {"D", "DP"} \/ kind[cur] = "unstated"

BadNeedsStat == IsDir
\* A directory that fts did not stat.
NeedsStat == info = "NSOK" /\ IsDir

\* Have it returned again.
ForceStat ==
    /\ pc = "consider" /\ ~GivesUpOn /\ NeedsStat
    /\ pc' = "read" /\ instr' = "AGAIN"
    /\ UNCHANGED <<treeVars, ftsVars, stop_at_current_level, exit_status, history>>

BadAtMaxDepth == maxdepth # NoLimit /\ Level[cur] >= maxdepth - 1
AtMaxDepth == maxdepth # NoLimit /\ Level[cur] >= maxdepth

BadIgnoreOnce == (maxdepth # NoLimit /\ Level[cur] > maxdepth) \/ Level[cur] < mindepth
BadIgnoreOrder == (info = "D" /\ do_dir_first) \/ (info = "DP" /\ ~do_dir_first)
BadIgnoreDepth == Level[cur] <= mindepth \/ (info = "D" /\ ~do_dir_first)
\* The other visit of a directory, and depths that are not asked for.
Ignore ==
    \/ maxdepth # NoLimit /\ Level[cur] > maxdepth
    \/ info = "D" /\ ~do_dir_first
    \/ info = "DP" /\ do_dir_first
    \/ Level[cur] < mindepth

BadFlagAfter(flag) == flag
\* Leaving a directory ends -prune.
FlagAfter(flag) == IF info = "DP" THEN FALSE ELSE flag

\* What fts does next with the file: visit's request comes after -maxdepth's.
SkipFor(flag) == instr' = IF flag \/ AtMaxDepth THEN "SKIP" ELSE "none"

\* What is left of consider_visiting once the message for FTS_NS is out.
Considering == pc = "consider" /\ ~GivesUpOn /\ ~NeedsStat

\* A file that stat fails for is considered all the same, by its name.
Report == IF info = "NS" THEN exit_status' = 1 /\ troubles' = troubles \cup {cur}
          ELSE UNCHANGED <<exit_status, troubles>>

PassOver ==
    /\ Considering /\ Ignore
    /\ pc' = "read"
    /\ Report
    /\ stop_at_current_level' = FlagAfter(stop_at_current_level)
    /\ SkipFor(FALSE)
    /\ UNCHANGED <<treeVars, ftsVars, evaluated, pruned, deleted>>

Visited ==
    /\ Considering /\ ~Ignore
    /\ evaluated' = Append(evaluated, cur)

\* pred_prune.
CanPrune == do_dir_first /\ info = "D"

\* The expression is applied, and may have applied -prune.
Visit ==
    /\ Visited /\ ~deleting
    /\ pc' = "read"
    /\ Report
    /\ \E prune \in IF CanPrune THEN BOOLEAN ELSE {FALSE} :
          LET flag == stop_at_current_level \/ prune
          IN /\ SkipFor(flag)
             /\ stop_at_current_level' = FlagAfter(flag)
             /\ pruned' = IF prune THEN pruned \cup {cur} ELSE pruned
    /\ UNCHANGED <<treeVars, ftsVars, deleted>>

\* pred_quit: exit from within the expression.
VisitQuits ==
    /\ Visited /\ ~deleting
    /\ pc' = "quit"
    /\ Report
    /\ UNCHANGED <<treeVars, ftsVars, instr, stop_at_current_level, pruned, deleted>>

\* pred_delete: unlink, or rmdir, which wants the directory to be empty.  For
\* "." it does nothing and returns true.
VisitDeletes ==
    /\ Visited /\ deleting
    /\ pc' = "read"
    /\ \/ /\ cur = dot
          /\ deleted' = deleted
          /\ Report
       \/ /\ cur # dot /\ Children(cur) \subseteq deleted
          /\ deleted' = deleted \cup {cur}
          /\ Report
       \/ /\ cur # dot
          /\ deleted' = deleted
          /\ exit_status' = 1 /\ troubles' = troubles \cup {cur}
    /\ SkipFor(stop_at_current_level)
    /\ stop_at_current_level' = FlagAfter(stop_at_current_level)
    /\ UNCHANGED <<treeVars, ftsVars, pruned>>

Consider == ReportError \/ ForceStat \/ PassOver \/ Visit \/ VisitQuits \/ VisitDeletes

Next == FtsRead \/ Abort \/ StartPoint \/ CloseFails \/ Finish \/ Consider

Spec == Init /\ [][Next]_vars

\* One thread, and a hierarchy that does not grow while it is read.
FairSpec == Spec /\ WF_vars(Next)

------------------------------------------------------------------------------
(* Properties.                                                             *)

\* The hierarchy and the options.
TreeOK ==
    /\ parent \in [Node -> 0 .. Nodes - 1] /\ kind \in [Node -> Kinds]
    /\ dot \in Node \cup {None}
    /\ do_dir_first \in BOOLEAN /\ deleting \in BOOLEAN
    /\ mindepth \in Depths \cup {NoLimit} /\ maxdepth \in Depths \cup {NoLimit}

\* What the variables of find and fts hold; with -depth, -prune has no effect
\* (pred_prune), and files are deleted by -delete alone (pred_delete).
TypeOK ==
    /\ TreeOK
    /\ pc \in {"read", "consider", "finished", "close_failed", "quit", "aborted"}
    /\ cur \in Node \cup {None} /\ unread \subseteq Node
    /\ info \in {"none", "NULL", "D", "DP", "DNR", "DC", "NS", "NSOK", "ERR"}
    /\ instr \in {"none", "SKIP", "AGAIN"}
    /\ stop_at_current_level \in BOOLEAN
    /\ exit_status \in {0, 1}
    /\ evaluated \in Seq(Node)
    /\ pruned \cup deleted \cup troubles \cup abandoned \subseteq Node
    /\ ~do_dir_first => pruned = {}
    /\ ~deleting => deleted = {}

\* The files below which n lies.
Above ==
    LET above[n \in Node] ==
            IF parent[n] = None THEN {} ELSE {parent[n]} \cup above[parent[n]]
    IN above

\* The expression is applied to a file once at most, although a directory is
\* returned by fts up to three times.
AppliedOnce ==
    \A i, j \in DOMAIN evaluated : evaluated[i] = evaluated[j] => i = j

\* A directory before its contents, or with -depth its contents before it.
OrderOfVisits ==
    \A i, j \in DOMAIN evaluated :
        i < j => IF do_dir_first THEN evaluated[j] \notin Above[evaluated[i]]
                 ELSE evaluated[i] \notin Above[evaluated[j]]

\* What find is to look at: between the depths, and not below a directory
\* that was pruned.
Wanted ==
    {n \in Node :
        /\ Level[n] >= mindepth /\ (maxdepth # NoLimit => Level[n] <= maxdepth)
        /\ Above[n] \cap pruned = {}}

Evaluated == {evaluated[i] : i \in DOMAIN evaluated}

\* A file that was to be looked at and was not is one that fts abandoned, or
\* it or a directory it is in is named in a message, of which the exit status
\* tells; and the expression is applied to no other file.
NothingMissed ==
    /\ Evaluated \subseteq Wanted
    /\ pc = "finished" => \A n \in (Wanted \ Evaluated) \ abandoned :
          ({n} \cup Above[n]) \cap troubles # {} /\ exit_status = 1

\* stop_at_current_level is about the directory that -prune was applied to:
\* it does not outlive fts's two visits of it.
PruneIsTransient ==
    stop_at_current_level =>
        /\ cur \in pruned
        /\ pc = "read" => info = "D" /\ instr = "SKIP"
        /\ pc = "consider" => info = "DP"
        /\ pc \notin {"finished", "close_failed", "quit"}

\* -delete without a message has deleted all that fts came to, but for the
\* starting point ".", which pred_delete leaves without a word: every other
\* directory came up when nothing was left in it.
DeletesAll ==
    pc = "finished" /\ deleting /\ exit_status = 0
        => Wanted \ {dot} \subseteq deleted \cup abandoned

\* The walk comes to an end.
WalkEnds == <>(pc \in {"finished", "close_failed", "quit", "aborted"})
=============================================================================
