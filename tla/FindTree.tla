------------------------------ MODULE FindTree ------------------------------
(***************************************************************************)
(* find's expression: from the words of the command line to the list of    *)
(* predicates (find/parser.c), from the list to the evaluation tree, the   *)
(* rearrangements of the tree (find/tree.c), and its evaluation for a file *)
(* (apply_predicate and the operators of find/pred.c).                     *)
(*                                                                         *)
(* A primary is a model value; what the optimiser knows of it are its      *)
(* cost, its side effects and its success rate.  A node of the tree is     *)
(* [func, left, right].  A left-linked chain of operators is handled as    *)
(* the sequence of its right arms, the root's first: the arm evaluated     *)
(* last comes first.                                                       *)
(***************************************************************************)
EXTENDS Integers, SequencesExt, FiniteSetsExt

CONSTANTS
    Names,          \* -name, -path and the like: free at every level
    Tests,          \* other primaries without side effects
    Actions,        \* primaries with side effects, which inhibit -print
    QuietActions,   \* -prune and -quit, which do not
    Cost,           \* Cost[p]: p_cost of a primary; 0 is NeedsNothing
    Rate,           \* Rate[p]: its est_success_rate, as an integer
    CheapCosts,     \* {NeedsType, NeedsInodeNumber}
    Levels,         \* the optimisation levels (-O) to look at
    MaxWords        \* bound: words of the expression

Typed == Names \cup Tests \cup Actions \cup QuietActions
Primaries == Typed \cup {"print"}
Operators == {"comma", "or", "and"}
Words == Typed \cup Operators \cup {"not", "(", ")"}

ASSUME FindTreeAssumption ==
    /\ Cost \in [Typed -> Nat] /\ Rate \in [Typed -> Nat]
    /\ MaxWords \in Nat /\ Levels \subseteq 0 .. 3
    /\ \A n \in Names : Cost[n] = 0

VARIABLES
    words,          \* the words of the expression, as typed
    predicates,     \* the predicate list, without the artificial "("
    phase,          \* where build_expression_tree stands
    level,          \* options.optimisation_level
    eval_tree,      \* the evaluation tree
    flag_lost,      \* history: opt_expr set a side_effects flag and did not see it
    file,           \* the primaries that are true of the file looked at
    performed       \* the actions performed for it, in order

treeVars == <<words, predicates, phase, level, eval_tree, flag_lost, file, performed>>

Null == [func |-> "null"]
Node(f, l, r) == [func |-> f, left |-> l, right |-> r]
Leaf(p) == Node(p, Null, Null)

SideEffects == Actions \cup QuietActions \cup {"print"}
Prec(w) == CASE w = "comma" -> 1 [] w = "or" -> 2 [] w = "and" -> 3 [] w = "not" -> 4
             [] OTHER -> 0
PCost(p) == IF p \in Typed THEN Cost[p] ELSE 0

------------------------------------------------------------------------------
(* The predicate list.  The artificial parentheses are "[" and "]".        *)

\* get_new_pred_chk_op inserts -a after a primary and after ")".
EndsOperand(w) == w \in Primaries \cup {")", "]"}
ChecksOperator(w) == w \in Primaries \cup {"not", "("}

Inserted(list, w) ==
    IF list # <<>> /\ EndsOperand(Last(list)) /\ ChecksOperator(w)
    THEN list \o <<"and", w>> ELSE Append(list, w)

BadDefaultPrints(list) == \A i \in DOMAIN list : list[i] \notin SideEffects
DefaultPrints(list) == \A i \in DOMAIN list : list[i] \notin Actions

Init ==
    /\ words = <<>> /\ predicates = <<>> /\ phase = "typing"
    /\ level = 0 /\ eval_tree = Null /\ flag_lost = FALSE
    /\ file = {} /\ performed = <<>>

AddWord(w) ==
    /\ phase = "typing" /\ Len(words) < MaxWords
    /\ words' = Append(words, w)
    /\ predicates' = Inserted(predicates, w)
    /\ UNCHANGED <<phase, level, eval_tree, flag_lost, file, performed>>

\* The artificial "(" is removed, or closed and followed by -print.
EndOfWords ==
    /\ phase = "typing"
    /\ predicates' =
          IF predicates = <<>> THEN <<"print">>
          ELSE IF DefaultPrints(predicates)
               THEN Inserted(<<"[">> \o predicates \o <<"]">>, "print")
               ELSE predicates
    /\ phase' = "listed"
    /\ UNCHANGED <<words, level, eval_tree, flag_lost, file, performed>>

------------------------------------------------------------------------------
(* get_expr and scan_rest.  Both return [tree, rest], or Invalid.          *)

Invalid == [tree |-> Null, rest |-> <<"invalid">>]
Opens(w) == w \in {"(", "["}
Closes(w) == w \in {")", "]"}

\* The operator binds more tightly than the one the expression is for.
GoesOn(w, prev) == Prec(w) > prev

RECURSIVE GetExpr(_, _), ScanRest(_, _)

\* scan_rest: left-associates the operators that bind more than prev.
ScanRest(e, prev) ==
    IF e = Invalid \/ e.rest = <<>> THEN e
    ELSE IF ~GoesOn(Head(e.rest), prev) THEN e
    ELSE IF Head(e.rest) \notin Operators THEN Invalid
    ELSE LET op == Head(e.rest)
             right == GetExpr(Tail(e.rest), Prec(op))
         IN IF right = Invalid THEN Invalid
            ELSE ScanRest([tree |-> Node(op, e.tree, right.tree), rest |-> right.rest],
                          prev)

\* "(": an expression and the ")" after it.  A "]" is a CLOSE_PAREN too.
Parenthesised(list) ==
    IF list = <<>> \/ Closes(Head(list)) THEN Invalid
    ELSE LET e == GetExpr(list, 0)
         IN IF e # Invalid /\ e.rest # <<>> /\ Closes(Head(e.rest))
            THEN [e EXCEPT !.rest = Tail(@)] ELSE Invalid

GetExpr(list, prev) ==
    IF list = <<>> THEN Invalid
    ELSE LET w == Head(list)
             first ==
                CASE w \in Primaries -> [tree |-> Leaf(w), rest |-> Tail(list)]
                  [] w = "not" ->
                       LET e == GetExpr(Tail(list), Prec("not"))
                       IN IF e = Invalid THEN e
                          ELSE [e EXCEPT !.tree = Node("not", Null, @)]
                  [] Opens(w) -> Parenthesised(Tail(list))
                  [] OTHER -> Invalid
         IN ScanRest(first, prev)

\* The whole list must be one expression.
BuildTree ==
    /\ phase = "listed"
    /\ LET e == GetExpr(predicates, 0)
       IN IF e # Invalid /\ e.rest = <<>>
          THEN phase' = "built" /\ eval_tree' = e.tree
          ELSE phase' = "error" /\ UNCHANGED eval_tree
    /\ UNCHANGED <<words, predicates, level, flag_lost, file, performed>>

------------------------------------------------------------------------------
(* opt_expr.                                                               *)

RECURSIVE SubtreeHasSideEffects(_)
SubtreeHasSideEffects(t) ==
    /\ t # Null
    /\ \/ t.func \in SideEffects
       \/ SubtreeHasSideEffects(t.left) \/ SubtreeHasSideEffects(t.right)

\* predicate_is_cost_free, and the test for NeedsType and NeedsInodeNumber.
CostFree(p) == p \in Names \/ (level > 0 /\ PCost(p) = 0)
Reorderable(p) == (level > 1 /\ PCost(p) \in CheapCosts) \/ level > 2

\* The right arms of the chain of op that t is the root of.  What hangs at
\* its left end under another operator is its last arm (set_new_parent).
RECURSIVE Chain(_, _)
Chain(op, t) ==
    IF t = Null THEN <<>>
    ELSE IF t.func = op THEN <<t.right>> \o Chain(op, t.left)
    ELSE <<t>>

RECURSIVE Linked(_, _)
Linked(op, arms) ==
    IF arms = <<>> THEN Null ELSE Node(op, Linked(op, Tail(arms)), Head(arms))

\* predlist_merge_sort: each predicate goes behind the first one that is not
\* to be evaluated before it, or to the front.
NotBefore(op, p, q) ==
    \/ PCost(p) > PCost(q)
    \/ PCost(p) = PCost(q) /\ IF op = "or" THEN Rate[p] <= Rate[q] ELSE Rate[p] >= Rate[q]

SortedIn(op, list, q) ==
    LET places == {i \in DOMAIN list : NotBefore(op, list[i].tree.func, q.tree.func)}
    IN IF places = {} THEN <<q>> \o list ELSE InsertAt(list, Min(places) + 1, q)

Sorted(op, list) == FoldLeft(LAMBDA sorted, q : SortedIn(op, sorted, q), <<>>, list)

\* merge_lists: the cost-free ones are evaluated first, then by their cost.
Costs == {Cost[p] : p \in Typed}
BadMerged(op, free, byCost) ==
    Sorted(op, free)
    \o FlattenSeq([i \in 1 .. Max(Costs) + 1 |-> Sorted(op, byCost[Max(Costs) + 1 - i])])
Merged(op, free, byCost) ==
    FlattenSeq([i \in 1 .. Max(Costs) + 1 |-> Sorted(op, byCost[Max(Costs) + 1 - i])])
    \o Sorted(op, free)

NoLists == [free |-> <<>>, byCost |-> [c \in 0 .. Max(Costs) |-> <<>>]]

RECURSIVE OptExpr(_, _)

\* The subtree of an arm: the tree opt_expr makes of it, whether it says that it
\* has side effects, whether its root is still the same node, and whether a flag
\* was lost in it.  A NOT stays where it is.
Optimised(arm, target) ==
    CASE arm.func = "not" ->
           LET e == OptExpr(arm.right, target)
           IN [e EXCEPT !.tree = Node("not", Null, @), !.sameRoot = TRUE]
      [] arm.func \in Operators -> OptExpr(arm, target)
      [] OTHER -> [tree |-> arm, sideEffects |-> arm.func \in SideEffects,
                   sameRoot |-> TRUE, lost |-> FALSE]

\* "curr->pred_right->side_effects = opt_expr (&curr->pred_right)" replaces the
\* node that curr->pred_right points to, and whether the flag is set in the old
\* node or in the new one is for the compiler to choose; the flag looked at next
\* is the new one's.
FlagSeen(new, target) == new.sideEffects /\ (new.sameRoot \/ target = "new")

\* One arm: into a list, or kept where it is, behind the lists when its flag says
\* that it has side effects.  s holds the arms placed so far, each with whether
\* its chain node was the root, the lists, and what is known of the flags.
PlaceArm(op, s, arm, isRoot, target) ==
    LET p == arm.func
        new == Optimised(arm, target)
        item == [tree |-> new.tree, isRoot |-> isRoot]
        movable == p \in Primaries /\ op # "comma" /\ p \notin SideEffects
        flagged == FlagSeen(new, target)
    IN IF movable /\ CostFree(p)
       THEN [s EXCEPT !.lists.free = <<item>> \o @]
       ELSE IF movable /\ Reorderable(p)
       THEN [s EXCEPT !.lists.byCost[PCost(p)] = <<item>> \o @]
       ELSE [out |-> s.out \o (IF flagged THEN Merged(op, s.lists.free, s.lists.byCost)
                               ELSE <<>>) \o <<item>>,
             lists |-> IF flagged THEN NoLists ELSE s.lists,
             sideEffects |-> s.sideEffects \/ flagged,
             lost |-> s.lost \/ new.lost \/ (new.sideEffects /\ ~flagged)]

OptExpr(t, target) ==
    LET op == IF t.func \in Operators THEN t.func ELSE "and"
        arms == Chain(op, t)
        s == FoldLeft(LAMBDA acc, i : PlaceArm(op, acc, arms[i], i = 1, target),
                      [out |-> <<>>, lists |-> NoLists, sideEffects |-> FALSE, lost |-> FALSE],
                      [i \in DOMAIN arms |-> i])
        items == s.out \o Merged(op, s.lists.free, s.lists.byCost)
    IN [tree |-> Linked(op, [i \in DOMAIN items |-> items[i].tree]),
        sideEffects |-> s.sideEffects, sameRoot |-> Head(items).isRoot, lost |-> s.lost]

\* -O is read before the expression; here it is chosen when it first matters.
ChooseLevel(l) ==
    /\ phase = "built"
    /\ level' = l
    /\ phase' = "levelled"
    /\ UNCHANGED <<words, predicates, eval_tree, flag_lost, file, performed>>

Optimise ==
    /\ phase = "levelled"
    /\ \E target \in {"old", "new"} :
          LET e == OptExpr(eval_tree, target)
          IN eval_tree' = e.tree /\ flag_lost' = e.lost
    /\ phase' = "optimised"
    /\ UNCHANGED <<words, predicates, level, file, performed>>

------------------------------------------------------------------------------
(* do_arm_swaps.  Which of two arms of equal cost succeeds more often is   *)
(* left open, and so is where do_arm_swaps stops.                          *)

RECURSIVE WorstCost(_)
WorstCost(t) ==
    IF t = Null THEN 0
    ELSE Max({PCost(t.func), WorstCost(t.left), WorstCost(t.right)})

BadSwapCandidate(t) ==
    /\ t.func \in Operators /\ t.left # Null
    /\ WorstCost(t.left.right) >= WorstCost(t.right)
    /\ WorstCost(t.left.right) = WorstCost(t.right) => t.func # "comma"

\* consider_arm_swap: the operator is looked at only when the costs are equal.
SwapCandidate(t) ==
    /\ t.func \in Operators /\ t.left # Null
    /\ ~SubtreeHasSideEffects(t.left.right) /\ ~SubtreeHasSideEffects(t.right)
    /\ WorstCost(t.left.right) >= WorstCost(t.right)
    /\ WorstCost(t.left.right) = WorstCost(t.right) => t.func # "comma"

\* perform_arm_swap.
ArmSwap(t) == [t EXCEPT !.right = t.left.right, !.left.right = t.right]

\* The trees one arm swap makes of t.
RECURSIVE Swapped(_)
Swapped(t) ==
    IF t = Null THEN {}
    ELSE (IF SwapCandidate(t) THEN {ArmSwap(t)} ELSE {})
         \cup {[t EXCEPT !.left = l] : l \in Swapped(t.left)}
         \cup {[t EXCEPT !.right = r] : r \in Swapped(t.right)}

SwapArms ==
    /\ phase = "optimised"
    /\ eval_tree' \in Swapped(eval_tree)
    /\ UNCHANGED <<words, predicates, phase, level, flag_lost, file, performed>>

------------------------------------------------------------------------------
(* apply_predicate: the value of a tree for a file of which the primaries  *)
(* in f are true, and the actions performed on the way.                    *)

Then(e, after) == [val |-> after.val, acts |-> e.acts \o after.acts]

RECURSIVE Apply(_, _)
Apply(t, f) ==
    CASE t.func \in Primaries ->
           [val |-> t.func \in f \cup {"print"},
            acts |-> IF t.func \in SideEffects THEN <<t.func>> ELSE <<>>]
      [] t.func = "not" ->
           LET e == Apply(t.right, f) IN [e EXCEPT !.val = ~@]
      [] t.func \in Operators ->
           IF t.left = Null THEN Apply(t.right, f)
           ELSE LET e == Apply(t.left, f)
                IN IF (t.func = "and" /\ ~e.val) \/ (t.func = "or" /\ e.val)
                   THEN e ELSE Then(e, Apply(t.right, f))

\* The tree is ready: it is applied to a file of the hierarchy.
Visit(f) ==
    /\ phase = "optimised"
    /\ phase' = "visited"
    /\ file' = f
    /\ performed' = Apply(eval_tree, f).acts
    /\ UNCHANGED <<words, predicates, level, eval_tree, flag_lost>>

Next ==
    \/ \E w \in Words : AddWord(w)
    \/ EndOfWords \/ BuildTree
    \/ \E l \in Levels : ChooseLevel(l)
    \/ Optimise \/ SwapArms
    \/ \E f \in SUBSET Typed : Visit(f)

Spec == Init /\ [][Next]_treeVars

------------------------------------------------------------------------------
(* What the manual page says an expression means.                          *)

\* The depth of parentheses after the first i words.
Depth(s, i) ==
    Cardinality({j \in 1 .. i : s[j] = "("}) - Cardinality({j \in 1 .. i : s[j] = ")"})
Top(s) == {i \in DOMAIN s : Depth(s, i) = 0}

\* Two expressions in a row have an implied "and" between them.
Joins(s) == {i \in Top(s) : /\ i < Len(s)
                            /\ s[i] \in Primaries \cup {")"}
                            /\ s[i + 1] \in Primaries \cup {"not", "("}}
Splits(s, op) == {i \in Top(s) : s[i] = op}

\* Where the loosest operator of s stands, as <<end of left, start of right>>.
LastSplit(s) ==
    LET ands == Splits(s, "and") \cup Joins(s)
        at(S) == IF Max(S) \in Joins(s) THEN <<Max(S), Max(S) + 1>>
                 ELSE <<Max(S) - 1, Max(S) + 1>>
    IN IF Splits(s, "comma") # {} THEN <<"comma", at(Splits(s, "comma"))>>
       ELSE IF Splits(s, "or") # {} THEN <<"or", at(Splits(s, "or"))>>
       ELSE IF ands # {} THEN <<"and", at(ands)>>
       ELSE <<"none">>

LeftOf(s, at) == SubSeq(s, 1, at[1])
RightOf(s, at) == SubSeq(s, at[2], Len(s))
Inside(s) == SubSeq(s, 2, Len(s) - 1)

\* s is an expression.
RECURSIVE IsExpr(_)
IsExpr(s) ==
    /\ s # <<>>
    /\ \A i \in DOMAIN s : Depth(s, i) >= 0
    /\ Depth(s, Len(s)) = 0
    /\ LET split == LastSplit(s)
       IN IF split[1] # "none"
          THEN IsExpr(LeftOf(s, split[2])) /\ IsExpr(RightOf(s, split[2]))
          ELSE \/ Len(s) = 1 /\ s[1] \in Primaries
               \/ s[1] = "not" /\ IsExpr(Tail(s))
               \/ s[1] = "(" /\ s[Len(s)] = ")" /\ IsExpr(Inside(s))

\* Its value and the actions performed for file f.
RECURSIVE Meaning(_, _)
Meaning(s, f) ==
    LET split == LastSplit(s)
    IN IF split[1] # "none"
       THEN LET e == Meaning(LeftOf(s, split[2]), f)
            IN IF (split[1] = "and" /\ ~e.val) \/ (split[1] = "or" /\ e.val)
               THEN e ELSE Then(e, Meaning(RightOf(s, split[2]), f))
       ELSE IF s[1] = "not"
            THEN LET e == Meaning(Tail(s), f) IN [e EXCEPT !.val = ~@]
       ELSE IF s[1] = "(" THEN Meaning(Inside(s), f)
       ELSE Apply(Leaf(s[1]), f)

\* With the -print that is the default when no action but -prune is given.
Command ==
    IF words = <<>> THEN <<"print">>
    ELSE IF \E i \in DOMAIN words : words[i] \in Actions THEN words
    ELSE <<"(">> \o words \o <<")", "print">>

------------------------------------------------------------------------------
(* Properties.                                                             *)

\* Whatever the default -print, the precedences and the parentheses do to the
\* list, the tree get_expr builds performs for every file what the manual says
\* of the words that were typed; and "invalid expression" is said only of what
\* is none.
TreeIsTheExpression ==
    /\ phase = "built" /\ IsExpr(Command) =>
          \A f \in SUBSET Typed : Apply(eval_tree, f).acts = Meaning(Command, f).acts
    /\ phase = "error" => words # <<>> /\ ~IsExpr(words)

Looked == phase = "visited" /\ IsExpr(Command)
NoComma == \A i \in DOMAIN words : words[i] # "comma"
AsMeant == performed = Meaning(Command, file).acts

\* find.1, -O: the reordering of tests is an optimisation: whatever was moved
\* into the lists, sorted, merged and swapped, a file gets the same actions in
\* the same order.  (A list with "," is left to CommaListMeans, and a tree in
\* which opt_expr has lost sight of a side effect to EffectPreserved.)
OptimisedTheSame == Looked /\ NoComma /\ ~flag_lost => AsMeant

\* find.1, -O: "reorders tests to speed up execution while preserving the overall
\* effect", whichever node the compiler sets the flag of.
EffectPreserved == Looked /\ NoComma => AsMeant

\* find.1: "The value of expr1 is discarded; the value of the list is the
\* value of expr2."
CommaListMeans == Looked /\ ~flag_lost => AsMeant

\* The arms of the chains of the tree, in the order of evaluation.
RECURSIVE Groups(_)
Groups(t) ==
    IF t = Null THEN {}
    ELSE (IF t.func \in {"and", "or"} THEN {Reverse(Chain(t.func, t))} ELSE {})
         \cup Groups(t.left) \cup Groups(t.right)

\* tree.c: "Place -name, -iname, -path, -ipath, -regex and -iregex at the front
\* of a group", the groups being what lies between side effects: no test that
\* needs anything of the file is evaluated before the -name of its group,
\* whatever is moved and swapped, and however deep the group is.
NamesFirst ==
    phase = "optimised" =>
        \A arms \in Groups(eval_tree) : \A i, j \in DOMAIN arms :
            /\ i < j /\ arms[j].func \in Names
            /\ \A k \in i .. j : ~SubtreeHasSideEffects(arms[k])
            => WorstCost(arms[i]) = 0
=============================================================================
