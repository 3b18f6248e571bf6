---------------------------- MODULE LocateProofs ----------------------------
(***************************************************************************)
(* What locate does with the names it reads, for every list of databases,  *)
(* whatever their bytes are; what it reads of the database of the system   *)
(* while updatedb replaces it, byte for byte: the round trip from frcode   *)
(* to locate, and the refinement of LocateDb; the same round trip for the  *)
(* databases code has written, and where it fails; and, put together, that *)
(* the search finds the names it is to find.                               *)
(***************************************************************************)
EXTENDS Locate, TLAPS, WellFoundedInduction, SequenceTheorems

------------------------------------------------------------------------------
(* The least of a set of numbers.                                          *)

LEMMA MinIsLeast ==
    ASSUME NEW S, S \subseteq Nat, S # {}
    PROVE  Min(S) \in S /\ \A y \in S : Min(S) <= y
<1>1. PICK x \in S : \A y \in S : <<y, x>> \notin OpToRel(<, Nat)
    BY NatLessThanWellFounded, WFMin, Zenon
<1>2. ASSUME NEW y \in S, ~(x <= y) PROVE FALSE
  <2>1. y \in Nat /\ x \in Nat /\ y < x
      BY <1>2
  <2>2. <<y, x>> \in OpToRel(<, Nat)
      BY <2>1 DEF OpToRel
  <2> QED
      BY <1>1, <2>2
<1>3. \A y \in S : x <= y
    BY <1>2
<1> QED
    BY <1>3 DEF Min

------------------------------------------------------------------------------
(* A chain of visitors.                                                    *)

\* The visitor at last ends the visit v of a chain.
StopsAt(last, v, list, flags, name) ==
    /\ v.result = Inspect(list[last], name)
    /\ v.ran = {list[i] : i \in 1 .. last}
    /\ \A i \in 1 .. last - 1 : Inspect(list[i], name) \in flags
    /\ last = Len(list) \/ Inspect(list[last], name) \notin flags

\* It is the first that gives a result outside the flags.
LEMMA VisitIs ==
    ASSUME NEW S, NEW list \in Seq(S), list # <<>>, NEW flags, NEW name
    PROVE  \E last \in 1 .. Len(list) :
               StopsAt(last, Visit(list, flags, name), list, flags, name)
<1> DEFINE stops == {i \in DOMAIN list : Inspect(list[i], name) \notin flags} \cup {Len(list)}
           last == Min(stops)
<1>1. Len(list) \in Nat /\ Len(list) > 0 /\ DOMAIN list = 1 .. Len(list)
    OBVIOUS
<1>2. stops \subseteq 1 .. Len(list) /\ stops \subseteq Nat /\ stops # {}
    BY <1>1
<1>3. last \in stops /\ \A y \in stops : last <= y
    BY <1>2, MinIsLeast
<1>4. ToSet(SubSeq(list, 1, last)) = {list[i] : i \in 1 .. last}
  <2>1. last \in 1 .. Len(list)
      BY <1>2, <1>3
  <2> HIDE DEF last
  <2> DEFINE sub == SubSeq(list, 1, last)
  <2>2. DOMAIN sub = 1 .. last /\ \A i \in 1 .. last : sub[i] = list[i]
      BY <1>1, <2>1
  <2> HIDE DEF sub
  <2>3. ToSet(sub) = {list[i] : i \in 1 .. last}
      BY <2>2 DEF ToSet
  <2> QED
      BY <2>3 DEF sub
<1> HIDE DEF last
<1>5. Visit(list, flags, name) =
          [result |-> Inspect(list[last], name), ran |-> ToSet(SubSeq(list, 1, last))]
    BY DEF Visit, last
<1>6. \A i \in 1 .. last - 1 : Inspect(list[i], name) \in flags
    BY <1>1, <1>2, <1>3
<1>7. last = Len(list) \/ Inspect(list[last], name) \notin flags
    BY <1>3
<1> QED
    BY <1>2, <1>3, <1>4, <1>5, <1>6, <1>7 DEF StopsAt

\* What each visitor says of a name.
LEMMA InspectIs ==
    ASSUME NEW name
    PROVE  /\ \A v \in DOMAIN Matches :
                  Inspect(v, name) = IF name \in Matches[v] THEN "accepted" ELSE "rejected"
           /\ Inspect("existing", name) = IF name \in Existing THEN "continue" ELSE "rejected"
           /\ Inspect("nonexisting", name) = IF name \in Existing THEN "rejected" ELSE "continue"
           /\ Inspect("limit", name) = IF accepted + 1 >= opt.limit THEN "abort" ELSE "continue"
           /\ \A v \in {"stats", "print", "count"} : Inspect(v, name) = "continue"
<1>1. \A v \in Visitors : v \notin DOMAIN Matches
    BY LocateAssumption DEF LocateAssumption
<1>2. \A v \in DOMAIN Matches :
          Inspect(v, name) = IF name \in Matches[v] THEN "accepted" ELSE "rejected"
    BY <1>1 DEF Inspect, Visitors
<1>3. /\ Inspect("existing", name) = IF name \in Existing THEN "continue" ELSE "rejected"
      /\ Inspect("nonexisting", name) = IF name \in Existing THEN "rejected" ELSE "continue"
      /\ Inspect("limit", name) = IF accepted + 1 >= opt.limit THEN "abort" ELSE "continue"
      /\ Inspect("stats", name) = "continue" /\ Inspect("print", name) = "continue"
      /\ Inspect("count", name) = "continue"
    BY <1>1 DEF Inspect, Visitors
<1> QED
    BY <1>2, <1>3

\* Two sequences one after the other.
LEMMA ConcatIs ==
    ASSUME NEW S, NEW s \in Seq(S), NEW t \in Seq(S)
    PROVE  /\ s \o t \in Seq(S) /\ Len(s \o t) = Len(s) + Len(t)
           /\ Len(s) \in Nat /\ Len(t) \in Nat
           /\ \A i \in 1 .. Len(s) : (s \o t)[i] = s[i]
           /\ \A i \in 1 .. Len(t) : (s \o t)[Len(s) + i] = t[i]
OBVIOUS

\* all is the four sequences one after another.
InParts(all, c, s, p, l, S) ==
    /\ all \in Seq(S) /\ Len(all) = Len(c) + Len(s) + Len(p) + Len(l)
    /\ \A i \in 1 .. Len(c) : all[i] = c[i]
    /\ \A i \in 1 .. Len(s) : all[Len(c) + i] = s[i]
    /\ \A i \in 1 .. Len(p) : all[Len(c) + Len(s) + i] = p[i]
    /\ \A i \in 1 .. Len(l) : all[Len(c) + Len(s) + Len(p) + i] = l[i]

LEMMA FourConcat ==
    ASSUME NEW S, NEW c \in Seq(S), NEW s \in Seq(S), NEW p \in Seq(S), NEW l \in Seq(S)
    PROVE  InParts(((c \o s) \o p) \o l, c, s, p, l, S)
<1> DEFINE all == ((c \o s) \o p) \o l
<1>1. PICK cs \in Seq(S) : cs = c \o s
    BY ConcatIs
<1>2. PICK csp \in Seq(S) : csp = cs \o p
    BY ConcatIs
<1>3. all \in Seq(S) /\ all = csp \o l
    BY <1>1, <1>2, ConcatIs
<1>12. all = ((c \o s) \o p) \o l
    OBVIOUS
<1> HIDE DEF all
<1>4. /\ Len(cs) = Len(c) + Len(s) /\ Len(c) \in Nat /\ Len(s) \in Nat
      /\ \A i \in 1 .. Len(c) : cs[i] = c[i]
      /\ \A i \in 1 .. Len(s) : cs[Len(c) + i] = s[i]
    BY <1>1, ConcatIs
<1>5. /\ Len(csp) = Len(cs) + Len(p) /\ Len(p) \in Nat
      /\ \A i \in 1 .. Len(cs) : csp[i] = cs[i]
      /\ \A i \in 1 .. Len(p) : csp[Len(cs) + i] = p[i]
    BY <1>2, ConcatIs
<1>6. /\ Len(all) = Len(csp) + Len(l) /\ Len(l) \in Nat
      /\ \A i \in 1 .. Len(csp) : all[i] = csp[i]
      /\ \A i \in 1 .. Len(l) : all[Len(csp) + i] = l[i]
    BY <1>3, ConcatIs
<1>7. Len(all) = Len(c) + Len(s) + Len(p) + Len(l)
    BY <1>4, <1>5, <1>6
<1>8. ASSUME NEW i \in 1 .. Len(c) PROVE all[i] = c[i]
  <2>1. i \in 1 .. Len(cs) /\ i \in 1 .. Len(csp)
      BY <1>4, <1>5
  <2> QED
      BY <1>4, <1>5, <1>6, <2>1
<1>9. ASSUME NEW i \in 1 .. Len(s) PROVE all[Len(c) + i] = s[i]
  <2>1. Len(c) + i \in 1 .. Len(cs) /\ Len(c) + i \in 1 .. Len(csp)
      BY <1>4, <1>5
  <2> QED
      BY <1>4, <1>5, <1>6, <2>1
<1>10. ASSUME NEW i \in 1 .. Len(p) PROVE all[Len(c) + Len(s) + i] = p[i]
  <2>1. Len(c) + Len(s) + i = Len(cs) + i /\ Len(cs) + i \in 1 .. Len(csp)
      BY <1>4, <1>5
  <2> QED
      BY <1>5, <1>6, <2>1
<1>11. ASSUME NEW i \in 1 .. Len(l) PROVE all[Len(c) + Len(s) + Len(p) + i] = l[i]
  <2>1. Len(c) + Len(s) + Len(p) + i = Len(csp) + i
      BY <1>4, <1>5
  <2> QED
      BY <1>6, <2>1
<1> QED
    BY <1>3, <1>7, <1>8, <1>9, <1>10, <1>11, <1>12 DEF InParts

LEMMA OptionalIs ==
    ASSUME NEW b \in BOOLEAN, NEW v
    PROVE  /\ Optional(b, v) \in Seq({v})
           /\ Len(Optional(b, v)) = IF b THEN 1 ELSE 0
           /\ b => Optional(b, v)[1] = v
<1>1. CASE b
    BY <1>1 DEF Optional
<1>2. CASE ~b
    BY <1>2 DEF Optional
<1> QED
    BY <1>1, <1>2

CheckType ==
    "check" \in DOMAIN procdata /\ procdata.check \in {"either", "existing", "nonexisting"}

\* The visitors after the patterns: the check of existence is the first of them
\* and the count of the matches is the last.
LEMMA PastPatternsIs ==
    ASSUME opt \in Option, CheckType
    PROVE  /\ PastPatterns \in Seq(Visitors) /\ Len(PastPatterns) >= 1
           /\ PastPatterns[Len(PastPatterns)] = IF UseLimit THEN "limit" ELSE "count"
           /\ \A i \in 1 .. Len(PastPatterns) - 1 :
                 PastPatterns[i] \in {"stats", "print"} \/ (i = 1 /\ PastPatterns[1] = procdata.check)
           /\ procdata.check # "either" =>
                 PastPatterns[1] = procdata.check /\ Len(PastPatterns) > 1
           /\ (\E i \in 1 .. Len(PastPatterns) : PastPatterns[i] = "stats") <=> opt.stats
           /\ (\E i \in 1 .. Len(PastPatterns) : PastPatterns[i] = "print") <=> opt.print
<1> DEFINE c == Optional(procdata.check # "either", procdata.check)
           s == Optional(opt.stats, "stats")
           p == Optional(opt.print, "print")
           l == <<IF UseLimit THEN "limit" ELSE "count">>
<1>1. opt.stats \in BOOLEAN /\ opt.print \in BOOLEAN
    BY DEF Option
<1>2. /\ c \in Seq({procdata.check}) /\ Len(c) = IF procdata.check # "either" THEN 1 ELSE 0
      /\ procdata.check # "either" => c[1] = procdata.check
    BY OptionalIs
<1>3. s \in Seq({"stats"}) /\ Len(s) = (IF opt.stats THEN 1 ELSE 0) /\ (opt.stats => s[1] = "stats")
    BY <1>1, OptionalIs
<1>4. p \in Seq({"print"}) /\ Len(p) = (IF opt.print THEN 1 ELSE 0) /\ (opt.print => p[1] = "print")
    BY <1>1, OptionalIs
<1>5. l \in Seq({"limit", "count"}) /\ Len(l) = 1 /\ l[1] = IF UseLimit THEN "limit" ELSE "count"
    OBVIOUS
<1>6. PastPatterns = ((c \o s) \o p) \o l
    BY DEF PastPatterns
<1> HIDE DEF c, s, p, l
<1> DEFINE X == {procdata.check, "stats", "print", "limit", "count"}
           all == PastPatterns
<1>7. c \in Seq(X) /\ s \in Seq(X) /\ p \in Seq(X) /\ l \in Seq(X)
    BY <1>2, <1>3, <1>4, <1>5
<1>8. /\ all \in Seq(X) /\ Len(all) = Len(c) + Len(s) + Len(p) + Len(l)
      /\ \A i \in 1 .. Len(c) : all[i] = c[i]
      /\ \A i \in 1 .. Len(s) : all[Len(c) + i] = s[i]
      /\ \A i \in 1 .. Len(p) : all[Len(c) + Len(s) + i] = p[i]
      /\ \A i \in 1 .. Len(l) : all[Len(c) + Len(s) + Len(p) + i] = l[i]
  <2>1. all = ((c \o s) \o p) \o l
      BY <1>6
  <2> HIDE DEF all, X
  <2>2. InParts(all, c, s, p, l, X)
      BY <1>7, <2>1, FourConcat
  <2> QED
      BY <2>2 DEF InParts
<1> HIDE DEF all
<1>12. /\ Len(c) \in {0, 1} /\ Len(s) \in {0, 1} /\ Len(p) \in {0, 1}
       /\ Len(all) = Len(c) + Len(s) + Len(p) + 1
    BY <1>2, <1>3, <1>4, <1>5, <1>8
<1>13. /\ \A i \in 1 .. Len(c) : all[i] = c[i]
       /\ \A i \in 1 .. Len(s) : all[Len(c) + i] = s[i]
       /\ \A i \in 1 .. Len(p) : all[Len(c) + Len(s) + i] = p[i]
       /\ all[Len(all)] = l[1]
    BY <1>5, <1>8, <1>12
<1>14. ASSUME NEW i \in 1 .. Len(all) - 1
       PROVE  \/ i \in 1 .. Len(c)
              \/ \E j \in 1 .. Len(s) : i = Len(c) + j
              \/ \E j \in 1 .. Len(p) : i = Len(c) + Len(s) + j
  <2>1. SUFFICES ASSUME i \notin 1 .. Len(c)
                 PROVE  \/ \E j \in 1 .. Len(s) : i = Len(c) + j
                        \/ \E j \in 1 .. Len(p) : i = Len(c) + Len(s) + j
      BY Zenon
  <2>2. i \in Int /\ i > Len(c) /\ i <= Len(c) + Len(s) + Len(p)
      BY <1>12, <2>1
  <2>3. CASE i <= Len(c) + Len(s)
    <3>1. i - Len(c) \in 1 .. Len(s) /\ i = Len(c) + (i - Len(c))
        BY <1>12, <2>2, <2>3
    <3> QED
        BY <3>1
  <2>4. CASE i > Len(c) + Len(s)
    <3>1. /\ i - Len(c) - Len(s) \in 1 .. Len(p)
          /\ i = Len(c) + Len(s) + (i - Len(c) - Len(s))
        BY <1>12, <2>2, <2>4
    <3> QED
        BY <3>1
  <2> QED
      BY <1>12, <2>2, <2>3, <2>4
<1>15. /\ \A i \in 1 .. Len(c) : c[i] = procdata.check /\ procdata.check # "either" /\ i = 1
       /\ \A i \in 1 .. Len(s) : s[i] = "stats" /\ opt.stats
       /\ \A i \in 1 .. Len(p) : p[i] = "print" /\ opt.print
    BY <1>2, <1>3, <1>4
<1>16. ASSUME NEW i \in 1 .. Len(all) - 1
       PROVE  \/ all[i] = procdata.check /\ procdata.check # "either" /\ i = 1
              \/ all[i] = "stats" /\ opt.stats
              \/ all[i] = "print" /\ opt.print
  <2>1. CASE i \in 1 .. Len(c)
      BY <1>13, <1>15, <2>1
  <2>2. ASSUME NEW j \in 1 .. Len(s), i = Len(c) + j PROVE all[i] = "stats" /\ opt.stats
      BY <1>13, <1>15, <2>2
  <2>3. ASSUME NEW j \in 1 .. Len(p), i = Len(c) + Len(s) + j
        PROVE  all[i] = "print" /\ opt.print
      BY <1>13, <1>15, <2>3
  <2> QED
      BY <1>14, <2>1, <2>2, <2>3
<1>17. /\ opt.stats => all[Len(c) + 1] = "stats" /\ Len(c) + 1 \in 1 .. Len(all)
       /\ opt.print => /\ all[Len(c) + Len(s) + 1] = "print"
                       /\ Len(c) + Len(s) + 1 \in 1 .. Len(all)
  <2>1. /\ opt.stats => 1 \in 1 .. Len(s) /\ s[1] = "stats"
        /\ opt.print => 1 \in 1 .. Len(p) /\ p[1] = "print"
      BY <1>3, <1>4
  <2> QED
      BY <1>12, <1>13, <2>1
<1>18. procdata.check # "either" => all[1] = procdata.check /\ Len(all) > 1
    BY <1>2, <1>12, <1>13
<1>19. \A i \in 1 .. Len(all) : i \in 1 .. Len(all) - 1 \/ i = Len(all)
    BY <1>12
<1>20. all[Len(all)] = IF UseLimit THEN "limit" ELSE "count"
    BY <1>5, <1>13
<1>21. \A i \in 1 .. Len(all) : all[i] \in Visitors
    BY <1>16, <1>19, <1>20 DEF Visitors, CheckType
<1>22. (\E i \in 1 .. Len(all) : all[i] = "stats") <=> opt.stats
    BY <1>16, <1>17, <1>19, <1>20 DEF CheckType
<1>23. (\E i \in 1 .. Len(all) : all[i] = "print") <=> opt.print
    BY <1>16, <1>17, <1>19, <1>20 DEF CheckType
<1>24. all \in Seq(Visitors) /\ Len(all) >= 1
    BY <1>8, <1>12, <1>21
<1> QED
    BY <1>16, <1>18, <1>20, <1>22, <1>23, <1>24 DEF all

\* What is asked of existence.
CheckPasses(name) ==
    /\ procdata.check = "existing" => name \in Existing
    /\ procdata.check = "nonexisting" => name \notin Existing

\* What the patterns ask for.
Chosen(name) ==
    \/ opt.patterns = <<>>
    \/ IF opt.op_and THEN \A v \in ToSet(opt.patterns) : name \in Matches[v]
       ELSE \E v \in ToSet(opt.patterns) : name \in Matches[v]

Accepted(pre, name) == \A i \in 1 .. Len(pre) : name \in Matches[pre[i]]

\* What a visit v of an entry does, if the entry passes and if not.
Does(v, passes) ==
    /\ "stats" \in v.ran <=> passes /\ opt.stats
    /\ "print" \in v.ran <=> passes /\ opt.print
    /\ v.ran \cap {"limit", "count"} # {} <=> passes
    /\ v.result = "abort" <=> passes /\ UseLimit /\ accepted + 1 >= opt.limit

\* The patterns pre and then the other visitors, of which each runs just when
\* nothing before it has rejected the name.
LEMMA ChainIs ==
    ASSUME opt \in Option, CheckType, NEW pre \in Seq(DOMAIN Matches), NEW name,
           NEW flags, flags = {"continue", "accepted"} \/ (flags = {"continue"} /\ pre = <<>>),
           NEW list, list = pre \o PastPatterns,
           NEW v, v = Visit(list, flags, name)
    PROVE  Does(v, Accepted(pre, name) /\ CheckPasses(name))
<1> USE DEF Accepted, Does
<1> DEFINE passes == Accepted(pre, name) /\ CheckPasses(name)
<1> DEFINE m == Len(pre)
           n == Len(PastPatterns)
           X == DOMAIN Matches \cup Visitors
<1>1. /\ PastPatterns \in Seq(Visitors) /\ n >= 1 /\ n \in Nat
      /\ PastPatterns[n] = IF UseLimit THEN "limit" ELSE "count"
      /\ \A i \in 1 .. n - 1 :
             PastPatterns[i] \in {"stats", "print"} \/ (i = 1 /\ PastPatterns[1] = procdata.check)
      /\ procdata.check # "either" => PastPatterns[1] = procdata.check /\ n > 1
      /\ (\E i \in 1 .. n : PastPatterns[i] = "stats") <=> opt.stats
      /\ (\E i \in 1 .. n : PastPatterns[i] = "print") <=> opt.print
    BY PastPatternsIs
<1>2. pre \in Seq(X) /\ PastPatterns \in Seq(X)
    BY <1>1
<1>3. /\ list \in Seq(X) /\ Len(list) = m + n /\ m \in Nat
      /\ \A i \in 1 .. m : list[i] = pre[i] /\ pre[i] \in DOMAIN Matches
      /\ \A i \in 1 .. n : list[m + i] = PastPatterns[i]
  <2> HIDE DEF X
  <2>1. /\ list \in Seq(X) /\ Len(list) = m + n /\ m \in Nat
        /\ \A i \in 1 .. m : list[i] = pre[i]
        /\ \A i \in 1 .. n : list[m + i] = PastPatterns[i]
      BY <1>2, ConcatIs
  <2> QED
      BY <2>1
<1> HIDE DEF X
<1>4. /\ \A w \in DOMAIN Matches :
             Inspect(w, name) = IF name \in Matches[w] THEN "accepted" ELSE "rejected"
      /\ Inspect("existing", name) = IF name \in Existing THEN "continue" ELSE "rejected"
      /\ Inspect("nonexisting", name) = IF name \in Existing THEN "rejected" ELSE "continue"
      /\ Inspect("limit", name) = IF accepted + 1 >= opt.limit THEN "abort" ELSE "continue"
      /\ \A w \in {"stats", "print", "count"} : Inspect(w, name) = "continue"
    BY InspectIs
<1>5. PICK last \in 1 .. Len(list) :
          /\ v.result = Inspect(list[last], name)
          /\ v.ran = {list[i] : i \in 1 .. last}
          /\ \A i \in 1 .. last - 1 : Inspect(list[i], name) \in flags
          /\ last = Len(list) \/ Inspect(list[last], name) \notin flags
  <2>1. list # <<>> /\ list \in Seq(X)
      BY <1>1, <1>3
  <2>2. PICK last \in 1 .. Len(list) :
            StopsAt(last, Visit(list, flags, name), list, flags, name)
      BY <2>1, VisitIs, Zenon
  <2>3. StopsAt(last, v, list, flags, name)
      BY <2>2, Zenon
  <2> QED
      BY <2>3 DEF StopsAt
<1>6. \A w \in Visitors : w \notin DOMAIN Matches
    BY LocateAssumption DEF LocateAssumption
<1>7. \A i \in 1 .. m + n : i \in 1 .. m \/ \E j \in 1 .. n : i = m + j
  <2>1. SUFFICES ASSUME NEW i \in 1 .. m + n, i \notin 1 .. m
                 PROVE  \E j \in 1 .. n : i = m + j
      OBVIOUS
  <2>2. i - m \in 1 .. n /\ i = m + (i - m)
      BY <1>1, <1>3, <2>1
  <2> QED
      BY <2>2
<1> HIDE DEF m, n
<1>8. CASE passes
  <2>1. ASSUME NEW i \in 1 .. m + n, i < m + n PROVE Inspect(list[i], name) \in flags
    <3>1. CASE i \in 1 .. m
      <4>1. Inspect(list[i], name) = "accepted"
          BY <1>3, <1>4, <1>8, <3>1 DEF m
      <4>2. flags = {"continue", "accepted"}
          BY <3>1 DEF m
      <4> QED
          BY <4>1, <4>2
    <3>2. ASSUME NEW j \in 1 .. n, i = m + j PROVE Inspect(list[i], name) \in flags
      <4>1. j \in 1 .. n - 1
          BY <1>1, <1>3, <2>1, <3>2
      <4>2. list[i] = PastPatterns[j]
          BY <1>3, <3>2
      <4>3. \/ PastPatterns[j] \in {"stats", "print"}
            \/ PastPatterns[j] = procdata.check
          BY <1>1, <4>1
      <4>4. PastPatterns[j] \in Visitors
          BY <1>1, <3>2 DEF n
      <4>5. procdata.check \in Visitors => Inspect(procdata.check, name) = "continue"
        <5>1. "either" \notin Visitors
            BY DEF Visitors
        <5> QED
            BY <1>4, <1>8, <5>1 DEF CheckType, CheckPasses
      <4>6. Inspect(PastPatterns[j], name) = "continue"
          BY <1>4, <4>3, <4>4, <4>5
      <4> QED
          BY <4>2, <4>6
    <3> QED
        BY <1>7, <3>1, <3>2
  <2>2. last = m + n
      BY <1>1, <1>3, <1>5, <2>1
  <2>3. list[last] = IF UseLimit THEN "limit" ELSE "count"
    <3>1. n \in 1 .. n
        BY <1>1
    <3> QED
        BY <1>1, <1>3, <2>2, <3>1
  <2>4. v.result = "abort" <=> UseLimit /\ accepted + 1 >= opt.limit
      BY <1>4, <1>5, <2>3
  <2>5. v.ran \cap {"limit", "count"} # {}
    <3>1. list[last] \in v.ran
        BY <1>5
    <3> QED
        BY <2>3, <3>1
  <2>6. ASSUME NEW w \in Visitors
        PROVE  w \in v.ran <=> \E j \in 1 .. n : PastPatterns[j] = w
    <3>1. w \in v.ran <=> \E i \in 1 .. m + n : list[i] = w
        BY <1>5, <2>2
    <3>2. \A i \in 1 .. m : list[i] # w
        BY <1>3, <1>6
    <3>3. \A j \in 1 .. n : m + j \in 1 .. m + n
        BY <1>1, <1>3
    <3> QED
        BY <1>3, <1>7, <3>1, <3>2, <3>3
  <2>7. "stats" \in Visitors /\ "print" \in Visitors
      BY DEF Visitors
  <2>8. ("stats" \in v.ran <=> opt.stats) /\ ("print" \in v.ran <=> opt.print)
      BY <1>1, <2>6, <2>7
  <2> QED
      BY <1>8, <2>4, <2>5, <2>8
<1>9. CASE ~passes
  <2>1. PICK bad \in 1 .. m + n :
            /\ Inspect(list[bad], name) = "rejected"
            /\ bad <= m + 1 /\ (bad = m + 1 => list[bad] \in {"existing", "nonexisting"})
    <3>1. CASE \E i \in 1 .. Len(pre) : name \notin Matches[pre[i]]
      <4>1. PICK i \in 1 .. m : name \notin Matches[pre[i]]
          BY <3>1 DEF m
      <4>2. i \in 1 .. m + n /\ i <= m + 1 /\ i # m + 1
          BY <1>1, <1>3
      <4>3. Inspect(list[i], name) = "rejected"
          BY <1>3, <1>4, <4>1
      <4> QED
          BY <4>2, <4>3
    <3>2. CASE ~CheckPasses(name)
      <4>1. /\ procdata.check \in {"existing", "nonexisting"}
            /\ Inspect(procdata.check, name) = "rejected"
          BY <1>4, <3>2 DEF CheckPasses
      <4>2. PastPatterns[1] = procdata.check
          BY <1>1, <4>1
      <4>3. m + 1 \in 1 .. m + n /\ list[m + 1] = procdata.check
        <5>1. 1 \in 1 .. n /\ m + 1 \in 1 .. m + n
            BY <1>1, <1>3
        <5> QED
            BY <1>3, <4>2, <5>1
      <4>4. m + 1 <= m + 1
          BY <1>3
      <4> QED
          BY <4>1, <4>3, <4>4
    <3> QED
        BY <1>9, <3>1, <3>2
  <2>2. "rejected" \notin flags
      OBVIOUS
  <2>3. last <= bad
    <3>1. last \in Int /\ bad \in 1 .. m + n
        BY <1>1, <1>3
    <3>2. CASE bad < last
      <4>1. bad \in 1 .. last - 1
          BY <3>1, <3>2
      <4> QED
          BY <1>5, <2>1, <2>2, <4>1
    <3> QED
        BY <1>1, <1>3, <3>1, <3>2
  <2>4. ASSUME NEW i \in 1 .. last
        PROVE  /\ list[i] \notin {"stats", "print", "limit", "count"}
               /\ list[i] \in DOMAIN Matches \cup {"existing", "nonexisting"}
    <3>1. i \in 1 .. m \/ (i = m + 1 /\ i = bad)
        BY <1>1, <1>3, <2>1, <2>3
    <3>2. {"stats", "print", "limit", "count"} \subseteq Visitors
        BY DEF Visitors
    <3> QED
        BY <1>3, <1>6, <2>1, <3>1, <3>2
  <2>5. v.ran \cap {"stats", "print", "limit", "count"} = {}
      BY <1>5, <2>4
  <2>6. v.result # "abort"
    <3>1. list[last] \in DOMAIN Matches \cup {"existing", "nonexisting"}
        BY <2>4
    <3> QED
        BY <1>4, <1>5, <3>1
  <2> QED
      BY <1>9, <2>5, <2>6
<1> QED
    BY <1>8, <1>9

\* process_and and process_or: several patterns that are looked at first.
LEMMA PatternsAre ==
    ASSUME opt \in Option, opt.patterns # <<>>, NEW name,
           NEW v, v = Visit(opt.patterns, PatternFlags, name)
    PROVE  /\ v.result = IF Chosen(name) THEN "accepted" ELSE "rejected"
           /\ v.ran \subseteq DOMAIN Matches
<1> DEFINE list == opt.patterns
<1>1. /\ list \in Seq(DOMAIN Matches) /\ Len(list) \in Nat /\ Len(list) > 0
      /\ \A i \in 1 .. Len(list) : list[i] \in DOMAIN Matches
      /\ ToSet(list) = {list[i] : i \in 1 .. Len(list)}
    BY DEF Option, ToSet
<1>2. \A w \in DOMAIN Matches :
          Inspect(w, name) = IF name \in Matches[w] THEN "accepted" ELSE "rejected"
    BY InspectIs
<1>3. PICK last \in 1 .. Len(list) : StopsAt(last, v, list, PatternFlags, name)
    BY <1>1, VisitIs, Zenon
<1>4. /\ v.result = Inspect(list[last], name)
      /\ v.ran = {list[i] : i \in 1 .. last}
      /\ \A i \in 1 .. last - 1 : Inspect(list[i], name) \in PatternFlags
      /\ last = Len(list) \/ Inspect(list[last], name) \notin PatternFlags
    BY <1>3 DEF StopsAt
<1>5. v.ran \subseteq DOMAIN Matches
    BY <1>1, <1>4
<1>6. v.result = IF name \in Matches[list[last]] THEN "accepted" ELSE "rejected"
    BY <1>1, <1>2, <1>4
<1>7. list[last] \in ToSet(list)
    BY <1>1
<1>8. CASE opt.op_and
  <2>1. PatternFlags = {"continue", "accepted"}
      BY <1>8 DEF PatternFlags
  <2>2. CASE last = Len(list)
    <3>1. \A i \in 1 .. last - 1 : name \in Matches[list[i]]
      <4>1. \A i \in 1 .. last - 1 : i \in 1 .. Len(list)
          BY <1>1
      <4> QED
          BY <1>1, <1>2, <1>4, <2>1, <4>1
    <3>2. \A i \in 1 .. Len(list) : i \in 1 .. last - 1 \/ i = last
        BY <1>1, <2>2
    <3>3. name \in Matches[list[last]] <=> \A w \in ToSet(list) : name \in Matches[w]
        BY <1>1, <1>7, <3>1, <3>2
    <3> HIDE DEF list
    <3>4. Chosen(name) <=> \A w \in ToSet(list) : name \in Matches[w]
        BY <1>8 DEF Chosen, list
    <3> QED
        BY <1>5, <1>6, <3>3, <3>4
  <2>3. CASE last # Len(list)
    <3>1. Inspect(list[last], name) = "rejected" /\ name \notin Matches[list[last]]
        BY <1>1, <1>2, <1>4, <2>1, <2>3
    <3>2. ~Chosen(name)
        BY <1>7, <1>8, <3>1 DEF Chosen
    <3> QED
        BY <1>4, <1>5, <3>1, <3>2
  <2> QED
      BY <2>2, <2>3
<1>9. CASE ~opt.op_and
  <2>1. PatternFlags = {"continue", "rejected"}
      BY <1>9 DEF PatternFlags
  <2>2. CASE last = Len(list)
    <3>1. \A i \in 1 .. last - 1 : name \notin Matches[list[i]]
      <4>1. \A i \in 1 .. last - 1 : i \in 1 .. Len(list)
          BY <1>1
      <4> QED
          BY <1>1, <1>2, <1>4, <2>1, <4>1
    <3>2. \A i \in 1 .. Len(list) : i \in 1 .. last - 1 \/ i = last
        BY <1>1, <2>2
    <3>3. name \in Matches[list[last]] <=> \E w \in ToSet(list) : name \in Matches[w]
        BY <1>1, <1>7, <3>1, <3>2
    <3> HIDE DEF list
    <3>4. Chosen(name) <=> \E w \in ToSet(list) : name \in Matches[w]
        BY <1>9 DEF Chosen, list
    <3> QED
        BY <1>5, <1>6, <3>3, <3>4
  <2>3. CASE last # Len(list)
    <3>1. Inspect(list[last], name) = "accepted" /\ name \in Matches[list[last]]
        BY <1>1, <1>2, <1>4, <2>1, <2>3
    <3>2. Chosen(name)
        BY <1>7, <1>9, <3>1 DEF Chosen
    <3> QED
        BY <1>4, <1>5, <3>1, <3>2
  <2> QED
      BY <2>2, <2>3
<1> QED
    BY <1>8, <1>9

\* What a name must be to be counted and printed.
Shown(name) == Chosen(name) /\ CheckPasses(name)

\* process_simple, process_and and process_or come to the same.
LEMMA ProcessIs ==
    ASSUME opt \in Option, CheckType, NEW name, NEW v, v = Process(name)
    PROVE  Does(v, Shown(name))
<1>1. opt.patterns \in Seq(DOMAIN Matches) /\ Len(opt.patterns) \in Nat
    BY DEF Option
<1>2. CASE Len(opt.patterns) <= 1
  <2>1. v = Visit(opt.patterns \o PastPatterns, {"continue", "accepted"}, name)
      BY <1>2 DEF Process
  <2>2. Accepted(opt.patterns, name) <=> Chosen(name)
    <3>1. CASE opt.patterns = <<>>
        BY <3>1 DEF Chosen, Accepted
    <3>2. CASE opt.patterns # <<>>
      <4>1. Len(opt.patterns) = 1 /\ DOMAIN opt.patterns = {1}
        <5>1. Len(opt.patterns) # 0
            BY <1>1, <3>2, EmptySeq
        <5> QED
          <6>1. Len(opt.patterns) = 1
            <7>1. \A n \in Nat : n # 0 /\ n <= 1 => n = 1
                OBVIOUS
            <7> QED
                BY <1>1, <1>2, <5>1, <7>1
          <6>2. DOMAIN opt.patterns = 1 .. Len(opt.patterns)
              BY <1>1
          <6>3. 1 .. 1 = {1}
              OBVIOUS
          <6> QED
              BY <6>1, <6>2, <6>3
      <4>2. ToSet(opt.patterns) = {opt.patterns[1]}
          BY <4>1 DEF ToSet
      <4> QED
          BY <3>2, <4>1, <4>2 DEF Chosen, Accepted
    <3> QED
        BY <3>1, <3>2
  <2>3. Does(v, Accepted(opt.patterns, name) /\ CheckPasses(name))
    <3> DEFINE list == opt.patterns \o PastPatterns
               flags == {"continue", "accepted"}
    <3>1. v = Visit(list, flags, name) /\ list = opt.patterns \o PastPatterns
        BY <2>1
    <3>2. flags = {"continue", "accepted"}
        OBVIOUS
    <3> HIDE DEF list, flags
    <3> QED
        BY <1>1, <3>1, <3>2, ChainIs
  <2> QED
      BY <2>2, <2>3 DEF Shown, Does
<1>3. CASE Len(opt.patterns) > 1
  <2> DEFINE first == Visit(opt.patterns, PatternFlags, name)
  <2>1. opt.patterns # <<>>
      BY <1>3
  <2>2. /\ first.result = IF Chosen(name) THEN "accepted" ELSE "rejected"
        /\ first.ran \subseteq DOMAIN Matches
      BY <2>1, PatternsAre
  <2> HIDE DEF first
  <2>3. v = IF first.result = "accepted" THEN Visit(PastPatterns, {"continue"}, name) ELSE first
      BY <1>1, <1>3 DEF Process, first
  <2>4. CASE Chosen(name)
    <3> DEFINE none == <<>>
               list == none \o PastPatterns
               flags == {"continue"}
    <3>1. list = PastPatterns
        BY PastPatternsIs
    <3>2. v = Visit(list, flags, name) /\ list = none \o PastPatterns
        BY <2>2, <2>3, <2>4, <3>1
    <3>3. none \in Seq(DOMAIN Matches) /\ flags = {"continue"} /\ none = <<>>
        OBVIOUS
    <3> HIDE DEF list, flags, none
    <3>4. Does(v, Accepted(none, name) /\ CheckPasses(name))
        BY <3>2, <3>3, ChainIs
    <3>5. Accepted(none, name)
        BY <3>3 DEF Accepted
    <3> QED
        BY <2>4, <3>4, <3>5 DEF Shown, Does
  <2>5. CASE ~Chosen(name)
    <3>1. v = first /\ v.result = "rejected" /\ v.ran \subseteq DOMAIN Matches
        BY <2>2, <2>3, <2>5
    <3>2. \A w \in Visitors : w \notin DOMAIN Matches
        BY LocateAssumption DEF LocateAssumption
    <3>3. \A w \in {"stats", "print", "limit", "count"} : w \notin v.ran
        BY <3>1, <3>2 DEF Visitors
    <3> QED
        BY <2>5, <3>1, <3>3 DEF Shown, Does
  <2> QED
      BY <2>4, <2>5
<1> QED
    BY <1>1, <1>2, <1>3

------------------------------------------------------------------------------
(* -l.                                                                     *)

\* Each name printed is counted, and a database is read only while the limit
\* is not reached.
WithinLimit ==
    /\ opt \in Option /\ CheckType
    /\ accepted \in Nat /\ (\E S : printed \in Seq(S)) /\ Len(printed) <= accepted
    /\ UseLimit => /\ accepted <= opt.limit
                   /\ phase \in {"header", "entries"} => accepted < opt.limit

LEMMA InitWithinLimit ==
    ASSUME LocateInit
    PROVE  WithinLimit
<1>1. opt \in Option /\ procdata = Closed /\ accepted = 0 /\ printed = <<>> /\ phase = "next"
    BY LocateAssumption DEF LocateInit, LocateAssumption
<1>2. CheckType
    BY <1>1 DEF CheckType, Closed
<1>3. \E S : printed \in Seq(S)
  <2>1. <<>> \in Seq({})
      OBVIOUS
  <2> QED
      BY <1>1, <2>1
<1>4. Len(printed) = 0
    BY <1>1
<1>5. UseLimit => opt.limit \in Nat
    BY <1>1 DEF UseLimit, Option
<1> QED
    BY <1>1, <1>2, <1>3, <1>4, <1>5 DEF WithinLimit

LEMMA VisitWithinLimit ==
    ASSUME WithinLimit, VisitEntry
    PROVE  WithinLimit'
<1> DEFINE old == Db.format = "old"
           e == IF old THEN OldEntry ELSE Locate02Entry
           corrupt == e.count < 0 \/ (~old /\ e.count > procdata.len)
           read == IF old THEN OldRead(e) ELSE Locate02Read(e)
           name == Name(read.buf)
           v == Process(name)
<1>1. opt' = opt /\ phase = "entries"
    BY DEF VisitEntry
<1>2. /\ opt \in Option /\ CheckType /\ accepted \in Nat /\ Len(printed) <= accepted
      /\ \E S : printed \in Seq(S)
      /\ UseLimit => accepted < opt.limit /\ opt.limit \in Nat
    BY <1>1 DEF WithinLimit, UseLimit, Option
<1>3. UseLimit' = UseLimit
    BY <1>1 DEF UseLimit
<1>4. \/ UNCHANGED <<procdata, accepted, printed>> /\ phase' \in {"done", "closing"}
      \/ /\ procdata' = [read EXCEPT !.names = Append(@, name)]
         /\ phase' = IF v.result = "abort" THEN "closing" ELSE phase
         /\ printed' = IF "print" \in v.ran THEN Append(printed, name) ELSE printed
         /\ accepted' = IF v.ran \cap {"limit", "count"} # {} THEN accepted + 1 ELSE accepted
  <2>1. CASE corrupt
      BY <2>1 DEF VisitEntry, Exit
  <2>2. CASE ~corrupt /\ ~old /\ e.text > Len(Db.bytes)
      BY <2>2 DEF VisitEntry
  <2>3. CASE ~corrupt /\ (old \/ ~(e.text > Len(Db.bytes)))
      BY <2>3 DEF VisitEntry
  <2> QED
      BY <2>1, <2>2, <2>3
<1>5. CASE UNCHANGED <<procdata, accepted, printed>> /\ phase' \in {"done", "closing"}
  <2>1. CheckType'
      BY <1>2, <1>5 DEF CheckType
  <2> QED
      BY <1>1, <1>2, <1>3, <1>5, <2>1 DEF WithinLimit
<1>6. CASE /\ procdata' = [read EXCEPT !.names = Append(@, name)]
           /\ phase' = IF v.result = "abort" THEN "closing" ELSE phase
           /\ printed' = IF "print" \in v.ran THEN Append(printed, name) ELSE printed
           /\ accepted' = IF v.ran \cap {"limit", "count"} # {} THEN accepted + 1 ELSE accepted
  <2>1. Does(v, Shown(name))
      BY <1>2, ProcessIs
  <2>2. "check" \in DOMAIN procdata' /\ procdata'.check = procdata.check
    <3>1. \A x : /\ OldRead(x).check = procdata.check /\ Locate02Read(x).check = procdata.check
                 /\ DOMAIN OldRead(x) = DOMAIN procdata /\ DOMAIN Locate02Read(x) = DOMAIN procdata
        BY <1>2 DEF OldRead, Locate02Read, CheckType
    <3>2. read.check = procdata.check /\ DOMAIN read = DOMAIN procdata
        BY <3>1
    <3> HIDE DEF read, name
    <3> QED
        BY <1>2, <1>6, <3>2 DEF CheckType
  <2> HIDE DEF name, v, read
  <2>3. CheckType'
      BY <1>2, <2>2 DEF CheckType
  <2>4. PICK S : printed \in Seq(S)
      BY <1>2
  <2>5. printed \in Seq(S \cup {name}) /\ name \in S \cup {name}
      BY <2>4
  <2>6. /\ Append(printed, name) \in Seq(S \cup {name})
        /\ Len(Append(printed, name)) = Len(printed) + 1 /\ Len(printed) \in Nat
      BY <2>5
  <2>7. printed' \in Seq(S \cup {name})
      BY <1>6, <2>5, <2>6
  <2>8. CASE Shown(name)
    <3>1. /\ accepted' = accepted + 1 /\ Len(printed') <= accepted'
          /\ phase' = IF UseLimit /\ accepted + 1 >= opt.limit THEN "closing" ELSE phase
        BY <1>2, <1>6, <2>1, <2>6, <2>8 DEF Does
    <3> QED
        BY <1>1, <1>2, <1>3, <2>3, <2>7, <3>1 DEF WithinLimit
  <2>9. CASE ~Shown(name)
    <3>1. UNCHANGED <<accepted, printed, phase>>
        BY <1>6, <2>1, <2>9 DEF Does
    <3> QED
        BY <1>1, <1>2, <1>3, <2>3, <2>7, <3>1 DEF WithinLimit
  <2> QED
      BY <2>8, <2>9
<1> QED
    BY <1>4, <1>5, <1>6

LEMMA StepWithinLimit ==
    ASSUME WithinLimit, [Next]_locateDbVars
    PROVE  WithinLimit'
<1>1. CASE NextDatabase
  <2>1. /\ UNCHANGED <<opt, accepted, printed>> /\ ~LimitReached
        /\ procdata' \in {procdata} \cup {[Closed EXCEPT !.inode = i] : i \in {locate_db, NoFile}}
      BY <1>1 DEF NextDatabase
  <2>2. CheckType'
    <3>1. \A i : [Closed EXCEPT !.inode = i].check = "either"
               /\ "check" \in DOMAIN [Closed EXCEPT !.inode = i]
        BY DEF Closed
    <3> QED
        BY <2>1, <3>1 DEF WithinLimit, CheckType
  <2>3. UseLimit => accepted < opt.limit
      BY <2>1 DEF LimitReached, UseLimit, WithinLimit, Option
  <2> QED
      BY <2>1, <2>2, <2>3 DEF WithinLimit, UseLimit
<1>2. CASE Finish
  <2>1. UNCHANGED <<opt, accepted, printed, procdata>> /\ phase' = "done"
      BY <1>2 DEF Finish, Exit
  <2> QED
      BY <2>1 DEF WithinLimit, CheckType, UseLimit
<1>3. CASE ReadHeader
  <2>1. /\ UNCHANGED <<opt, accepted, printed>> /\ phase = "header"
        /\ \/ UNCHANGED procdata
           \/ procdata' = [procdata EXCEPT !.check = Checked(Db.format)]
      BY <1>3 DEF ReadHeader
  <2>2. CheckType'
    <3>1. Checked(Db.format) \in {"either", "existing", "nonexisting"}
        BY DEF Checked, WithinLimit, Option
    <3>2. /\ procdata'.check \in {procdata.check, Checked(Db.format)}
          /\ "check" \in DOMAIN procdata'
        BY <2>1 DEF WithinLimit, CheckType
    <3> QED
        BY <2>1, <3>1, <3>2 DEF WithinLimit, CheckType
  <2> QED
      BY <2>1, <2>2 DEF WithinLimit, UseLimit
<1>4. CASE VisitEntry
    BY <1>4, VisitWithinLimit
<1>5. CASE EndOfFile \/ Close
  <2>1. UNCHANGED <<opt, accepted, printed, procdata>> /\ phase' \in {"closing", "next"}
      BY <1>5 DEF EndOfFile, Close
  <2> QED
      BY <2>1 DEF WithinLimit, CheckType, UseLimit
<1>6. CASE UNCHANGED locateVars
  <2>1. UNCHANGED <<opt, accepted, printed, procdata, phase>>
      BY <1>6 DEF locateVars
  <2> QED
      BY <2>1 DEF WithinLimit, CheckType, UseLimit
<1> QED
    BY <1>1, <1>2, <1>3, <1>4, <1>5, <1>6 DEF Next, LocateNext, locateDbVars

\* locate.1, -l: whatever the databases hold, however many there are and
\* whatever updatedb does, locate counts and prints at most as many names.
THEOREM LimitIsKept == Spec => []LimitKept
<1>1. WithinLimit => LimitKept
  <2> SUFFICES ASSUME WithinLimit, UseLimit PROVE accepted <= opt.limit /\ Len(printed) <= opt.limit
      BY DEF LimitKept
  <2>1. /\ accepted \in Nat /\ accepted <= opt.limit /\ opt.limit \in Nat
        /\ Len(printed) <= accepted
      BY DEF WithinLimit, UseLimit, Option
  <2>2. Len(printed) \in Nat
      BY DEF WithinLimit
  <2> QED
      BY <2>1, <2>2
<1> QED
    BY <1>1, InitWithinLimit, StepWithinLimit, PTL DEF Spec

------------------------------------------------------------------------------
(* The bytes of an entry in the format of frcode.                          *)

Bytes == 0 .. ByteValues - 1

\* The sizes of a byte.
LEMMA ByteFacts ==
    /\ OneByteMax \in Nat \ {0} /\ ByteValues = 2 * (OneByteMax + 1) /\ ByteValues \in Nat
    /\ Escape = OneByteMax + 1 /\ Escape \in Bytes
    /\ OneByteMin = -OneByteMax
BY FrCodeAssumption DEF FrCodeAssumption, ByteValues, Escape, OneByteMin, Bytes

\* The two digits of a number to the base B, in two's complement, give the
\* number back with its sign.
LEMMA WordReadsBack ==
    ASSUME NEW B \in Nat \ {0}, NEW d \in Int, -((B * B) \div 2) <= d, d < (B * B) \div 2
    PROVE  /\ (d \div B) % B \in 0 .. B - 1 /\ d % B \in 0 .. B - 1
           /\ Signed(((d \div B) % B) * B + (d % B), B * B) = d
<1> DEFINE q == d \div B
           r == d % B
           q2 == q \div B
           r2 == q % B
           BB == B * B
<1>1. BB \in Nat /\ BB >= 1
    OBVIOUS
<1> DEFINE h == BB \div 2
<1>2. h \in Nat /\ 2 * h <= BB /\ BB <= 2 * h + 1 /\ d \in Int /\ -h <= d /\ d < h
  <2>1. -(BB \div 2) <= d /\ d < BB \div 2
      OBVIOUS
  <2> HIDE DEF BB
  <2> QED
      BY <1>1, <2>1
<1>3. q \in Int /\ r \in 0 .. B - 1 /\ d = q * B + r
    OBVIOUS
<1>4. q2 \in Int /\ r2 \in 0 .. B - 1 /\ q = q2 * B + r2
    BY <1>3
<1> HIDE DEF q, r, q2, r2, h
<1>5. d = q2 * BB + (r2 * B + r)
  <2>1. q * B = q2 * BB + r2 * B
      BY <1>4
  <2> QED
      BY <1>3, <1>4, <2>1
<1>6. r2 * B + r \in Nat /\ r2 * B + r < BB
  <2>1. r2 * B \in Nat /\ r2 * B <= (B - 1) * B /\ (B - 1) * B = BB - B
      BY <1>4
  <2> HIDE DEF BB
  <2> QED
      BY <1>1, <1>3, <2>1
<1> DEFINE n == r2 * B + r
           m == q2 * BB
<1>7. /\ m \in Int /\ (q2 >= 1 => m >= BB) /\ (q2 <= -2 => m <= -(2 * BB))
      /\ (q2 = 0 => m = 0) /\ (q2 = -1 => m = -BB)
    BY <1>1, <1>4
<1>8. d = m + n /\ n \in Nat /\ n < BB
    BY <1>5, <1>6
<1> HIDE DEF BB, n, m
<1>9. q2 \in {-1, 0}
  <2>1. ~(m >= BB) /\ ~(m <= -(2 * BB))
      BY <1>1, <1>2, <1>7, <1>8
  <2> QED
      BY <1>4, <1>7, <2>1
<1>10. (d >= 0 => n = d) /\ (d < 0 => n = d + BB)
    BY <1>1, <1>2, <1>7, <1>8, <1>9
<1>11. (n < h <=> d >= 0) /\ BB \div 2 = h
    BY <1>1, <1>2, <1>10 DEF h
<1>12. Signed(n, BB) = d
    BY <1>1, <1>2, <1>10, <1>11 DEF Signed
<1> QED
    BY <1>3, <1>4, <1>12 DEF r, r2, q, n, BB

\* A number that takes two bytes comes back with its sign.
LEMMA ShortReadsBack ==
    ASSUME NEW d \in ShortMin .. ShortMax
    PROVE  /\ PutShort(d) \in Seq(Bytes) /\ Len(PutShort(d)) = 2
           /\ Signed(PutShort(d)[1] * ByteValues + PutShort(d)[2], ByteValues * ByteValues) = d
<1> DEFINE B == ByteValues
           h == (B * B) \div 2
           r == d % B
           r2 == (d \div B) % B
<1>1. B \in Nat \ {0} /\ h \in Int
    BY ByteFacts
<1>2. ShortMax = h - 1 /\ ShortMin = -(h - 1) - 1
    BY DEF ShortMax, ShortMin
<1> HIDE DEF h
<1>3. d \in Int /\ -h <= d /\ d < h
    BY <1>1, <1>2
<1>4. r2 \in Bytes /\ r \in Bytes /\ Signed(r2 * B + r, B * B) = d
    BY <1>1, <1>3, WordReadsBack DEF Bytes, h
<1>5. PutShort(d) = <<r2, r>>
    BY DEF PutShort
<1> HIDE DEF r, r2
<1>6. <<r2, r>> \in Seq(Bytes) /\ Len(<<r2, r>>) = 2 /\ <<r2, r>>[1] = r2 /\ <<r2, r>>[2] = r
    BY <1>4
<1> QED
    BY <1>4, <1>5, <1>6

\* So does one that takes one byte, which is never the escape.
LEMMA ByteReadsBack ==
    ASSUME NEW d \in OneByteMin .. OneByteMax
    PROVE  /\ d % ByteValues \in Bytes /\ d % ByteValues # Escape
           /\ Signed(d % ByteValues, ByteValues) = d
<1> DEFINE B == ByteValues
<1>1. B \in Nat /\ B = 2 * (OneByteMax + 1) /\ B \div 2 = OneByteMax + 1
    BY ByteFacts
<1>2. d \in Int /\ -OneByteMax <= d /\ d <= OneByteMax /\ OneByteMax \in Nat \ {0}
    BY ByteFacts
<1> HIDE DEF B
<1>3. d % B = IF d >= 0 THEN d ELSE d + B
    BY <1>1, <1>2
<1>4. Escape = OneByteMax + 1
    BY ByteFacts
<1> QED
    BY <1>1, <1>2, <1>3, <1>4 DEF Signed, B, Bytes

\* The count bytes of an entry, and what they say.
LEMMA CountReadsBack ==
    ASSUME NEW d, FitsOneByte(d) \/ d \in ShortMin .. ShortMax
    PROVE  /\ CountBytes(d) \in Seq(Bytes) /\ d \in Int
           /\ \/ /\ Len(CountBytes(d)) = 1 /\ CountBytes(d)[1] # Escape
                 /\ Signed(CountBytes(d)[1], ByteValues) = d
              \/ /\ Len(CountBytes(d)) = 3 /\ CountBytes(d)[1] = Escape
                 /\ Signed(CountBytes(d)[2] * ByteValues + CountBytes(d)[3],
                           ByteValues * ByteValues) = d
<1>1. CASE FitsOneByte(d)
  <2>1. d \in OneByteMin .. OneByteMax
      BY <1>1 DEF FitsOneByte
  <2>2. CountBytes(d) = <<d % ByteValues>>
      BY <1>1 DEF CountBytes
  <2> QED
      BY <2>1, <2>2, ByteReadsBack
<1>2. CASE ~FitsOneByte(d)
  <2>1. d \in ShortMin .. ShortMax
      BY <1>2
  <2> DEFINE p == PutShort(d)
  <2>2. CountBytes(d) = <<Escape>> \o p
      BY <1>2 DEF CountBytes
  <2>3. /\ p \in Seq(Bytes) /\ Len(p) = 2
        /\ Signed(p[1] * ByteValues + p[2], ByteValues * ByteValues) = d
      BY <2>1, ShortReadsBack
  <2>4. <<Escape>> \in Seq(Bytes)
      BY ByteFacts
  <2> HIDE DEF p
  <2>5. /\ CountBytes(d) \in Seq(Bytes) /\ Len(CountBytes(d)) = 3
        /\ CountBytes(d)[1] = Escape /\ CountBytes(d)[2] = p[1] /\ CountBytes(d)[3] = p[2]
    <3> DEFINE e == <<Escape>>
    <3>1. e \in Seq(Bytes) /\ Len(e) = 1 /\ e[1] = Escape
        BY <2>4
    <3> HIDE DEF e, p
    <3>2. /\ e \o p \in Seq(Bytes) /\ Len(e \o p) = Len(e) + Len(p)
          /\ \A i \in 1 .. Len(e) : (e \o p)[i] = e[i]
          /\ \A i \in 1 .. Len(p) : (e \o p)[Len(e) + i] = p[i]
      <4>1. p \in Seq(Bytes) /\ e \in Seq(Bytes)
          BY <2>3, <3>1
      <4> QED
          BY ONLY <4>1, ConcatIs
    <3>3. Len(e \o p) = 3 /\ (e \o p)[1] = Escape /\ (e \o p)[2] = p[1] /\ (e \o p)[3] = p[2]
        BY <2>3, <3>1, <3>2
    <3> QED
        BY <2>2, <3>2, <3>3 DEF e
  <2>6. d \in Int
      BY <2>1 DEF ShortMin, ShortMax
  <2> QED
      BY <2>3, <2>5, <2>6
<1> QED
    BY <1>1, <1>2

\* The prefix two paths share.
LEMMA PrefixIs ==
    ASSUME NEW s \in Seq(Char), NEW t \in Seq(Char)
    PROVE  /\ PrefixLength(s, t) \in 0 .. Len(s) /\ PrefixLength(s, t) <= Len(t)
           /\ \A i \in 1 .. PrefixLength(s, t) : s[i] = t[i]
<1> DEFINE P == CommonPrefixes({s, t})
           rest == {Len(s) - Len(x) : x \in P}
<1>1. \A x \in P : /\ Len(x) <= Len(s) /\ Len(x) <= Len(t) /\ Len(x) \in Nat
                   /\ SubSeq(x, 1, Len(x)) = SubSeq(s, 1, Len(x))
                   /\ SubSeq(x, 1, Len(x)) = SubSeq(t, 1, Len(x))
  <2> SUFFICES ASSUME NEW x \in P
               PROVE  /\ Len(x) <= Len(s) /\ Len(x) <= Len(t) /\ Len(x) \in Nat
                      /\ SubSeq(x, 1, Len(x)) = SubSeq(s, 1, Len(x))
                      /\ SubSeq(x, 1, Len(x)) = SubSeq(t, 1, Len(x))
      OBVIOUS
  <2>1. IsPrefix(x, s) /\ IsPrefix(x, t)
      BY DEF CommonPrefixes
  <2>2. x \in Prefixes(s) \cup Prefixes(t)
      BY DEF CommonPrefixes
  <2>3. x \in Seq(Char)
      BY <2>2 DEF Prefixes
  <2> QED
      BY <2>1, <2>3 DEF IsPrefix
<1>2. <<>> \in P
  <2>1. <<>> \in Prefixes(s)
    <3>1. SubSeq(s, 1, 0) = <<>> /\ 0 \in 0 .. Len(s)
        OBVIOUS
    <3> QED
        BY <3>1 DEF Prefixes
  <2>2. IsPrefix(<<>>, s) /\ IsPrefix(<<>>, t)
      BY DEF IsPrefix
  <2> QED
      BY <2>1, <2>2 DEF CommonPrefixes
<1> HIDE DEF P
<1>3. rest \subseteq Nat /\ rest # {}
    BY <1>1, <1>2
<1>4. PICK x \in P : \A y \in P : Len(s) - Len(x) <= Len(s) - Len(y)
  <2>1. Min(rest) \in rest /\ \A r \in rest : Min(rest) <= r
      BY <1>3, MinIsLeast
  <2>2. PICK x \in P : Min(rest) = Len(s) - Len(x)
      BY <2>1
  <2>3. \A y \in P : Len(s) - Len(y) \in rest
      OBVIOUS
  <2> QED
      BY <2>1, <2>2, <2>3
<1>5. \A y \in P : Len(y) <= Len(x)
    BY <1>1, <1>4
<1>6. LongestCommonPrefix({s, t}) \in P
    BY <1>5 DEF LongestCommonPrefix, P
<1> DEFINE l == LongestCommonPrefix({s, t})
<1> HIDE DEF l
<1>7. l \in P /\ PrefixLength(s, t) = Len(l)
    BY <1>6 DEF l, PrefixLength
<1>8. /\ Len(l) <= Len(s) /\ Len(l) <= Len(t) /\ Len(l) \in Nat
      /\ SubSeq(s, 1, Len(l)) = SubSeq(t, 1, Len(l))
    BY <1>1, <1>7
<1> DEFINE n == Len(l)
<1> HIDE DEF n
<1>9. ASSUME NEW i \in 1 .. n PROVE s[i] = t[i]
  <2>1. SubSeq(s, 1, n)[i] = s[i] /\ SubSeq(t, 1, n)[i] = t[i]
      BY <1>8 DEF n
  <2> QED
      BY <1>8, <2>1 DEF n
<1> QED
    BY <1>7, <1>8, <1>9 DEF n

------------------------------------------------------------------------------
(* What frcode writes.                                                     *)

WriterType ==
    [oldpath : Seq(Char), oldcount : Nat, slocate_compat : {FALSE}, aborted : BOOLEAN,
     bytes : Seq(Bytes)]

\* v is the writer w after one more path: the prefix it shares with the path
\* before, and the entry it has put out.
Entry(w, v, path) ==
    LET c == CountBytes(v.oldcount - w.oldcount)
        at == Len(w.bytes)
        m == Len(path) - v.oldcount
    IN /\ v.oldpath = path /\ ~v.aborted
       /\ v.oldcount \in 0 .. Len(path) /\ v.oldcount <= Len(w.oldpath)
       /\ \A i \in 1 .. v.oldcount : path[i] = w.oldpath[i]
       /\ FitsOneByte(v.oldcount - w.oldcount) \/ v.oldcount - w.oldcount \in ShortMin .. ShortMax
       /\ Len(v.bytes) = at + Len(c) + m + 1
       /\ \A i \in 1 .. at : v.bytes[i] = w.bytes[i]
       /\ \A i \in 1 .. Len(c) : v.bytes[at + i] = c[i]
       /\ \A i \in 1 .. m : v.bytes[at + Len(c) + i] = path[v.oldcount + i]
       /\ v.bytes[at + Len(c) + m + 1] = NUL

\* A character is a byte, and not NUL.
LEMMA CharIsByte ==
    /\ Char \subseteq Bytes /\ NUL \in Bytes /\ NUL \notin Char
    /\ Seq(Char) \subseteq Seq(Bytes)
<1>1. Char \subseteq Bytes /\ NUL \in Bytes /\ NUL \notin Char
    BY ByteFacts DEF Char, Bytes, NUL
<1>2. \A s \in Seq(Char) : s \in Seq(Bytes)
    BY <1>1
<1> QED
    BY <1>1, <1>2

\* What is left out of a path is in the path before.
LEMMA SharedIs ==
    ASSUME NEW w \in WriterType, NEW path \in Seq(Char)
    PROVE  /\ Shared(w, path) \in 0 .. Len(path) /\ Shared(w, path) <= Len(w.oldpath)
           /\ \A i \in 1 .. Shared(w, path) : path[i] = w.oldpath[i]
<1> DEFINE p == PrefixLength(w.oldpath, path)
<1>1. w.oldpath \in Seq(Char)
    BY DEF WriterType
<1>2. /\ p \in 0 .. Len(w.oldpath) /\ p <= Len(path)
      /\ \A i \in 1 .. p : w.oldpath[i] = path[i]
    BY <1>1, PrefixIs
<1>3. Shared(w, path) \in {p, 0}
    BY DEF Shared
<1> HIDE DEF p
<1>4. Len(path) \in Nat /\ Len(w.oldpath) \in Nat
    BY <1>1
<1> QED
    BY <1>2, <1>3, <1>4

\* frcode puts out an entry behind what it has put out.
LEMMA EntryIs ==
    ASSUME NEW w \in WriterType, NEW path \in Seq(Char), NEW v, v = FrcodePath(w, path),
           ~v.aborted
    PROVE  v \in WriterType /\ Entry(w, v, path)
<1> DEFINE count == Shared(w, path)
           d == count - w.oldcount
           c == CountBytes(d)
           suffix == SubSeq(path, count + 1, Len(path))
<1>1. /\ w.bytes \in Seq(Bytes) /\ w.slocate_compat = FALSE /\ w.oldcount \in Nat
    BY DEF WriterType
<1>2. /\ count \in 0 .. Len(path) /\ count <= Len(w.oldpath)
      /\ \A i \in 1 .. count : path[i] = w.oldpath[i]
    BY SharedIs
<1> HIDE DEF count
<1>3. /\ FitsOneByte(d) \/ d \in ShortMin .. ShortMax
      /\ v = [oldpath |-> path, oldcount |-> count, slocate_compat |-> FALSE, aborted |-> FALSE,
              bytes |-> ((w.bytes \o c) \o suffix) \o <<NUL>>]
  <2>1. CASE ~FitsOneByte(d) /\ d \notin ShortMin .. ShortMax
    <3>1. v = [w EXCEPT !.aborted = TRUE]
        BY <1>1, <2>1 DEF FrcodePath, count
    <3> QED
        BY <3>1 DEF WriterType
  <2>2. CASE FitsOneByte(d) \/ d \in ShortMin .. ShortMax
      BY <1>1, <2>2 DEF FrcodePath, count
  <2> QED
      BY <2>1, <2>2
<1>4. c \in Seq(Bytes)
    BY <1>3, CountReadsBack
<1>5. /\ suffix \in Seq(Bytes) /\ Len(suffix) = Len(path) - count
      /\ \A i \in 1 .. Len(path) - count : suffix[i] = path[count + i]
  <2>1. suffix \in Seq(Char)
      BY <1>2
  <2> QED
      BY <1>2, <2>1, CharIsByte
<1>6. <<NUL>> \in Seq(Bytes) /\ Len(<<NUL>>) = 1 /\ <<NUL>>[1] = NUL
    BY CharIsByte
<1> DEFINE nul == <<NUL>>
           all == ((w.bytes \o c) \o suffix) \o nul
<1>70. nul \in Seq(Bytes) /\ all = ((w.bytes \o c) \o suffix) \o nul
    BY <1>6
<1> HIDE DEF c, suffix, nul, all
<1>7. /\ all \in Seq(Bytes)
      /\ Len(all) = Len(w.bytes) + Len(c) + Len(suffix) + Len(nul)
      /\ \A i \in 1 .. Len(w.bytes) : all[i] = w.bytes[i]
      /\ \A i \in 1 .. Len(c) : all[Len(w.bytes) + i] = c[i]
      /\ \A i \in 1 .. Len(suffix) : all[Len(w.bytes) + Len(c) + i] = suffix[i]
      /\ \A i \in 1 .. Len(nul) : all[Len(w.bytes) + Len(c) + Len(suffix) + i] = nul[i]
  <2>1. w.bytes \in Seq(Bytes) /\ c \in Seq(Bytes) /\ suffix \in Seq(Bytes) /\ nul \in Seq(Bytes)
      BY <1>1, <1>4, <1>5, <1>70
  <2>2. InParts(all, w.bytes, c, suffix, nul, Bytes)
      BY <1>70, <2>1, FourConcat
  <2> QED
      BY <2>2 DEF InParts
<1>8. /\ v.bytes = all /\ v.oldpath = path /\ v.oldcount = count /\ ~v.aborted
      /\ CountBytes(v.oldcount - w.oldcount) = c
  <2>1. v = [oldpath |-> path, oldcount |-> count, slocate_compat |-> FALSE, aborted |-> FALSE,
             bytes |-> all]
      BY <1>3 DEF all, nul
  <2>2. v.oldcount = count
      BY <2>1
  <2>3. CountBytes(v.oldcount - w.oldcount) = c
      BY <2>2 DEF c
  <2> QED
      BY <2>1, <2>3
<1>9. v \in WriterType
  <2>1. v = [oldpath |-> path, oldcount |-> count, slocate_compat |-> FALSE, aborted |-> FALSE,
             bytes |-> all]
      BY <1>3 DEF all, nul
  <2> QED
      BY <1>2, <1>7, <2>1 DEF WriterType
<1>10. /\ Len(v.bytes) = Len(w.bytes) + Len(c) + (Len(path) - v.oldcount) + 1
       /\ \A i \in 1 .. Len(w.bytes) : v.bytes[i] = w.bytes[i]
       /\ \A i \in 1 .. Len(c) : v.bytes[Len(w.bytes) + i] = c[i]
       /\ \A i \in 1 .. Len(path) - v.oldcount :
             v.bytes[Len(w.bytes) + Len(c) + i] = path[v.oldcount + i]
       /\ v.bytes[Len(w.bytes) + Len(c) + (Len(path) - v.oldcount) + 1] = NUL
  <2>1. Len(nul) = 1 /\ nul[1] = NUL /\ 1 \in 1 .. Len(nul)
      BY <1>6 DEF nul
  <2>2. v.bytes = all /\ v.oldcount = count /\ Len(suffix) = Len(path) - count
      BY <1>5, <1>8
  <2>3. /\ Len(all) = Len(w.bytes) + Len(c) + (Len(path) - count) + 1
        /\ all[Len(w.bytes) + Len(c) + (Len(path) - count) + 1] = NUL
      BY ONLY <1>7, <2>1, <2>2
  <2>4. \A i \in 1 .. Len(path) - count :
           all[Len(w.bytes) + Len(c) + i] = path[count + i]
      BY ONLY <1>5, <1>7, <2>2
  <2> QED
      BY ONLY <1>7, <2>2, <2>3, <2>4
<1> QED
    BY <1>2, <1>3, <1>8, <1>9, <1>10 DEF Entry

\* The bytes b with the parts of an entry behind them.
Put(b, c, s, n) == ((b \o c) \o s) \o n

IsConcat(z, x, y) == z = x \o y

\* The parts of an entry make one sequence by themselves.
LEMMA PutsBehind ==
    ASSUME NEW S, NEW b \in Seq(S), NEW c \in Seq(S), NEW s \in Seq(S), NEW n \in Seq(S)
    PROVE  IsConcat(Put(b, c, s, n), b, Put(<<>>, c, s, n))
<1>1. <<>> \o c = c
    BY ConcatEmptySeq
<1> DEFINE cs == c \o s
<1>2. cs \in Seq(S) /\ (b \o c) \o s = b \o cs
    BY ConcatAssociative
<1> HIDE DEF cs
<1>3. (b \o cs) \o n = b \o (cs \o n)
  <2>1. ASSUME NEW t \in Seq(S) PROVE (b \o t) \o n = b \o (t \o n)
      BY ONLY b \in Seq(S), n \in Seq(S), t \in Seq(S), ConcatAssociative
  <2> QED
      BY <1>2, <2>1
<1> QED
    BY <1>1, <1>2, <1>3 DEF cs, Put, IsConcat

\* kept is the writer w without what it has put out.
Kept(kept, w) ==
    /\ kept \in WriterType /\ kept.bytes = <<>>
    /\ kept.oldpath = w.oldpath /\ kept.oldcount = w.oldcount

\* frcode is written out with nothing in its buffer.
LEMMA KeptIs ==
    ASSUME NEW w \in WriterType, NEW kept, kept = [w EXCEPT !.bytes = <<>>]
    PROVE  Kept(kept, w)
<1>1. PICK p \in Seq(Char), n \in Nat, b \in BOOLEAN, t \in Seq(Bytes) :
           w = [oldpath |-> p, oldcount |-> n, slocate_compat |-> FALSE, aborted |-> b,
                bytes |-> t]
    BY DEF WriterType
<1>2. kept = [oldpath |-> p, oldcount |-> n, slocate_compat |-> FALSE, aborted |-> b,
              bytes |-> <<>>]
    BY <1>1
<1>3. <<>> \in Seq(Bytes)
    OBVIOUS
<1> QED
    BY <1>1, <1>2, <1>3 DEF WriterType, Kept

\* What frcode has already put out does not matter to what it puts out next.
LEMMA BytesAreAppended ==
    ASSUME NEW w \in WriterType, NEW path \in Seq(Char), NEW kept, Kept(kept, w),
           NEW f, f = FrcodePath(w, path), NEW g, g = FrcodePath(kept, path)
    PROVE  /\ g.aborted = f.aborted
           /\ ~f.aborted => /\ IsConcat(f.bytes, w.bytes, g.bytes)
                            /\ Kept([g EXCEPT !.bytes = <<>>], f)
<1> DEFINE count == Shared(w, path)
           d == count - w.oldcount
           c == CountBytes(d)
           suffix == SubSeq(path, count + 1, Len(path))
           bad == ~FitsOneByte(d) /\ d \notin ShortMin .. ShortMax
<1>1. /\ kept \in WriterType /\ kept.bytes = <<>>
      /\ kept.oldpath = w.oldpath /\ kept.oldcount = w.oldcount
      /\ w.slocate_compat = FALSE /\ kept.slocate_compat = FALSE
    BY DEF WriterType, Kept
<1>2. Shared(kept, path) = count
    BY <1>1 DEF Shared
<1>3. count \in 0 .. Len(path) /\ w.oldcount \in Nat /\ w.bytes \in Seq(Bytes)
    BY SharedIs DEF WriterType
<1> HIDE DEF count
<1>4. CASE bad
  <2>1. f = [w EXCEPT !.aborted = TRUE] /\ g = [kept EXCEPT !.aborted = TRUE]
      BY <1>1, <1>2, <1>4 DEF FrcodePath, count
  <2>2. f.aborted = TRUE /\ g.aborted = TRUE
      BY <1>1, <2>1 DEF WriterType
  <2> QED
      BY <2>2
<1>5. CASE ~bad
  <2>1. c \in Seq(Bytes)
      BY <1>3, <1>5, CountReadsBack
  <2>2. suffix \in Seq(Bytes) /\ <<NUL>> \in Seq(Bytes)
      BY <1>3, CharIsByte
  <2> DEFINE nul == <<NUL>>
             old == w.bytes
             all == Put(old, c, suffix, nul)
             new == Put(<<>>, c, suffix, nul)
  <2>3. /\ f = [oldpath |-> path, oldcount |-> count, slocate_compat |-> FALSE,
                aborted |-> FALSE, bytes |-> all]
        /\ g = [oldpath |-> path, oldcount |-> count, slocate_compat |-> FALSE,
                aborted |-> FALSE, bytes |-> new]
      BY <1>1, <1>2, <1>5 DEF FrcodePath, count, Put
  <2>4. nul \in Seq(Bytes) /\ old \in Seq(Bytes)
      BY <1>3, <2>2
  <2> HIDE DEF c, suffix, nul, old
  <2>5. IsConcat(all, old, new)
      BY <2>1, <2>2, <2>4, PutsBehind
  <2> HIDE DEF all, new
  <2>6. /\ f.aborted = FALSE /\ g.aborted = FALSE /\ f.bytes = all /\ g.bytes = new
        /\ f.oldpath = path /\ f.oldcount = count
      BY <2>3
  <2>7. IsConcat(f.bytes, w.bytes, g.bytes)
      BY <2>5, <2>6 DEF old
  <2>8. Kept([g EXCEPT !.bytes = <<>>], f)
    <3>1. g \in WriterType
        BY <1>1, <2>6, EntryIs
    <3>2. Kept([g EXCEPT !.bytes = <<>>], g)
        BY <3>1, KeptIs
    <3>3. g.oldpath = path /\ g.oldcount = count
        BY <2>3
    <3> QED
        BY <2>6, <3>2, <3>3 DEF Kept
  <2> QED
      BY <2>6, <2>7, <2>8
<1> QED
    BY <1>4, <1>5

\* w is what frcode is after each path of a list that it gets through.
Run(w, list) ==
    /\ DOMAIN w = 0 .. Len(list) /\ w[0] = Fresh(FALSE)
    /\ \A k \in 1 .. Len(list) : w[k] = FrcodePath(w[k - 1], list[k]) /\ ~w[k].aborted

\* In a run every step is an entry.
LEMMA RunIs ==
    ASSUME NEW list \in Seq(Seq(Char)), NEW w, Run(w, list)
    PROVE  /\ \A k \in 0 .. Len(list) : w[k] \in WriterType
           /\ \A k \in 1 .. Len(list) : Entry(w[k - 1], w[k], list[k]) /\ w[k].oldpath = list[k]
<1> DEFINE bad == {k \in 0 .. Len(list) : w[k] \notin WriterType}
<1>1. w[0] \in WriterType
    BY DEF Run, Fresh, WriterType
<1>2. SUFFICES bad = {}
  <2>1. \A k \in 0 .. Len(list) : w[k] \in WriterType
      BY <1>2
  <2>2. ASSUME NEW k \in 1 .. Len(list) PROVE Entry(w[k - 1], w[k], list[k])
    <3>1. k - 1 \in 0 .. Len(list) /\ list[k] \in Seq(Char)
        OBVIOUS
    <3> QED
        BY <2>1, <3>1, EntryIs DEF Run
  <2> QED
      BY <2>1, <2>2 DEF Entry
<1>3. ASSUME bad # {} PROVE FALSE
  <2>1. bad \subseteq Nat
      OBVIOUS
  <2>2. PICK k \in bad : \A j \in bad : k <= j
      BY <1>3, <2>1, MinIsLeast
  <2>3. k \in 0 .. Len(list) /\ k # 0
      BY <1>1
  <2>4. k \in 1 .. Len(list) /\ k - 1 \in 0 .. Len(list) /\ k - 1 < k
      BY <2>3
  <2>5. w[k - 1] \in WriterType
      BY <2>2, <2>4
  <2>6. list[k] \in Seq(Char)
      BY <2>4
  <2>7. w[k] \in WriterType
      BY <2>4, <2>5, <2>6, EntryIs DEF Run
  <2> QED
      BY <2>7
<1> QED
    BY <1>3

\* The bytes only grow.
Prolongs(s, t) == Len(s) <= Len(t) /\ \A i \in 1 .. Len(s) : t[i] = s[i]
Growing(b, n) ==
    /\ \A j \in 0 .. n : Len(b[j]) \in Nat
    /\ \A j \in 1 .. n : Prolongs(b[j - 1], b[j])

LEMMA Grows ==
    ASSUME NEW n \in Nat, NEW b, Growing(b, n), NEW k \in 0 .. n
    PROVE  Prolongs(b[k], b[n])
<1> DEFINE Ok(j) == Prolongs(b[k], b[j])
           bad == {j \in k .. n : ~Ok(j)}
<1>1. k \in Nat /\ k <= n
    OBVIOUS
<1>2. ASSUME NEW j \in k + 1 .. n, Ok(j - 1) PROVE Ok(j)
  <2>1. j \in 1 .. n /\ j - 1 \in 0 .. n /\ j \in 0 .. n
      BY <1>1
  <2>2. Len(b[k]) \in Nat /\ Len(b[j - 1]) \in Nat /\ Len(b[j]) \in Nat
      BY <2>1 DEF Growing
  <2>0. Prolongs(b[k], b[j - 1]) /\ Prolongs(b[j - 1], b[j])
      BY <1>2, <2>1 DEF Growing
  <2>3. Len(b[k]) <= Len(b[j - 1]) /\ Len(b[j - 1]) <= Len(b[j])
      BY <2>0 DEF Prolongs
  <2>4. ASSUME NEW i \in 1 .. Len(b[k]) PROVE b[j][i] = b[k][i]
    <3>1. i \in 1 .. Len(b[j - 1])
        BY <2>2, <2>3
    <3>2. b[j][i] = b[j - 1][i] /\ b[j - 1][i] = b[k][i]
        BY <2>0, <2>4, <3>1 DEF Prolongs
    <3> QED
        BY <3>2
  <2>5. Len(b[k]) <= Len(b[j])
      BY <2>2, <2>3
  <2> QED
      BY <2>4, <2>5 DEF Prolongs
<1>3. Ok(k)
  <2>1. Len(b[k]) \in Nat
      BY DEF Growing
  <2> QED
      BY <2>1 DEF Prolongs
<1> HIDE DEF Ok
<1>4. ASSUME bad # {} PROVE FALSE
  <2>1. bad \subseteq Nat
      BY <1>1
  <2>2. PICK j \in bad : \A i \in bad : j <= i
      BY <1>4, <2>1, MinIsLeast
  <2>3. j \in k .. n /\ j # k
      BY <1>3
  <2>4. j \in k + 1 .. n /\ j - 1 \in k .. n /\ j - 1 < j
      BY <1>1, <2>3
  <2>5. Ok(j - 1)
      BY <2>2, <2>4
  <2> QED
      BY <1>2, <2>4, <2>5
<1>5. Ok(n)
    BY <1>1, <1>4
<1> QED
    BY <1>5 DEF Ok

LEMMA RunGrows ==
    ASSUME NEW list \in Seq(Seq(Char)), NEW w, Run(w, list), NEW k \in 0 .. Len(list)
    PROVE  /\ Len(w[k].bytes) <= Len(w[Len(list)].bytes)
           /\ \A i \in 1 .. Len(w[k].bytes) : w[Len(list)].bytes[i] = w[k].bytes[i]
<1> DEFINE n == Len(list)
           b == [j \in 0 .. n |-> w[j].bytes]
<1>1. ASSUME NEW j \in 0 .. n PROVE b[j] = w[j].bytes /\ Len(b[j]) \in Nat
  <2>1. w[j] \in WriterType
      BY RunIs
  <2>2. w[j].bytes \in Seq(Bytes)
      BY <2>1 DEF WriterType
  <2> QED
      BY <2>2
<1>2. ASSUME NEW j \in 1 .. n
      PROVE  Prolongs(b[j - 1], b[j])
  <2>1. j - 1 \in 0 .. n /\ j \in 0 .. n
      OBVIOUS
  <2>2. Entry(w[j - 1], w[j], list[j])
      BY RunIs
  <2> DEFINE c == CountBytes(w[j].oldcount - w[j - 1].oldcount)
             m == Len(list[j]) - w[j].oldcount
             old == w[j - 1].bytes
             new == w[j].bytes
  <2>3. c \in Seq(Bytes)
      BY <2>2, CountReadsBack DEF Entry
  <2>4. m \in Nat
    <3>1. list[j] \in Seq(Char) /\ w[j].oldcount \in 0 .. Len(list[j])
        BY <2>2 DEF Entry
    <3> QED
        BY <3>1
  <2>5. Len(new) = Len(old) + Len(c) + m + 1 /\ \A i \in 1 .. Len(old) : new[i] = old[i]
      BY <2>2 DEF Entry
  <2>6. b[j - 1] = old /\ b[j] = new /\ Len(old) \in Nat /\ Len(new) \in Nat
      BY <1>1, <2>1
  <2> HIDE DEF b, c, m, old, new
  <2>7. Len(c) \in Nat
      BY <2>3
  <2>8. Len(old) <= Len(new)
      BY <2>4, <2>5, <2>6, <2>7
  <2> QED
      BY <2>5, <2>6, <2>8 DEF Prolongs
<1>3. n \in Nat /\ k \in 0 .. n /\ n \in 0 .. n
    OBVIOUS
<1> HIDE DEF b, n
<1>4. Growing(b, n)
    BY <1>1, <1>2 DEF Growing
<1>6. Prolongs(b[k], b[n])
    BY <1>3, <1>4, Grows
<1>5. b[k] = w[k].bytes /\ b[n] = w[n].bytes
    BY <1>1, <1>3
<1> QED
    BY <1>5, <1>6 DEF n, Prolongs

\* A run goes on with the next path.
LEMMA RunContinues ==
    ASSUME NEW list \in Seq(Seq(Char)), NEW w, Run(w, list), NEW path \in Seq(Char),
           ~FrcodePath(w[Len(list)], path).aborted
    PROVE  \E v : /\ Run(v, Append(list, path))
                  /\ v[Len(list) + 1] = FrcodePath(w[Len(list)], path)
<1> DEFINE n == Len(list)
           more == Append(list, path)
           v == [k \in 0 .. n + 1 |-> IF k = n + 1 THEN FrcodePath(w[n], path) ELSE w[k]]
<1>1. /\ n \in Nat /\ Len(more) = n + 1 /\ more[n + 1] = path
      /\ \A k \in 1 .. n : more[k] = list[k]
    OBVIOUS
<1> HIDE DEF more, n
<1>2. /\ DOMAIN v = 0 .. n + 1 /\ v[n + 1] = FrcodePath(w[n], path)
      /\ \A k \in 0 .. n : v[k] = w[k]
    BY <1>1
<1> HIDE DEF v
<1>3. ASSUME NEW k \in 1 .. n + 1 PROVE v[k] = FrcodePath(v[k - 1], more[k]) /\ ~v[k].aborted
  <2>1. CASE k = n + 1
      BY <1>1, <1>2, <2>1 DEF n
  <2>2. CASE k # n + 1
    <3>1. k \in 1 .. n /\ k \in 0 .. n /\ k - 1 \in 0 .. n
        BY <1>1, <2>2
    <3> QED
        BY <1>1, <1>2, <3>1 DEF Run, n
  <2> QED
      BY <2>1, <2>2
<1>4. v[0] = Fresh(FALSE)
  <2>1. 0 \in 0 .. n /\ w[0] = Fresh(FALSE)
      BY <1>1 DEF Run
  <2> QED
      BY <1>2, <2>1
<1>5. Run(v, more)
    BY <1>1, <1>2, <1>3, <1>4 DEF Run
<1> QED
    BY <1>2, <1>5 DEF more, n

\* What the writer of a format is after one more path.
After(f, w, path) == IF f = "old" THEN CodePath(w, path) ELSE FrcodePath(w, path)

\* Writers stands for the function it is meant to be: there is one.
LEMMA WritersAre ==
    ASSUME NEW list \in Seq(Seq(Char)), NEW f
    PROVE  LET w == Writers(f, list)
           IN w = [k \in 0 .. Len(list) |-> IF k = 0 THEN Fresh(f \in Slocate)
                                            ELSE After(f, w[k - 1], list[k])]
<1> DEFINE Upto(m, u) ==
               u[0] = Fresh(f \in Slocate) /\ \A k \in 1 .. m : u[k] = After(f, u[k - 1], list[k])
           None == {m \in Nat : \A u : ~Upto(m, u)}
           n == Len(list)
<1>1. None = {}
  <2>1. SUFFICES ASSUME None # {} PROVE FALSE
      OBVIOUS
  <2>2. None \subseteq Nat
      OBVIOUS
  <2>3. PICK m \in None : \A j \in None : m <= j
      BY <2>1, <2>2, MinIsLeast
  <2>4. m # 0
    <3>1. Upto(0, [k \in {0} |-> Fresh(f \in Slocate)])
        OBVIOUS
    <3> QED
        BY <3>1
  <2>5. m \in Nat /\ m - 1 \in Nat /\ m - 1 < m /\ m - 1 \notin None
    <3> HIDE DEF Upto
    <3>1. m \in Nat /\ m - 1 \in Nat /\ ~(m <= m - 1)
        BY <2>2, <2>3, <2>4
    <3> HIDE DEF None
    <3> QED
        BY <2>3, <3>1
  <2>6. PICK u : Upto(m - 1, u)
      BY <2>5
  <2> DEFINE g == [k \in 0 .. m |-> IF k = m THEN After(f, u[m - 1], list[m]) ELSE u[k]]
  <2>7. /\ g[m] = After(f, u[m - 1], list[m])
        /\ \A k \in 0 .. m - 1 : g[k] = u[k]
      BY <2>5
  <2> HIDE DEF g
  <2>8. g[0] = Fresh(f \in Slocate)
    <3>1. 0 \in 0 .. m - 1 /\ u[0] = Fresh(f \in Slocate)
        BY <2>5, <2>6
    <3> QED
        BY <2>7, <3>1
  <2>9. ASSUME NEW k \in 1 .. m PROVE g[k] = After(f, g[k - 1], list[k])
    <3>1. k - 1 \in 0 .. m - 1 /\ g[k - 1] = u[k - 1]
        BY <2>5, <2>7
    <3>2. CASE k = m
        BY <2>7, <3>1, <3>2
    <3>3. CASE k # m
      <4>1. k \in 1 .. m - 1 /\ k \in 0 .. m - 1
          BY <2>5, <3>3
      <4>2. u[k] = After(f, u[k - 1], list[k]) /\ g[k] = u[k]
          BY <2>6, <2>7, <4>1
      <4> QED
          BY <3>1, <4>2
    <3> QED
        BY <3>2, <3>3
  <2>10. Upto(m, g)
      BY <2>8, <2>9
  <2> HIDE DEF Upto
  <2> QED
      BY <2>3, <2>10
<1>2. n \in Nat
    OBVIOUS
<1>3. PICK u : Upto(n, u)
    BY <1>1, <1>2
<1> DEFINE w == [k \in 0 .. n |-> u[k]]
<1>4. w = [k \in 0 .. n |-> IF k = 0 THEN Fresh(f \in Slocate) ELSE After(f, w[k - 1], list[k])]
  <2>1. ASSUME NEW k \in 0 .. n
        PROVE  w[k] = IF k = 0 THEN Fresh(f \in Slocate) ELSE After(f, w[k - 1], list[k])
    <3>1. CASE k = 0
        BY <1>3, <3>1
    <3>2. CASE k # 0
      <4>1. k \in 1 .. n /\ k - 1 \in 0 .. n
          BY <1>2, <3>2
      <4>2. w[k] = u[k] /\ w[k - 1] = u[k - 1]
          BY <4>1
      <4> HIDE DEF w
      <4> QED
          BY <1>3, <3>2, <4>1, <4>2
    <3> QED
        BY <3>1, <3>2
  <2> DEFINE v == [k \in 0 .. n |-> IF k = 0 THEN Fresh(f \in Slocate) ELSE After(f, w[k - 1], list[k])]
  <2>2. DOMAIN w = 0 .. n /\ DOMAIN v = 0 .. n /\ w = [k \in 0 .. n |-> w[k]]
      OBVIOUS
  <2>3. v = [k \in 0 .. n |-> w[k]]
      BY <2>1
  <2> QED
      BY <2>2, <2>3
<1> HIDE DEF w
<1> DEFINE Is(g) == g = [k \in 0 .. n |-> IF k = 0 THEN Fresh(f \in Slocate)
                                         ELSE After(f, g[k - 1], list[k])]
<1>5. Writers(f, list) = CHOOSE g : Is(g)
    BY DEF Writers, After
<1>6. Is(w)
    BY <1>4
<1>7. Is(Writers(f, list))
  <2> HIDE DEF Is
  <2> QED
      BY <1>5, <1>6
<1> QED
    BY <1>7

\* If no assertion ends frcode, Writers is a run.
LEMMA WritersRun ==
    ASSUME NEW list \in Seq(Seq(Char)),
           \A k \in 1 .. Len(list) : ~Writers("LOCATE02", list)[k].aborted
    PROVE  Run(Writers("LOCATE02", list), list)
<1> DEFINE w == Writers("LOCATE02", list)
<1>0. w = [k \in 0 .. Len(list) |-> IF k = 0 THEN Fresh("LOCATE02" \in Slocate)
                                   ELSE After("LOCATE02", w[k - 1], list[k])]
    BY WritersAre
<1>1. w = [k \in 0 .. Len(list) |-> IF k = 0 THEN Fresh(FALSE)
                                   ELSE FrcodePath(w[k - 1], list[k])]
  <2>1. ("LOCATE02" \in Slocate) = FALSE
      BY DEF Slocate
  <2> HIDE DEF w
  <2> QED
      BY <1>0, <2>1 DEF After
<1> HIDE DEF w
<1>2. /\ DOMAIN w = 0 .. Len(list) /\ w[0] = Fresh(FALSE)
      /\ \A k \in 1 .. Len(list) : w[k] = FrcodePath(w[k - 1], list[k])
  <2>1. \A k \in 0 .. Len(list) : w[k] = IF k = 0 THEN Fresh(FALSE)
                                         ELSE FrcodePath(w[k - 1], list[k])
      BY <1>1
  <2>2. 0 \in 0 .. Len(list) /\ \A k \in 1 .. Len(list) : k \in 0 .. Len(list) /\ k # 0
      OBVIOUS
  <2> QED
      BY <1>1, <2>1, <2>2
<1> QED
    BY <1>2 DEF Run, w

------------------------------------------------------------------------------
(* How locate reads it back.                                               *)

\* A buffer with path in front.
Holds(buf, path) ==
    /\ buf \in Seq(Bytes) /\ Len(path) <= Len(buf)
    /\ \A i \in 1 .. Len(path) : buf[i] = path[i]

\* The name in a buffer is what stands before the first NUL.
LEMMA NameIs ==
    ASSUME NEW path \in Seq(Char), NEW buf, Holds(buf, path), Len(buf) = Len(path) + 1,
           buf[Len(buf)] = NUL
    PROVE  Name(buf) = path
<1> DEFINE n == Len(path)
           nuls == {i \in DOMAIN buf : buf[i] = NUL}
<1>1. n \in Nat /\ buf \in Seq(Bytes) /\ DOMAIN buf = 1 .. n + 1 /\ buf[n + 1] = NUL
    BY DEF Holds
<1>2. \A i \in 1 .. n : buf[i] = path[i] /\ path[i] # NUL
  <2>1. \A i \in 1 .. n : path[i] \in Char
      OBVIOUS
  <2> QED
      BY <2>1, CharIsByte DEF Holds
<1>3. nuls = {n + 1}
    BY <1>1, <1>2
<1>4. Min(nuls) = n + 1
  <2>1. nuls \subseteq Nat /\ nuls # {}
      BY <1>1, <1>3
  <2> HIDE DEF nuls
  <2>2. Min(nuls) \in nuls
      BY <2>1, MinIsLeast
  <2> QED
      BY <1>3, <2>2
<1> DEFINE s == SubSeq(buf, 1, n)
<1>5. s \in Seq(Bytes) /\ Len(s) = n /\ \A i \in 1 .. n : s[i] = buf[i]
    BY <1>1
<1>6. path \in Seq(Bytes)
    BY CharIsByte
<1>7. Name(buf) = s
  <2>1. Name(buf) = SubSeq(buf, 1, Min(nuls) - 1)
      BY DEF Name
  <2>2. Min(nuls) - 1 = n
      BY <1>1, <1>4
  <2> QED
      BY <2>1, <2>2
<1> HIDE DEF s
<1>8. s = path
    BY <1>2, <1>5, <1>6, SeqEqual
<1> QED
    BY <1>7, <1>8

\* locate is where w was, with the last path in its buffer.
Standing(w) ==
    /\ DOMAIN procdata = DOMAIN Closed
    /\ procdata.pos = Len(w.bytes) + 1 /\ procdata.count = w.oldcount
    /\ Holds(procdata.buf, w.oldpath)
    /\ procdata.len \in Nat /\ Len(w.oldpath) <= procdata.len

\* A database in the format of frcode that begins with what v has put out.
Begins(v) ==
    /\ Db.format = "LOCATE02" /\ Db.bytes \in Seq(Bytes)
    /\ Len(v.bytes) <= Len(Db.bytes)
    /\ \A i \in 1 .. Len(v.bytes) : Db.bytes[i] = v.bytes[i]

\* Where the text of the entry begins that v has put out behind w.
TextAt(w, v) == Len(w.bytes) + Len(CountBytes(v.oldcount - w.oldcount)) + 1

\* The count of an entry: what it says, and where the text begins.
LEMMA CountIsRead ==
    ASSUME NEW w \in WriterType, NEW v \in WriterType, NEW path \in Seq(Char),
           Entry(w, v, path), Standing(w), Begins(v)
    PROVE  Locate02Entry.count = v.oldcount /\ Locate02Entry.text = TextAt(w, v)
<1> DEFINE d == v.oldcount - w.oldcount
           c == CountBytes(d)
           at == Len(w.bytes)
           b == Db.bytes
<1>1. Locate02Entry = CountRead
    BY DEF Begins, Locate02Entry, Slocate
<1>2. /\ c \in Seq(Bytes) /\ d \in Int
      /\ \/ Len(c) = 1 /\ c[1] # Escape /\ Signed(c[1], ByteValues) = d
         \/ /\ Len(c) = 3 /\ c[1] = Escape
            /\ Signed(c[2] * ByteValues + c[3], ByteValues * ByteValues) = d
    BY CountReadsBack DEF Entry
<1>3. v.oldcount \in Nat /\ w.oldcount \in Nat /\ at \in Nat
    BY DEF WriterType
<1>4. \A i \in 1 .. Len(c) : b[at + i] = c[i]
  <2> DEFINE m == Len(path) - v.oldcount
  <2>1. /\ Len(v.bytes) = at + Len(c) + m + 1 /\ m \in Nat
        /\ \A i \in 1 .. Len(c) : v.bytes[at + i] = c[i]
      BY DEF Entry
  <2> HIDE DEF m, c
  <2>2. ASSUME NEW i \in 1 .. Len(c) PROVE at + i \in 1 .. Len(v.bytes)
      BY <1>2, <1>3, <2>1
  <2> QED
      BY <2>1, <2>2 DEF Begins
<1>5. procdata.pos = at + 1 /\ procdata.count = w.oldcount
    BY DEF Standing
<1>6. w.oldcount + d = v.oldcount
    BY <1>3
<1> HIDE DEF c, at, d
<1>7. CASE Len(c) = 1 /\ c[1] # Escape /\ Signed(c[1], ByteValues) = d
  <2>1. Byte(procdata.pos) = c[1]
      BY <1>3, <1>4, <1>5, <1>7 DEF Byte
  <2>2. CountRead = [count |-> procdata.count + d, text |-> procdata.pos + 1]
      BY <1>7, <2>1 DEF CountRead
  <2>3. procdata.pos + 1 = at + Len(c) + 1
      BY <1>3, <1>5, <1>7
  <2> QED
      BY <1>1, <1>5, <1>6, <2>2, <2>3 DEF c, at, d, TextAt
<1>8. CASE /\ Len(c) = 3 /\ c[1] = Escape
           /\ Signed(c[2] * ByteValues + c[3], ByteValues * ByteValues) = d
  <2>1. /\ Byte(procdata.pos) = c[1] /\ Byte(procdata.pos + 1) = c[2]
        /\ Byte(procdata.pos + 2) = c[3]
    <3>1. b[at + 1] = c[1] /\ b[at + 2] = c[2] /\ b[at + 3] = c[3]
        BY <1>4, <1>8
    <3>2. procdata.pos + 1 = at + 2 /\ procdata.pos + 2 = at + 3
        BY <1>3, <1>5
    <3> QED
        BY <1>5, <3>1, <3>2 DEF Byte
  <2>2. CountRead = [count |-> procdata.count + d, text |-> procdata.pos + 3]
      BY <1>8, <2>1 DEF CountRead
  <2>3. procdata.pos + 3 = at + Len(c) + 1
      BY <1>3, <1>5, <1>8
  <2> QED
      BY <1>1, <1>5, <1>6, <2>2, <2>3 DEF c, at, d, TextAt
<1> QED
    BY <1>2, <1>7, <1>8 DEF c, at, d, TextAt

\* The text of an entry ends with the first NUL.
LEMMA TextIsRead ==
    ASSUME NEW w \in WriterType, NEW v \in WriterType, NEW path \in Seq(Char),
           Entry(w, v, path), Begins(v), NEW text \in Nat, text = TextAt(w, v)
    PROVE  /\ NulFrom(text) = text + (Len(path) - v.oldcount)
           /\ NulFrom(text) = Len(v.bytes) /\ NulFrom(text) <= Len(Db.bytes)
           /\ 1 <= text /\ Len(path) - v.oldcount \in Nat
           /\ \A j \in 1 .. Len(path) - v.oldcount :
                 Db.bytes[text + j - 1] = path[v.oldcount + j]
           /\ Db.bytes[NulFrom(text)] = NUL
<1> DEFINE c == CountBytes(v.oldcount - w.oldcount)
           at == Len(w.bytes)
           m == Len(path) - v.oldcount
           b == Db.bytes
           nuls == {k \in text .. Len(b) : Byte(k) = NUL} \cup {Len(b)}
<1>1. at \in Nat /\ Len(c) \in Nat /\ m \in Nat /\ v.oldcount \in Nat /\ Len(path) \in Nat
  <2>1. c \in Seq(Bytes)
      BY CountReadsBack DEF Entry
  <2>2. w.bytes \in Seq(Bytes)
      BY DEF WriterType
  <2>3. v.oldcount \in 0 .. Len(path)
      BY DEF Entry
  <2> QED
      BY <2>1, <2>2, <2>3
<1>2. /\ Len(v.bytes) = at + Len(c) + m + 1
      /\ \A i \in 1 .. m : v.bytes[at + Len(c) + i] = path[v.oldcount + i]
      /\ v.bytes[at + Len(c) + m + 1] = NUL
    BY DEF Entry
<1>3. Len(b) \in Nat /\ Len(v.bytes) <= Len(b) /\ \A i \in 1 .. Len(v.bytes) : b[i] = v.bytes[i]
    BY DEF Begins
<1>4. text = at + Len(c) + 1
    BY DEF TextAt
<1>40. m + v.oldcount = Len(path)
    BY <1>1
<1> HIDE DEF c, at, b, m, nuls
<1>5. /\ Len(v.bytes) = text + m /\ 1 <= text /\ text + m \in Nat
      /\ text + m <= Len(b)
    BY <1>1, <1>2, <1>3, <1>4
<1>6. ASSUME NEW j \in 1 .. m PROVE b[text + j - 1] = path[v.oldcount + j]
  <2>1. text + j - 1 = at + Len(c) + j /\ text + j - 1 \in 1 .. Len(v.bytes)
      BY <1>1, <1>4, <1>5
  <2> QED
      BY <1>2, <1>3, <2>1
<1>7. b[text + m] = NUL
  <2>1. text + m = at + Len(c) + m + 1 /\ text + m \in 1 .. Len(v.bytes)
      BY <1>1, <1>4, <1>5
  <2> QED
      BY <1>2, <1>3, <2>1
<1>8. ASSUME NEW k \in text .. text + m - 1 PROVE b[k] # NUL
  <2> DEFINE j == k - text + 1
  <2>1. j \in 1 .. m /\ k = text + j - 1
      BY <1>1
  <2> HIDE DEF j
  <2>2. v.oldcount + j \in 1 .. Len(path)
      BY ONLY <1>1, <1>40, <2>1
  <2>3. path[v.oldcount + j] \in Char
      BY <2>2
  <2> QED
      BY <1>6, <2>1, <2>3, CharIsByte
<1>9. nuls \subseteq Nat /\ nuls # {} /\ text + m \in nuls
    BY <1>1, <1>3, <1>5, <1>7 DEF Byte, b, nuls
<1>10. Min(nuls) \in nuls /\ Min(nuls) <= text + m
    BY <1>9, MinIsLeast
<1>11. ASSUME NEW k \in nuls, k < text + m PROVE FALSE
  <2>1. k \in text .. Len(b) /\ Byte(k) = NUL
      BY <1>3, <1>5, <1>11 DEF nuls
  <2>2. k \in text .. text + m - 1
      BY <1>1, <1>3, <1>5, <1>11, <2>1
  <2> QED
      BY <1>8, <2>1, <2>2 DEF Byte, b
<1>12. Min(nuls) = text + m
  <2>1. Min(nuls) \in Nat
      BY <1>9, <1>10
  <2> QED
      BY <1>5, <1>10, <1>11, <2>1
<1>13. NulFrom(text) = text + m
    BY <1>12 DEF NulFrom, b, nuls
<1> QED
    BY <1>1, <1>3, <1>5, <1>6, <1>7, <1>13 DEF b, m

\* What is in the buffer of locate, and where it stands, after one more entry.
LEMMA EntryIsRead ==
    ASSUME NEW w \in WriterType, NEW v \in WriterType, NEW path \in Seq(Char),
           Entry(w, v, path), Standing(w), Begins(v),
           NEW e, e = Locate02Entry, NEW r, r = Locate02Read(e)
    PROVE  /\ e.count \in Nat /\ e.count <= procdata.len
           /\ e.text \in Nat /\ e.text <= Len(Db.bytes)
           /\ DOMAIN r = DOMAIN Closed
           /\ r.pos = Len(v.bytes) + 1 /\ r.count = v.oldcount
           /\ Holds(r.buf, path) /\ r.len = Len(path) + 1 /\ Name(r.buf) = path
           /\ r.names = procdata.names /\ r.inode = procdata.inode
<1> DEFINE m == Len(path) - v.oldcount
           text == e.text
           end == NulFrom(text)
           b == Db.bytes
<1>1. e.count = v.oldcount /\ text = TextAt(w, v)
    BY CountIsRead
<1>2. text \in Nat
  <2>1. CountBytes(v.oldcount - w.oldcount) \in Seq(Bytes) /\ w.bytes \in Seq(Bytes)
      BY CountReadsBack DEF Entry, WriterType
  <2> DEFINE x == Len(w.bytes)
             y == Len(CountBytes(v.oldcount - w.oldcount))
  <2>2. x \in Nat /\ y \in Nat
      BY <2>1
  <2>3. TextAt(w, v) = x + y + 1
      BY DEF TextAt
  <2> HIDE DEF x, y
  <2> QED
      BY <1>1, <2>2, <2>3
<1>3. /\ end = text + m /\ end = Len(v.bytes) /\ end <= Len(b) /\ 1 <= text /\ m \in Nat
      /\ \A j \in 1 .. m : b[text + j - 1] = path[v.oldcount + j]
      /\ b[end] = NUL
    BY <1>1, <1>2, TextIsRead
<1>4. /\ v.oldcount \in Nat /\ v.oldcount <= Len(path) /\ v.oldcount <= Len(w.oldpath)
      /\ Len(path) \in Nat /\ Len(w.oldpath) \in Nat /\ Len(b) \in Nat /\ b \in Seq(Bytes)
      /\ \A i \in 1 .. v.oldcount : path[i] = w.oldpath[i]
  <2>1. w.oldpath \in Seq(Char)
      BY DEF WriterType
  <2>2. v.oldcount \in 0 .. Len(path) /\ v.oldcount <= Len(w.oldpath)
      BY DEF Entry
  <2> QED
      BY <2>1, <2>2 DEF Entry, Begins
<1> DEFINE left == SubSeq(procdata.buf, 1, e.count)
           right == SubSeq(b, text, end)
           buf == left \o right
<1> HIDE DEF text, end, b, m
<1>5. /\ e.count = v.oldcount /\ r.pos = end + 1 /\ r.count = e.count
      /\ r.len = e.count + end - text + 1 /\ r.buf = buf
      /\ r.names = procdata.names /\ r.inode = procdata.inode /\ DOMAIN r = DOMAIN procdata
  <2>1. DOMAIN procdata = {"inode", "pos", "buf", "len", "count", "itemcount", "endian",
                           "check", "names"}
      BY DEF Standing, Closed
  <2>2. r = [procdata EXCEPT !.count = e.count, !.len = e.count + end - text + 1,
                             !.pos = end + 1, !.buf = buf, !.itemcount = r.itemcount]
      BY <2>1 DEF Locate02Read, text, end, b
  <2> HIDE DEF buf
  <2> QED
      BY <1>1, <2>1, <2>2
<1>6. /\ left \in Seq(Bytes) /\ Len(left) = v.oldcount
      /\ \A i \in 1 .. v.oldcount : left[i] = path[i]
  <2>1. /\ procdata.buf \in Seq(Bytes) /\ v.oldcount <= Len(procdata.buf)
        /\ \A i \in 1 .. v.oldcount : procdata.buf[i] = path[i]
      BY <1>4 DEF Standing, Holds
  <2> QED
      BY <1>1, <1>4, <2>1
<1>7. /\ right \in Seq(Bytes) /\ Len(right) = m + 1
      /\ \A i \in 1 .. m : right[i] = path[v.oldcount + i]
      /\ right[m + 1] = NUL
  <2>1. text \in 1 .. Len(b) /\ end \in text .. Len(b) /\ end - text + 1 = m + 1
      BY <1>2, <1>3, <1>4
  <2>2. /\ right \in Seq(Bytes) /\ Len(right) = m + 1
        /\ \A i \in 1 .. m + 1 : right[i] = b[text + i - 1]
      BY <1>3, <1>4, <2>1
  <2> HIDE DEF right
  <2>3. m + 1 \in 1 .. m + 1 /\ text + (m + 1) - 1 = end
      BY <1>2, <1>3
  <2>4. \A i \in 1 .. m : i \in 1 .. m + 1
      BY <1>3
  <2> QED
      BY <1>3, <2>2, <2>3, <2>4
<1> HIDE DEF left, right
<1>8. /\ buf \in Seq(Bytes) /\ Len(buf) = v.oldcount + (m + 1)
      /\ \A i \in 1 .. v.oldcount : buf[i] = left[i]
      /\ \A i \in 1 .. m + 1 : buf[v.oldcount + i] = right[i]
  <2>1. left \in Seq(Bytes) /\ right \in Seq(Bytes)
      BY <1>6, <1>7
  <2>2. /\ left \o right \in Seq(Bytes) /\ Len(left \o right) = Len(left) + Len(right)
        /\ \A i \in 1 .. Len(left) : (left \o right)[i] = left[i]
        /\ \A i \in 1 .. Len(right) : (left \o right)[Len(left) + i] = right[i]
      BY ONLY <2>1, ConcatIs
  <2>3. /\ buf \in Seq(Bytes) /\ Len(buf) = Len(left) + Len(right)
        /\ \A i \in 1 .. Len(left) : buf[i] = left[i]
        /\ \A i \in 1 .. Len(right) : buf[Len(left) + i] = right[i]
      BY ONLY <2>2 DEF buf
  <2> HIDE DEF buf
  <2> QED
      BY <1>6, <1>7, <2>3
<1> HIDE DEF buf
<1>9. Len(path) = v.oldcount + m /\ Len(buf) = Len(path) + 1
  <2>1. Len(path) = v.oldcount + m
      BY <1>4 DEF m
  <2>2. m \in Nat /\ v.oldcount \in Nat /\ Len(buf) = v.oldcount + (m + 1)
      BY <1>3, <1>4, <1>8
  <2> QED
      BY <2>1, <2>2
<1>10. ASSUME NEW i \in 1 .. Len(path) PROVE buf[i] = path[i]
  <2>1. CASE i <= v.oldcount
    <3>1. i \in 1 .. v.oldcount
        BY <1>4, <2>1
    <3> QED
        BY <1>6, <1>8, <3>1
  <2>2. CASE i > v.oldcount
    <3> DEFINE j == i - v.oldcount
    <3>0. m \in Nat /\ v.oldcount \in Nat /\ i \in 1 .. v.oldcount + m
        BY <1>3, <1>4, <1>9
    <3>1. j \in 1 .. m /\ j \in 1 .. m + 1 /\ i = v.oldcount + j
        BY <3>0, <2>2
    <3> HIDE DEF j
    <3> QED
        BY <1>7, <1>8, <3>1
  <2> QED
      BY <1>4, <2>1, <2>2
<1>11. buf[Len(buf)] = NUL
  <2>1. m + 1 \in 1 .. m + 1 /\ Len(buf) = v.oldcount + (m + 1)
      BY <1>3, <1>8
  <2> QED
      BY <1>7, <1>8, <2>1
<1>12. Holds(buf, path)
    BY <1>4, <1>8, <1>9, <1>10 DEF Holds
<1>13. Name(buf) = path
    BY <1>9, <1>11, <1>12, NameIs
<1>14. e.count <= procdata.len /\ e.count \in Nat
    BY <1>1, <1>4 DEF Standing
<1>15. text <= Len(b)
    BY <1>2, <1>3, <1>4
<1>16. r.len = Len(path) + 1
  <2>1. /\ end = text + m /\ text \in Nat /\ m \in Nat /\ v.oldcount \in Nat
        /\ r.len = v.oldcount + end - text + 1 /\ Len(path) = v.oldcount + m
      BY <1>2, <1>3, <1>4, <1>5, <1>9
  <2> QED
      BY <2>1
<1> QED
    BY <1>2, <1>3, <1>5, <1>12, <1>13, <1>14, <1>15, <1>16 DEF text, b, Standing
------------------------------------------------------------------------------
(* What updatedb makes, and what is in place.                              *)

\* f is the file that frcode has made of a list, w what it was on the way.
Made(f, list, w) ==
    /\ f \in [format : {"LOCATE02"}, bytes : Seq(Bytes)]
    /\ Run(w, list) /\ f.bytes = w[Len(list)].bytes

\* Paths are sequences of characters.
LEMMA PathIs ==
    Path \subseteq Seq(Char) /\ Seq(Path) \subseteq Seq(Seq(Char))
<1>1. Path \subseteq Seq(Char)
    BY UpdatedbAssumption DEF UpdatedbAssumption, Path, ToSet
<1>2. ASSUME NEW l \in Seq(Path) PROVE l \in Seq(Seq(Char))
    BY <1>1
<1> QED
    BY <1>1, <1>2

\* The file of a list, as Encoded has it.
LEMMA EncodedIsMade ==
    ASSUME NEW list \in Seq(Seq(Char)),
           \A k \in 1 .. Len(list) : ~Writers("LOCATE02", list)[k].aborted
    PROVE  Made(Encoded("LOCATE02", list), list, Writers("LOCATE02", list))
<1> DEFINE w == Writers("LOCATE02", list)
<1>1. Run(w, list)
    BY WritersRun
<1>2. Len(list) \in 0 .. Len(list)
    OBVIOUS
<1>3. w[Len(list)] \in WriterType
    BY <1>1, <1>2, RunIs
<1>4. Encoded("LOCATE02", list) = [format |-> "LOCATE02", bytes |-> w[Len(list)].bytes]
    BY DEF Encoded
<1>5. w[Len(list)].bytes \in Seq(Bytes)
    BY <1>3 DEF WriterType
<1> HIDE DEF w
<1> QED
    BY <1>1, <1>4, <1>5 DEF Made, w

\* The file when frcode begins.
LEMMA FreshIsMade ==
    \E w : Made(Encoded("LOCATE02", <<>>), <<>>, w) /\ Kept(Fresh(FALSE), w[0])
<1> DEFINE w == Writers("LOCATE02", <<>>)
<1>2. Made(Encoded("LOCATE02", <<>>), <<>>, w)
  <2> DEFINE e == <<>>
  <2>1. e \in Seq(Seq(Char)) /\ Len(e) = 0
      OBVIOUS
  <2> HIDE DEF e
  <2>2. 1 .. Len(e) = {}
      BY <2>1
  <2>3. Made(Encoded("LOCATE02", e), e, Writers("LOCATE02", e))
      BY <2>1, <2>2, EncodedIsMade
  <2> QED
      BY <2>3 DEF e
<1> HIDE DEF w
<1>3. w[0] = Fresh(FALSE)
    BY <1>2 DEF Made, Run
<1>4. Kept(Fresh(FALSE), w[0])
    BY <1>3 DEF Kept, Fresh, WriterType
<1> QED
    BY <1>2, <1>4

\* One more path: the file is made of the longer list.
LEMMA MadeGrows ==
    ASSUME NEW list \in Seq(Seq(Char)), NEW path \in Seq(Char), NEW w, NEW f, NEW kept,
           Made(f, list, w), Kept(kept, w[Len(list)]),
           NEW g, g = FrcodePath(kept, path), ~g.aborted
    PROVE  \E v : /\ Made([f EXCEPT !.bytes = @ \o g.bytes], Append(list, path), v)
                  /\ Kept([g EXCEPT !.bytes = <<>>], v[Len(Append(list, path))])
<1> DEFINE last == w[Len(list)]
           next == FrcodePath(last, path)
<1>1. Run(w, list) /\ f.bytes = last.bytes
    BY DEF Made
<1>2. last \in WriterType
    BY <1>1, RunIs
<1>3. Kept(kept, last)
    OBVIOUS
<1> HIDE DEF last
<1>4. /\ g.aborted = next.aborted
      /\ ~next.aborted => /\ IsConcat(next.bytes, last.bytes, g.bytes)
                          /\ Kept([g EXCEPT !.bytes = <<>>], next)
    BY <1>2, <1>3, BytesAreAppended
<1>5. ~next.aborted
    BY <1>4
<1>6. next \in WriterType
    BY <1>2, <1>5, EntryIs
<1>7. PICK v : Run(v, Append(list, path)) /\ v[Len(list) + 1] = next
    BY <1>1, <1>5, RunContinues DEF last
<1> HIDE DEF next
<1>8. Len(Append(list, path)) = Len(list) + 1
    OBVIOUS
<1>9. Made([f EXCEPT !.bytes = @ \o g.bytes], Append(list, path), v)
  <2>1. PICK b \in Seq(Bytes) : f = [format |-> "LOCATE02", bytes |-> b]
      BY DEF Made
  <2>2. next.bytes \in Seq(Bytes)
      BY <1>6 DEF WriterType
  <2> DEFINE all == f.bytes \o g.bytes
             fn == [f EXCEPT !.bytes = all]
  <2>3. all = next.bytes
      BY <1>1, <1>4, <1>5 DEF IsConcat
  <2> HIDE DEF all
  <2>4. fn = [format |-> "LOCATE02", bytes |-> all]
      BY <2>1
  <2>5. fn \in [format : {"LOCATE02"}, bytes : Seq(Bytes)] /\ fn.bytes = next.bytes
      BY <2>2, <2>3, <2>4
  <2> HIDE DEF fn
  <2>6. Made(fn, Append(list, path), v)
      BY <1>7, <1>8, <2>5 DEF Made
  <2> QED
      BY <2>6 DEF fn, all
<1> QED
    BY <1>4, <1>5, <1>7, <1>8, <1>9

\* An inode that can be, or have been, the database: its frcode is done.
Final(i) == i = 0 \/ frcode[i] = "ok"

Shape ==
    /\ update \in 0 .. MaxUpdates /\ locate_db \in 0 .. MaxUpdates /\ format = "LOCATE02"
    /\ given \in [0 .. MaxUpdates -> Seq(Path)]
    /\ frcode \in [Updates -> {"none", "writing", "ok", "failed"}]
    /\ DOMAIN file = 0 .. MaxUpdates /\ DOMAIN writer = Updates /\ DOMAIN out = Updates

NotYet == \A r \in Updates : r > update => frcode[r] = "none" /\ given[r] = <<>>

\* What the script can rely on at each command.
Script ==
    /\ shell \in {"none", "redirecting", "waiting", "testing", "moving"}
    /\ shell # "none" => update \in Updates
    /\ shell = "redirecting" =>
          temp = NoFile /\ frcode[update] = "none" /\ given[update] = <<>>
    /\ shell \in {"waiting", "testing", "moving"} => temp = update
    /\ shell \in {"testing", "moving"} => frcode[update] = "ok"

\* A frcode writes to a file of its own, what it has been given so far; so it
\* does when the shell is gone and the next update runs.
WritesItsOwn(r) ==
    frcode[r] = "writing" =>
        /\ out[r] = r
        /\ \E w : Made(file[r], given[r], w) /\ Kept(writer[r], w[Len(given[r])])

IsMade(i) == Final(i) => \E w : Made(file[i], given[i], w)

UpdateInv ==
    /\ Shape /\ NotYet /\ Script /\ Final(locate_db)
    /\ \A r \in Updates : WritesItsOwn(r)
    /\ \A i \in 0 .. MaxUpdates : IsMade(i)

\* Before the first update there is the database of the scenario.
LEMMA UpdateInit ==
    ASSUME SystemWritten, LocateInit
    PROVE  UpdateInv
<1>1. PICK s \in Scenarios : UpdatedbInit(s.format, s.list) /\ format = s.format
    BY DEF LocateInit
<1>2. /\ s.format = "LOCATE02" /\ s.list \in Seq(Path)
      /\ \A k \in 1 .. Len(s.list) : ~Writers("LOCATE02", s.list)[k].aborted
    BY DEF SystemWritten
<1>3. /\ MaxUpdates \in Nat /\ 0 \in 0 .. MaxUpdates
      /\ Updates \subseteq 0 .. MaxUpdates /\ 0 \notin Updates
    BY UpdatedbAssumption DEF UpdatedbAssumption, Updates
<1>4. Shape
  <2>1. <<>> \in Seq(Path)
      OBVIOUS
  <2> QED
      BY <1>1, <1>2, <1>3, <2>1 DEF UpdatedbInit, Shape
<1>5. NotYet /\ Script /\ Final(locate_db) /\ \A r \in Updates : WritesItsOwn(r)
    BY <1>1, <1>3 DEF UpdatedbInit, NotYet, Script, Final, WritesItsOwn
<1>6. ASSUME NEW i \in 0 .. MaxUpdates PROVE IsMade(i)
  <2>1. CASE i = 0
    <3>1. file[0] = Encoded("LOCATE02", s.list) /\ given[0] = s.list
        BY <1>1, <1>2, <1>3 DEF UpdatedbInit
    <3>2. s.list \in Seq(Seq(Char))
        BY <1>2, PathIs
    <3>3. Made(Encoded("LOCATE02", s.list), s.list, Writers("LOCATE02", s.list))
        BY <1>2, <3>2, EncodedIsMade
    <3> QED
        BY <2>1, <3>1, <3>3 DEF IsMade
  <2>2. CASE i # 0
    <3>1. i \in Updates
        BY <2>2, <1>3 DEF Updates
    <3>2. frcode[i] = "none"
        BY <1>1, <3>1 DEF UpdatedbInit
    <3> QED
        BY <2>2, <3>2 DEF IsMade, Final
  <2> QED
      BY <2>1, <2>2
<1> QED
    BY <1>4, <1>5, <1>6 DEF UpdateInv

\* The steps after which each frcode and each file is what it was.
LEMMA FilesStay ==
    ASSUME UpdateInv, UNCHANGED <<file, frcode, writer, out, given>>
    PROVE  /\ \A r \in Updates : WritesItsOwn(r)'
           /\ \A i \in 0 .. MaxUpdates : IsMade(i)' /\ (Final(i) => Final(i)')
<1>1. ASSUME NEW r \in Updates PROVE WritesItsOwn(r)'
  <2>1. WritesItsOwn(r)
      BY DEF UpdateInv
  <2> QED
      BY <2>1 DEF WritesItsOwn
<1>2. ASSUME NEW i \in 0 .. MaxUpdates PROVE IsMade(i)' /\ (Final(i) => Final(i)')
  <2>1. IsMade(i)
      BY DEF UpdateInv
  <2> QED
      BY <2>1 DEF IsMade, Final
<1> QED
    BY <1>1, <1>2

\* The steps of the script but the start of frcode, and the signals.
LEMMA ScriptStep ==
    ASSUME UpdateInv, format' = format,
           StartUpdate \/ PipelineEnds \/ TestAndChmod \/ Move \/ Trap \/ Term \/ Killed
    PROVE  UpdateInv' /\ UNCHANGED <<file, frcode, writer, out, given>>
<1> USE DEF UpdateInv
<1>0. MaxUpdates \in Nat
    BY UpdatedbAssumption DEF UpdatedbAssumption
<1>1. UNCHANGED <<file, frcode, writer, out, given>>
    BY DEF StartUpdate, PipelineEnds, TestAndChmod, Move, Trap, Term, Killed
<1>2. /\ \A r \in Updates : WritesItsOwn(r)'
      /\ \A i \in 0 .. MaxUpdates : IsMade(i)' /\ (Final(i) => Final(i)')
    BY <1>1, FilesStay
<1>3. CASE StartUpdate
  <2>1. update + 1 \in Updates /\ update + 1 \in 0 .. MaxUpdates /\ update + 1 > update
      BY <1>0, <1>3 DEF StartUpdate, Shape, Updates
  <2>2. Shape' /\ NotYet'
    <3>1. \A r \in Updates : r > update + 1 => r > update
        BY <1>0 DEF Shape, Updates
    <3> QED
        BY <1>1, <1>3, <2>1, <3>1 DEF StartUpdate, Shape, NotYet
  <2>3. Script'
      BY <1>1, <1>3, <2>1 DEF StartUpdate, NotYet, Script, TempRemoved
  <2>4. Final(locate_db)'
      BY <1>1, <1>3 DEF StartUpdate, Final
  <2> QED
      BY <1>1, <1>2, <2>2, <2>3, <2>4
<1>4. CASE PipelineEnds \/ TestAndChmod \/ Trap \/ Term \/ Killed
  <2>1. /\ update' = update /\ locate_db' = locate_db
        /\ \/ shell' = shell /\ temp' = temp
           \/ shell' = "none"
           \/ /\ shell = "waiting" /\ shell' = "testing" /\ temp' = temp
              /\ frcode[update] = "ok"
           \/ shell = "testing" /\ shell' = "moving" /\ temp' = temp
      BY <1>4 DEF PipelineEnds, TestAndChmod, Trap, Term, Killed, OkSoFar
  <2>2. Shape' /\ NotYet' /\ Final(locate_db)'
      BY <1>1, <2>1 DEF Shape, NotYet, Final
  <2>3. Script'
      BY <1>1, <2>1 DEF Script
  <2> QED
      BY <1>1, <1>2, <2>2, <2>3
<1>5. CASE Move
  <2>1. update \in Updates /\ temp = update /\ frcode[update] = "ok"
      BY <1>5 DEF Move, Script
  <2>2. Shape' /\ NotYet'
      BY <1>0, <1>1, <1>5, <2>1 DEF Move, Shape, NotYet, Updates
  <2>3. Script' /\ Final(locate_db)'
      BY <1>1, <1>5, <2>1 DEF Move, Script, Final
  <2> QED
      BY <1>1, <1>2, <2>2, <2>3
<1> QED
    BY <1>1, <1>3, <1>4, <1>5

\* What is done stays as it is.
Stays(i) == Final(i)' /\ file'[i] = file[i] /\ given'[i] = given[i]

\* frcode starts with a file that nobody else writes or reads.
LEMMA StartFrcodeStep ==
    ASSUME UpdateInv, format' = format, StartFrcode(format)
    PROVE  UpdateInv' /\ \A i \in 0 .. MaxUpdates : Final(i) => Stays(i)
<1>1. /\ Shape /\ NotYet /\ Script /\ Final(locate_db)
      /\ \A r \in Updates : WritesItsOwn(r)
      /\ \A i \in 0 .. MaxUpdates : IsMade(i)
    BY DEF UpdateInv
<1>2. /\ update \in Updates /\ shell = "redirecting" /\ temp = NoFile
      /\ frcode[update] = "none" /\ given[update] = <<>>
    BY <1>1 DEF StartFrcode, Script
<1>3. /\ update \in 0 .. MaxUpdates /\ update # 0 /\ Updates \subseteq 0 .. MaxUpdates
    BY <1>1, <1>2 DEF Shape, Updates
<1>4. /\ temp' = update /\ out' = [out EXCEPT ![update] = update]
      /\ file' = [file EXCEPT ![update] = Encoded("LOCATE02", <<>>)]
      /\ frcode' = [frcode EXCEPT ![update] = "writing"]
      /\ writer' = [writer EXCEPT ![update] = Fresh(FALSE)]
      /\ shell' = "waiting" /\ UNCHANGED <<update, locate_db, given>>
  <2>1. ("LOCATE02" \in Slocate) = FALSE
      BY DEF Slocate
  <2> QED
      BY <1>1, <1>2, <2>1 DEF StartFrcode, Shape
<1>5. \A i \in 0 .. MaxUpdates : i # update =>
         file'[i] = file[i] /\ given'[i] = given[i] /\ (Final(i)' <=> Final(i))
    BY <1>1, <1>4 DEF Shape, Final
<1>6. ~Final(update) /\ ~Final(update)'
    BY <1>1, <1>2, <1>3, <1>4 DEF Final, Shape
<1>7. Shape' /\ NotYet' /\ Final(locate_db)'
  <2>1. Shape'
      BY <1>1, <1>4 DEF Shape
  <2>2. NotYet'
      BY <1>1, <1>2, <1>4 DEF Shape, NotYet, Updates
  <2>3. Final(locate_db)'
      BY <1>1, <1>2, <1>4, <1>6 DEF Final, Shape
  <2> QED
      BY <2>1, <2>2, <2>3
<1>8. Script'
    BY <1>2, <1>4 DEF Script
<1>9. ASSUME NEW r \in Updates PROVE WritesItsOwn(r)'
  <2>1. CASE r = update
    <3>1. /\ out'[r] = r /\ file'[r] = Encoded("LOCATE02", <<>>) /\ writer'[r] = Fresh(FALSE)
          /\ given'[r] = <<>>
        BY <1>1, <1>2, <1>3, <1>4, <2>1 DEF Shape
    <3>2. PICK w : Made(Encoded("LOCATE02", <<>>), <<>>, w) /\ Kept(Fresh(FALSE), w[0])
        BY FreshIsMade
    <3>3. Len(<<>>) = 0
        OBVIOUS
    <3>4. Made(file'[r], given'[r], w) /\ Kept(writer'[r], w[Len(given'[r])])
        BY <3>1, <3>2, <3>3
    <3> QED
        BY <3>1, <3>4 DEF WritesItsOwn
  <2>2. CASE r # update
    <3>1. /\ out'[r] = out[r] /\ file'[r] = file[r] /\ writer'[r] = writer[r]
          /\ given'[r] = given[r] /\ frcode'[r] = frcode[r]
        BY <1>1, <1>3, <1>4, <2>2 DEF Shape
    <3> QED
        BY <1>1, <3>1 DEF WritesItsOwn
  <2> QED
      BY <2>1, <2>2
<1>10. ASSUME NEW i \in 0 .. MaxUpdates PROVE IsMade(i)'
  <2>1. CASE i = update
    <3>1. ~Final(i)'
        BY <1>4, <1>6, <2>1 DEF Final
    <3> QED
        BY <3>1 DEF IsMade
  <2>2. CASE i # update
      BY <1>1, <1>5, <2>2 DEF IsMade
  <2> QED
      BY <2>1, <2>2
<1> QED
    BY <1>5, <1>6, <1>7, <1>8, <1>9, <1>10 DEF UpdateInv, Stays

\* One more path for the frcode of any update, the shell of which may be gone.
LEMMA WritePathStep ==
    ASSUME UpdateInv, format' = format, NEW r \in Updates, NEW p \in Path, WritePath(r, p)
    PROVE  UpdateInv' /\ \A i \in 0 .. MaxUpdates : Final(i) => Stays(i)
<1>1. /\ Shape /\ NotYet /\ Script /\ Final(locate_db)
      /\ \A s \in Updates : WritesItsOwn(s)
      /\ \A i \in 0 .. MaxUpdates : IsMade(i)
    BY DEF UpdateInv
<1> DEFINE g == FrcodePath(writer[r], p)
<1>2. /\ frcode[r] = "writing" /\ r \in 0 .. MaxUpdates /\ r # 0 /\ ~Final(r)
    BY DEF WritePath, Final, Updates
<1>3. PICK w : out[r] = r /\ Made(file[r], given[r], w) /\ Kept(writer[r], w[Len(given[r])])
    BY <1>1, <1>2 DEF WritesItsOwn
<1>4. /\ frcode' = [frcode EXCEPT ![r] = IF g.aborted THEN "failed" ELSE @]
      /\ file' = [file EXCEPT ![r].bytes = @ \o g.bytes]
      /\ writer' = [writer EXCEPT ![r] = [g EXCEPT !.bytes = <<>>]]
      /\ given' = [given EXCEPT ![r] = Append(@, p)]
      /\ UNCHANGED <<update, shell, locate_db, temp, out>>
    BY <1>3 DEF WritePath
<1> HIDE DEF g
<1>5. \A i \in 0 .. MaxUpdates : i # r =>
         file'[i] = file[i] /\ given'[i] = given[i] /\ (Final(i)' <=> Final(i))
    BY <1>1, <1>4 DEF Shape, Final
<1>6. ~Final(r)'
    BY <1>1, <1>2, <1>4 DEF Final, Shape
<1>7. Shape' /\ NotYet' /\ Final(locate_db)'
  <2>1. Append(given[r], p) \in Seq(Path)
      BY <1>1, <1>2 DEF Shape
  <2> DEFINE longer == Append(given[r], p)
  <2>2. longer \in Seq(Path) /\ given' = [given EXCEPT ![r] = longer]
      BY <1>4, <2>1
  <2> HIDE DEF longer
  <2>3. Shape'
    <3>1. given' \in [0 .. MaxUpdates -> Seq(Path)]
        BY <1>1, <2>2 DEF Shape
    <3>2. frcode' \in [Updates -> {"none", "writing", "ok", "failed"}]
        BY <1>1, <1>4 DEF Shape
    <3>3. DOMAIN file' = 0 .. MaxUpdates /\ DOMAIN writer' = Updates /\ DOMAIN out' = Updates
        BY <1>1, <1>4 DEF Shape
    <3> QED
        BY <1>1, <1>4, <3>1, <3>2, <3>3 DEF Shape
  <2>4. NotYet'
    <3>1. ~(r > update)
        BY <1>1, <1>2 DEF NotYet
    <3>2. ASSUME NEW s \in Updates, s > update PROVE frcode'[s] = "none" /\ given'[s] = <<>>
      <4>1. s # r
          BY <3>1, <3>2
      <4>2. frcode'[s] = frcode[s] /\ given'[s] = given[s]
          BY <1>1, <1>4, <4>1 DEF Shape, Updates
      <4> QED
          BY <1>1, <3>2, <4>2 DEF NotYet
    <3> QED
        BY <1>4, <3>2 DEF NotYet
  <2>5. Final(locate_db)'
    <3>1. locate_db # r /\ locate_db \in 0 .. MaxUpdates
        BY <1>1, <1>2 DEF Final, Shape
    <3> QED
        BY <1>1, <1>4, <1>5, <3>1 DEF Final
  <2> QED
      BY <2>3, <2>4, <2>5
<1>8. Script'
  <2>1. shell # "none" => update \in Updates
      BY <1>1 DEF Script
  <2>2. CASE update # r
    <3>1. shell # "none" => frcode'[update] = frcode[update] /\ given'[update] = given[update]
        BY <1>1, <1>4, <1>5, <2>1, <2>2 DEF Shape, Updates
    <3> QED
        BY <1>1, <1>4, <3>1 DEF Script
  <2>3. CASE update = r
    <3>1. shell \in {"none", "waiting"}
        BY <1>1, <1>2, <2>3 DEF Script
    <3> QED
        BY <1>1, <1>4, <3>1 DEF Script
  <2> QED
      BY <2>2, <2>3
<1>9. ASSUME NEW s \in Updates PROVE WritesItsOwn(s)'
  <2>1. CASE s = r /\ g.aborted
    <3>1. frcode'[s] = "failed"
        BY <1>1, <1>4, <2>1 DEF Shape
    <3> QED
        BY <3>1 DEF WritesItsOwn
  <2>2. CASE s = r /\ ~g.aborted
    <3>1. given[r] \in Seq(Seq(Char)) /\ p \in Seq(Char)
        BY <1>1, <1>2, PathIs DEF Shape
    <3>2. PICK v : /\ Made([file[r] EXCEPT !.bytes = @ \o g.bytes], Append(given[r], p), v)
                   /\ Kept([g EXCEPT !.bytes = <<>>], v[Len(Append(given[r], p))])
        BY <1>3, <2>2, <3>1, MadeGrows DEF g
    <3> DEFINE longer == Append(given[r], p)
               f == [file[r] EXCEPT !.bytes = @ \o g.bytes]
               kept == [g EXCEPT !.bytes = <<>>]
    <3>3. Made(f, longer, v) /\ Kept(kept, v[Len(longer)])
        BY <3>2
    <3>4. /\ given' = [given EXCEPT ![r] = longer] /\ writer' = [writer EXCEPT ![r] = kept]
          /\ file' = [file EXCEPT ![r] = f]
        BY <1>4
    <3> HIDE DEF longer, f, kept
    <3>5. given'[s] = longer /\ writer'[s] = kept /\ file'[s] = f /\ out'[s] = s
        BY <1>1, <1>2, <1>3, <1>4, <2>2, <3>4 DEF Shape
    <3> QED
        BY <3>3, <3>5 DEF WritesItsOwn
  <2>3. CASE s # r
    <3>1. /\ out'[s] = out[s] /\ file'[s] = file[s] /\ writer'[s] = writer[s]
          /\ given'[s] = given[s] /\ frcode'[s] = frcode[s]
        BY <1>1, <1>4, <2>3 DEF Shape, Updates
    <3> QED
        BY <1>1, <3>1 DEF WritesItsOwn
  <2> QED
      BY <2>1, <2>2, <2>3
<1>10. ASSUME NEW i \in 0 .. MaxUpdates PROVE IsMade(i)'
    BY <1>1, <1>5, <1>6 DEF IsMade
<1> QED
    BY <1>2, <1>5, <1>7, <1>8, <1>9, <1>10 DEF UpdateInv, Stays

\* A frcode that is through leaves a file that is whole.
LEMMA FrcodeStopsStep ==
    ASSUME UpdateInv, format' = format, NEW r \in Updates, FrcodeEnds(r) \/ FrcodeFails(r)
    PROVE  UpdateInv' /\ \A i \in 0 .. MaxUpdates : Final(i) => Stays(i)
<1>1. /\ Shape /\ NotYet /\ Script /\ Final(locate_db)
      /\ \A s \in Updates : WritesItsOwn(s)
      /\ \A i \in 0 .. MaxUpdates : IsMade(i)
    BY DEF UpdateInv
<1>2. PICK c \in {"ok", "failed"} : frcode' = [frcode EXCEPT ![r] = c]
    BY DEF FrcodeEnds, FrcodeFails
<1>3. /\ frcode[r] = "writing" /\ r \in 0 .. MaxUpdates /\ r # 0 /\ ~Final(r)
      /\ UNCHANGED <<update, shell, locate_db, temp, file, writer, out, given>>
    BY DEF FrcodeEnds, FrcodeFails, Final, Updates
<1>4. \A i \in 0 .. MaxUpdates : i # r => (Final(i)' <=> Final(i))
    BY <1>1, <1>2 DEF Shape, Final
<1>5. Shape' /\ NotYet' /\ Final(locate_db)'
  <2>1. Shape'
      BY <1>1, <1>2, <1>3 DEF Shape
  <2>2. NotYet'
    <3>1. ~(r > update)
        BY <1>1, <1>3 DEF NotYet
    <3>2. \A s \in Updates : s # r => frcode'[s] = frcode[s]
        BY <1>1, <1>2 DEF Shape
    <3> QED
        BY <1>1, <1>3, <3>1, <3>2 DEF NotYet
  <2>3. Final(locate_db)'
    <3>1. locate_db # r /\ locate_db \in 0 .. MaxUpdates
        BY <1>1, <1>3 DEF Final, Shape
    <3> QED
        BY <1>1, <1>3, <1>4, <3>1 DEF Final
  <2> QED
      BY <2>1, <2>2, <2>3
<1>6. Script'
  <2>1. CASE update # r
      BY <1>1, <1>2, <1>3, <2>1 DEF Script, Shape
  <2>2. CASE update = r
    <3>1. shell \in {"none", "waiting"}
        BY <1>1, <1>3, <2>2 DEF Script
    <3> QED
        BY <1>1, <1>3, <3>1 DEF Script
  <2> QED
      BY <2>1, <2>2
<1>7. ASSUME NEW s \in Updates PROVE WritesItsOwn(s)'
  <2>1. frcode'[s] = "writing" => s # r /\ frcode[s] = "writing"
      BY <1>1, <1>2 DEF Shape
  <2> QED
      BY <1>1, <1>3, <2>1 DEF WritesItsOwn
<1>8. ASSUME NEW i \in 0 .. MaxUpdates PROVE IsMade(i)'
  <2>1. CASE i = r
    <3>1. \E w : Made(file[r], given[r], w)
        BY <1>1, <1>3 DEF WritesItsOwn
    <3> QED
        BY <1>3, <2>1, <3>1 DEF IsMade
  <2>2. CASE i # r
      BY <1>1, <1>3, <1>4, <2>2 DEF IsMade
  <2> QED
      BY <2>1, <2>2
<1> QED
    BY <1>3, <1>4, <1>5, <1>6, <1>7, <1>8 DEF UpdateInv, Stays

\* Every step of updatedb.
LEMMA UpdateStep ==
    ASSUME UpdateInv, format' = format, UpdatedbNext(format)
    PROVE  UpdateInv' /\ \A i \in 0 .. MaxUpdates : Final(i) => Stays(i)
<1>1. CASE StartUpdate \/ PipelineEnds \/ TestAndChmod \/ Move \/ Trap \/ Term \/ Killed
  <2>1. UpdateInv' /\ UNCHANGED <<file, frcode, writer, out, given>>
      BY <1>1, ScriptStep
  <2> QED
      BY <2>1 DEF Stays, Final
<1>2. CASE StartFrcode(format)
    BY <1>2, StartFrcodeStep
<1>3. CASE \E r \in Updates : \E p \in Path : WritePath(r, p)
    BY <1>3, WritePathStep
<1>4. CASE \E r \in Updates : FrcodeEnds(r) \/ FrcodeFails(r)
    BY <1>4, FrcodeStopsStep
<1> QED
    BY <1>1, <1>2, <1>3, <1>4 DEF UpdatedbNext
------------------------------------------------------------------------------
(* What the two do, as steps of LocateDb.                                  *)

InPlace == given[locate_db]
Building == IF shell = "none" THEN <<>> ELSE given[update]
Ready == shell # "none" /\ frcode[update] = "ok"
Reading == IF Reads THEN given[procdata.inode] ELSE <<>>
Got == IF Reads THEN procdata.names ELSE <<>>

Maps == AtomicDb!DbNext \/ UNCHANGED AtomicDb!dbVars

\* The steps of LocateDb that are of updatedb, and those of a reader.
BuildStep ==
    \/ InPlace' = InPlace /\ Building' = <<>> /\ Ready' = FALSE
    \/ /\ InPlace' = InPlace /\ ~Ready /\ Ready' = Ready
       /\ \E p \in Path : Building' = Append(Building, p)
    \/ InPlace' = InPlace /\ Building' = Building /\ Ready' = TRUE
    \/ Ready /\ InPlace' = Building /\ Building' = <<>> /\ Ready' = FALSE
    \/ InPlace' = InPlace /\ Building' = Building /\ Ready' = Ready

ReadStep ==
    \/ Reading' = InPlace /\ Got' = <<>>
    \/ /\ Len(Got) < Len(Reading) /\ Reading' = Reading
       /\ Got' = Append(Got, Reading[Len(Got) + 1])
    \/ Reading' = <<>> /\ Got' = <<>>
    \/ Reading' = Reading /\ Got' = Got

\* Together they are the steps of LocateDb.
LEMMA BuildStepMaps ==
    ASSUME BuildStep, Reading' = Reading, Got' = Got
    PROVE  Maps
BY DEF BuildStep, Maps, AtomicDb!DbNext, AtomicDb!dbVars, AtomicDb!Begin, AtomicDb!Add,
       AtomicDb!Finish, AtomicDb!Install, InPlace, Building, Ready, Reading, Got

LEMMA ReadStepMaps ==
    ASSUME ReadStep, InPlace' = InPlace, Building' = Building, Ready' = Ready
    PROVE  Maps
BY DEF ReadStep, Maps, AtomicDb!DbNext, AtomicDb!dbVars, AtomicDb!Open, AtomicDb!Read,
       AtomicDb!Close, InPlace, Building, Ready, Reading, Got

\* Where the reader of the system's database stands: after the first k of the
\* paths it was made of.
ReadSoFar ==
    LET i == procdata.inode
    IN \E w : /\ Made(file[i], given[i], w)
              /\ \E k \in 0 .. Len(given[i]) :
                    Standing(w[k]) /\ procdata.names = SubSeq(given[i], 1, k)

ReadInv ==
    /\ DOMAIN procdata = DOMAIN Closed
    /\ procdata.inode # NoFile =>
          /\ procdata.inode \in 0 .. MaxUpdates /\ Final(procdata.inode)
          /\ phase = "header" => procdata = [Closed EXCEPT !.inode = procdata.inode]
          /\ phase = "entries" => ReadSoFar

AtomicInv == UpdateInv /\ ReadInv

\* A step of updatedb, while locate reads.
LEMMA UpdateRefines ==
    ASSUME AtomicInv, UpdatedbNext(format), UNCHANGED locateVars
    PROVE  AtomicInv' /\ Maps
<1>1. UpdateInv /\ ReadInv /\ Shape /\ NotYet /\ Script /\ Final(locate_db)
    BY DEF AtomicInv, UpdateInv
<1>2. format' = format /\ procdata' = procdata /\ phase' = phase
    BY DEF locateVars
<1>3. UpdateInv' /\ \A i \in 0 .. MaxUpdates : Final(i) => Stays(i)
    BY <1>1, <1>2, UpdateStep
<1>4. ReadInv'
  <2> DEFINE i == procdata.inode
  <2>1. CASE i # NoFile
    <3>1. i \in 0 .. MaxUpdates /\ Stays(i)
        BY <1>1, <1>3, <2>1 DEF ReadInv
    <3>2. phase = "entries" => ReadSoFar'
      <4>1. SUFFICES ASSUME phase = "entries" PROVE ReadSoFar'
          OBVIOUS
      <4>2. PICK w : /\ Made(file[i], given[i], w)
                     /\ \E k \in 0 .. Len(given[i]) :
                           Standing(w[k]) /\ procdata.names = SubSeq(given[i], 1, k)
          BY <1>1, <2>1, <4>1 DEF ReadInv, ReadSoFar
      <4>3. PICK k \in 0 .. Len(given[i]) :
                Standing(w[k]) /\ procdata.names = SubSeq(given[i], 1, k)
          BY <4>2
      <4>4. Standing(w[k])'
          BY <1>2, <4>3 DEF Standing
      <4>5. file'[i] = file[i] /\ given'[i] = given[i] /\ procdata' = procdata
          BY <1>2, <3>1 DEF Stays
      <4> QED
          BY <4>2, <4>3, <4>4, <4>5 DEF ReadSoFar
    <3> QED
        BY <1>1, <1>2, <2>1, <3>1, <3>2 DEF ReadInv, Stays
  <2>2. CASE i = NoFile
      BY <1>1, <1>2, <2>2 DEF ReadInv
  <2> QED
      BY <2>1, <2>2
<1>5. Reading' = Reading /\ Got' = Got
  <2>1. procdata.inode # NoFile => given'[procdata.inode] = given[procdata.inode]
      BY <1>1, <1>3 DEF ReadInv, Stays
  <2> QED
      BY <1>2, <2>1 DEF Reading, Got, Reads
<1>6. InPlace = given[locate_db] /\ given'[locate_db] = given[locate_db]
    BY <1>1, <1>3 DEF InPlace, Shape, Stays
<1>7. BuildStep
  <2>1. CASE StartUpdate
    <3>1. update + 1 \in Updates /\ update + 1 > update
        BY <1>1, <2>1, UpdatedbAssumption DEF UpdatedbAssumption, StartUpdate, Shape, Updates
    <3>2. frcode[update + 1] = "none" /\ given[update + 1] = <<>>
        BY <1>1, <3>1 DEF NotYet
    <3> QED
        BY <1>1, <2>1, <3>2 DEF StartUpdate, BuildStep, InPlace, Building, Ready
  <2>2. CASE StartFrcode(format)
    <3>1. update \in Updates /\ frcode[update] = "none" /\ frcode'[update] = "writing"
        BY <1>1, <2>2 DEF StartFrcode, Script, Shape
    <3>2. Ready' = FALSE /\ Ready = FALSE
        BY <2>2, <3>1 DEF StartFrcode, Ready
    <3>3. Building' = Building /\ InPlace' = InPlace
        BY <1>1, <2>2 DEF StartFrcode, Building, InPlace, Script
    <3> QED
        BY <3>2, <3>3 DEF BuildStep
  <2>3. CASE PipelineEnds \/ TestAndChmod \/ Trap \/ Term \/ Killed
    <3>1. /\ UNCHANGED <<update, locate_db, given, frcode>>
          /\ shell' = "none" \/ (shell # "none" /\ shell' # "none")
        BY <2>3 DEF PipelineEnds, TestAndChmod, Trap, Term, Killed
    <3> QED
        BY <3>1 DEF BuildStep, InPlace, Building, Ready
  <2>4. CASE Move
    <3>1. shell = "moving" /\ temp = update /\ frcode[update] = "ok"
        BY <1>1, <2>4 DEF Move, Script
    <3> QED
        BY <2>4, <3>1 DEF Move, BuildStep, InPlace, Building, Ready
  <2>5. CASE \E r \in Updates : \E p \in Path : WritePath(r, p)
    <3>1. PICK r \in Updates, p \in Path : WritePath(r, p)
        BY <2>5
    <3>2. /\ UNCHANGED <<update, shell, locate_db>>
          /\ given' = [given EXCEPT ![r] = Append(@, p)]
          /\ frcode[r] = "writing" /\ r \in 0 .. MaxUpdates
          /\ \A s \in Updates : s # r => frcode'[s] = frcode[s]
          /\ frcode'[r] # "ok"
        BY <1>1, <3>1 DEF WritePath, Shape, Updates
    <3>3. InPlace' = InPlace
        BY <1>6, <3>2 DEF InPlace
    <3>4. CASE shell = "none"
        BY <3>2, <3>3, <3>4 DEF BuildStep, Building, Ready
    <3>5. CASE shell # "none" /\ update = r
      <4> DEFINE longer == Append(given[r], p)
      <4>1. given'[r] = longer
          BY <1>1, <3>2 DEF Shape
      <4>2. Building = given[r] /\ Building' = given'[r] /\ Ready = FALSE /\ Ready' = FALSE
          BY <3>2, <3>5 DEF Building, Ready
      <4> HIDE DEF longer
      <4>3. Building' = longer
          BY <4>1, <4>2
      <4> QED
          BY <3>1, <3>3, <4>2, <4>3 DEF BuildStep, longer
    <3>6. CASE shell # "none" /\ update # r
      <4>1. update \in Updates /\ update \in 0 .. MaxUpdates
          BY <1>1, <3>6 DEF Script, Shape
      <4>2. given'[update] = given[update] /\ frcode'[update] = frcode[update]
          BY <1>1, <3>2, <3>6, <4>1 DEF Shape
      <4> QED
          BY <3>2, <3>3, <4>2 DEF BuildStep, Building, Ready
    <3> QED
        BY <3>4, <3>5, <3>6
  <2>6. CASE \E r \in Updates : FrcodeEnds(r) \/ FrcodeFails(r)
    <3>1. PICK r \in Updates : FrcodeEnds(r) \/ FrcodeFails(r)
        BY <2>6
    <3>2. /\ UNCHANGED <<update, shell, locate_db, given>> /\ frcode[r] = "writing"
          /\ \A s \in Updates : s # r => frcode'[s] = frcode[s]
          /\ frcode'[r] \in {"ok", "failed"}
        BY <1>1, <3>1 DEF FrcodeEnds, FrcodeFails, Shape
    <3>3. InPlace' = InPlace /\ Building' = Building
        BY <3>2 DEF InPlace, Building
    <3>4. Ready' = Ready \/ Ready' = TRUE
      <4>1. shell # "none" => update \in Updates
          BY <1>1 DEF Script
      <4>2. CASE update = r
          BY <3>2, <4>2 DEF Ready
      <4>3. CASE update # r
          BY <3>2, <4>1, <4>3 DEF Ready
      <4> QED
          BY <4>2, <4>3
    <3> QED
        BY <3>3, <3>4 DEF BuildStep
  <2> QED
      BY <2>1, <2>2, <2>3, <2>4, <2>5, <2>6 DEF UpdatedbNext
<1>8. Maps
    BY <1>5, <1>7, BuildStepMaps
<1> QED
    BY <1>3, <1>4, <1>8 DEF AtomicInv

\* The open database, when it is the one of the system.
LEMMA DbIsMade ==
    ASSUME AtomicInv, procdata.inode # NoFile
    PROVE  /\ procdata.inode \in 0 .. MaxUpdates /\ Final(procdata.inode)
           /\ Db = file[procdata.inode] /\ given[procdata.inode] \in Seq(Seq(Char))
           /\ \E w : Made(file[procdata.inode], given[procdata.inode], w)
<1>1. procdata.inode \in 0 .. MaxUpdates /\ Final(procdata.inode)
    BY DEF AtomicInv, ReadInv
<1>2. IsMade(procdata.inode)
    BY <1>1 DEF AtomicInv, UpdateInv
<1>3. given[procdata.inode] \in Seq(Path)
    BY <1>1 DEF AtomicInv, UpdateInv, Shape
<1> QED
    BY <1>1, <1>2, <1>3, PathIs DEF IsMade, Db

\* Neither the files nor what updatedb does changes in a step of locate.
LEMMA UpdateInvStays ==
    ASSUME AtomicInv, UNCHANGED updateVars, format' = format
    PROVE  UpdateInv' /\ InPlace' = InPlace /\ Building' = Building /\ Ready' = Ready
BY DEF AtomicInv, UpdateInv, updateVars, Shape, NotYet, Script, Final, WritesItsOwn, IsMade,
       InPlace, Building, Ready

\* locate opens the file that has the name now.
LEMMA NextDatabaseRefines ==
    ASSUME AtomicInv, NextDatabase
    PROVE  AtomicInv' /\ Maps
<1>1. UNCHANGED updateVars /\ format' = format /\ phase = "next"
    BY DEF NextDatabase
<1>2. UpdateInv' /\ InPlace' = InPlace /\ Building' = Building /\ Ready' = Ready
    BY <1>1, UpdateInvStays
<1>3. locate_db \in 0 .. MaxUpdates /\ Final(locate_db) /\ locate_db # NoFile
    BY DEF AtomicInv, UpdateInv, Shape, NoFile
<1>4. CASE dbpath[dbi + 1].kind = "missing"
  <2>1. phase' = "done" /\ procdata' = procdata
      BY <1>4 DEF NextDatabase, Exit
  <2>2. ReadInv' /\ ReadStep
      BY <1>1, <2>1 DEF AtomicInv, ReadInv, ReadStep, Reading, Got, Reads, updateVars, Final
  <2> QED
      BY <1>2, <2>2, ReadStepMaps DEF AtomicInv
<1>5. CASE dbpath[dbi + 1].kind # "missing"
  <2>1. PICK i \in {locate_db, NoFile} : procdata' = [Closed EXCEPT !.inode = i]
      BY <1>5 DEF NextDatabase
  <2>2. /\ phase' = "header" /\ DOMAIN procdata' = DOMAIN Closed
        /\ procdata'.inode = i /\ procdata'.names = <<>>
      BY <1>5, <2>1 DEF NextDatabase, Closed
  <2>3. ReadInv'
      BY <1>1, <1>3, <2>1, <2>2 DEF ReadInv, updateVars, Final
  <2>4. ReadStep
      BY <1>1, <1>3, <2>1, <2>2 DEF ReadStep, Reading, Got, Reads, updateVars, InPlace
  <2> QED
      BY <1>2, <2>3, <2>4, ReadStepMaps DEF AtomicInv
<1> QED
    BY <1>4, <1>5

\* The header, after which locate stands before the first path.
LEMMA ReadHeaderRefines ==
    ASSUME AtomicInv, ReadHeader
    PROVE  AtomicInv' /\ Maps
<1> DEFINE i == procdata.inode
<1>1. UNCHANGED updateVars /\ format' = format /\ phase = "header"
    BY DEF ReadHeader
<1>2. UpdateInv' /\ InPlace' = InPlace /\ Building' = Building /\ Ready' = Ready
    BY <1>1, UpdateInvStays
<1>3. /\ DOMAIN procdata = DOMAIN Closed
      /\ i # NoFile => /\ i \in 0 .. MaxUpdates /\ Final(i)
                       /\ procdata = [Closed EXCEPT !.inode = i]
    BY <1>1 DEF AtomicInv, ReadInv
<1>4. CASE phase' \in {"next", "done"} /\ procdata' = procdata
  <2>1. ReadInv'
      BY <1>1, <1>3, <1>4 DEF ReadInv, updateVars, Final
  <2>2. ReadStep
      BY <1>4 DEF ReadStep, Reading, Got, Reads
  <2> QED
      BY <1>2, <2>1, <2>2, ReadStepMaps DEF AtomicInv
<1>5. CASE /\ phase' = "entries"
           /\ procdata' = [procdata EXCEPT !.check = Checked(Db.format)]
  <2>1. /\ DOMAIN procdata' = DOMAIN Closed /\ procdata'.inode = i
        /\ procdata'.names = procdata.names /\ procdata'.pos = procdata.pos
        /\ procdata'.count = procdata.count /\ procdata'.buf = procdata.buf
        /\ procdata'.len = procdata.len
      BY <1>3, <1>5 DEF Closed
  <2>2. i # NoFile => ReadSoFar'
    <3>1. SUFFICES ASSUME i # NoFile PROVE ReadSoFar'
        OBVIOUS
    <3>2. PICK w : Made(file[i], given[i], w) /\ given[i] \in Seq(Seq(Char))
        BY <3>1, DbIsMade
    <3>3. /\ procdata.names = <<>> /\ procdata.pos = 1 /\ procdata.count = 0
          /\ procdata.buf = <<>> /\ procdata.len = 0
        BY <1>3, <3>1 DEF Closed
    <3>4. w[0] = Fresh(FALSE)
        BY <3>2 DEF Made, Run
    <3>5. w[0].bytes = <<>> /\ w[0].oldcount = 0 /\ w[0].oldpath = <<>>
        BY <3>4 DEF Fresh
    <3>6. Holds(<<>>, <<>>)
        BY DEF Holds
    <3>7. Standing(w[0])'
        BY <2>1, <3>3, <3>5, <3>6 DEF Standing
    <3>8. procdata'.names = SubSeq(given[i], 1, 0) /\ 0 \in 0 .. Len(given[i])
        BY <2>1, <3>2, <3>3
    <3>9. file'[i] = file[i] /\ given'[i] = given[i]
        BY <1>1 DEF updateVars
    <3> QED
        BY <2>1, <3>2, <3>7, <3>8, <3>9 DEF ReadSoFar
  <2>3. ReadInv'
      BY <1>1, <1>3, <1>5, <2>1, <2>2 DEF ReadInv, updateVars, Final
  <2>4. ReadStep
      BY <1>1, <1>5, <2>1 DEF ReadStep, Reading, Got, Reads, updateVars
  <2> QED
      BY <1>2, <2>3, <2>4, ReadStepMaps DEF AtomicInv
<1>6. \/ phase' \in {"next", "done"} /\ procdata' = procdata
      \/ phase' = "entries" /\ procdata' = [procdata EXCEPT !.check = Checked(Db.format)]
    BY DEF ReadHeader, Exit
<1> QED
    BY <1>4, <1>5, <1>6

\* Finish, EndOfFile and Close.
LEMMA RestRefines ==
    ASSUME AtomicInv, Finish \/ EndOfFile \/ Close
    PROVE  AtomicInv' /\ Maps
<1>1. /\ UNCHANGED updateVars /\ format' = format /\ procdata' = procdata
      /\ \/ phase = "next" /\ phase' = "done"
         \/ phase = "entries" /\ phase' = "closing"
         \/ phase = "closing" /\ phase' = "next"
    BY DEF Finish, EndOfFile, Close, Exit
<1>2. UpdateInv' /\ InPlace' = InPlace /\ Building' = Building /\ Ready' = Ready
    BY <1>1, UpdateInvStays
<1>3. ReadInv'
    BY <1>1 DEF AtomicInv, ReadInv, updateVars, Final
<1>4. ReadStep
    BY <1>1 DEF ReadStep, Reading, Got, Reads, updateVars
<1> QED
    BY <1>2, <1>3, <1>4, ReadStepMaps DEF AtomicInv

\* Reading an entry does not change which file is open.
LEMMA InodeStays ==
    ASSUME DOMAIN procdata = DOMAIN Closed, VisitEntry
    PROVE  DOMAIN procdata' = DOMAIN Closed /\ procdata'.inode = procdata.inode
<1> DEFINE e == IF Db.format = "old" THEN OldEntry ELSE Locate02Entry
           read == IF Db.format = "old" THEN OldRead(e) ELSE Locate02Read(e)
<1>1. DOMAIN read = DOMAIN procdata /\ read.inode = procdata.inode
    BY DEF OldRead, Locate02Read, Closed
<1>2. \/ procdata' = procdata
      \/ procdata' = [read EXCEPT !.names = Append(@, Name(read.buf))]
    BY DEF VisitEntry
<1> HIDE DEF read
<1>3. "inode" \in DOMAIN read
    BY <1>1 DEF Closed
<1>4. ASSUME NEW n, procdata' = [read EXCEPT !.names = n]
      PROVE  DOMAIN procdata' = DOMAIN Closed /\ procdata'.inode = procdata.inode
    BY <1>1, <1>3, <1>4
<1> QED
    BY <1>2, <1>4

\* An entry of a static database, or of no database that is open for long:
\* what is read of it is no concern of updatedb's.
LEMMA StaticEntryRefines ==
    ASSUME AtomicInv, VisitEntry, procdata.inode = NoFile
    PROVE  AtomicInv' /\ Maps
<1>1. UNCHANGED updateVars /\ format' = format /\ phase = "entries"
    BY DEF VisitEntry
<1>2. UpdateInv' /\ InPlace' = InPlace /\ Building' = Building /\ Ready' = Ready
    BY <1>1, UpdateInvStays
<1>3. DOMAIN procdata = DOMAIN Closed
    BY DEF AtomicInv, ReadInv
<1>4. DOMAIN procdata' = DOMAIN procdata /\ procdata'.inode = NoFile
    BY <1>3, InodeStays
<1>5. ReadInv'
    BY <1>3, <1>4 DEF ReadInv
<1>6. ReadStep
    BY <1>4 DEF ReadStep, Reading, Got, Reads
<1> QED
    BY <1>2, <1>5, <1>6, ReadStepMaps DEF AtomicInv

\* An entry of the database of the system is the next of the paths.
LEMMA SystemEntryRefines ==
    ASSUME AtomicInv, VisitEntry, procdata.inode # NoFile
    PROVE  AtomicInv' /\ Maps
<1> DEFINE i == procdata.inode
           list == given[i]
           n == Len(list)
<1>1. UNCHANGED updateVars /\ format' = format /\ phase = "entries"
      /\ procdata.pos <= Len(Db.bytes)
    BY DEF VisitEntry
<1>2. UpdateInv' /\ InPlace' = InPlace /\ Building' = Building /\ Ready' = Ready
    BY <1>1, UpdateInvStays
<1>3. /\ i \in 0 .. MaxUpdates /\ Final(i) /\ Db = file[i] /\ list \in Seq(Seq(Char))
      /\ DOMAIN procdata = DOMAIN Closed
    BY DbIsMade DEF AtomicInv, ReadInv
<1>4. PICK w : /\ Made(file[i], list, w)
               /\ \E k \in 0 .. n : Standing(w[k]) /\ procdata.names = SubSeq(list, 1, k)
  <2>1. ReadSoFar
      BY <1>1 DEF AtomicInv, ReadInv
  <2> QED
      BY <2>1 DEF ReadSoFar
<1>5. PICK k \in 0 .. n : Standing(w[k]) /\ procdata.names = SubSeq(list, 1, k)
    BY <1>4
<1>6. /\ Run(w, list) /\ Db.format = "LOCATE02" /\ Db.bytes \in Seq(Bytes)
      /\ Db.bytes = w[n].bytes
    BY <1>3, <1>4 DEF Made
<1>7. n \in Nat /\ k \in Nat /\ k <= n /\ k # n
  <2>1. n \in Nat /\ k \in Nat /\ k <= n
      BY <1>3
  <2>2. CASE k = n
    <3>1. procdata.pos = Len(Db.bytes) + 1
        BY <1>5, <1>6, <2>2 DEF Standing
    <3>2. Len(Db.bytes) \in Nat
        BY <1>6
    <3> QED
        BY <1>1, <3>1, <3>2
  <2> QED
      BY <2>1, <2>2
<1> HIDE DEF list, n
<1>8. k + 1 \in 1 .. n /\ k + 1 \in 0 .. n /\ k \in 0 .. n /\ (k + 1) - 1 = k
    BY <1>7
<1> DEFINE v == w[k + 1]
           path == list[k + 1]
           e == Locate02Entry
           read == Locate02Read(e)
<1>9. path \in Seq(Char)
    BY <1>3, <1>8 DEF n
<1>10. w[k] \in WriterType /\ v \in WriterType /\ Entry(w[k], v, path) /\ v.oldpath = path
  <2>1. /\ \A j \in 0 .. n : w[j] \in WriterType
        /\ \A j \in 1 .. n : Entry(w[j - 1], w[j], list[j]) /\ w[j].oldpath = list[j]
      BY <1>3, <1>6, RunIs DEF n
  <2>2. Entry(w[(k + 1) - 1], w[k + 1], list[k + 1])
      BY <1>8, <2>1
  <2> QED
      BY <1>8, <2>1, <2>2
<1>11. Begins(v)
  <2>1. /\ Len(v.bytes) <= Len(w[n].bytes)
        /\ \A j \in 1 .. Len(v.bytes) : w[n].bytes[j] = v.bytes[j]
      BY <1>3, <1>6, <1>8, RunGrows DEF n
  <2> QED
      BY <1>6, <2>1 DEF Begins
<1> HIDE DEF v, path, e, read
<1>12. /\ e.count \in Nat /\ e.count <= procdata.len
       /\ e.text \in Nat /\ e.text <= Len(Db.bytes)
       /\ DOMAIN read = DOMAIN Closed
       /\ read.pos = Len(v.bytes) + 1 /\ read.count = v.oldcount
       /\ Holds(read.buf, path) /\ read.len = Len(path) + 1 /\ Name(read.buf) = path
       /\ read.names = procdata.names /\ read.inode = procdata.inode
    BY <1>5, <1>9, <1>10, <1>11, EntryIsRead DEF e, read
<1>13. PICK c \in {"closing", "entries"} :
           phase' = c /\ procdata' = [read EXCEPT !.names = Append(@, path)]
  <2>1. ~(Db.format = "old") /\ ~(e.count < 0) /\ ~(e.count > procdata.len)
        /\ ~(e.text > Len(Db.bytes))
    <3>1. /\ e.count \in Nat /\ procdata.len \in Nat /\ Len(Db.bytes) \in Nat
        BY <1>5, <1>6, <1>12 DEF Standing
    <3> QED
        BY <1>6, <1>12, <3>1
  <2> QED
      BY <1>1, <1>12, <2>1 DEF VisitEntry, e, read
<1>14. /\ DOMAIN procdata' = DOMAIN Closed /\ procdata'.inode = i
       /\ procdata'.pos = read.pos /\ procdata'.count = read.count
       /\ procdata'.buf = read.buf /\ procdata'.len = read.len
       /\ procdata'.names = Append(procdata.names, path)
  <2> DEFINE longer == Append(read.names, path)
  <2>1. procdata' = [read EXCEPT !.names = longer]
      BY <1>13
  <2>2. longer = Append(procdata.names, path)
      BY <1>12
  <2> HIDE DEF longer
  <2>3. procdata'.names = longer
      BY <1>12, <2>1 DEF Closed
  <2>4. /\ DOMAIN procdata' = DOMAIN Closed /\ procdata'.inode = i
        /\ procdata'.pos = read.pos /\ procdata'.count = read.count
        /\ procdata'.buf = read.buf /\ procdata'.len = read.len
      BY <1>12, <2>1 DEF Closed
  <2> QED
      BY <2>2, <2>3, <2>4
<1>15. procdata'.names = SubSeq(list, 1, k + 1)
  <2>1. Append(SubSeq(list, 1, k), list[k + 1]) = SubSeq(list, 1, k + 1)
      BY <1>3, <1>7 DEF n
  <2> QED
      BY <1>5, <1>14, <2>1 DEF path
<1>16. Standing(v)'
  <2>1. Len(path) \in Nat /\ v.oldpath = path
      BY <1>9, <1>10
  <2> QED
      BY <1>12, <1>14, <2>1 DEF Standing
<1>17. file'[i] = file[i] /\ given'[i] = given[i] /\ Final(i)'
    BY <1>1, <1>3, <1>14 DEF updateVars, Final
<1>18. ReadSoFar'
    BY <1>4, <1>8, <1>14, <1>15, <1>16, <1>17 DEF ReadSoFar, v, list, n
<1>19. ReadInv'
    BY <1>3, <1>13, <1>14, <1>17, <1>18 DEF ReadInv
<1>20. ReadStep
  <2>1. /\ Reading = list /\ Reading' = list /\ Got = procdata.names
        /\ Got' = Append(Got, path)
      BY <1>1, <1>13, <1>14, <1>17 DEF Reading, Got, Reads, list
  <2>2. Len(Got) = k
      BY <1>3, <1>5, <1>7, <2>1 DEF n
  <2> QED
      BY <1>7, <2>1, <2>2 DEF ReadStep, path, n
<1> QED
    BY <1>2, <1>19, <1>20, ReadStepMaps DEF AtomicInv

\* At the start, the database in place is one that frcode came through.
LEMMA AtomicInit ==
    ASSUME SystemWritten, LocateInit
    PROVE  AtomicInv /\ AtomicDb!DbInit
<1>1. UpdateInv
    BY UpdateInit
<1>2. phase = "next" /\ procdata = Closed
    BY DEF LocateInit
<1>3. ReadInv
    BY <1>2 DEF ReadInv, Closed
<1>4. given[locate_db] \in Seq(Path)
    BY <1>1 DEF UpdateInv, Shape
<1>5. shell = "none"
    BY DEF LocateInit, UpdatedbInit
<1> QED
    BY <1>1, <1>2, <1>3, <1>4, <1>5 DEF AtomicInv, AtomicDb!DbInit, Reads

\* Every step is one of LocateDb's, or none of its business.
LEMMA AtomicStep ==
    ASSUME AtomicInv, [Next]_locateDbVars
    PROVE  AtomicInv' /\ Maps
<1>1. CASE NextDatabase
    BY <1>1, NextDatabaseRefines
<1>2. CASE ReadHeader
    BY <1>2, ReadHeaderRefines
<1>3. CASE VisitEntry
    BY <1>3, StaticEntryRefines, SystemEntryRefines
<1>4. CASE Finish \/ EndOfFile \/ Close
    BY <1>4, RestRefines
<1>5. CASE UpdatedbNext(format) /\ UNCHANGED locateVars
    BY <1>5, UpdateRefines
<1>6. CASE UNCHANGED locateDbVars
  <2>1. UNCHANGED updateVars /\ UNCHANGED <<format, procdata, phase>>
      BY <1>6 DEF locateDbVars, locateVars
  <2>2. UpdateInv' /\ InPlace' = InPlace /\ Building' = Building /\ Ready' = Ready
      BY <2>1, UpdateInvStays
  <2>3. ReadInv' /\ ReadStep
    <3>1. ReadSoFar => ReadSoFar'
        BY <2>1 DEF ReadSoFar, Standing, updateVars
    <3> QED
        BY <2>1, <3>1 DEF AtomicInv, ReadInv, ReadStep, Reading, Got, Reads, updateVars, Final
  <2> QED
      BY <2>2, <2>3, ReadStepMaps DEF AtomicInv
<1> QED
    BY <1>1, <1>2, <1>3, <1>4, <1>5, <1>6 DEF Next, LocateNext

\* updatedb.sh: "To avoid breaking locate while this script is running, put the
\* results in a temp file, then rename it atomically."  Whatever paths there
\* are and in whatever order they come, however often updatedb is started,
\* fails, or is killed with its frcode left running: locate reads of the
\* database the paths of one whole update, each as it was given.
THEOREM UpdatesAreAtomic ==
    ASSUME SystemWritten
    PROVE  Spec => ImplementsLocateDb
<1>1. LocateInit => AtomicInv /\ AtomicDb!DbInit
    BY AtomicInit
<1>2. AtomicInv /\ [Next]_locateDbVars => AtomicInv' /\ [AtomicDb!DbNext]_(AtomicDb!dbVars)
    BY AtomicStep DEF Maps
<1> QED
    BY <1>1, <1>2, PTL DEF Spec, ImplementsLocateDb, AtomicDb!DbSpec

------------------------------------------------------------------------------
(* The old format.                                                         *)

Half == (WordBase * WordBase) \div 2

OldWriterType ==
    [oldpath : Seq(Char), oldcount : Nat, slocate_compat : {FALSE}, aborted : BOOLEAN,
     bytes : Seq(Nat)]

\* v is the writer w after one more path.
OldPart(w, v, path) ==
    LET c == OldCount(v.oldcount - w.oldcount)
        at == Len(w.bytes)
        m == Len(path) - v.oldcount
    IN /\ v.oldpath = path /\ v.oldcount = PrefixLength(w.oldpath, path)
       /\ v.oldcount \in 0 .. Len(path) /\ v.oldcount <= Len(w.oldpath)
       /\ Len(v.bytes) = at + Len(c) + m
       /\ \A i \in 1 .. at : v.bytes[i] = w.bytes[i]
       /\ \A i \in 1 .. Len(c) : v.bytes[at + i] = c[i]
       /\ \A i \in 1 .. m : /\ v.bytes[at + Len(c) + i] = OldChar(path[v.oldcount + i])
                              /\ v.bytes[at + Len(c) + i] > OldEscape

\* The sizes of the old format.
LEMMA OldSizes ==
    /\ OldOffset \in Nat \ {0} /\ WordBase \in Nat \ {0} /\ Half \in Nat
    /\ OldEscape = 2 * OldOffset + 2 /\ OldEscape \in Nat
BY FrCodeAssumption DEF FrCodeAssumption, Half, OldEscape

\* The count bytes of an entry, and what they say.
LEMMA OldCountIs ==
    ASSUME NEW d \in Int, -Half <= d + OldOffset, d + OldOffset < Half
    PROVE  /\ OldCount(d) \in Seq(Nat) /\ OldCount(d)[1] <= OldEscape
           /\ \/ /\ Len(OldCount(d)) = 1 /\ OldCount(d)[1] # OldEscape
                 /\ OldCount(d)[1] = d + OldOffset
              \/ /\ Len(OldCount(d)) = 3 /\ OldCount(d)[1] = OldEscape
                 /\ WordValue(OldCount(d)[2], OldCount(d)[3]) = d + OldOffset
                 /\ ~(d \in -OldOffset .. OldOffset)
<1> USE OldSizes
<1>1. CASE d \in -OldOffset .. OldOffset
  <2>1. OldCount(d) = <<d + OldOffset>>
      BY <1>1 DEF OldCount
  <2>2. d + OldOffset \in Nat /\ d + OldOffset < OldEscape
      BY <1>1
  <2> QED
      BY <2>1, <2>2
<1>2. CASE ~(d \in -OldOffset .. OldOffset)
  <2> DEFINE n == d + OldOffset
             high == (n \div WordBase) % WordBase
             low == n % WordBase
             p == <<high, low>>
             e == <<OldEscape>>
  <2>1. OldCount(d) = e \o p
      BY <1>2 DEF OldCount, PutWord
  <2>2. n \in Int /\ -Half <= n /\ n < Half
      OBVIOUS
  <2> HIDE DEF n
  <2>3. /\ high \in 0 .. WordBase - 1 /\ low \in 0 .. WordBase - 1
        /\ Signed(high * WordBase + low, WordBase * WordBase) = n
      BY <2>2, WordReadsBack DEF Half
  <2>4. WordValue(high, low) = n /\ high \in Nat /\ low \in Nat
      BY <2>3 DEF WordValue
  <2> HIDE DEF high, low
  <2>5. p \in Seq(Nat) /\ Len(p) = 2 /\ p[1] = high /\ p[2] = low
      BY <2>4
  <2>6. e \in Seq(Nat) /\ Len(e) = 1 /\ e[1] = OldEscape
      OBVIOUS
  <2> HIDE DEF p, e
  <2>7. /\ e \o p \in Seq(Nat) /\ Len(e \o p) = Len(e) + Len(p)
        /\ \A i \in 1 .. Len(e) : (e \o p)[i] = e[i]
        /\ \A i \in 1 .. Len(p) : (e \o p)[Len(e) + i] = p[i]
    <3>1. p \in Seq(Nat) /\ e \in Seq(Nat)
        BY <2>5, <2>6
    <3> QED
        BY ONLY <3>1, ConcatIs
  <2>8. /\ Len(e \o p) = 3 /\ (e \o p)[1] = OldEscape /\ (e \o p)[2] = high
        /\ (e \o p)[3] = low
      BY <2>5, <2>6, <2>7
  <2>9. WordValue((e \o p)[2], (e \o p)[3]) = d + OldOffset
      BY <2>4, <2>8 DEF n
  <2> QED
      BY <1>2, <2>1, <2>7, <2>8, <2>9
<1> QED
    BY <1>1, <1>2

\* code puts out an entry behind what it has put out.
LEMMA OldPartIs ==
    ASSUME NEW w \in OldWriterType, w.oldcount <= Half,
           NEW path \in Seq(Char), Len(path) + OldOffset < Half,
           NEW v, v = CodePath(w, path)
    PROVE  v \in OldWriterType /\ v.oldcount <= Half /\ OldPart(w, v, path)
<1> DEFINE count == PrefixLength(w.oldpath, path)
           d == count - w.oldcount
           c == OldCount(d)
           m == Len(path) - count
           text == [i \in 1 .. m |-> OldChar(path[count + i])]
           all == (w.bytes \o c) \o text
<1>1. PICK p \in Seq(Char), n \in Nat, a \in BOOLEAN, b \in Seq(Nat) :
           w = [oldpath |-> p, oldcount |-> n, slocate_compat |-> FALSE, aborted |-> a,
                bytes |-> b]
    BY DEF OldWriterType
<1>2. v = [oldpath |-> path, oldcount |-> count, slocate_compat |-> FALSE, aborted |-> a,
           bytes |-> all]
  <2>1. v = [w EXCEPT !.oldpath = path, !.oldcount = count,
                      !.bytes = (@ \o c) \o text]
      BY DEF CodePath
  <2> HIDE DEF count, c, text
  <2> QED
      BY <1>1, <2>1
<1>3. count \in 0 .. Len(p) /\ count <= Len(path) /\ Len(path) \in Nat
  <2>1. w.oldpath \in Seq(Char)
      BY <1>1
  <2> QED
      BY <1>1, <2>1, PrefixIs
<1> HIDE DEF count
<1>4. d \in Int /\ -Half <= d + OldOffset /\ d + OldOffset < Half /\ count <= Half
      /\ m \in Nat
    BY <1>1, <1>3, OldSizes
<1>5. c \in Seq(Nat)
    BY <1>4, OldCountIs
<1>6. /\ text \in Seq(Nat) /\ Len(text) = m
      /\ \A i \in 1 .. m : text[i] = OldChar(path[count + i]) /\ text[i] > OldEscape
  <2>1. ASSUME NEW i \in 1 .. m PROVE OldChar(path[count + i]) \in Nat /\ OldChar(path[count + i]) > OldEscape
    <3>1. count + i \in 1 .. Len(path)
        BY <1>3
    <3>2. path[count + i] \in Char
        BY <3>1
    <3>3. path[count + i] \in Nat \ {0}
        BY <3>2, ByteFacts DEF Char
    <3> QED
        BY <3>3, OldSizes DEF OldChar
  <2> QED
      BY <1>4, <2>1
<1> HIDE DEF c, text, m, d
<1>7. PICK bc \in Seq(Nat) : IsConcat(bc, w.bytes, c)
    BY <1>1, <1>5, ConcatIs DEF IsConcat
<1>8. all \in Seq(Nat) /\ IsConcat(all, bc, text)
    BY <1>6, <1>7, ConcatIs DEF IsConcat
<1> HIDE DEF all
<1>9. /\ Len(bc) = Len(b) + Len(c) /\ Len(b) \in Nat /\ Len(c) \in Nat
      /\ \A i \in 1 .. Len(b) : bc[i] = b[i]
      /\ \A i \in 1 .. Len(c) : bc[Len(b) + i] = c[i]
    BY <1>1, <1>5, <1>7, ConcatIs DEF IsConcat
<1>10. /\ Len(all) = Len(bc) + m
       /\ \A i \in 1 .. Len(bc) : all[i] = bc[i]
       /\ \A i \in 1 .. m : all[Len(bc) + i] = text[i]
  <2>1. bc \in Seq(Nat) /\ text \in Seq(Nat)
      BY <1>6, <1>7
  <2>4. Len(text) = m
      BY <1>6
  <2>2. all = bc \o text
      BY <1>8 DEF IsConcat
  <2>3. /\ Len(bc \o text) = Len(bc) + Len(text)
        /\ \A i \in 1 .. Len(bc) : (bc \o text)[i] = bc[i]
        /\ \A i \in 1 .. Len(text) : (bc \o text)[Len(bc) + i] = text[i]
      BY ONLY <2>1, ConcatIs
  <2> QED
      BY ONLY <2>2, <2>3, <2>4
<1>11. Len(all) = Len(b) + Len(c) + m
    BY <1>4, <1>9, <1>10
<1>12. ASSUME NEW i \in 1 .. Len(b) PROVE all[i] = b[i]
  <2>1. i \in 1 .. Len(bc)
      BY <1>9
  <2> QED
      BY <1>9, <1>10, <2>1
<1>13. ASSUME NEW i \in 1 .. Len(c) PROVE all[Len(b) + i] = c[i]
  <2>1. Len(b) + i \in 1 .. Len(bc)
      BY <1>9
  <2> QED
      BY <1>9, <1>10, <2>1
<1>14. ASSUME NEW i \in 1 .. m
       PROVE  /\ all[Len(b) + Len(c) + i] = OldChar(path[count + i])
              /\ all[Len(b) + Len(c) + i] > OldEscape
    BY <1>6, <1>9, <1>10
<1>15. v.oldpath = path /\ v.oldcount = count /\ v.bytes = all
       /\ OldCount(v.oldcount - w.oldcount) = c
    BY <1>2 DEF c, d
<1>16. v \in OldWriterType
    BY <1>2, <1>3, <1>8 DEF OldWriterType
<1>17. w.bytes = b /\ w.oldpath = p
    BY <1>1
<1>18. OldPart(w, v, path)
    BY <1>3, <1>11, <1>12, <1>13, <1>14, <1>15, <1>17 DEF OldPart, count, m
<1> QED
    BY <1>4, <1>15, <1>16, <1>18

\* w is what code is after each path of a list.
OldRun(w, list) ==
    /\ w[0] = Fresh(FALSE)
    /\ \A k \in 1 .. Len(list) : w[k] = CodePath(w[k - 1], list[k])

Short(list) == \A k \in 1 .. Len(list) : Len(list[k]) + OldOffset < Half

\* In a run every step is an entry.
LEMMA OldRunIs ==
    ASSUME NEW list \in Seq(Seq(Char)), Short(list), NEW w, OldRun(w, list)
    PROVE  /\ \A k \in 0 .. Len(list) : w[k] \in OldWriterType /\ w[k].oldcount <= Half
           /\ \A k \in 1 .. Len(list) : OldPart(w[k - 1], w[k], list[k])
<1> DEFINE Ok(k) == w[k] \in OldWriterType /\ w[k].oldcount <= Half
           bad == {k \in 0 .. Len(list) : ~Ok(k)}
<1>1. Ok(0)
    BY OldSizes DEF OldRun, Fresh, OldWriterType
<1>2. ASSUME NEW k \in 1 .. Len(list), Ok(k - 1) PROVE Ok(k) /\ OldPart(w[k - 1], w[k], list[k])
  <2>1. list[k] \in Seq(Char) /\ Len(list[k]) + OldOffset < Half
      BY DEF Short
  <2>2. w[k] = CodePath(w[k - 1], list[k])
      BY DEF OldRun
  <2> QED
      BY <1>2, <2>1, <2>2, OldPartIs
<1> HIDE DEF Ok
<1>3. ASSUME bad # {} PROVE FALSE
  <2>1. bad \subseteq Nat
      OBVIOUS
  <2>2. PICK k \in bad : \A j \in bad : k <= j
      BY <1>3, <2>1, MinIsLeast
  <2>3. k \in 0 .. Len(list) /\ k # 0
      BY <1>1
  <2>4. k \in 1 .. Len(list) /\ k - 1 \in 0 .. Len(list) /\ k - 1 < k
      BY <2>3
  <2>5. Ok(k - 1)
      BY <2>2, <2>4
  <2> QED
      BY <1>2, <2>4, <2>5
<1>4. \A k \in 0 .. Len(list) : Ok(k)
    BY <1>3
<1>5. ASSUME NEW k \in 1 .. Len(list) PROVE OldPart(w[k - 1], w[k], list[k])
  <2>1. k - 1 \in 0 .. Len(list)
      OBVIOUS
  <2> QED
      BY <1>2, <1>4, <2>1
<1> QED
    BY <1>4, <1>5 DEF Ok

\* The bytes only grow.
LEMMA OldRunGrows ==
    ASSUME NEW list \in Seq(Seq(Char)), Short(list), NEW w, OldRun(w, list),
           NEW k \in 0 .. Len(list)
    PROVE  Prolongs(w[k].bytes, w[Len(list)].bytes)
<1> DEFINE n == Len(list)
           b == [j \in 0 .. n |-> w[j].bytes]
<1>1. ASSUME NEW j \in 0 .. n PROVE b[j] = w[j].bytes /\ b[j] \in Seq(Nat) /\ Len(b[j]) \in Nat
  <2>1. w[j] \in OldWriterType
      BY OldRunIs
  <2>2. w[j].bytes \in Seq(Nat)
      BY <2>1 DEF OldWriterType
  <2> QED
      BY <2>2
<1>2. ASSUME NEW j \in 1 .. n PROVE Prolongs(b[j - 1], b[j])
  <2>1. j - 1 \in 0 .. n /\ j \in 0 .. n
      OBVIOUS
  <2>2. OldPart(w[j - 1], w[j], list[j])
      BY OldRunIs
  <2> DEFINE old == w[j - 1].bytes
             new == w[j].bytes
  <2>3. b[j - 1] = old /\ b[j] = new /\ Len(old) \in Nat /\ Len(new) \in Nat
      BY <1>1, <2>1
  <2>4. \A i \in 1 .. Len(old) : new[i] = old[i]
      BY <2>2 DEF OldPart
  <2>5. Len(old) <= Len(new)
    <3> DEFINE c == OldCount(w[j].oldcount - w[j - 1].oldcount)
               m == Len(list[j]) - w[j].oldcount
    <3>1. Len(new) = Len(old) + Len(c) + m
        BY <2>2 DEF OldPart
    <3>2. m \in Nat
      <4>1. list[j] \in Seq(Char) /\ w[j].oldcount \in 0 .. Len(list[j])
          BY <2>2 DEF OldPart
      <4> QED
          BY <4>1
    <3>3. Len(c) \in Nat
      <4>1. CASE w[j].oldcount - w[j - 1].oldcount \in -OldOffset .. OldOffset
          BY <4>1 DEF OldCount
      <4>2. CASE ~(w[j].oldcount - w[j - 1].oldcount \in -OldOffset .. OldOffset)
          BY <4>2 DEF OldCount, PutWord
      <4> QED
          BY <4>1, <4>2
    <3> HIDE DEF c, m, old, new
    <3> QED
        BY <2>3, <3>1, <3>2, <3>3
  <2> HIDE DEF b, old, new
  <2> QED
      BY <2>3, <2>4, <2>5 DEF Prolongs
<1>3. n \in Nat /\ k \in 0 .. n /\ n \in 0 .. n
    OBVIOUS
<1> HIDE DEF b, n
<1>4. Growing(b, n)
    BY <1>1, <1>2 DEF Growing
<1>5. Prolongs(b[k], b[n])
    BY <1>3, <1>4, Grows
<1>6. b[k] = w[k].bytes /\ b[n] = w[n].bytes
    BY <1>1, <1>3
<1> QED
    BY <1>5, <1>6 DEF n

\* The count bytes of the k-th entry.
CountOf(w, k) == OldCount(w[k].oldcount - w[k - 1].oldcount)

LEMMA CountOfIs ==
    ASSUME NEW list \in Seq(Seq(Char)), Short(list), NEW w, OldRun(w, list),
           NEW k \in 1 .. Len(list)
    PROVE  LET d == w[k].oldcount - w[k - 1].oldcount
           IN /\ d \in Int /\ CountOf(w, k) \in Seq(Nat) /\ CountOf(w, k)[1] <= OldEscape
              /\ Len(CountOf(w, k)) \in {1, 3}
              /\ \/ /\ Len(CountOf(w, k)) = 1 /\ CountOf(w, k)[1] # OldEscape
                    /\ CountOf(w, k)[1] = d + OldOffset
                 \/ /\ Len(CountOf(w, k)) = 3 /\ CountOf(w, k)[1] = OldEscape
                    /\ WordValue(CountOf(w, k)[2], CountOf(w, k)[3]) = d + OldOffset
                    /\ ~(d \in -OldOffset .. OldOffset)
<1> DEFINE d == w[k].oldcount - w[k - 1].oldcount
<1>1. k - 1 \in 0 .. Len(list) /\ k \in 0 .. Len(list)
    OBVIOUS
<1>2. w[k - 1] \in OldWriterType /\ w[k - 1].oldcount <= Half /\ OldPart(w[k - 1], w[k], list[k])
    BY <1>1, OldRunIs
<1>3. w[k - 1].oldcount \in Nat /\ w[k].oldcount \in 0 .. Len(list[k])
    BY <1>2 DEF OldWriterType, OldPart
<1>4. Len(list[k]) + OldOffset < Half /\ Len(list[k]) \in Nat
  <2>1. list[k] \in Seq(Char)
      OBVIOUS
  <2> QED
      BY <2>1 DEF Short
<1>5. d \in Int /\ -Half <= d + OldOffset /\ d + OldOffset < Half
  <2> DEFINE x == w[k - 1].oldcount
             y == w[k].oldcount
             z == Len(list[k])
  <2>1. x \in Nat /\ x <= Half /\ y \in 0 .. z /\ z + OldOffset < Half /\ z \in Nat
      BY <1>2, <1>3, <1>4
  <2> HIDE DEF x, y, z
  <2>2. y - x \in Int /\ -Half <= y - x + OldOffset /\ y - x + OldOffset < Half
      BY ONLY <2>1, OldSizes
  <2> QED
      BY <2>2 DEF x, y
<1> HIDE DEF d
<1>6. CountOf(w, k) = OldCount(d)
    BY DEF CountOf, d
<1> QED
    BY <1>5, <1>6, OldCountIs DEF d

\* b are the bytes of all of w.
IsBytes(b, w, list) == b = w[Len(list)].bytes

\* Where the text of the k-th entry begins, and where it ends.
OldTextAt(w, k) == Len(w[k - 1].bytes) + Len(CountOf(w, k)) + 1
OldEnd(b, text) == Min({j \in text .. Len(b) : b[j] <= OldEscape} \cup {Len(b) + 1})

\* The bytes of the k-th entry as they stand in the file.
InFile(b, w, list, k) ==
    LET at == Len(w[k - 1].bytes)
        c == CountOf(w, k)
        m == Len(list[k]) - w[k].oldcount
    IN /\ b \in Seq(Nat) /\ Len(b) \in Nat /\ at \in Nat /\ m \in Nat
       /\ Len(c) \in Nat /\ Len(c) >= 1
       /\ Len(w[k].bytes) = at + Len(c) + m /\ at + Len(c) + m <= Len(b)
       /\ \A i \in 1 .. Len(c) : b[at + i] = c[i]
       /\ \A i \in 1 .. m : /\ b[at + Len(c) + i] = OldChar(list[k][w[k].oldcount + i])
                              /\ b[at + Len(c) + i] > OldEscape

LEMMA OldPartInFile ==
    ASSUME NEW list \in Seq(Seq(Char)), Short(list), NEW w, OldRun(w, list),
           NEW k \in 1 .. Len(list), NEW b, IsBytes(b, w, list)
    PROVE  InFile(b, w, list, k)
<1> DEFINE at == Len(w[k - 1].bytes)
           c == CountOf(w, k)
           m == Len(list[k]) - w[k].oldcount
           v == w[k].bytes
<1>1. k - 1 \in 0 .. Len(list) /\ k \in 0 .. Len(list) /\ Len(list) \in 0 .. Len(list)
    OBVIOUS
<1>2. OldPart(w[k - 1], w[k], list[k])
    BY <1>1, OldRunIs
<1>3. /\ Len(v) = at + Len(c) + m
      /\ \A i \in 1 .. Len(c) : v[at + i] = c[i]
      /\ \A i \in 1 .. m : /\ v[at + Len(c) + i] = OldChar(list[k][w[k].oldcount + i])
                             /\ v[at + Len(c) + i] > OldEscape
    BY <1>2 DEF OldPart, CountOf
<1>4. at \in Nat /\ b \in Seq(Nat) /\ Len(b) \in Nat
  <2>1. w[k - 1] \in OldWriterType /\ w[Len(list)] \in OldWriterType
      BY <1>1, OldRunIs
  <2>2. w[k - 1].bytes \in Seq(Nat) /\ w[Len(list)].bytes \in Seq(Nat)
      BY <2>1 DEF OldWriterType
  <2> QED
      BY <2>2 DEF IsBytes
<1>5. Len(c) \in Nat /\ Len(c) >= 1
  <2> DEFINE n == Len(c)
  <2>1. n \in {1, 3}
      BY CountOfIs
  <2> HIDE DEF n
  <2>2. n \in Nat /\ n >= 1
      BY <2>1
  <2> QED
      BY <2>2 DEF n
<1>6. m \in Nat
  <2>1. list[k] \in Seq(Char) /\ w[k].oldcount \in 0 .. Len(list[k])
      BY <1>2 DEF OldPart
  <2> QED
      BY <2>1
<1>7. Len(v) <= Len(b) /\ \A i \in 1 .. Len(v) : b[i] = v[i]
    BY <1>1, OldRunGrows DEF Prolongs, IsBytes
<1> HIDE DEF at, c, m, v
<1>8. ASSUME NEW i \in 1 .. Len(c) PROVE b[at + i] = c[i]
  <2>1. at + i \in 1 .. Len(v)
      BY <1>3, <1>4, <1>5, <1>6
  <2> QED
      BY <1>3, <1>7, <2>1
<1>9. ASSUME NEW i \in 1 .. m
      PROVE  /\ b[at + Len(c) + i] = OldChar(list[k][w[k].oldcount + i])
             /\ b[at + Len(c) + i] > OldEscape
  <2>1. at + Len(c) + i \in 1 .. Len(v)
      BY <1>3, <1>4, <1>5, <1>6
  <2> QED
      BY <1>3, <1>7, <2>1
<1> QED
    BY <1>3, <1>4, <1>5, <1>6, <1>7, <1>8, <1>9 DEF at, c, m, v, InFile

\* The text of an entry ends before the next count byte, or with the file.
LEMMA OldEndIs ==
    ASSUME NEW list \in Seq(Seq(Char)), Short(list), NEW w, OldRun(w, list),
           NEW k \in 1 .. Len(list), NEW b, IsBytes(b, w, list)
    PROVE  OldEnd(b, OldTextAt(w, k)) = Len(w[k].bytes) + 1
<1> DEFINE at == Len(w[k - 1].bytes)
           c == CountOf(w, k)
           m == Len(list[k]) - w[k].oldcount
           text == OldTextAt(w, k)
           end == Len(w[k].bytes) + 1
           ends == {j \in text .. Len(b) : b[j] <= OldEscape} \cup {Len(b) + 1}
<1>1. /\ b \in Seq(Nat) /\ Len(b) \in Nat /\ at \in Nat /\ Len(c) \in Nat /\ Len(c) >= 1 /\ m \in Nat
      /\ Len(w[k].bytes) = at + Len(c) + m /\ at + Len(c) + m <= Len(b)
      /\ \A i \in 1 .. m : b[at + Len(c) + i] > OldEscape
    BY OldPartInFile DEF InFile
<1>2. text = at + Len(c) + 1
    BY DEF OldTextAt
<1> DEFINE stops == end \in ends
<1>3. end = at + Len(c) + m + 1
    BY <1>1
<1>4. stops
  <2>1. CASE k = Len(list)
    <3>1. end = Len(b) + 1
        BY <2>1 DEF IsBytes
    <3> QED
        BY <3>1
  <2>2. CASE k # Len(list)
    <3>1. k + 1 \in 1 .. Len(list) /\ (k + 1) - 1 = k
        BY <2>2
    <3> DEFINE x == Len(w[(k + 1) - 1].bytes)
               y == CountOf(w, k + 1)
               z == Len(list[k + 1]) - w[k + 1].oldcount
    <3>2. /\ x \in Nat /\ Len(y) \in Nat /\ Len(y) >= 1 /\ z \in Nat
          /\ x + Len(y) + z <= Len(b)
          /\ \A i \in 1 .. Len(y) : b[x + i] = y[i]
      <4>1. InFile(b, w, list, k + 1)
          BY <3>1, OldPartInFile
      <4> QED
          BY <4>1 DEF InFile
    <3>3. y[1] <= OldEscape
        BY <3>1, CountOfIs
    <3>4. end = x + 1
        BY <3>1
    <3> HIDE DEF x, y, z, end, ends, text, at, c, m
    <3>5. end \in text .. Len(b)
      <4>1. at \in Nat /\ Len(c) \in Nat /\ m \in Nat /\ Len(b) \in Nat
          BY <1>1
      <4>2. x \in Nat /\ Len(y) \in Nat /\ Len(y) >= 1 /\ z \in Nat /\ x + Len(y) + z <= Len(b)
          BY <3>2
      <4> QED
          BY ONLY <1>2, <1>3, <3>4, <4>1, <4>2
    <3>6. b[end] <= OldEscape
      <4>1. 1 \in 1 .. Len(y)
          BY <3>2
      <4>2. b[x + 1] = y[1]
          BY <3>2, <4>1
      <4> QED
          BY <3>3, <3>4, <4>2
    <3> QED
        BY <3>5, <3>6 DEF ends
  <2> QED
      BY <2>1, <2>2
<1> HIDE DEF at, c, m, text, end
<1>5. ASSUME NEW j \in ends, j < end PROVE FALSE
  <2>1. j \in text .. Len(b) /\ b[j] <= OldEscape
      BY <1>1, <1>3, <1>5
  <2> DEFINE i == j - text + 1
  <2>2. i \in 1 .. m /\ j = at + Len(c) + i
      BY <1>1, <1>2, <1>3, <1>5, <2>1
  <2>3. b[j] > OldEscape
      BY <1>1, <2>2
  <2>4. b[j] \in Nat
    <3>1. j \in 1 .. Len(b)
        BY <1>1, <1>2, <2>1
    <3> QED
        BY <1>1, <3>1
  <2> QED
      BY <2>1, <2>3, <2>4, OldSizes
<1>6. ends \subseteq Nat /\ ends # {}
    BY <1>1, <1>2
<1>7. OldEnd(b, text) = Min(ends)
    BY DEF OldEnd
<1> HIDE DEF ends
<1>8. Min(ends) \in ends /\ Min(ends) <= end
    BY <1>4, <1>6, MinIsLeast
<1>9. Min(ends) = end
  <2>1. Min(ends) \in Nat /\ end \in Nat
      BY <1>4, <1>6, <1>8
  <2> QED
      BY <1>5, <1>8, <2>1
<1> QED
    BY <1>7, <1>9 DEF text, end

\* locate is where the writer w was, and has not taken the bytes to be swapped.
OldStanding(w) ==
    /\ DOMAIN procdata = DOMAIN Closed
    /\ procdata.pos = Len(w.bytes) + 1 /\ procdata.count = w.oldcount
    /\ procdata.len = Len(w.oldpath) /\ procdata.endian \in {"initial", "native"}

\* The prefix the k-th path shares with the one before, and where a long count
\* is more than getword is told to expect.
SharedBy(list, k) == IF k = 1 THEN 0 ELSE PrefixLength(list[k - 1], list[k])

Telltale(list, k) ==
    /\ k \in 2 .. Len(list)
    /\ SharedBy(list, k - 1) < OldOffset
    /\ SharedBy(list, k) - SharedBy(list, k - 1) > OldOffset
    /\ SharedBy(list, k) - SharedBy(list, k - 1) + OldOffset > Len(list[k - 1])

\* The counts of a run are the prefixes that are shared.
LEMMA CountsAreShared ==
    ASSUME NEW list \in Seq(Seq(Char)), Short(list), NEW w, OldRun(w, list),
           NEW k \in 1 .. Len(list)
    PROVE  /\ w[k].oldcount = SharedBy(list, k) /\ w[k].oldpath = list[k]
           /\ w[k].oldcount \in Nat /\ w[k - 1].oldcount \in Nat
           /\ Len(w[k - 1].oldpath) \in Nat /\ w[k].oldcount <= Len(w[k - 1].oldpath)
           /\ k = 1 => w[0].oldcount = 0 /\ w[1].oldcount = 0
<1>1. k \in Nat /\ k - 1 \in 0 .. Len(list) /\ k \in 0 .. Len(list)
    OBVIOUS
<1>2. OldPart(w[k - 1], w[k], list[k]) /\ w[k - 1] \in OldWriterType /\ w[k] \in OldWriterType
    BY <1>1, OldRunIs
<1>3. /\ w[k].oldpath = list[k] /\ w[k].oldcount = PrefixLength(w[k - 1].oldpath, list[k])
      /\ w[k].oldcount <= Len(w[k - 1].oldpath)
    BY <1>2 DEF OldPart
<1>4. w[k - 1].oldpath \in Seq(Char) /\ w[k].oldcount \in Nat /\ w[k - 1].oldcount \in Nat
    BY <1>2 DEF OldWriterType
<1>5. CASE k = 1
  <2>1. w[0] = Fresh(FALSE)
      BY DEF OldRun
  <2>2. w[0].oldpath = <<>> /\ w[0].oldcount = 0
      BY <2>1 DEF Fresh
  <2>3. w[1].oldcount <= 0
      BY <1>3, <1>5, <2>2
  <2> QED
      BY <1>3, <1>4, <1>5, <2>2, <2>3 DEF SharedBy
<1>6. CASE k # 1
  <2>1. k - 1 \in 1 .. Len(list) /\ (k - 1) - 1 \in 0 .. Len(list)
      BY <1>1, <1>6
  <2>2. OldPart(w[(k - 1) - 1], w[k - 1], list[k - 1])
      BY <2>1, OldRunIs
  <2>3. w[k - 1].oldpath = list[k - 1]
      BY <2>2 DEF OldPart
  <2> QED
      BY <1>3, <1>4, <1>6, <2>3 DEF SharedBy
<1> QED
    BY <1>5, <1>6

\* The count of an entry is read as it was written, or is one of those that
\* getword is misled about.
LEMMA OldEntryIs ==
    ASSUME NEW list \in Seq(Seq(Char)), Short(list), NEW w, OldRun(w, list),
           NEW k \in 1 .. Len(list), OldStanding(w[k - 1]), IsBytes(Db.bytes, w, list),
           ~opened[Len(opened)].foreign
    PROVE  \/ Misread /\ Telltale(list, k)
           \/ /\ ~Misread /\ OldEntry.count = w[k].oldcount /\ OldEntry.text = OldTextAt(w, k)
              /\ IsLong => Word.endian \in {"initial", "native"}
<1> DEFINE at == Len(w[k - 1].bytes)
           c == CountOf(w, k)
           x == w[k - 1].oldcount
           y == w[k].oldcount
           l == Len(w[k - 1].oldpath)
           pos == procdata.pos
<1>1. /\ x \in Nat /\ y \in Nat /\ l \in Nat /\ y <= l /\ y = SharedBy(list, k)
      /\ k = 1 => x = 0 /\ y = 0
    BY CountsAreShared
<1>2. pos = at + 1 /\ procdata.count = x /\ procdata.len = l
      /\ procdata.endian \in {"initial", "native"}
    BY DEF OldStanding
<1>3. at \in Nat /\ \A i \in 1 .. Len(c) : Byte(at + i) = c[i]
  <2>1. InFile(Db.bytes, w, list, k)
      BY OldPartInFile
  <2> QED
      BY <2>1 DEF InFile, Byte
<1>4. OldTextAt(w, k) = at + Len(c) + 1
    BY DEF OldTextAt
<1>5. \/ Len(c) = 1 /\ c[1] # OldEscape /\ c[1] = (y - x) + OldOffset
      \/ /\ Len(c) = 3 /\ c[1] = OldEscape
         /\ WordValue(c[2], c[3]) = (y - x) + OldOffset
         /\ ~(y - x \in -OldOffset .. OldOffset)
    BY CountOfIs
<1>6. k \in Nat /\ k >= 1 /\ k <= Len(list)
    OBVIOUS
<1>7. k # 1 => x = SharedBy(list, k - 1) /\ l = Len(list[k - 1])
  <2> SUFFICES ASSUME k # 1 PROVE x = SharedBy(list, k - 1) /\ l = Len(list[k - 1])
      OBVIOUS
  <2>1. k - 1 \in 1 .. Len(list)
      BY <1>6
  <2> QED
      BY <2>1, CountsAreShared
<1>8. OldOffset \in Nat \ {0}
    BY OldSizes
<1> HIDE DEF at, c, x, y, l
<1>9. CASE Len(c) = 1 /\ c[1] # OldEscape /\ c[1] = (y - x) + OldOffset
  <2>1. Byte(pos) = c[1]
      BY <1>2, <1>3, <1>9
  <2>2. ~IsLong /\ ~Misread
      BY <1>9, <2>1 DEF IsLong, Misread
  <2>3. OldEntry.count = procdata.count + Byte(pos) - OldOffset /\ OldEntry.text = pos + 1
      BY <2>2 DEF OldEntry
  <2>4. OldEntry.count = y
      BY <1>1, <1>2, <1>8, <1>9, <2>1, <2>3
  <2>5. OldEntry.text = at + Len(c) + 1
      BY <1>2, <1>3, <1>9, <2>3
  <2> QED
      BY <1>4, <2>2, <2>4, <2>5 DEF y
<1>10. CASE /\ Len(c) = 3 /\ c[1] = OldEscape
            /\ WordValue(c[2], c[3]) = (y - x) + OldOffset
            /\ ~(y - x \in -OldOffset .. OldOffset)
  <2> DEFINE native == Native(pos + 1)
             swap == Swap(pos + 1)
             limit == MaxVal
  <2>1. Byte(pos) = c[1] /\ Byte(pos + 1) = c[2] /\ Byte((pos + 1) + 1) = c[3]
    <3>1. Byte(at + 1) = c[1] /\ Byte(at + 2) = c[2] /\ Byte(at + 3) = c[3]
        BY <1>3, <1>10
    <3>2. pos + 1 = at + 2 /\ (pos + 1) + 1 = at + 3
        BY <1>2, <1>3
    <3> QED
        BY <1>2, <3>1, <3>2
  <2>2. IsLong
      BY <1>10, <2>1 DEF IsLong
  <2>3. native = (y - x) + OldOffset
      BY <1>10, <2>1 DEF Native
  <2>4. limit = IF x - OldOffset >= 0 THEN l - (x - OldOffset) ELSE l
      BY <1>2 DEF MaxVal
  <2>5. Misread <=> Word.value # native
      BY <2>2 DEF Misread
  <2>6. OldEntry.count = x - OldOffset + Word.value /\ OldEntry.text = pos + 3
      BY <1>2, <2>2 DEF OldEntry
  <2>7. \/ Word.value = native /\ Word.endian = "native"
        \/ native > limit /\ swap <= limit /\ Word.value = swap
        \/ ~(native > limit /\ swap <= limit) /\ Word.value = native /\ Word.endian \in {"native", "initial"}
    <3>1. CASE procdata.endian = "native"
        BY <3>1 DEF Word, DecodedWord
    <3>2. CASE procdata.endian = "initial"
        BY <3>2 DEF Word, DecodedWord
    <3> QED
        BY <1>2, <3>1, <3>2
  <2> HIDE DEF native, swap, limit
  <2>8. native \in Int /\ limit \in Int
      BY <1>1, <1>8, <2>3, <2>4
  <2>9. CASE Word.value = native
    <3>1. OldEntry.count = y
        BY <1>1, <1>8, <2>3, <2>6, <2>9
    <3>2. OldEntry.text = at + Len(c) + 1
        BY <1>2, <1>3, <1>10, <2>6
    <3>3. Word.endian \in {"initial", "native"}
        BY <2>7, <2>8, <2>9
    <3> QED
        BY <1>4, <2>5, <2>9, <3>1, <3>2, <3>3 DEF y
  <2>10. CASE Word.value # native
    <3>1. native > limit
        BY <2>7, <2>10
    <3>2. ~(x >= OldOffset)
        BY <1>1, <1>8, <2>3, <2>4, <3>1
    <3>3. limit = l /\ y - x > OldOffset
        BY <1>1, <1>8, <1>10, <2>3, <2>4, <3>1, <3>2
    <3>4. k # 1
        BY <1>1, <1>8, <3>3
    <3>5. y - x + OldOffset > l
        BY <1>1, <1>8, <2>3, <3>1, <3>3
    <3>6. x = SharedBy(list, k - 1) /\ l = Len(list[k - 1]) /\ k \in 2 .. Len(list)
        BY <1>6, <1>7, <3>4
    <3>7. Telltale(list, k)
        BY <1>1, <1>8, <3>2, <3>3, <3>5, <3>6 DEF Telltale
    <3> QED
        BY <2>5, <2>10, <3>7
  <2> QED
      BY <2>9, <2>10
<1> QED
    BY <1>5, <1>9, <1>10

\* Where locate stands after the entry.
LEMMA OldEntryIsRead ==
    ASSUME NEW list \in Seq(Seq(Char)), Short(list), NEW w, OldRun(w, list),
           NEW k \in 1 .. Len(list), OldStanding(w[k - 1]), IsBytes(Db.bytes, w, list),
           ~opened[Len(opened)].foreign, ~Misread
    PROVE  LET e == OldEntry
               r == OldRead(e)
           IN /\ ~(e.count < 0) /\ DOMAIN r = DOMAIN Closed
              /\ r.pos = Len(w[k].bytes) + 1 /\ r.count = w[k].oldcount
              /\ r.len = Len(w[k].oldpath) /\ r.endian \in {"initial", "native"}
<1> DEFINE e == OldEntry
           r == OldRead(e)
           end == OldEnd(Db.bytes, e.text)
           y == w[k].oldcount
           len == e.count + end - e.text
<1>1. e.count = y /\ e.text = OldTextAt(w, k) /\ (IsLong => Word.endian \in {"initial", "native"})
    BY OldEntryIs
<1>2. end = Len(w[k].bytes) + 1
    BY <1>1, OldEndIs
<1>3. y \in Nat /\ w[k].oldpath = list[k]
    BY CountsAreShared
<1>4. len = Len(list[k])
  <2> DEFINE at == Len(w[k - 1].bytes)
             c == Len(CountOf(w, k))
             m == Len(list[k]) - y
             n == Len(list[k])
  <2>1. at \in Nat /\ m \in Nat /\ c \in Nat /\ Len(w[k].bytes) = at + c + m
      BY OldPartInFile DEF InFile
  <2>2. e.text = at + c + 1
      BY <1>1 DEF OldTextAt
  <2>3. n \in Nat
    <3>1. list[k] \in Seq(Char)
        OBVIOUS
    <3> QED
        BY <3>1
  <2>4. m = n - y
      OBVIOUS
  <2>5. end = at + c + m + 1
      BY <1>2, <2>1
  <2> HIDE DEF at, c, m, n, y, end
  <2>6. e.count + end - e.text = n
      BY <1>1, <1>3, <2>1, <2>2, <2>3, <2>4, <2>5
  <2> QED
      BY <2>6 DEF n
<1> DEFINE endian == IF IsLong THEN Word.endian ELSE procdata.endian
<1>5. endian \in {"initial", "native"}
    BY <1>1 DEF OldStanding
<1>6. DOMAIN procdata = DOMAIN Closed
    BY DEF OldStanding
<1> DEFINE stop == Min({j \in e.text .. Len(Db.bytes) : Byte(j) <= OldEscape}
                       \cup {Len(Db.bytes) + 1})
<1>7. stop = end
    BY DEF OldEnd, Byte
<1>8. \E b : r = [procdata EXCEPT !.count = e.count, !.len = e.count + stop - e.text,
                                  !.pos = stop, !.buf = b, !.endian = endian]
    BY DEF OldRead
<1> HIDE DEF stop, end, endian, y, e, r
<1>9. PICK b : r = [procdata EXCEPT !.count = e.count, !.len = e.count + stop - e.text,
                                    !.pos = stop, !.buf = b, !.endian = endian]
    BY <1>8
<1>10. /\ DOMAIN r = DOMAIN Closed /\ r.pos = stop /\ r.count = e.count
       /\ r.len = e.count + stop - e.text /\ r.endian = endian
    BY <1>6, <1>9 DEF Closed
<1>11. ~(e.count < 0)
    BY <1>1, <1>3
<1> QED
    BY <1>1, <1>2, <1>3, <1>4, <1>5, <1>7, <1>10, <1>11 DEF y, e, r

------------------------------------------------------------------------------
(* The guess of the byte order.                                            *)

\* The book kept of the databases read.
LEMMA AppendIs ==
    ASSUME NEW S, NEW s \in Seq(S), NEW x
    PROVE  /\ \E T : Append(s, x) \in Seq(T)
           /\ Len(Append(s, x)) = Len(s) + 1 /\ Len(s) \in Nat
           /\ Append(s, x)[Len(s) + 1] = x
           /\ \A i \in 1 .. Len(s) : Append(s, x)[i] = s[i]
<1> DEFINE T == S \cup {x}
<1>1. s \in Seq(T) /\ x \in T
    OBVIOUS
<1> HIDE DEF T
<1>2. /\ Append(s, x) \in Seq(T)
      /\ Len(Append(s, x)) = Len(s) + 1 /\ Len(s) \in Nat
      /\ Append(s, x)[Len(s) + 1] = x
      /\ \A i \in 1 .. Len(s) : Append(s, x)[i] = s[i]
    BY <1>1
<1> QED
    BY <1>2

\* A database that is not updatedb's, in the old format.
StaticOld == procdata.inode = NoFile /\ dbpath[dbi].file.format = "old"

\* The open database stands in the path, and last in the book.
AtDatabase ==
    /\ \E s \in Scenarios : dbpath = s.dbpath
    /\ dbi \in Nat /\ \E S : opened \in Seq(S)
    /\ phase \in {"header", "entries"} =>
          /\ dbi \in 1 .. Len(dbpath)
          /\ procdata.inode = NoFile => dbpath[dbi].kind \notin {"missing", "system"}
    /\ phase = "header" => \E i : procdata = [Closed EXCEPT !.inode = i]
    /\ phase = "entries" /\ StaticOld =>
          /\ Len(opened) >= 1
          /\ opened[Len(opened)] = [list |-> dbpath[dbi].list, format |-> "old",
                                    foreign |-> dbpath[dbi].foreign]

\* Where locate stands in a database of this machine that it has not misread.
OldSoFar ==
    phase = "entries" /\ StaticOld /\ ~misread /\ ~dbpath[dbi].foreign =>
        LET list == dbpath[dbi].list
        IN \E w : /\ OldRun(w, list) /\ IsBytes(dbpath[dbi].file.bytes, w, list)
                  /\ \E k \in 0 .. Len(list) : OldStanding(w[k])

GuessInv == AtDatabase /\ OldSoFar /\ GuessIsSound

\* Writers in the old format is a run of code.
LEMMA WritersOldRun ==
    ASSUME NEW list \in Seq(Seq(Char))
    PROVE  OldRun(Writers("old", list), list)
<1> DEFINE w == Writers("old", list)
<1>1. w = [k \in 0 .. Len(list) |-> IF k = 0 THEN Fresh("old" \in Slocate)
                                   ELSE After("old", w[k - 1], list[k])]
    BY WritersAre
<1> HIDE DEF w
<1>2. ("old" \in Slocate) = FALSE
    BY DEF Slocate
<1>3. \A k \in 0 .. Len(list) : w[k] = IF k = 0 THEN Fresh("old" \in Slocate)
                                       ELSE After("old", w[k - 1], list[k])
    BY <1>1
<1>4. w[0] = Fresh(FALSE)
  <2>1. 0 \in 0 .. Len(list)
      OBVIOUS
  <2> QED
      BY <1>2, <1>3, <2>1
<1>5. ASSUME NEW k \in 1 .. Len(list) PROVE w[k] = CodePath(w[k - 1], list[k])
  <2>1. k \in 0 .. Len(list) /\ k # 0
      OBVIOUS
  <2> QED
      BY <1>3, <2>1 DEF After
<1> QED
    BY <1>4, <1>5 DEF OldRun, w

\* What OldWritten says of the open database.
LEMMA DatabaseIsOld ==
    ASSUME OldWritten, AtDatabase, phase \in {"header", "entries"}, StaticOld,
           ~dbpath[dbi].foreign
    PROVE  LET list == dbpath[dbi].list
           IN /\ list \in Seq(Seq(Char)) /\ Short(list)
              /\ \E w : OldRun(w, list) /\ IsBytes(dbpath[dbi].file.bytes, w, list)
<1> DEFINE list == dbpath[dbi].list
           w == Writers("old", list)
<1>1. /\ list \in Seq(Seq(Char)) /\ dbpath[dbi].file = Encoded("old", list)
      /\ Short(list)
  <2>1. PICK s \in Scenarios : dbpath = s.dbpath
      BY DEF AtDatabase
  <2>2. dbi \in 1 .. Len(s.dbpath) /\ s.dbpath[dbi].kind \notin {"missing", "system"}
      BY <2>1 DEF AtDatabase, StaticOld
  <2> QED
      BY <2>1, <2>2 DEF OldWritten, StaticOld, Short, Half
<1>2. OldRun(w, list)
    BY <1>1, WritersOldRun
<1>3. IsBytes(dbpath[dbi].file.bytes, w, list)
    BY <1>1 DEF Encoded, IsBytes
<1> QED
    BY <1>1, <1>2, <1>3

\* What has been said of the book stays true when it grows.
Telling(o) == o.format = "old" /\ \E k \in 2 .. Len(o.list) : Telltale(o.list, k)

LEMMA GuessIs ==
    GuessIsSound <=>
        (misread /\ (\A i \in DOMAIN opened : ~opened[i].foreign) =>
            \E i \in DOMAIN opened : Telling(opened[i]))
BY DEF GuessIsSound, Telling, Telltale, SharedBy

\* A step that reads no entry.
LEMMA GuessStays ==
    ASSUME GuessIsSound, misread' => misread,
           \E S : opened \in Seq(S),
           opened' = opened \/ \E x : opened' = Append(opened, x)
    PROVE  GuessIsSound' /\ \E S : opened' \in Seq(S)
<1>1. PICK S : opened \in Seq(S)
    OBVIOUS
<1>2. CASE opened' = opened
    BY <1>1, <1>2 DEF GuessIsSound
<1>3. CASE \E x : opened' = Append(opened, x)
  <2>1. PICK x : opened' = Append(opened, x)
      BY <1>3
  <2>2. PICK T : opened' \in Seq(T)
      BY <1>1, <2>1, AppendIs
  <2>3. /\ Len(opened') = Len(opened) + 1 /\ Len(opened) \in Nat
        /\ \A i \in 1 .. Len(opened) : opened'[i] = opened[i]
      BY <1>1, <2>1, AppendIs
  <2>4. DOMAIN opened = 1 .. Len(opened) /\ DOMAIN opened' = 1 .. Len(opened')
      BY <1>1, <2>2
  <2>5. \A i \in DOMAIN opened : i \in DOMAIN opened' /\ opened'[i] = opened[i]
      BY <2>3, <2>4
  <2>6. ASSUME misread', \A i \in DOMAIN opened' : ~opened'[i].foreign
        PROVE  \E i \in DOMAIN opened' : Telling(opened'[i])
    <3>1. \A i \in DOMAIN opened : ~opened[i].foreign
        BY <2>5, <2>6
    <3>2. PICK i \in DOMAIN opened : Telling(opened[i])
        BY <2>6, <3>1, GuessIs
    <3> QED
        BY <2>5, <3>2
  <2>7. GuessIsSound'
      BY <2>6 DEF GuessIsSound, Telling, Telltale, SharedBy
  <2> QED
      BY <2>2, <2>7
<1> QED
    BY <1>2, <1>3

\* dolocate takes the next database.
LEMMA NextDatabaseGuess ==
    ASSUME AtomicInv, GuessInv, NextDatabase
    PROVE  GuessInv'
<1>1. /\ UNCHANGED <<dbpath, opened, misread>> /\ phase = "next" /\ dbi < Len(dbpath)
      /\ dbi' = dbi + 1
    BY DEF NextDatabase
<1>2. GuessIsSound' /\ \E S : opened' \in Seq(S)
    BY <1>1, GuessStays DEF GuessInv, AtDatabase
<1>3. PICK s \in Scenarios : dbpath = s.dbpath
    BY DEF GuessInv, AtDatabase
<1>4. dbi' \in Nat /\ dbi' \in 1 .. Len(dbpath)
    BY <1>1, <1>3, LocateAssumption DEF LocateAssumption, GuessInv, AtDatabase
<1>5. phase' # "entries"
    BY DEF NextDatabase, Exit
<1>6. phase' = "header" =>
        /\ \E i : procdata' = [Closed EXCEPT !.inode = i]
        /\ procdata'.inode = NoFile => dbpath'[dbi'].kind \notin {"missing", "system"}
  <2> SUFFICES ASSUME phase' = "header"
               PROVE  /\ \E i : procdata' = [Closed EXCEPT !.inode = i]
                      /\ procdata'.inode = NoFile => dbpath'[dbi'].kind \notin {"missing", "system"}
      OBVIOUS
  <2> DEFINE e == dbpath[dbi + 1]
             i == IF e.kind = "system" THEN locate_db ELSE NoFile
  <2>1. e.kind # "missing" /\ procdata' = [Closed EXCEPT !.inode = i]
      BY DEF NextDatabase, Exit
  <2>2. procdata'.inode = i
      BY <2>1 DEF Closed
  <2>3. locate_db # NoFile
      BY DEF AtomicInv, UpdateInv, Shape, NoFile
  <2> QED
      BY <1>1, <2>1, <2>2, <2>3
<1>7. AtDatabase'
    BY <1>1, <1>2, <1>3, <1>4, <1>5, <1>6 DEF AtDatabase
<1>8. OldSoFar'
    BY <1>5 DEF OldSoFar
<1> QED
    BY <1>2, <1>7, <1>8 DEF GuessInv

\* The header: the database goes into the book.
LEMMA ReadHeaderGuess ==
    ASSUME OldWritten, AtomicInv, GuessInv, ReadHeader
    PROVE  GuessInv'
<1>1. UNCHANGED <<dbpath, dbi, misread>> /\ phase = "header"
    BY DEF ReadHeader
<1>2. opened' = opened \/ opened' = Append(opened, Opened)
    BY DEF ReadHeader
<1>3. GuessIsSound' /\ \E S : opened' \in Seq(S)
    BY <1>1, <1>2, GuessStays DEF GuessInv, AtDatabase
<1>4. PICK i : procdata = [Closed EXCEPT !.inode = i]
    BY <1>1 DEF GuessInv, AtDatabase
<1>5. /\ procdata.inode = i /\ DOMAIN procdata = DOMAIN Closed /\ procdata.pos = 1
      /\ procdata.count = 0 /\ procdata.len = 0 /\ procdata.endian = "initial"
    BY <1>4 DEF Closed
<1>6. CASE phase' \in {"next", "done"}
  <2>1. phase' # "header" /\ phase' # "entries"
      BY <1>6
  <2>2. AtDatabase'
      BY <1>1, <1>3, <2>1 DEF GuessInv, AtDatabase
  <2> QED
      BY <1>3, <2>1, <2>2 DEF GuessInv, OldSoFar
<1>7. CASE /\ phase' = "entries" /\ opened' = Append(opened, Opened)
           /\ procdata' = [procdata EXCEPT !.check = Checked(Db.format)]
  <2>1. /\ DOMAIN procdata' = DOMAIN Closed /\ procdata'.inode = i /\ procdata'.pos = 1
        /\ procdata'.count = 0 /\ procdata'.len = 0 /\ procdata'.endian = "initial"
      BY <1>5, <1>7 DEF Closed
  <2>2. /\ Len(opened) \in Nat /\ Len(opened') = Len(opened) + 1
        /\ opened'[Len(opened) + 1] = Opened
      BY <1>7, AppendIs DEF GuessInv, AtDatabase
  <2>3. StaticOld' <=> StaticOld
      BY <1>1, <1>5, <2>1 DEF StaticOld
  <2>4. StaticOld => Opened = [list |-> dbpath[dbi].list, format |-> "old",
                               foreign |-> dbpath[dbi].foreign]
      BY DEF StaticOld, Opened, Db
  <2>5. StaticOld => /\ Len(opened') >= 1
                     /\ opened'[Len(opened')] = [list |-> dbpath[dbi].list, format |-> "old",
                                                 foreign |-> dbpath[dbi].foreign]
      BY <2>2, <2>4
  <2>6. AtDatabase'
      BY <1>1, <1>3, <1>5, <1>7, <2>1, <2>3, <2>5 DEF GuessInv, AtDatabase
  <2>7. ASSUME StaticOld, ~dbpath[dbi].foreign
        PROVE  LET list == dbpath[dbi].list
               IN \E w : /\ OldRun(w, list) /\ IsBytes(dbpath[dbi].file.bytes, w, list)
                         /\ \E k \in 0 .. Len(list) : OldStanding(w[k])'
    <3> DEFINE list == dbpath[dbi].list
    <3>1. PICK w : OldRun(w, list) /\ IsBytes(dbpath[dbi].file.bytes, w, list) /\ list \in Seq(Seq(Char))
        BY <1>1, <2>7, DatabaseIsOld DEF GuessInv
    <3>2. w[0] = Fresh(FALSE)
        BY <3>1 DEF OldRun
    <3>3. w[0].bytes = <<>> /\ w[0].oldcount = 0 /\ w[0].oldpath = <<>>
        BY <3>2 DEF Fresh
    <3>4. OldStanding(w[0])'
        BY <2>1, <3>3 DEF OldStanding
    <3>5. 0 \in 0 .. Len(list)
        BY <3>1
    <3> QED
        BY <3>1, <3>4, <3>5
  <2>8. OldSoFar'
      BY <1>1, <2>3, <2>7 DEF OldSoFar
  <2> QED
      BY <1>3, <2>6, <2>8 DEF GuessInv
<1> QED
    BY <1>6, <1>7 DEF ReadHeader, Exit

\* An entry: if it is misread, it is one of those that tell.
LEMMA VisitEntryGuess ==
    ASSUME OldWritten, AtomicInv, GuessInv, VisitEntry
    PROVE  GuessInv'
<1> DEFINE list == dbpath[dbi].list
<1>1. /\ UNCHANGED <<dbpath, dbi, opened>> /\ phase = "entries"
      /\ procdata.pos <= Len(Db.bytes)
      /\ misread' = (misread \/ (Db.format = "old" /\ Misread))
      /\ phase' \in {"entries", "closing", "done"}
    BY DEF VisitEntry, Exit
<1>2. procdata'.inode = procdata.inode
    BY InodeStays DEF AtomicInv, ReadInv
<1>3. Db.format = "old" => StaticOld
  <2>1. procdata.inode # NoFile => Db.format = "LOCATE02"
      BY DbIsMade DEF Made
  <2> QED
      BY <2>1 DEF StaticOld, Db
<1>4. StaticOld' <=> StaticOld
    BY <1>1, <1>2 DEF StaticOld
<1>5. AtDatabase'
    BY <1>1, <1>2, <1>4 DEF GuessInv, AtDatabase
<1>6. ASSUME StaticOld, ~misread, ~dbpath[dbi].foreign
      PROVE  \E w, k : /\ list \in Seq(Seq(Char)) /\ Short(list) /\ OldRun(w, list)
                       /\ IsBytes(Db.bytes, w, list) /\ k \in 1 .. Len(list)
                       /\ OldStanding(w[k - 1]) /\ ~opened[Len(opened)].foreign
  <2>1. list \in Seq(Seq(Char)) /\ Short(list)
      BY <1>1, <1>6, DatabaseIsOld DEF GuessInv
  <2>2. Db = dbpath[dbi].file
      BY <1>6 DEF StaticOld, Db
  <2>3. PICK w : /\ OldRun(w, list) /\ IsBytes(Db.bytes, w, list)
                 /\ \E k \in 0 .. Len(list) : OldStanding(w[k])
      BY <1>1, <1>6, <2>2 DEF GuessInv, OldSoFar
  <2>4. PICK k \in 0 .. Len(list) : OldStanding(w[k])
      BY <2>3
  <2>5. k # Len(list)
    <3>1. SUFFICES ASSUME k = Len(list) PROVE FALSE
        OBVIOUS
    <3>2. procdata.pos = Len(Db.bytes) + 1
        BY <2>3, <2>4, <3>1 DEF OldStanding, IsBytes
    <3>3. Len(Db.bytes) \in Nat
      <4>1. w[k] \in OldWriterType
          BY <2>1, <2>3, OldRunIs
      <4>2. w[k].bytes \in Seq(Nat) /\ Db.bytes = w[k].bytes
          BY <2>3, <3>1, <4>1 DEF OldWriterType, IsBytes
      <4> QED
          BY <4>2
    <3> QED
        BY <1>1, <3>2, <3>3
  <2>6. k + 1 \in 1 .. Len(list) /\ (k + 1) - 1 = k
      BY <2>1, <2>5
  <2>7. opened[Len(opened)] = [list |-> list, format |-> "old", foreign |-> dbpath[dbi].foreign]
      BY <1>1, <1>6 DEF GuessInv, AtDatabase
  <2>8. ~opened[Len(opened)].foreign
      BY <1>6, <2>7
  <2>9. OldStanding(w[(k + 1) - 1])
      BY <2>4, <2>6
  <2> QED
      BY <2>1, <2>3, <2>6, <2>8, <2>9
<1>7. GuessIsSound'
  <2>1. CASE misread \/ ~(Db.format = "old" /\ Misread)
      BY <1>1, <2>1, GuessStays DEF GuessInv, AtDatabase
  <2>2. CASE ~misread /\ Db.format = "old" /\ Misread
    <3>1. ~misread /\ Db.format = "old" /\ Misread /\ StaticOld
        BY <1>1, <1>3, <2>2
    <3>2. ASSUME \A i \in DOMAIN opened : ~opened[i].foreign
          PROVE  \E i \in DOMAIN opened : Telling(opened[i])
      <4>1. /\ Len(opened) \in DOMAIN opened
            /\ opened[Len(opened)] = [list |-> list, format |-> "old",
                                      foreign |-> dbpath[dbi].foreign]
        <5>1. \E S : opened \in Seq(S)
            BY DEF GuessInv, AtDatabase
        <5>2. Len(opened) >= 1
            BY <1>1, <3>1 DEF GuessInv, AtDatabase
        <5>3. Len(opened) \in DOMAIN opened
            BY <5>1, <5>2
        <5>4. opened[Len(opened)] = [list |-> list, format |-> "old",
                                     foreign |-> dbpath[dbi].foreign]
            BY <1>1, <3>1 DEF GuessInv, AtDatabase
        <5> QED
            BY <5>3, <5>4
      <4>2. ~dbpath[dbi].foreign
        <5>1. opened[Len(opened)].foreign = dbpath[dbi].foreign
            BY <4>1
        <5> QED
            BY <3>2, <4>1, <5>1
      <4>3. PICK w, k : /\ list \in Seq(Seq(Char)) /\ Short(list) /\ OldRun(w, list)
                        /\ IsBytes(Db.bytes, w, list) /\ k \in 1 .. Len(list)
                        /\ OldStanding(w[k - 1]) /\ ~opened[Len(opened)].foreign
          BY <1>6, <3>1, <4>2
      <4>4. Telltale(list, k)
          BY <3>1, <4>3, OldEntryIs
      <4>5. k \in 2 .. Len(list)
          BY <4>4 DEF Telltale
      <4>6. opened[Len(opened)].list = list /\ opened[Len(opened)].format = "old"
          BY <4>1
      <4>7. Telling(opened[Len(opened)])
          BY <4>4, <4>5, <4>6 DEF Telling
      <4> QED
          BY <4>1, <4>7
    <3>3. opened' = opened
        BY <1>1
    <3> QED
        BY <3>2, <3>3 DEF GuessIsSound, Telling, Telltale, SharedBy
  <2> QED
      BY <2>1, <2>2
<1>8. OldSoFar'
  <2> SUFFICES ASSUME phase' = "entries", StaticOld, ~misread, ~(Db.format = "old" /\ Misread),
                      ~dbpath[dbi].foreign
               PROVE  \E w : /\ OldRun(w, list) /\ IsBytes(dbpath[dbi].file.bytes, w, list)
                             /\ \E k \in 0 .. Len(list) : OldStanding(w[k])'
      BY <1>1, <1>4 DEF OldSoFar
  <2>1. Db = dbpath[dbi].file /\ Db.format = "old" /\ ~Misread
      BY DEF StaticOld, Db
  <2>2. PICK w, k : /\ list \in Seq(Seq(Char)) /\ Short(list) /\ OldRun(w, list)
                    /\ IsBytes(Db.bytes, w, list) /\ k \in 1 .. Len(list)
                    /\ OldStanding(w[k - 1]) /\ ~opened[Len(opened)].foreign
      BY <1>6
  <2> DEFINE e == OldEntry
             read == OldRead(e)
  <2> HIDE DEF e, read
  <2>3. /\ ~(e.count < 0) /\ DOMAIN read = DOMAIN Closed
        /\ read.pos = Len(w[k].bytes) + 1 /\ read.count = w[k].oldcount
        /\ read.len = Len(w[k].oldpath) /\ read.endian \in {"initial", "native"}
      BY <2>1, <2>2, OldEntryIsRead DEF e, read
  <2>4. \E names : procdata' = [read EXCEPT !.names = names]
      BY <1>1, <2>1, <2>3 DEF VisitEntry, Exit, e, read
  <2>5. PICK names : procdata' = [read EXCEPT !.names = names]
      BY <2>4
  <2>6. /\ DOMAIN procdata' = DOMAIN Closed /\ procdata'.pos = read.pos
        /\ procdata'.count = read.count /\ procdata'.len = read.len
        /\ procdata'.endian = read.endian
      BY <2>3, <2>5 DEF Closed
  <2>7. OldStanding(w[k])'
      BY <2>3, <2>6 DEF OldStanding
  <2>8. k \in 0 .. Len(list)
      BY <2>2
  <2> QED
      BY <2>1, <2>2, <2>7, <2>8
<1> QED
    BY <1>5, <1>7, <1>8 DEF GuessInv

\* A step that leaves locate where it is, or ends a database.
LEMMA RestGuess ==
    ASSUME GuessInv, Finish \/ EndOfFile \/ Close \/ UNCHANGED locateVars
    PROVE  GuessInv'
<1>1. /\ UNCHANGED <<dbpath, dbi, procdata, opened, misread>>
      /\ phase' \in {"done", "closing", "next"} \/ phase' = phase
    BY DEF Finish, EndOfFile, Close, Exit, locateVars
<1>2. GuessIsSound' /\ \E S : opened' \in Seq(S)
    BY <1>1, GuessStays DEF GuessInv, AtDatabase
<1>3. StaticOld' <=> StaticOld
    BY <1>1 DEF StaticOld
<1>4. AtDatabase'
    BY <1>1, <1>2, <1>3 DEF GuessInv, AtDatabase
<1>5. OldSoFar'
    BY <1>1, <1>3 DEF GuessInv, OldSoFar, OldStanding
<1> QED
    BY <1>2, <1>4, <1>5 DEF GuessInv

\* At the start no database has been read.
LEMMA GuessInit ==
    ASSUME SystemWritten, LocateInit
    PROVE  GuessInv
<1>1. /\ phase = "next" /\ dbi = 0 /\ opened = <<>> /\ misread = FALSE
      /\ \E s \in Scenarios : dbpath = s.dbpath
    BY DEF LocateInit
<1>2. \E S : opened \in Seq(S)
    BY <1>1
<1> QED
    BY <1>1, <1>2 DEF GuessInv, AtDatabase, OldSoFar, GuessIsSound

\* Every step, of locate or of updatedb.
LEMMA GuessStep ==
    ASSUME OldWritten, AtomicInv, GuessInv, [Next]_locateDbVars
    PROVE  GuessInv'
<1>1. CASE NextDatabase
    BY <1>1, NextDatabaseGuess
<1>2. CASE ReadHeader
    BY <1>2, ReadHeaderGuess
<1>3. CASE VisitEntry
    BY <1>3, VisitEntryGuess
<1>4. CASE Finish \/ EndOfFile \/ Close \/ UNCHANGED locateVars
    BY <1>4, RestGuess
<1> QED
    BY <1>1, <1>2, <1>3, <1>4 DEF Next, LocateNext, locateDbVars

\* word_io.c: getword guesses the byte order by the first count that makes
\* sense one way only.  Whatever names a database of this machine has: its
\* counts are taken for swapped ones only if one of them is a long count
\* after a short prefix, and the prefix it speaks of reaches almost to the
\* end of the name before.
THEOREM OnlyLongCountsMislead ==
    ASSUME SystemWritten, OldWritten
    PROVE  Spec => []GuessIsSound
<1>1. LocateInit => AtomicInv /\ GuessInv
    BY AtomicInit, GuessInit
<1>2. AtomicInv /\ GuessInv /\ [Next]_locateDbVars => AtomicInv' /\ GuessInv'
    BY AtomicStep, GuessStep
<1>3. GuessInv => GuessIsSound
    BY DEF GuessInv
<1> QED
    BY <1>1, <1>2, <1>3, PTL DEF Spec

------------------------------------------------------------------------------
(* The names that are wanted, as the recursive functions of Locate compute *)
(* them.                                                                   *)

\* What holds of 0, and of each number up to n if of the one before, holds of
\* all of them.
LEMMA UpToAll ==
    ASSUME NEW n \in Nat, NEW T, 0 \in T, \A k \in 1 .. n : k - 1 \in T => k \in T
    PROVE  0 .. n \subseteq T
<1> DEFINE bad == {k \in 0 .. n : k \notin T}
<1>1. SUFFICES ASSUME bad # {} PROVE FALSE
    OBVIOUS
<1>2. bad \subseteq Nat
    OBVIOUS
<1>3. PICK k \in bad : \A j \in bad : k <= j
    BY <1>1, <1>2, MinIsLeast
<1>4. k \in 1 .. n /\ k - 1 \in 0 .. n /\ ~(k <= k - 1)
    BY <1>3
<1>5. k - 1 \in T
    BY <1>3, <1>4
<1> QED
    BY <1>3, <1>4, <1>5

\* A function that is computed step by step is there.
Steps(n, S) == [(1 .. n) \X S -> S]
Computed(f, n, S, base, step) ==
    f \in [0 .. n -> S] /\ f[0] = base /\ \A k \in 1 .. n : f[k] = step[k, f[k - 1]]

LEMMA StepsMakeAFunction ==
    ASSUME NEW n \in Nat, NEW S, NEW base \in S, NEW step \in Steps(n, S)
    PROVE  \E f : Computed(f, n, S, base, step)
<1> DEFINE Upto(m, u) == /\ u \in [0 .. m -> S] /\ u[0] = base
                         /\ \A k \in 1 .. m : u[k] = step[k, u[k - 1]]
           T == {m \in 0 .. n : \E u : Upto(m, u)}
<1>1. 0 \in T
  <2>1. Upto(0, [k \in 0 .. 0 |-> base])
      OBVIOUS
  <2> HIDE DEF Upto
  <2> QED
      BY <2>1
<1>2. ASSUME NEW m \in 1 .. n, m - 1 \in T PROVE m \in T
  <2>1. PICK u : Upto(m - 1, u)
      BY <1>2
  <2>0. m \in Nat /\ m - 1 \in 0 .. m - 1 /\ m \in 0 .. m /\ 0 \in 0 .. m - 1
        /\ \A k \in 0 .. m - 1 : k \in 0 .. m /\ k # m
      OBVIOUS
  <2> DEFINE new == step[m, u[m - 1]]
             g == [k \in 0 .. m |-> IF k = m THEN new ELSE u[k]]
  <2>7. new \in S
    <3>1. u[m - 1] \in S
        BY <2>0, <2>1
    <3>2. <<m, u[m - 1]>> \in (1 .. n) \X S
        BY <3>1
    <3> QED
        BY <3>2 DEF Steps
  <2> HIDE DEF new
  <2>2. g[m] = new /\ DOMAIN g = 0 .. m /\ \A k \in 0 .. m - 1 : g[k] = u[k]
      BY <2>0
  <2>3. g \in [0 .. m -> S]
    <3>1. \A k \in 0 .. m - 1 : u[k] \in S
        BY <2>1
    <3>2. \A k \in 0 .. m : k # m => k \in 0 .. m - 1
        BY <2>0
    <3> QED
        BY <2>7, <3>1, <3>2
  <2> HIDE DEF g
  <2>4. ASSUME NEW k \in 1 .. m PROVE g[k] = step[k, g[k - 1]]
    <3>1. k - 1 \in 0 .. m - 1 /\ g[k - 1] = u[k - 1]
      <4>1. k - 1 \in 0 .. m - 1
          BY <2>0
      <4> QED
          BY <2>2, <4>1
    <3>2. CASE k = m
        BY <2>2, <3>1, <3>2 DEF new
    <3>3. CASE k # m
      <4>1. k \in 1 .. m - 1 /\ k \in 0 .. m - 1
          BY <3>3
      <4> QED
          BY <2>1, <2>2, <3>1, <4>1
    <3> QED
        BY <3>2, <3>3
  <2>5. g[0] = base
      BY <2>0, <2>1, <2>2
  <2>6. Upto(m, g)
      BY <2>3, <2>4, <2>5
  <2> HIDE DEF Upto
  <2> QED
      BY <2>6
<1> HIDE DEF Upto
<1>3. 0 .. n \subseteq T
  <2> HIDE DEF T
  <2> QED
      BY <1>1, <1>2, UpToAll
<1>4. PICK f : Upto(n, f)
  <2>1. n \in 0 .. n
      OBVIOUS
  <2> QED
      BY <1>3, <2>1
<1> QED
    BY <1>4 DEF Upto, Computed

\* The lists of names.
Names == Seq(Seq(Char))

\* A list is begun with nothing, and grows by one name or stays.
WantedStep(up, o) ==
    \A k \in 1 .. Len(o.list) :
        up[k] = IF Wanted(o.list[k], o) THEN Append(up[k - 1], o.list[k]) ELSE up[k - 1]

LEMMA WantedUpToIs ==
    ASSUME NEW o, o.list \in Names
    PROVE  /\ WantedUpTo(o) \in [0 .. Len(o.list) -> Names]
           /\ WantedUpTo(o)[0] = <<>> /\ WantedStep(WantedUpTo(o), o)
<1> DEFINE n == Len(o.list)
           step == [x \in (1 .. n) \X Names |->
                       IF Wanted(o.list[x[1]], o) THEN Append(x[2], o.list[x[1]]) ELSE x[2]]
           Is(f) == f = [k \in 0 .. n |->
                            IF k = 0 THEN <<>>
                            ELSE IF Wanted(o.list[k], o) THEN Append(f[k - 1], o.list[k])
                            ELSE f[k - 1]]
<1>1. n \in Nat /\ <<>> \in Names /\ \A k \in 1 .. n : o.list[k] \in Seq(Char)
    BY DEF Names
<1>2. \A l \in Names, x \in Seq(Char) : Append(l, x) \in Names
    BY DEF Names
<1> HIDE DEF n
<1>3. /\ step \in [(1 .. n) \X Names -> Names]
      /\ \A k \in 1 .. n, l \in Names :
            step[k, l] = IF Wanted(o.list[k], o) THEN Append(l, o.list[k]) ELSE l
    BY <1>1, <1>2
<1> HIDE DEF step
<1> DEFINE none == <<>>
<1>4. PICK f : Computed(f, n, Names, none, step)
  <2>1. none \in Names /\ n \in Nat /\ step \in Steps(n, Names)
      BY <1>1, <1>3 DEF Steps
  <2> HIDE DEF none
  <2> QED
      BY ONLY <2>1, StepsMakeAFunction
<1>0. f \in [0 .. n -> Names] /\ f = [k \in 0 .. n |-> f[k]]
    BY <1>4 DEF Computed
<1>5. Is(f)
  <2>1. ASSUME NEW k \in 0 .. n
        PROVE  f[k] = IF k = 0 THEN <<>>
                 ELSE IF Wanted(o.list[k], o) THEN Append(f[k - 1], o.list[k])
                 ELSE f[k - 1]
    <3>1. k # 0 => k \in 1 .. n /\ f[k - 1] \in Names
      <4>1. k # 0 => k \in 1 .. n /\ k - 1 \in 0 .. n
          BY <1>1
      <4> QED
          BY <1>0, <4>1
    <3>2. CASE k = 0
        BY <1>4, <3>2 DEF Computed
    <3>3. CASE k # 0
      <4>1. f[k] = step[k, f[k - 1]]
          BY <1>4, <3>1, <3>3 DEF Computed
      <4> QED
          BY <1>3, <3>1, <3>3, <4>1
    <3> QED
        BY <3>2, <3>3
  <2> QED
      BY <1>0, <2>1
<1>6. WantedUpTo(o) = CHOOSE f1 : Is(f1)
    BY DEF WantedUpTo, n
<1>7. Is(WantedUpTo(o))
  <2> HIDE DEF Is
  <2> QED
      BY <1>5, <1>6
<1> DEFINE up == WantedUpTo(o)
<1>8. \A k \in 0 .. n : up[k] = IF k = 0 THEN <<>>
                                ELSE IF Wanted(o.list[k], o) THEN Append(up[k - 1], o.list[k])
                                ELSE up[k - 1]
    BY <1>7
<1>9. DOMAIN up = 0 .. n /\ up = [k \in 0 .. n |-> up[k]]
    BY <1>7
<1> HIDE DEF up, Is
<1>10. up[0] = <<>> /\ \A k \in 1 .. n : up[k] = IF Wanted(o.list[k], o) THEN Append(up[k - 1], o.list[k])
                                                 ELSE up[k - 1]
    BY <1>1, <1>8
<1>11. \A k \in 0 .. n : up[k] \in Names
  <2> DEFINE T == {k \in 0 .. n : up[k] \in Names}
  <2>1. 0 \in T
      BY <1>1, <1>10
  <2>2. ASSUME NEW k \in 1 .. n, k - 1 \in T PROVE k \in T
      BY <1>1, <1>2, <1>10, <2>2
  <2>3. 0 .. n \subseteq T
    <3> HIDE DEF T
    <3> QED
        BY <1>1, <2>1, <2>2, UpToAll
  <2> QED
      BY <2>3
<1> QED
    BY <1>9, <1>10, <1>11 DEF up, n, WantedStep

\* One database after the other.
ThroughStep(th, dbs) == \A i \in 1 .. Len(dbs) : th[i] = th[i - 1] \o WantedOf(dbs[i])

Listed(dbs) == (\E S : dbs \in Seq(S)) /\ \A i \in 1 .. Len(dbs) : dbs[i].list \in Names

\* What is wanted of one database, and of several, are lists of names.
LEMMA WantedOfIs ==
    ASSUME NEW o, o.list \in Names
    PROVE  WantedOf(o) \in Names
<1>1. Len(o.list) \in 0 .. Len(o.list)
    BY DEF Names
<1> QED
    BY <1>1, WantedUpToIs DEF WantedOf

LEMMA WantedThroughIs ==
    ASSUME NEW dbs, Listed(dbs)
    PROVE  /\ WantedThrough(dbs) \in [0 .. Len(dbs) -> Names]
           /\ WantedThrough(dbs)[0] = <<>> /\ ThroughStep(WantedThrough(dbs), dbs)
<1> DEFINE n == Len(dbs)
           step == [x \in (1 .. n) \X Names |-> x[2] \o WantedOf(dbs[x[1]])]
           Is(f) == f = [i \in 0 .. n |-> IF i = 0 THEN <<>> ELSE f[i - 1] \o WantedOf(dbs[i])]
<1>1. n \in Nat /\ <<>> \in Names
    BY DEF Names, Listed
<1>2. \A i \in 1 .. n : WantedOf(dbs[i]) \in Names
    BY WantedOfIs DEF Listed
<1>3. \A l, m \in Names : l \o m \in Names
    BY DEF Names
<1> HIDE DEF n
<1>4. /\ step \in [(1 .. n) \X Names -> Names]
      /\ \A i \in 1 .. n, l \in Names : step[i, l] = l \o WantedOf(dbs[i])
    BY <1>2, <1>3
<1> HIDE DEF step
<1> DEFINE none == <<>>
<1>5. PICK f : Computed(f, n, Names, none, step)
  <2>1. none \in Names /\ n \in Nat /\ step \in Steps(n, Names)
      BY <1>1, <1>4 DEF Steps
  <2> HIDE DEF none
  <2> QED
      BY ONLY <2>1, StepsMakeAFunction
<1>0. f \in [0 .. n -> Names] /\ f = [i \in 0 .. n |-> f[i]]
    BY <1>5 DEF Computed
<1>6. Is(f)
  <2>1. ASSUME NEW i \in 0 .. n
        PROVE  f[i] = IF i = 0 THEN <<>> ELSE f[i - 1] \o WantedOf(dbs[i])
    <3>1. i # 0 => i \in 1 .. n /\ f[i - 1] \in Names
      <4>1. i # 0 => i \in 1 .. n /\ i - 1 \in 0 .. n
          BY <1>1
      <4> QED
          BY <1>0, <4>1
    <3>2. CASE i = 0
        BY <1>5, <3>2 DEF Computed
    <3>3. CASE i # 0
      <4>1. f[i] = step[i, f[i - 1]]
          BY <1>5, <3>1, <3>3 DEF Computed
      <4> QED
          BY <1>4, <3>1, <3>3, <4>1
    <3> QED
        BY <3>2, <3>3
  <2> QED
      BY <1>0, <2>1
<1>7. WantedThrough(dbs) = CHOOSE f1 : Is(f1)
    BY DEF WantedThrough, n
<1>8. Is(WantedThrough(dbs))
  <2> HIDE DEF Is
  <2> QED
      BY <1>6, <1>7
<1> DEFINE th == WantedThrough(dbs)
<1>9. \A i \in 0 .. n : th[i] = IF i = 0 THEN <<>> ELSE th[i - 1] \o WantedOf(dbs[i])
    BY <1>8
<1>10. DOMAIN th = 0 .. n /\ th = [i \in 0 .. n |-> th[i]]
    BY <1>8
<1> HIDE DEF th, Is
<1>11. th[0] = <<>> /\ \A i \in 1 .. n : th[i] = th[i - 1] \o WantedOf(dbs[i])
  <2>1. 0 \in 0 .. n /\ \A i \in 1 .. n : i \in 0 .. n /\ i # 0
      BY <1>1
  <2> QED
      BY <1>9, <2>1
<1>12. \A i \in 0 .. n : th[i] \in Names
  <2> DEFINE T == {i \in 0 .. n : th[i] \in Names}
  <2>1. 0 \in T
      BY <1>1, <1>11
  <2>2. ASSUME NEW i \in 1 .. n, i - 1 \in T PROVE i \in T
    <3>1. i \in 0 .. n /\ th[i - 1] \in Names /\ WantedOf(dbs[i]) \in Names
        BY <1>1, <1>2, <2>2
    <3>2. th[i] = th[i - 1] \o WantedOf(dbs[i])
        BY <1>11
    <3> QED
        BY <1>3, <3>1, <3>2
  <2>3. 0 .. n \subseteq T
    <3> HIDE DEF T
    <3> QED
        BY <1>1, <2>1, <2>2, UpToAll
  <2> QED
      BY <2>3
<1> QED
    BY <1>10, <1>11, <1>12 DEF th, n, ThroughStep

\* With one more database the names wanted of it come behind.
LEMMA WantedThroughGrows ==
    ASSUME NEW dbs, Listed(dbs), NEW o, o.list \in Names, NEW more, more = Append(dbs, o)
    PROVE  /\ Listed(more)
           /\ WantedThrough(more)[Len(more)] = WantedThrough(dbs)[Len(dbs)] \o WantedOf(o)
<1> DEFINE n == Len(dbs)
           th == WantedThrough(dbs)
           up == WantedThrough(more)
<1>1. /\ n \in Nat /\ Len(more) = n + 1 /\ more[n + 1] = o
      /\ (\A i \in 1 .. n : more[i] = dbs[i]) /\ \E S : more \in Seq(S)
  <2>1. PICK S : dbs \in Seq(S)
      BY DEF Listed
  <2> QED
      BY <2>1, AppendIs
<1>2. Listed(more)
    BY <1>1 DEF Listed
<1>3. th[0] = <<>> /\ \A i \in 1 .. n : th[i] = th[i - 1] \o WantedOf(dbs[i])
    BY WantedThroughIs DEF ThroughStep
<1>4. up[0] = <<>> /\ \A i \in 1 .. n + 1 : up[i] = up[i - 1] \o WantedOf(more[i])
    BY <1>1, <1>2, WantedThroughIs DEF ThroughStep
<1> HIDE DEF n, th, up
<1> DEFINE T == {i \in 0 .. n : up[i] = th[i]}
<1>5. 0 \in T
    BY <1>1, <1>3, <1>4
<1>6. ASSUME NEW i \in 1 .. n, i - 1 \in T PROVE i \in T
  <2>1. i \in 1 .. n + 1 /\ i \in 0 .. n
      BY <1>1
  <2>2. up[i] = up[i - 1] \o WantedOf(dbs[i]) /\ th[i] = th[i - 1] \o WantedOf(dbs[i])
      BY <1>1, <1>3, <1>4, <2>1
  <2> QED
      BY <1>6, <2>1, <2>2
<1>7. 0 .. n \subseteq T
  <2> HIDE DEF T
  <2> QED
      BY <1>1, <1>5, <1>6, UpToAll
<1>8. up[n] = th[n]
  <2>1. n \in 0 .. n
      BY <1>1
  <2> QED
      BY <1>7, <2>1
<1>9. up[n + 1] = up[n] \o WantedOf(o)
  <2>1. n + 1 \in 1 .. n + 1 /\ (n + 1) - 1 = n
      BY <1>1
  <2> QED
      BY <1>1, <1>4, <2>1
<1> QED
    BY <1>1, <1>2, <1>8, <1>9 DEF n, th, up

------------------------------------------------------------------------------
(* What locate reads of a database, in each of the formats.                *)

\* The reader r of the database d, which was made of the list, has read k of
\* its names: in the format of frcode, in the old one, and in the one of
\* slocate if there is at most one name.
FrcodePlace(r, d, list, k) ==
    \E w : /\ Made(d, list, w)
           /\ r.pos = Len(w[k].bytes) + 1 /\ r.count = w[k].oldcount
           /\ Holds(r.buf, w[k].oldpath)
           /\ r.len \in Nat /\ Len(w[k].oldpath) <= r.len

CodePlace(r, d, list, k) ==
    /\ d.format = "old" /\ Short(list)
    /\ \E w : /\ OldRun(w, list) /\ IsBytes(d.bytes, w, list)
              /\ r.pos = Len(w[k].bytes) + 1 /\ r.count = w[k].oldcount
              /\ Holds(r.buf, w[k].oldpath)

SlocatePlace(r, d, list, k) ==
    /\ d.format \in Slocate /\ Len(list) <= 1
    /\ Len(list) = 0 => d.bytes = <<>>
    /\ Len(list) = 1 => d.bytes = list[1] \o <<NUL>>
    /\ k = 0 => r.pos = 1 /\ r.itemcount = 0 /\ r.buf = <<>> /\ r.len = 0
    /\ k = 1 => r.pos = Len(d.bytes) + 1

Place(r, d, list, k) ==
    /\ list \in Names /\ k \in 0 .. Len(list) /\ DOMAIN r = DOMAIN Closed
    /\ \/ FrcodePlace(r, d, list, k)
       \/ CodePlace(r, d, list, k)
       \/ SlocatePlace(r, d, list, k)

\* The next entry, as VisitEntry reads it.
NextEntry == IF Db.format = "old" THEN OldEntry ELSE Locate02Entry
NextRead == IF Db.format = "old" THEN OldRead(NextEntry) ELSE Locate02Read(NextEntry)

\* It is the next name of the list.
IsNext(list, k) ==
    /\ k + 1 \in 1 .. Len(list)
    /\ ~(NextEntry.count < 0)
    /\ Db.format # "old" => ~(NextEntry.count > procdata.len) /\ ~(NextEntry.text > Len(Db.bytes))
    /\ Name(NextRead.buf) = list[k + 1]
    /\ Place(NextRead, Db, list, k + 1)

\* In the format of frcode the next entry is the next name.
LEMMA FrcodeNext ==
    ASSUME NEW list \in Names, NEW k \in 0 .. Len(list), DOMAIN procdata = DOMAIN Closed,
           FrcodePlace(procdata, Db, list, k), procdata.pos <= Len(Db.bytes)
    PROVE  IsNext(list, k)
<1> DEFINE n == Len(list)
<1>1. PICK w : Made(Db, list, w) /\ Standing(w[k])
    BY DEF FrcodePlace, Standing
<1>2. /\ Run(w, list) /\ Db.format = "LOCATE02" /\ Db.bytes \in Seq(Bytes)
      /\ Db.bytes = w[n].bytes /\ list \in Seq(Seq(Char))
    BY <1>1 DEF Made, Names
<1>3. n \in Nat /\ k \in Nat /\ k <= n /\ k # n
  <2>1. n \in Nat /\ k \in Nat /\ k <= n
      BY <1>2
  <2>2. CASE k = n
    <3>1. procdata.pos = Len(Db.bytes) + 1
        BY <1>1, <1>2, <2>2 DEF Standing
    <3>2. Len(Db.bytes) \in Nat
        BY <1>2
    <3> QED
        BY <3>1, <3>2
  <2> QED
      BY <2>1, <2>2
<1> HIDE DEF n
<1>4. k + 1 \in 1 .. n /\ k + 1 \in 0 .. n /\ k \in 0 .. n /\ (k + 1) - 1 = k
    BY <1>3
<1> DEFINE v == w[k + 1]
           path == list[k + 1]
           e == Locate02Entry
           read == Locate02Read(e)
<1>5. path \in Seq(Char)
    BY <1>2, <1>4 DEF n
<1>6. w[k] \in WriterType /\ v \in WriterType /\ Entry(w[k], v, path) /\ v.oldpath = path
  <2>1. /\ \A j \in 0 .. n : w[j] \in WriterType
        /\ \A j \in 1 .. n : Entry(w[j - 1], w[j], list[j]) /\ w[j].oldpath = list[j]
      BY <1>2, RunIs DEF n
  <2>2. Entry(w[(k + 1) - 1], w[k + 1], list[k + 1])
      BY <1>4, <2>1
  <2> QED
      BY <1>4, <2>1, <2>2
<1>7. Begins(v)
  <2>1. /\ Len(v.bytes) <= Len(w[n].bytes)
        /\ \A j \in 1 .. Len(v.bytes) : w[n].bytes[j] = v.bytes[j]
      BY <1>2, <1>4, RunGrows DEF n
  <2> QED
      BY <1>2, <2>1 DEF Begins
<1> HIDE DEF v, path, e, read
<1>8. /\ e.count \in Nat /\ e.count <= procdata.len
      /\ e.text \in Nat /\ e.text <= Len(Db.bytes)
      /\ DOMAIN read = DOMAIN Closed
      /\ read.pos = Len(v.bytes) + 1 /\ read.count = v.oldcount
      /\ Holds(read.buf, path) /\ read.len = Len(path) + 1 /\ Name(read.buf) = path
    BY <1>1, <1>5, <1>6, <1>7, EntryIsRead DEF e, read
<1>9. /\ ~(e.count < 0) /\ ~(e.count > procdata.len) /\ ~(e.text > Len(Db.bytes))
  <2>1. procdata.len \in Nat /\ Len(Db.bytes) \in Nat
      BY <1>1, <1>2 DEF Standing
  <2> QED
      BY <1>8, <2>1
<1>10. NextEntry = e /\ NextRead = read
    BY <1>2 DEF NextEntry, NextRead, e, read
<1>11. FrcodePlace(read, Db, list, k + 1)
  <2>1. Len(path) \in Nat
      BY <1>5
  <2> QED
      BY <1>1, <1>6, <1>8, <2>1 DEF FrcodePlace, v
<1> QED
    BY <1>4, <1>8, <1>9, <1>10, <1>11 DEF IsNext, Place, path, n

\* A count that is not misread is what was written, on whatever machine.
LEMMA OldEntryIsRight ==
    ASSUME NEW list \in Seq(Seq(Char)), Short(list), NEW w, OldRun(w, list),
           NEW k \in 1 .. Len(list), IsBytes(Db.bytes, w, list),
           procdata.pos = Len(w[k - 1].bytes) + 1, procdata.count = w[k - 1].oldcount,
           ~Misread
    PROVE  OldEntry.count = w[k].oldcount /\ OldEntry.text = OldTextAt(w, k)
<1> DEFINE at == Len(w[k - 1].bytes)
           c == CountOf(w, k)
           x == w[k - 1].oldcount
           y == w[k].oldcount
           pos == procdata.pos
<1>1. x \in Nat /\ y \in Nat
    BY CountsAreShared
<1>2. pos = at + 1 /\ procdata.count = x
    OBVIOUS
<1>3. at \in Nat /\ \A i \in 1 .. Len(c) : Byte(at + i) = c[i]
  <2>1. InFile(Db.bytes, w, list, k)
      BY OldPartInFile
  <2> QED
      BY <2>1 DEF InFile, Byte
<1>4. OldTextAt(w, k) = at + Len(c) + 1
    BY DEF OldTextAt
<1>5. \/ Len(c) = 1 /\ c[1] # OldEscape /\ c[1] = (y - x) + OldOffset
      \/ /\ Len(c) = 3 /\ c[1] = OldEscape
         /\ WordValue(c[2], c[3]) = (y - x) + OldOffset
    BY CountOfIs
<1>6. OldOffset \in Nat \ {0}
    BY OldSizes
<1> HIDE DEF at, c, x, y, pos
<1>7. CASE Len(c) = 1 /\ c[1] # OldEscape /\ c[1] = (y - x) + OldOffset
  <2>1. Byte(pos) = c[1]
      BY <1>2, <1>3, <1>7
  <2>2. ~IsLong
      BY <1>7, <2>1 DEF IsLong, pos
  <2>3. OldEntry.count = procdata.count + Byte(pos) - OldOffset /\ OldEntry.text = pos + 1
      BY <2>2 DEF OldEntry, pos
  <2>4. OldEntry.count = y
      BY <1>1, <1>2, <1>6, <1>7, <2>1, <2>3
  <2>5. OldEntry.text = at + Len(c) + 1
      BY <1>2, <1>3, <1>7, <2>3
  <2> QED
      BY <1>4, <2>4, <2>5 DEF y
<1>8. CASE /\ Len(c) = 3 /\ c[1] = OldEscape
           /\ WordValue(c[2], c[3]) = (y - x) + OldOffset
  <2>1. Byte(pos) = c[1] /\ Byte(pos + 1) = c[2] /\ Byte((pos + 1) + 1) = c[3]
    <3>1. Byte(at + 1) = c[1] /\ Byte(at + 2) = c[2] /\ Byte(at + 3) = c[3]
        BY <1>3, <1>8
    <3>2. pos + 1 = at + 2 /\ (pos + 1) + 1 = at + 3
        BY <1>2, <1>3
    <3> QED
        BY <1>2, <3>1, <3>2
  <2>2. IsLong
      BY <1>8, <2>1 DEF IsLong, pos
  <2>3. Word.value = (y - x) + OldOffset
    <3>1. Word.value = IF opened[Len(opened)].foreign THEN Swap(pos + 1) ELSE Native(pos + 1)
        BY <2>2 DEF Misread, pos
    <3> QED
        BY <1>8, <2>1, <3>1 DEF Swap, Native
  <2>4. OldEntry.count = procdata.count - OldOffset + Word.value /\ OldEntry.text = pos + 3
      BY <2>2 DEF OldEntry, pos
  <2>5. OldEntry.count = y
      BY <1>1, <1>2, <1>6, <2>3, <2>4
  <2>6. OldEntry.text = at + Len(c) + 1
      BY <1>2, <1>3, <1>8, <2>4
  <2> QED
      BY <1>4, <2>5, <2>6 DEF y
<1> QED
    BY <1>5, <1>7, <1>8

\* The buffer after a name in the old format: what is kept of the name before,
\* and what the entry adds.
Added(path, y) == [i \in 1 .. Len(path) - y |-> path[y + i]]
Buffer(buf, y, text) == (SubSeq(buf \o [i \in 1 .. y |-> NUL], 1, y) \o text) \o <<NUL>>

LEMMA OldBufferIs ==
    ASSUME NEW path \in Seq(Char), NEW y \in 0 .. Len(path), NEW buf \in Seq(Bytes),
           y <= Len(buf), \A i \in 1 .. y : buf[i] = path[i],
           NEW new, new = Buffer(buf, y, Added(path, y))
    PROVE  Holds(new, path) /\ Name(new) = path
<1> DEFINE m == Len(path) - y
           text == Added(path, y)
           nuls == [i \in 1 .. y |-> NUL]
           kept == SubSeq(buf \o nuls, 1, y)
           both == kept \o text
<1>1. /\ y \in Nat /\ Len(path) \in Nat /\ Len(path) = y + m /\ Len(buf) \in Nat /\ m \in Nat
      /\ path \in Seq(Bytes)
    BY CharIsByte
<1>2. kept \in Seq(Bytes) /\ Len(kept) = y /\ \A i \in 1 .. y : kept[i] = path[i]
  <2>1. nuls \in Seq(Bytes) /\ Len(nuls) = y
    <3>1. NUL \in Bytes /\ y \in Nat
        BY <1>1, CharIsByte
    <3>2. [i \in 1 .. y |-> NUL] \in Seq(Bytes) /\ Len([i \in 1 .. y |-> NUL]) = y
        BY ONLY <3>1
    <3> QED
        BY <3>2
  <2> HIDE DEF nuls
  <2> DEFINE long == buf \o nuls
  <2>2. /\ long \in Seq(Bytes) /\ Len(long) = Len(buf) + y
        /\ \A i \in 1 .. Len(buf) : long[i] = buf[i]
      BY <2>1, ConcatIs
  <2> HIDE DEF long
  <2>3. /\ SubSeq(long, 1, y) \in Seq(Bytes) /\ Len(SubSeq(long, 1, y)) = y
        /\ \A i \in 1 .. y : SubSeq(long, 1, y)[i] = long[i]
      BY <1>1, <2>2
  <2>4. \A i \in 1 .. y : i \in 1 .. Len(buf)
      BY <1>1
  <2> QED
      BY <2>2, <2>3, <2>4 DEF long
<1> HIDE DEF kept
<1>3. text \in Seq(Bytes) /\ Len(text) = m /\ \A i \in 1 .. m : text[i] = path[y + i]
  <2>1. \A i \in 1 .. m : y + i \in 1 .. Len(path)
      BY <1>1
  <2>2. text = [i \in 1 .. m |-> path[y + i]]
      BY DEF Added
  <2> HIDE DEF text, m
  <2> QED
      BY <1>1, <2>1, <2>2
<1> HIDE DEF text, m
<1>4. /\ both \in Seq(Bytes) /\ Len(both) = y + m
      /\ \A i \in 1 .. y : both[i] = path[i]
      /\ \A i \in 1 .. m : both[y + i] = path[y + i]
  <2>1. kept \in Seq(Bytes) /\ text \in Seq(Bytes)
      BY <1>2, <1>3
  <2>2. /\ kept \o text \in Seq(Bytes) /\ Len(kept \o text) = Len(kept) + Len(text)
        /\ \A i \in 1 .. Len(kept) : (kept \o text)[i] = kept[i]
        /\ \A i \in 1 .. Len(text) : (kept \o text)[Len(kept) + i] = text[i]
      BY ONLY <2>1, ConcatIs
  <2>3. /\ both \in Seq(Bytes) /\ Len(both) = Len(kept) + Len(text)
        /\ \A i \in 1 .. Len(kept) : both[i] = kept[i]
        /\ \A i \in 1 .. Len(text) : both[Len(kept) + i] = text[i]
      BY ONLY <2>2 DEF both
  <2> HIDE DEF both
  <2> QED
      BY <1>2, <1>3, <2>1, <2>3
<1> HIDE DEF both
<1>5. \A i \in 1 .. y + m : both[i] = path[i]
  <2>1. ASSUME NEW i \in 1 .. y + m PROVE both[i] = path[i]
    <3>1. CASE i <= y
        BY <1>1, <1>4, <3>1
    <3>2. CASE ~(i <= y)
      <4>1. i - y \in 1 .. m /\ y + (i - y) = i
          BY <1>1, <3>2
      <4> QED
          BY <1>4, <4>1
    <3> QED
        BY <3>1, <3>2
  <2> QED
      BY <2>1
<1>6. new = both \o <<NUL>>
    BY DEF both, kept, text, Buffer
<1>7. /\ new \in Seq(Bytes) /\ Len(new) = Len(path) + 1 /\ new[Len(path) + 1] = NUL
      /\ \A i \in 1 .. Len(path) : new[i] = both[i]
  <2> DEFINE nul == <<NUL>>
  <2>1. nul \in Seq(Bytes) /\ Len(nul) = 1 /\ nul[1] = NUL
      BY CharIsByte
  <2>2. new = both \o nul
      BY <1>6
  <2> HIDE DEF nul
  <2>4. both \in Seq(Bytes) /\ nul \in Seq(Bytes)
      BY <1>4, <2>1
  <2>5. /\ both \o nul \in Seq(Bytes) /\ Len(both \o nul) = Len(both) + Len(nul)
        /\ \A i \in 1 .. Len(both) : (both \o nul)[i] = both[i]
        /\ \A i \in 1 .. Len(nul) : (both \o nul)[Len(both) + i] = nul[i]
      BY ONLY <2>4, ConcatIs
  <2>3. /\ new \in Seq(Bytes) /\ Len(new) = Len(both) + Len(nul)
        /\ \A i \in 1 .. Len(both) : new[i] = both[i]
        /\ \A i \in 1 .. Len(nul) : new[Len(both) + i] = nul[i]
      BY ONLY <2>2, <2>5
  <2>6. Len(both) = Len(path) /\ 1 \in 1 .. Len(nul)
      BY <1>1, <1>4, <2>1
  <2>7. new[Len(both) + 1] = NUL
      BY <2>1, <2>3, <2>6
  <2> QED
      BY <2>1, <2>3, <2>6, <2>7
<1>8. Holds(new, path)
  <2>1. Len(path) <= Len(new)
      BY <1>1, <1>7
  <2>2. \A i \in 1 .. Len(path) : new[i] = path[i]
      BY <1>1, <1>5, <1>7
  <2> QED
      BY <1>7, <2>1, <2>2 DEF Holds
<1> QED
    BY <1>7, <1>8, NameIs

\* So it is in the old format, if its count is not misread.
LEMMA CodeNext ==
    ASSUME NEW list \in Names, NEW k \in 0 .. Len(list), DOMAIN procdata = DOMAIN Closed,
           CodePlace(procdata, Db, list, k), procdata.pos <= Len(Db.bytes), ~Misread
    PROVE  IsNext(list, k)
<1> DEFINE n == Len(list)
           b == Db.bytes
<1>1. /\ list \in Seq(Seq(Char)) /\ Short(list) /\ Db.format = "old"
      /\ n \in Nat /\ k \in 0 .. n
    BY DEF CodePlace, Names
<1>2. PICK w : /\ OldRun(w, list) /\ IsBytes(b, w, list)
               /\ procdata.pos = Len(w[k].bytes) + 1 /\ procdata.count = w[k].oldcount
               /\ Holds(procdata.buf, w[k].oldpath)
    BY DEF CodePlace
<1>3. w[k] \in OldWriterType /\ w[n] \in OldWriterType
    BY <1>1, <1>2, OldRunIs
<1>4. b \in Seq(Nat) /\ Len(b) \in Nat
  <2>1. w[n].bytes \in Seq(Nat)
      BY <1>3 DEF OldWriterType
  <2> QED
      BY <1>2, <2>1 DEF IsBytes
<1>5. k # n
    BY <1>2, <1>4 DEF IsBytes
<1> HIDE DEF n, b
<1>6. k + 1 \in 1 .. n /\ (k + 1) - 1 = k
    BY <1>1, <1>5
<1> DEFINE j == k + 1
           path == list[j]
           y == w[j].oldcount
           m == Len(path) - y
           e == OldEntry
           r == OldRead(e)
<1>7. j \in 1 .. n /\ j - 1 = k /\ path \in Seq(Char)
    BY <1>1, <1>6 DEF n
<1> HIDE DEF j
<1>8. /\ e.count = y /\ e.text = OldTextAt(w, j)
    BY <1>1, <1>2, <1>7, OldEntryIsRight DEF n, b
<1>9. /\ InFile(b, w, list, j) /\ OldPart(w[k], w[j], path)
      /\ w[j].oldpath = path /\ w[k].oldpath \in Seq(Char)
  <2>1. OldPart(w[j - 1], w[j], path)
      BY <1>1, <1>2, <1>7, OldRunIs DEF n
  <2>2. InFile(b, w, list, j)
      BY <1>1, <1>2, <1>7, OldPartInFile DEF n
  <2>3. w[k].oldpath \in Seq(Char)
      BY <1>3 DEF OldWriterType
  <2> QED
      BY <1>7, <2>1, <2>2, <2>3 DEF OldPart
<1>10. /\ y \in 0 .. Len(path) /\ y <= Len(w[k].oldpath)
       /\ \A i \in 1 .. y : w[k].oldpath[i] = path[i]
       /\ Len(path) \in Nat /\ m \in Nat /\ y \in Nat
  <2>1. /\ y = PrefixLength(w[k].oldpath, path) /\ y \in 0 .. Len(path)
        /\ y <= Len(w[k].oldpath)
      BY <1>9 DEF OldPart
  <2>2. \A i \in 1 .. y : w[k].oldpath[i] = path[i]
      BY <1>7, <1>9, <2>1, PrefixIs
  <2> QED
      BY <1>7, <2>1, <2>2
<1> DEFINE c == Len(CountOf(w, j))
           at == Len(w[k].bytes)
<1>11. /\ at \in Nat /\ c \in Nat /\ Len(w[j].bytes) = at + c + m
       /\ \A i \in 1 .. m : b[at + c + i] = OldChar(path[y + i])
    BY <1>7, <1>9 DEF InFile
<1>12. e.text = at + c + 1
    BY <1>7, <1>8 DEF OldTextAt
<1>13. OldEnd(b, e.text) = Len(w[j].bytes) + 1
    BY <1>1, <1>2, <1>7, <1>8, OldEndIs DEF n
<1> DEFINE stop == Min({i \in e.text .. Len(Db.bytes) : Byte(i) <= OldEscape}
                       \cup {Len(Db.bytes) + 1})
           word == IF IsLong THEN Word.endian ELSE procdata.endian
           text == [i \in 1 .. stop - e.text |-> Byte(e.text + i - 1) - OldEscape]
           new == (SubSeq(procdata.buf \o [i \in 1 .. e.count |-> NUL], 1, e.count) \o text)
                  \o <<NUL>>
<1>14. stop = OldEnd(b, e.text)
    BY DEF OldEnd, Byte, b
<1>15. r = [procdata EXCEPT !.count = e.count, !.len = e.count + stop - e.text, !.pos = stop,
                            !.buf = new, !.endian = word]
    BY DEF OldRead
<1> HIDE DEF stop, word
<1>16. stop = at + c + m + 1 /\ stop - e.text = m
  <2> HIDE DEF at, c, m, e
  <2> QED
      BY <1>10, <1>11, <1>12, <1>13, <1>14
<1>17. text = [i \in 1 .. m |-> path[y + i]]
  <2>1. ASSUME NEW i \in 1 .. m PROVE Byte(e.text + i - 1) - OldEscape = path[y + i]
    <3>1. e.text + i - 1 = at + c + i
      <4> HIDE DEF at, c, m, e
      <4> QED
          BY <1>10, <1>11, <1>12
    <3>2. Byte(e.text + i - 1) = OldEscape + path[y + i]
      <4>1. Byte(e.text + i - 1) = b[at + c + i]
          BY <3>1 DEF Byte, b
      <4> QED
          BY <1>11, <4>1 DEF OldChar
    <3>3. path[y + i] \in Nat
      <4>1. y + i \in 1 .. Len(path)
        <5> HIDE DEF y
        <5> QED
            BY <1>10
      <4>2. path[y + i] \in Char
          BY <1>7, <4>1
      <4> QED
          BY <4>2, ByteFacts DEF Char
    <3> HIDE DEF path, e, y
    <3> QED
        BY <3>2, <3>3, OldSizes
  <2>2. \A i \in 1 .. m : Byte(e.text + i - 1) - OldEscape = path[y + i]
      BY <2>1
  <2> HIDE DEF e, path, y, m
  <2> QED
      BY <1>16, <2>2
<1>18. Holds(new, path) /\ Name(new) = path
  <2>1. /\ procdata.buf \in Seq(Bytes) /\ Len(w[k].oldpath) <= Len(procdata.buf)
        /\ \A i \in 1 .. Len(w[k].oldpath) : procdata.buf[i] = w[k].oldpath[i]
      BY <1>2 DEF Holds
  <2>2. Len(procdata.buf) \in Nat /\ Len(w[k].oldpath) \in Nat
      BY <1>9, <2>1
  <2>3. y <= Len(procdata.buf) /\ \A i \in 1 .. y : procdata.buf[i] = path[i]
    <3> HIDE DEF y, path
    <3>1. \A i \in 1 .. y : i \in 1 .. Len(w[k].oldpath)
        BY <1>10, <2>2
    <3> QED
        BY <1>10, <2>1, <2>2, <3>1
  <2>4. text = Added(path, y)
      BY <1>17 DEF Added
  <2>5. new = Buffer(procdata.buf, y, text)
      BY <1>8 DEF Buffer
  <2> HIDE DEF new, text, y, path, m
  <2>6. new = Buffer(procdata.buf, y, Added(path, y))
      BY <2>4, <2>5
  <2> QED
      BY <1>7, <1>10, <2>1, <2>3, <2>6, OldBufferIs
<1> HIDE DEF new, text, r, e, y, path, m, c, at
<1>19. /\ DOMAIN r = DOMAIN Closed /\ r.pos = stop /\ r.count = e.count /\ r.buf = new
    BY <1>15 DEF Closed
<1>20. NextEntry = e /\ NextRead = r
    BY <1>1 DEF NextEntry, NextRead, e, r
<1>21. CodePlace(r, Db, list, j)
  <2>1. r.pos = Len(w[j].bytes) + 1 /\ r.count = w[j].oldcount /\ Holds(r.buf, w[j].oldpath)
      BY <1>8, <1>9, <1>13, <1>14, <1>18, <1>19 DEF y
  <2> QED
      BY <1>1, <1>2, <2>1 DEF CodePlace, b
<1>22. ~(e.count < 0)
    BY <1>8, <1>10
<1>23. Place(NextRead, Db, list, j)
  <2>1. j \in 0 .. Len(list)
      BY <1>1, <1>7 DEF n
  <2> QED
      BY <1>19, <1>20, <1>21, <2>1 DEF Place
<1> QED
    BY <1>1, <1>6, <1>18, <1>19, <1>20, <1>22, <1>23 DEF IsNext, path, j, n

\* The name an slocate database begins with has no count.
LEMMA OneName ==
    ASSUME NEW list \in Names, Len(list) <= 1, Len(list) # 0
    PROVE  Len(list) = 1 /\ list[1] \in Seq(Char)
<1> DEFINE n == Len(list)
<1>1. n \in Nat /\ n <= 1 /\ n # 0 /\ \A i \in 1 .. n : list[i] \in Seq(Char)
    BY DEF Names
<1> HIDE DEF n
<1>2. n = 1 /\ 1 \in 1 .. n
    BY <1>1
<1> QED
    BY <1>1, <1>2 DEF n

\* So it is in the format of slocate, of a database of one name.
LEMMA SlocateNext ==
    ASSUME NEW list \in Names, NEW k \in 0 .. Len(list), DOMAIN procdata = DOMAIN Closed,
           SlocatePlace(procdata, Db, list, k), procdata.pos <= Len(Db.bytes)
    PROVE  IsNext(list, k)
<1> DEFINE path == list[1]
           n == Len(path)
           b == Db.bytes
<1>1. /\ list \in Seq(Seq(Char)) /\ Len(list) \in Nat /\ Len(list) <= 1 /\ k \in 0 .. Len(list)
      /\ Db.format \in Slocate /\ Db.format # "old"
    BY DEF SlocatePlace, Names, Slocate
<1>2. Len(list) = 1 /\ k = 0
  <2>1. CASE Len(list) = 0
    <3>1. k = 0 /\ Db.bytes = <<>> /\ procdata.pos = 1 /\ Len(Db.bytes) = 0
        BY <1>1, <2>1 DEF SlocatePlace
    <3> QED
        BY <3>1
  <2>2. CASE Len(list) # 0
    <3>1. Len(list) = 1 /\ list[1] \in Seq(Char)
        BY <1>1, <2>2, OneName
    <3>2. Db.bytes = list[1] \o <<NUL>>
        BY <3>1 DEF SlocatePlace
    <3>3. Len(Db.bytes) \in Nat
      <4>1. list[1] \in Seq(Bytes) /\ <<NUL>> \in Seq(Bytes)
          BY <3>1, CharIsByte
      <4> QED
          BY <3>2, <4>1
    <3>4. k # 1
        BY <3>3 DEF SlocatePlace
    <3> QED
        BY <1>1, <3>1, <3>4
  <2> QED
      BY <2>1, <2>2
<1>3. /\ b = path \o <<NUL>> /\ procdata.pos = 1 /\ procdata.itemcount = 0
      /\ procdata.buf = <<>> /\ procdata.len = 0 /\ path \in Seq(Char)
  <2>1. list[1] \in Seq(Char)
    <3>1. Len(list) <= 1 /\ Len(list) # 0
        BY <1>2
    <3> QED
        BY <3>1, OneName
  <2> QED
      BY <1>2, <2>1 DEF SlocatePlace
<1> HIDE DEF b, path, n
<1>4. /\ n \in Nat /\ b \in Seq(Bytes) /\ Len(b) = n + 1 /\ b[n + 1] = NUL
      /\ \A i \in 1 .. n : b[i] = path[i] /\ b[i] # NUL
  <2> DEFINE nul == <<NUL>>
  <2>1. nul \in Seq(Bytes) /\ Len(nul) = 1 /\ nul[1] = NUL
      BY CharIsByte
  <2>2. path \in Seq(Bytes) /\ n \in Nat
      BY <1>3, CharIsByte DEF n
  <2>3. b = path \o nul
      BY <1>3
  <2> HIDE DEF nul
  <2>4. nul \in Seq(Bytes)
      BY <2>1
  <2>5. /\ path \o nul \in Seq(Bytes) /\ Len(path \o nul) = Len(path) + Len(nul)
        /\ \A i \in 1 .. Len(path) : (path \o nul)[i] = path[i]
        /\ \A i \in 1 .. Len(nul) : (path \o nul)[Len(path) + i] = nul[i]
      BY ONLY <2>2, <2>4, ConcatIs
  <2>6. /\ b \in Seq(Bytes) /\ Len(b) = Len(path) + Len(nul)
        /\ \A i \in 1 .. Len(path) : b[i] = path[i]
        /\ \A i \in 1 .. Len(nul) : b[Len(path) + i] = nul[i]
      BY ONLY <2>3, <2>5
  <2>7. 1 \in 1 .. Len(nul)
      BY <2>1
  <2>8. \A i \in 1 .. n : path[i] # NUL
    <3>1. \A i \in 1 .. Len(path) : path[i] \in Char
        BY <1>3
    <3> QED
        BY <3>1, CharIsByte DEF n
  <2> QED
      BY <2>1, <2>2, <2>6, <2>7, <2>8 DEF n
<1> DEFINE e == [count |-> 0, text |-> 1]
           r == Locate02Read(e)
           end == NulFrom(1)
           buf == SubSeq(procdata.buf, 1, 0) \o SubSeq(b, 1, end)
<1>5. NextEntry = e
  <2>1. Locate02Entry = e
      BY <1>1, <1>3 DEF Locate02Entry
  <2> QED
      BY <1>1, <2>1 DEF NextEntry
<1>6. NextRead = r
    BY <1>1, <1>5 DEF NextRead
<1>7. end = n + 1
  <2> DEFINE nuls == {i \in 1 .. Len(b) : b[i] = NUL} \cup {Len(b)}
  <2>1. end = Min(nuls)
      BY DEF NulFrom, Byte, b
  <2>2. nuls = {n + 1}
      BY <1>4
  <2>3. nuls \subseteq Nat /\ nuls # {}
      BY <1>4, <2>2
  <2> HIDE DEF nuls, end
  <2>4. Min(nuls) \in nuls
      BY <2>3, MinIsLeast
  <2> QED
      BY <2>1, <2>2, <2>4
<1>8. buf = b
  <2>1. SubSeq(procdata.buf, 1, 0) = <<>>
      BY <1>3
  <2>2. SubSeq(b, 1, n + 1) = b
      BY <1>4
  <2>3. <<>> \o b = b
      BY <1>4
  <2> HIDE DEF end
  <2> QED
      BY <1>7, <2>1, <2>2, <2>3
<1>9. /\ DOMAIN r = DOMAIN Closed /\ r.pos = end + 1 /\ r.buf = buf
  <2> DEFINE items == IF Db.format \in Slocate /\ procdata.itemcount < 6
                      THEN procdata.itemcount + 1 ELSE procdata.itemcount
             len == 0 + end - 1 + 1
  <2>1. r = [procdata EXCEPT !.count = 0, !.len = len, !.pos = end + 1, !.buf = buf,
                             !.itemcount = items]
      BY DEF Locate02Read, b
  <2> HIDE DEF items, buf, end, len, r
  <2> QED
      BY <2>1 DEF Closed
<1> HIDE DEF r, buf, end
<1>10. Name(b) = path
  <2>1. Holds(b, path)
      BY <1>4 DEF Holds, n
  <2> QED
      BY <1>3, <1>4, <2>1, NameIs DEF n
<1>11. SlocatePlace(r, Db, list, 1)
  <2>2. r.pos = Len(b) + 1
      BY <1>4, <1>7, <1>9
  <2> QED
      BY <1>1, <1>2, <1>3, <2>2 DEF SlocatePlace, b, path
<1>12. Place(r, Db, list, 1)
    BY <1>1, <1>2, <1>9, <1>11 DEF Place
<1>13. /\ ~(e.count < 0) /\ ~(e.count > procdata.len) /\ ~(e.text > Len(b)) /\ k + 1 = 1
    BY <1>2, <1>3, <1>4
<1> QED
    BY <1>2, <1>5, <1>6, <1>8, <1>9, <1>10, <1>12, <1>13 DEF IsNext, b, path

\* In every format: the next entry is the next name.
LEMMA NextIs ==
    ASSUME NEW list, NEW k, Place(procdata, Db, list, k), procdata.pos <= Len(Db.bytes),
           Db.format = "old" => ~Misread
    PROVE  IsNext(list, k)
<1>1. list \in Names /\ k \in 0 .. Len(list) /\ DOMAIN procdata = DOMAIN Closed
    BY DEF Place
<1>2. CASE FrcodePlace(procdata, Db, list, k)
    BY <1>1, <1>2, FrcodeNext
<1>3. CASE CodePlace(procdata, Db, list, k)
  <2>1. ~Misread
      BY <1>3 DEF CodePlace
  <2> QED
      BY <1>1, <1>3, <2>1, CodeNext
<1>4. CASE SlocatePlace(procdata, Db, list, k)
    BY <1>1, <1>4, SlocateNext
<1> QED
    BY <1>2, <1>3, <1>4 DEF Place

\* Every name takes a byte, so that the file ends with the last of them.
LEMMA EndIsLast ==
    ASSUME NEW r, NEW d, NEW list, NEW k, Place(r, d, list, k), r.pos > Len(d.bytes)
    PROVE  k = Len(list)
<1> DEFINE n == Len(list)
<1>1. list \in Seq(Seq(Char)) /\ n \in Nat /\ k \in 0 .. n
    BY DEF Place, Names
<1>2. SUFFICES ASSUME k # n PROVE FALSE
    OBVIOUS
<1>3. k + 1 \in 1 .. n /\ k + 1 \in 0 .. n /\ (k + 1) - 1 = k
    BY <1>1, <1>2
<1> HIDE DEF n
<1>4. CASE FrcodePlace(r, d, list, k)
  <2>1. PICK w : Made(d, list, w) /\ r.pos = Len(w[k].bytes) + 1
      BY <1>4 DEF FrcodePlace
  <2>2. Run(w, list) /\ d.bytes = w[n].bytes
      BY <2>1 DEF Made, n
  <2> DEFINE c == Len(CountBytes(w[k + 1].oldcount - w[k].oldcount))
             m == Len(list[k + 1]) - w[k + 1].oldcount
             at == Len(w[k].bytes)
             l == Len(w[k + 1].bytes)
             b == Len(d.bytes)
  <2>3. Entry(w[(k + 1) - 1], w[k + 1], list[k + 1])
      BY <1>1, <1>3, <2>2, RunIs DEF n
  <2>4. l = at + c + m + 1
      BY <1>3, <2>3 DEF Entry
  <2>5. l <= b
      BY <1>1, <1>3, <2>2, RunGrows DEF n
  <2>6. c \in Nat
    <3>1. CountBytes(w[k + 1].oldcount - w[k].oldcount) \in Seq(Bytes)
        BY <1>3, <2>3, CountReadsBack DEF Entry
    <3> QED
        BY <3>1
  <2>7. m \in Nat
    <3>1. list[k + 1] \in Seq(Char) /\ w[k + 1].oldcount \in 0 .. Len(list[k + 1])
        BY <1>1, <1>3, <2>3 DEF Entry, n
    <3> QED
        BY <3>1
  <2>8. at \in Nat /\ b \in Nat
    <3>1. w[k] \in WriterType /\ w[n] \in WriterType
        BY <1>1, <2>2, RunIs DEF n
    <3>2. w[k].bytes \in Seq(Bytes) /\ w[n].bytes \in Seq(Bytes)
        BY <3>1 DEF WriterType
    <3> QED
        BY <2>2, <3>2
  <2>9. r.pos = at + 1 /\ r.pos > b
      BY <2>1
  <2> HIDE DEF c, m, at, l, b
  <2> QED
      BY <2>4, <2>5, <2>6, <2>7, <2>8, <2>9
<1>5. CASE CodePlace(r, d, list, k)
  <2>1. PICK w : OldRun(w, list) /\ IsBytes(d.bytes, w, list) /\ r.pos = Len(w[k].bytes) + 1
      BY <1>5 DEF CodePlace
  <2>2. InFile(d.bytes, w, list, k + 1)
      BY <1>1, <1>3, <1>5, <2>1, OldPartInFile DEF CodePlace, n
  <2> DEFINE c == Len(CountOf(w, k + 1))
             m == Len(list[k + 1]) - w[k + 1].oldcount
             at == Len(w[k].bytes)
             b == Len(d.bytes)
  <2>3. at \in Nat /\ m \in Nat /\ c \in Nat /\ c >= 1 /\ at + c + m <= b /\ b \in Nat
      BY <1>3, <2>2 DEF InFile
  <2>4. r.pos = at + 1 /\ r.pos > b
      BY <2>1
  <2> HIDE DEF c, m, at, b
  <2> QED
      BY <2>3, <2>4
<1>6. CASE SlocatePlace(r, d, list, k)
  <2>0. n = 1 /\ k = 0 /\ n = Len(list)
      BY <1>1, <1>2, <1>6 DEF SlocatePlace, n
  <2>1. list[1] \in Seq(Char)
    <3>1. list \in Names
        BY DEF Place
    <3>2. Len(list) <= 1
        BY <1>6 DEF SlocatePlace
    <3>3. n # 0
        BY <1>1, <1>2
    <3> QED
        BY <3>1, <3>2, <3>3, OneName DEF n
  <2>2. d.bytes = list[1] \o <<NUL>> /\ r.pos = 1
      BY <1>6, <2>0 DEF SlocatePlace
  <2>3. Len(d.bytes) = Len(list[1]) + 1 /\ Len(list[1]) \in Nat
    <3>1. list[1] \in Seq(Bytes) /\ <<NUL>> \in Seq(Bytes)
        BY <2>1, CharIsByte
    <3> QED
        BY <2>2, <3>1
  <2> QED
      BY <2>2, <2>3
<1> QED
    BY <1>4, <1>5, <1>6 DEF Place

------------------------------------------------------------------------------
(* What the names come to.                                                 *)

\* The names wanted of the open database: of the first k, and of all.
FirstWanted(k) == WantedUpTo(opened[Len(opened)])[k]
LastWanted == WantedOf(opened[Len(opened)])

\* What is wanted stays the same as long as the book does.
LEMMA HistoryStays ==
    ASSUME opt' = opt, opened' = opened
    PROVE  /\ WantedOfAll' = WantedOfAll /\ LastWanted' = LastWanted
           /\ \A k : FirstWanted(k)' = FirstWanted(k)
           /\ \A l : Limited(l)' = Limited(l)
           /\ UseLimit' = UseLimit
<1>1. WantedOfAll' = WantedOfAll
    BY DEF WantedOfAll, WantedThrough, WantedOf, WantedUpTo, Wanted
<1>2. LastWanted' = LastWanted
    BY DEF LastWanted, WantedOf, WantedUpTo, Wanted
<1>3. ASSUME NEW k PROVE FirstWanted(k)' = FirstWanted(k)
    BY DEF FirstWanted, WantedUpTo, Wanted
<1>4. ASSUME NEW l PROVE Limited(l)' = Limited(l)
    BY DEF Limited, UseLimit
<1>5. UseLimit' = UseLimit
    BY DEF UseLimit
<1> QED
    BY <1>1, <1>2, <1>3, <1>4, <1>5

\* With another database in the book it is the open one.
LEMMA HistoryGrows ==
    ASSUME opt' = opt, NEW m, opened' = m
    PROVE  /\ WantedOfAll' = WantedThrough(m)[Len(m)]
           /\ LastWanted' = WantedOf(m[Len(m)])
           /\ \A k : FirstWanted(k)' = WantedUpTo(m[Len(m)])[k]
<1>1. WantedOfAll' = WantedThrough(m)[Len(m)]
    BY DEF WantedOfAll, WantedThrough, WantedOf, WantedUpTo, Wanted
<1>2. LastWanted' = WantedOf(m[Len(m)])
    BY DEF LastWanted, WantedOf, WantedUpTo, Wanted
<1>3. ASSUME NEW k PROVE FirstWanted(k)' = WantedUpTo(m[Len(m)])[k]
    BY DEF FirstWanted, WantedUpTo, Wanted
<1> QED
    BY <1>1, <1>2, <1>3

\* What the visitors let pass is what is wanted.
LEMMA ShownIsWanted ==
    ASSUME opt \in Option, NEW o, NEW name, procdata.check = Checked(o.format),
           ~(o.format = "slocate1" /\ opt.existence = "nonexisting")
    PROVE  Shown(name) <=> Wanted(name, o)
<1>1. opt.existence \in {"either", "existing", "nonexisting"}
    BY DEF Option
<1>2. CheckPasses(name) <=>
        /\ (o.format = "slocate1" \/ opt.existence = "existing") => name \in Existing
        /\ opt.existence = "nonexisting" => name \notin Existing
    BY <1>1 DEF CheckPasses, Checked
<1> QED
    BY <1>2 DEF Shown, Chosen, Wanted

\* The names wanted of the first k are the first of all that are wanted.
LEMMA WantedGrows ==
    ASSUME NEW o, o.list \in Names, NEW k \in 0 .. Len(o.list)
    PROVE  Prolongs(WantedUpTo(o)[k], WantedOf(o))
<1> DEFINE up == WantedUpTo(o)
           n == Len(o.list)
<1>1. up \in [0 .. n -> Names] /\ WantedStep(up, o) /\ n \in Nat
    BY WantedUpToIs DEF Names
<1> HIDE DEF up, n
<1>2. \A j \in 0 .. n : up[j] \in Names /\ Len(up[j]) \in Nat
  <2>1. \A j \in 0 .. n : up[j] \in Names
      BY <1>1
  <2>2. \A l \in Names : Len(l) \in Nat
      BY DEF Names
  <2> QED
      BY <2>1, <2>2
<1>3. ASSUME NEW j \in 1 .. n PROVE Prolongs(up[j - 1], up[j])
  <2> DEFINE s == up[j - 1]
             x == o.list[j]
  <2>1. s \in Names
    <3>1. j - 1 \in 0 .. n
        BY <1>1
    <3> QED
        BY <1>2, <3>1
  <2>2. up[j] = Append(s, x) \/ up[j] = s
      BY <1>1 DEF WantedStep, n
  <2> HIDE DEF s, x
  <2>3. CASE up[j] = Append(s, x)
    <3>1. /\ Len(Append(s, x)) = Len(s) + 1 /\ Len(s) \in Nat
          /\ \A i \in 1 .. Len(s) : Append(s, x)[i] = s[i]
        BY <2>1, AppendIs DEF Names
    <3> QED
        BY <2>3, <3>1 DEF Prolongs, s
  <2>4. CASE up[j] = s
    <3>1. Len(s) \in Nat
        BY <2>1 DEF Names
    <3> QED
        BY <2>4, <3>1 DEF Prolongs, s
  <2> QED
      BY <2>2, <2>3, <2>4
<1>4. Growing(up, n)
    BY <1>2, <1>3 DEF Growing
<1>5. Prolongs(up[k], up[n])
    BY <1>1, <1>4, Grows DEF n
<1> QED
    BY <1>5 DEF up, n, WantedOf

\* The limit cuts off nothing, or all that comes behind a list that long.
LEMMA NothingIsCut ==
    ASSUME opt \in Option, NEW list \in Names, UseLimit => Len(Limited(list)) < opt.limit
    PROVE  Limited(list) = list
<1>1. CASE ~UseLimit
    BY <1>1 DEF Limited
<1>2. CASE UseLimit
  <2> DEFINE n == Len(list)
             m == Min({opt.limit, n})
             cut == SubSeq(list, 1, m)
  <2>1. n \in Nat /\ opt.limit \in Nat
      BY <1>2 DEF Names, Option, UseLimit
  <2>2. m \in {opt.limit, n} /\ m <= opt.limit /\ m <= n
    <3>1. {opt.limit, n} \subseteq Nat /\ {opt.limit, n} # {}
        BY <2>1
    <3> QED
        BY <3>1, MinIsLeast
  <2>3. Limited(list) = cut
      BY <1>2 DEF Limited
  <2> HIDE DEF m, n
  <2>4. Len(cut) = m
    <3>1. m \in 0 .. n
        BY <2>1, <2>2
    <3> QED
        BY <3>1 DEF Names, n
  <2>5. m = n
      BY <1>2, <2>1, <2>2, <2>3, <2>4
  <2>6. SubSeq(list, 1, Len(list)) = list
      BY DEF Names
  <2> QED
      BY <2>3, <2>5, <2>6 DEF n
<1> QED
    BY <1>1, <1>2

LEMMA RestIsCut ==
    ASSUME opt \in Option, NEW list \in Names, NEW s \in Names, UseLimit,
           Len(s) = opt.limit, Prolongs(s, list)
    PROVE  Limited(list) = s
<1> DEFINE n == Len(list)
           m == Min({opt.limit, n})
           cut == SubSeq(list, 1, m)
<1>1. n \in Nat /\ opt.limit \in Nat /\ opt.limit <= n
  <2>1. Len(s) \in Nat /\ Len(list) \in Nat
      BY DEF Names
  <2> QED
      BY <2>1 DEF Prolongs
<1>2. m = opt.limit
  <2>1. {opt.limit, n} \subseteq Nat /\ {opt.limit, n} # {}
      BY <1>1
  <2>2. m \in {opt.limit, n} /\ m <= opt.limit
      BY <2>1, MinIsLeast
  <2> HIDE DEF m, n
  <2> QED
      BY <1>1, <2>2
<1>3. Limited(list) = cut
    BY DEF Limited
<1> HIDE DEF m
<1>4. cut \in Seq(Seq(Char)) /\ Len(cut) = Len(s) /\ \A i \in 1 .. Len(s) : cut[i] = list[i]
  <2>1. m \in 0 .. n /\ m = Len(s)
      BY <1>1, <1>2
  <2> QED
      BY <2>1 DEF Names
<1> HIDE DEF cut
<1>5. s \in Seq(Seq(Char)) /\ \A i \in 1 .. Len(s) : cut[i] = s[i]
    BY <1>4 DEF Prolongs, Names
<1>6. cut = s
    BY <1>4, <1>5, SeqEqual
<1> QED
    BY <1>3, <1>6

------------------------------------------------------------------------------
(* Where the search of a database begins.                                  *)

\* The first path of an slocate database stands there without a count.
LEMMA FirstOfSlocate ==
    ASSUME NEW path \in Seq(Char)
    PROVE  FrcodePath(Fresh(TRUE), path).bytes = path \o <<NUL>>
<1> DEFINE w == Fresh(TRUE)
           count == Shared(w, path)
<1>1. /\ w.oldpath = <<>> /\ w.oldcount = 0 /\ w.slocate_compat = TRUE /\ w.bytes = <<>>
    BY DEF Fresh
<1>2. count = 0
  <2> DEFINE old == <<>>
  <2>1. old \in Seq(Char) /\ Len(old) = 0
      OBVIOUS
  <2>2. w.oldpath = old
      BY <1>1
  <2> HIDE DEF old
  <2>3. PrefixLength(old, path) \in 0 .. Len(old)
      BY <2>1, PrefixIs
  <2>4. PrefixLength(old, path) = 0
      BY <2>1, <2>3
  <2> QED
      BY <2>2, <2>4 DEF Shared
<1> DEFINE rest == SubSeq(path, count + 1, Len(path))
           nul == <<NUL>>
           v == FrcodePath(w, path)
<1>3. v.bytes = ((w.bytes \o <<>>) \o rest) \o nul
    BY <1>1 DEF FrcodePath
<1> HIDE DEF w, count, v
<1>4. rest = path
    BY <1>2
<1> HIDE DEF rest, nul
<1>5. (w.bytes \o <<>>) \o rest = path
    BY <1>1, <1>4
<1> QED
    BY <1>3, <1>5 DEF nul, v, w

\* A database in the format of slocate with at most one name.
LEMMA SlocateBegins ==
    ASSUME NEW list \in Names, NEW f \in Slocate, Len(list) <= 1
    PROVE  LET b == Writers(f, list)[Len(list)].bytes
           IN /\ Len(list) = 0 => b = <<>>
              /\ Len(list) = 1 => b = list[1] \o <<NUL>>
<1> DEFINE w == Writers(f, list)
<1>1. w = [k \in 0 .. Len(list) |-> IF k = 0 THEN Fresh(f \in Slocate)
                                   ELSE After(f, w[k - 1], list[k])]
    BY WritersAre DEF Names
<1> HIDE DEF w
<1>2. (f \in Slocate) = TRUE /\ f # "old"
    BY DEF Slocate
<1>3. \A k \in 0 .. Len(list) : w[k] = IF k = 0 THEN Fresh(f \in Slocate)
                                       ELSE After(f, w[k - 1], list[k])
    BY <1>1
<1>4. Len(list) \in Nat
    BY DEF Names
<1>5. w[0] = Fresh(TRUE)
  <2>1. 0 \in 0 .. Len(list)
      BY <1>4
  <2> QED
      BY <1>2, <1>3, <2>1
<1>6. Len(list) = 0 => w[Len(list)].bytes = <<>>
    BY <1>5 DEF Fresh
<1>7. ASSUME Len(list) = 1 PROVE w[Len(list)].bytes = list[1] \o <<NUL>>
  <2>1. list[1] \in Seq(Char)
    <3>1. Len(list) # 0
        BY <1>7
    <3> QED
        BY <3>1, OneName
  <2>2. w[1] = After(f, w[0], list[1])
    <3>1. 1 \in 0 .. Len(list) /\ 1 # 0 /\ 1 - 1 = 0
        BY <1>7
    <3> QED
        BY <1>3, <3>1
  <2>3. w[1] = FrcodePath(Fresh(TRUE), list[1])
      BY <1>2, <1>5, <2>2 DEF After
  <2> QED
      BY <1>7, <2>1, <2>3, FirstOfSlocate
<1> QED
    BY <1>6, <1>7 DEF w

\* What the hypotheses say of a database that is going to be read, which goes
\* into the book with its list.
StaticFile(d, list) ==
    /\ list \in Names /\ d = Encoded(d.format, list)
    /\ d.format \in {"LOCATE02", "old"} \cup Slocate
    /\ d.format = "LOCATE02" =>
          \A k \in 1 .. Len(list) : ~Writers("LOCATE02", list)[k].aborted
    /\ d.format = "old" => Short(list)

LEMMA StaticIsWritten ==
    ASSUME StaticWritten, AtDatabase, phase = "header", procdata.inode = NoFile,
           ~Skipped, Db.format # "none"
    PROVE  StaticFile(Db, dbpath[dbi].list)
<1>1. PICK s \in Scenarios : dbpath = s.dbpath
    BY DEF AtDatabase
<1>2. dbi \in 1 .. Len(s.dbpath) /\ s.dbpath[dbi].kind \notin {"missing", "system"}
    BY <1>1 DEF AtDatabase
<1>3. Db = s.dbpath[dbi].file
    BY <1>1 DEF Db
<1>4. s.dbpath[dbi].file.format \notin {"none", "slocate2"}
    BY <1>3 DEF Skipped
<1>5. LET e == s.dbpath[dbi]
      IN /\ e.list \in Seq(Seq(Char)) /\ e.file = Encoded(e.file.format, e.list)
         /\ e.file.format \in {"LOCATE02", "old"} \cup Slocate
         /\ e.file.format = "LOCATE02" =>
               \A k \in 1 .. Len(e.list) : ~Writers("LOCATE02", e.list)[k].aborted
         /\ e.file.format = "old" =>
               \A k \in 1 .. Len(e.list) :
                  Len(e.list[k]) + OldOffset < (WordBase * WordBase) \div 2
    BY <1>2, <1>4 DEF StaticWritten
<1> QED
    BY <1>1, <1>3, <1>5 DEF StaticFile, Names, Short, Half

\* The databases of this machine in the old format are among those of which
\* StaticWritten speaks.
LEMMA StaticIsOld ==
    ASSUME StaticWritten
    PROVE  OldWritten
BY DEF StaticWritten, OldWritten

\* A reader that has read nothing stands before the first name.
AtStart(r) ==
    /\ DOMAIN r = DOMAIN Closed /\ r.pos = 1 /\ r.count = 0 /\ r.buf = <<>> /\ r.len = 0
    /\ r.itemcount = 0

LEMMA SystemPlace ==
    ASSUME NEW r, AtStart(r), NEW d, NEW list \in Names, NEW w, Made(d, list, w)
    PROVE  Place(r, d, list, 0)
<1>1. w[0] = Fresh(FALSE)
    BY DEF Made, Run
<1>2. w[0].bytes = <<>> /\ w[0].oldcount = 0 /\ w[0].oldpath = <<>>
    BY <1>1 DEF Fresh
<1>3. Holds(<<>>, <<>>)
    BY DEF Holds
<1>4. FrcodePlace(r, d, list, 0)
    BY <1>2, <1>3 DEF FrcodePlace, AtStart
<1>5. 0 \in 0 .. Len(list)
    BY DEF Names
<1> QED
    BY <1>4, <1>5 DEF Place, AtStart

LEMMA StaticPlace ==
    ASSUME NEW r, AtStart(r), NEW d, NEW list, StaticFile(d, list),
           d.format \in Slocate => Len(list) <= 1
    PROVE  Place(r, d, list, 0)
<1>1. /\ list \in Names /\ list \in Seq(Seq(Char)) /\ 0 \in 0 .. Len(list)
      /\ d = Encoded(d.format, list)
    BY DEF StaticFile, Names
<1>2. d.bytes = Writers(d.format, list)[Len(list)].bytes
    BY <1>1 DEF Encoded
<1>3. CASE d.format = "LOCATE02"
  <2>1. Made(d, list, Writers("LOCATE02", list))
      BY <1>1, <1>3, EncodedIsMade DEF StaticFile
  <2> QED
      BY <1>1, <2>1, SystemPlace
<1>4. CASE d.format = "old"
  <2> DEFINE w == Writers("old", list)
  <2>1. OldRun(w, list) /\ IsBytes(d.bytes, w, list)
      BY <1>1, <1>2, <1>4, WritersOldRun DEF IsBytes
  <2> HIDE DEF w
  <2>2. w[0] = Fresh(FALSE)
      BY <2>1 DEF OldRun
  <2>3. w[0].bytes = <<>> /\ w[0].oldcount = 0 /\ w[0].oldpath = <<>>
      BY <2>2 DEF Fresh
  <2>4. Holds(<<>>, <<>>)
      BY DEF Holds
  <2>5. CodePlace(r, d, list, 0)
      BY <1>4, <2>1, <2>3, <2>4 DEF CodePlace, AtStart, StaticFile
  <2> QED
      BY <1>1, <2>5 DEF Place, AtStart
<1>5. CASE d.format \in Slocate
  <2>1. Len(list) <= 1
      BY <1>5
  <2>2. /\ Len(list) = 0 => d.bytes = <<>>
        /\ Len(list) = 1 => d.bytes = list[1] \o <<NUL>>
      BY <1>1, <1>2, <1>5, <2>1, SlocateBegins
  <2>3. SlocatePlace(r, d, list, 0)
      BY <1>5, <2>1, <2>2 DEF SlocatePlace, AtStart
  <2> QED
      BY <1>1, <2>3 DEF Place, AtStart
<1> QED
    BY <1>3, <1>4, <1>5 DEF StaticFile

\* What goes into the book is the list the open database was made of, and
\* locate stands before the first of its names.
LEMMA OpenedIs ==
    ASSUME StaticWritten, AtomicInv, AtDatabase, phase = "header", ~Skipped, Db.format # "none"
    PROVE  /\ Opened.list \in Names /\ Opened.format = Db.format
           /\ \A c : (Db.format \in Slocate => Len(Opened.list) <= 1) =>
                        Place([procdata EXCEPT !.check = c], Db, Opened.list, 0)
<1>1. PICK i : procdata = [Closed EXCEPT !.inode = i]
    BY DEF AtDatabase
<1>2. ASSUME NEW c PROVE AtStart([procdata EXCEPT !.check = c])
    BY <1>1 DEF AtStart, Closed
<1>3. CASE procdata.inode # NoFile
  <2> DEFINE list == given[procdata.inode]
  <2>1. Opened.list = list /\ Opened.format = Db.format
      BY <1>3 DEF Opened
  <2>2. /\ list \in Names
        /\ \E w : Made(Db, list, w)
      BY <1>3, DbIsMade DEF Names
  <2> HIDE DEF list
  <2>3. ASSUME NEW c PROVE Place([procdata EXCEPT !.check = c], Db, list, 0)
      BY <1>2, <2>2, SystemPlace
  <2> QED
      BY <2>1, <2>2, <2>3
<1>4. CASE procdata.inode = NoFile
  <2> DEFINE list == dbpath[dbi].list
  <2>1. Opened.list = list /\ Opened.format = Db.format
      BY <1>4 DEF Opened
  <2>2. StaticFile(Db, list)
      BY <1>4, StaticIsWritten
  <2>3. list \in Names
      BY <2>2 DEF StaticFile
  <2> HIDE DEF list
  <2>4. ASSUME NEW c, Db.format \in Slocate => Len(list) <= 1
        PROVE  Place([procdata EXCEPT !.check = c], Db, list, 0)
      BY <1>2, <2>2, <2>4, StaticPlace
  <2> QED
      BY <2>1, <2>3, <2>4
<1> QED
    BY <1>3, <1>4

------------------------------------------------------------------------------
(* What has been found so far.                                             *)

\* The names to be counted and printed of the databases in the book.
Due == Limited(WantedOfAll)
Counted(list) == accepted = Len(list) /\ (opt.print => printed = list)

\* locate has read k names of the open database; b is what was wanted of those
\* before.
SoFarAt(k, b) ==
    LET o == opened[Len(opened)]
    IN /\ Place(procdata, Db, o.list, k)
       /\ b \in Names /\ WantedOfAll = b \o LastWanted
       /\ Counted(b \o FirstWanted(k))
       /\ opt.stats => total = Len(FirstWanted(k))
       /\ procdata.check = Checked(o.format)
       /\ ~(o.format = "slocate1" /\ opt.existence = "nonexisting")

Book ==
    /\ Listed(opened) /\ dbi \in Nat /\ Len(opened) <= dbi
    /\ phase = "header" => Len(opened) < dbi /\ total = 0
    /\ phase = "entries" => Len(opened) >= 1

\* found and status tell of all the databases when none was left out.
Told ==
    Len(opened) = dbi =>
        /\ phase \in {"next", "done"} => found = accepted
        /\ phase = "done" => status = Result

\* What was printed and counted is right as long as what was read is.
Right ==
    /\ phase = "entries" => \E k, b : SoFarAt(k, b)
    /\ phase # "entries" => Counted(Due)
    /\ StatsDoNotLeak /\ Told

SearchInv == Book /\ (Readable => Right)

\* What is due and what can be read do not change while the book does not.
LEMMA DueStays ==
    ASSUME opt' = opt, opened' = opened, misread' = misread
    PROVE  Due' = Due /\ Readable' = Readable
<1>1. WantedOfAll' = WantedOfAll /\ UseLimit' = UseLimit
    BY HistoryStays
<1> DEFINE all == WantedOfAll
<1>2. Due = IF UseLimit THEN SubSeq(all, 1, Min({opt.limit, Len(all)})) ELSE all
    BY DEF Due, Limited
<1>3. Due' = IF UseLimit' THEN SubSeq(all', 1, Min({opt.limit', Len(all')})) ELSE all'
    BY DEF Due, Limited
<1>4. all' = all
    BY <1>1
<1> HIDE DEF all
<1>5. Due' = Due
    BY <1>1, <1>2, <1>3, <1>4
<1>6. Readable' = Readable
    BY DEF Readable
<1> QED
    BY <1>5, <1>6

\* A misread word and a long list stay in the book.
LEMMA ReadableBefore ==
    ASSUME misread => misread', NEW S, opened \in Seq(S),
           opened' = opened \/ \E x : opened' = Append(opened, x), Readable'
    PROVE  Readable
<1>1. ~misread /\ ~misread'
    BY DEF Readable
<1>2. CASE opened' = opened
    BY <1>1, <1>2 DEF Readable
<1>3. CASE \E x : opened' = Append(opened, x)
  <2>1. PICK x : opened' = Append(opened, x)
      BY <1>3
  <2>2. PICK T : opened' \in Seq(T)
      BY <2>1, AppendIs
  <2>3. /\ Len(opened') = Len(opened) + 1 /\ Len(opened) \in Nat
        /\ \A i \in 1 .. Len(opened) : opened'[i] = opened[i]
      BY <2>1, AppendIs
  <2>4. DOMAIN opened = 1 .. Len(opened) /\ DOMAIN opened' = 1 .. Len(opened')
      BY <2>2
  <2>5. \A i \in DOMAIN opened : i \in DOMAIN opened' /\ opened'[i] = opened[i]
      BY <2>3, <2>4
  <2> QED
      BY <1>1, <2>5 DEF Readable
<1> QED
    BY <1>2, <1>3

\* Which names have been read does not say where the reader stands.
LEMMA PlaceStays ==
    ASSUME NEW r, NEW d, NEW list, NEW k, Place(r, d, list, k), NEW n,
           NEW q, q = [r EXCEPT !.names = n]
    PROVE  Place(q, d, list, k)
<1>1. DOMAIN r = DOMAIN Closed
    BY DEF Place
<1>2. /\ DOMAIN q = DOMAIN Closed
      /\ q.pos = r.pos /\ q.count = r.count /\ q.buf = r.buf /\ q.len = r.len
      /\ q.itemcount = r.itemcount
    BY <1>1 DEF Closed
<1>3. CASE FrcodePlace(r, d, list, k)
  <2>1. FrcodePlace(q, d, list, k)
      BY <1>2, <1>3 DEF FrcodePlace
  <2> QED
      BY <1>2, <2>1 DEF Place
<1>4. CASE CodePlace(r, d, list, k)
  <2>1. CodePlace(q, d, list, k)
      BY <1>2, <1>4 DEF CodePlace
  <2> QED
      BY <1>2, <2>1 DEF Place
<1>5. CASE SlocatePlace(r, d, list, k)
  <2>1. SlocatePlace(q, d, list, k)
      BY <1>2, <1>5 DEF SlocatePlace
  <2> QED
      BY <1>2, <2>1 DEF Place
<1> QED
    BY <1>3, <1>4, <1>5 DEF Place

\* Behind the names of the databases before.
LEMMA BehindIs ==
    ASSUME NEW b \in Names, NEW s \in Names
    PROVE  /\ b \o s \in Names /\ Len(b \o s) = Len(b) + Len(s)
           /\ Len(b) \in Nat /\ Len(s) \in Nat
<1>1. b \in Seq(Seq(Char)) /\ s \in Seq(Seq(Char))
    BY DEF Names
<1>2. b \o s \in Seq(Seq(Char)) /\ Len(b \o s) = Len(b) + Len(s)
    BY ONLY <1>1, ConcatIs
<1>3. Len(b) \in Nat /\ Len(s) \in Nat
    BY <1>1
<1> QED
    BY <1>2, <1>3 DEF Names

LEMMA OneMoreBehind ==
    ASSUME NEW b \in Names, NEW s \in Names, NEW x \in Seq(Char), NEW t, t = Append(s, x)
    PROVE  b \o t = Append(b \o s, x) /\ Len(t) = Len(s) + 1 /\ Len(b \o t) = Len(b \o s) + 1
<1>1. b \in Seq(Seq(Char)) /\ s \in Seq(Seq(Char))
    BY DEF Names
<1>2. t \in Seq(Seq(Char)) /\ Len(t) = Len(s) + 1 /\ Len(s) \in Nat /\ Len(b) \in Nat
    BY <1>1
<1>3. Len(b \o t) = Len(b) + Len(t) /\ Len(b \o s) = Len(b) + Len(s)
    BY <1>1, <1>2, BehindIs DEF Names
<1>4. b \o t = Append(b \o s, x)
    BY <1>1, <1>2
<1> QED
    BY <1>2, <1>3, <1>4

\* The same list in front leaves one a prefix of the other.
LEMMA ProlongedBehind ==
    ASSUME NEW b \in Names, NEW s \in Names, NEW t \in Names, Prolongs(s, t)
    PROVE  Prolongs(b \o s, b \o t)
<1> DEFINE bs == b \o s
           bt == b \o t
<1>1. b \in Seq(Seq(Char)) /\ s \in Seq(Seq(Char)) /\ t \in Seq(Seq(Char))
    BY DEF Names
<1>2. Len(b) \in Nat /\ Len(s) \in Nat /\ Len(t) \in Nat
    BY <1>1
<1>3. /\ Len(bs) = Len(b) + Len(s)
      /\ \A i \in 1 .. Len(b) : bs[i] = b[i]
      /\ \A i \in 1 .. Len(s) : bs[Len(b) + i] = s[i]
  <2>1. b \in Seq(Seq(Char)) /\ s \in Seq(Seq(Char))
      BY <1>1
  <2> QED
      BY ONLY <2>1, ConcatIs
<1>4. /\ Len(bt) = Len(b) + Len(t)
      /\ \A i \in 1 .. Len(b) : bt[i] = b[i]
      /\ \A i \in 1 .. Len(t) : bt[Len(b) + i] = t[i]
  <2>1. b \in Seq(Seq(Char)) /\ t \in Seq(Seq(Char))
      BY <1>1
  <2> QED
      BY ONLY <2>1, ConcatIs
<1> HIDE DEF bs, bt
<1>5. Len(s) <= Len(t) /\ \A i \in 1 .. Len(s) : t[i] = s[i]
    BY DEF Prolongs
<1>6. ASSUME NEW i \in 1 .. Len(bs) PROVE bt[i] = bs[i]
  <2>1. CASE i <= Len(b)
    <3>1. i \in 1 .. Len(b)
        BY <1>2, <1>3, <2>1
    <3> QED
        BY <1>3, <1>4, <3>1
  <2>2. CASE i > Len(b)
    <3>1. PICK j \in 1 .. Len(s) : i = Len(b) + j
      <4>1. i - Len(b) \in 1 .. Len(s) /\ i = Len(b) + (i - Len(b))
          BY <1>2, <1>3, <2>2
      <4> QED
          BY <4>1
    <3>2. j \in 1 .. Len(t)
        BY <1>2, <1>5
    <3> QED
        BY <1>3, <1>4, <1>5, <3>1, <3>2
  <2>3. i \in Nat
      BY <1>2, <1>3
  <2> QED
      BY <1>2, <2>1, <2>2, <2>3
<1>7. Len(bs) <= Len(bt)
    BY <1>2, <1>3, <1>4, <1>5
<1> QED
    BY <1>6, <1>7 DEF Prolongs, bs, bt

\* A list within the limit is not cut.
LEMMA ShortIsNotCut ==
    ASSUME opt \in Option, NEW list \in Names, UseLimit => Len(list) <= opt.limit
    PROVE  Limited(list) = list
<1>1. CASE ~UseLimit
    BY <1>1 DEF Limited
<1>2. CASE UseLimit
  <2> DEFINE n == Len(list)
             m == Min({opt.limit, n})
  <2>1. n \in Nat /\ opt.limit \in Nat /\ n <= opt.limit
      BY <1>2 DEF Names, Option, UseLimit
  <2>2. m \in {opt.limit, n} /\ m <= n
    <3>1. {opt.limit, n} \subseteq Nat /\ {opt.limit, n} # {}
        BY <2>1
    <3> QED
        BY <3>1, MinIsLeast
  <2>3. Limited(list) = SubSeq(list, 1, m)
      BY <1>2 DEF Limited
  <2> HIDE DEF m, n
  <2>4. m = n
      BY <2>1, <2>2
  <2>5. SubSeq(list, 1, Len(list)) = list
      BY DEF Names
  <2> QED
      BY <2>3, <2>4, <2>5 DEF n
<1> QED
    BY <1>1, <1>2

------------------------------------------------------------------------------
(* The steps of the search.                                                *)

\* A step that leaves the book and the counts as they are.
LEMMA CountedStays ==
    ASSUME UNCHANGED <<opt, opened, misread, accepted, printed>>
    PROVE  Counted(Due)' <=> Counted(Due)
<1>1. Due' = Due
    BY DueStays
<1> DEFINE due == Due
<1>2. Counted(Due) <=> accepted = Len(due) /\ (opt.print => printed = due)
    BY DEF Counted
<1>3. Counted(Due)' <=> accepted' = Len(due') /\ (opt'.print => printed' = due')
    BY DEF Counted
<1>4. due' = due
    BY <1>1
<1> HIDE DEF due
<1> QED
    BY <1>2, <1>3, <1>4

\* The next database is opened: nothing is counted.
LEMMA NextDatabaseSearch ==
    ASSUME SearchInv, AtDatabase, NextDatabase
    PROVE  SearchInv'
<1>1. /\ UNCHANGED <<opt, opened, misread, accepted, printed>> /\ phase = "next"
      /\ dbi' = dbi + 1 /\ total' = 0 /\ phase' \in {"header", "done"}
    BY DEF NextDatabase, Exit
<1>2. Len(opened) \in Nat /\ Len(opened) <= dbi /\ dbi \in Nat
    BY DEF SearchInv, Book, AtDatabase
<1>3. Book'
    BY <1>1, <1>2 DEF SearchInv, Book, Listed
<1>4. ASSUME Readable' PROVE Right'
  <2>1. Readable
      BY <1>1, <1>4, DueStays
  <2>2. Counted(Due)
      BY <1>1, <2>1 DEF SearchInv, Right
  <2>3. Counted(Due)'
      BY <1>1, <2>2, CountedStays
  <2>4. StatsDoNotLeak' /\ Told'
      BY <1>1, <1>2 DEF StatsDoNotLeak, Told
  <2> QED
      BY <1>1, <2>3, <2>4 DEF Right
<1> QED
    BY <1>3, <1>4 DEF SearchInv

\* The open database goes into the book, and the search of it begins.
LEMMA ReadHeaderSearch ==
    ASSUME StaticWritten, AtomicInv, AtDatabase, WithinLimit, SearchInv, ReadHeader
    PROVE  SearchInv'
<1>1. /\ UNCHANGED <<updateVars, dbpath, opt, dbi, accepted, total, printed, misread>>
      /\ phase = "header"
    BY DEF ReadHeader
<1>2. /\ Len(opened) \in Nat /\ Len(opened) < dbi /\ dbi \in Nat /\ total = 0
      /\ Listed(opened)
    BY <1>1 DEF SearchInv, Book, AtDatabase
<1>3. CASE phase' \in {"next", "done"} /\ opened' = opened
  <2>1. Book'
      BY <1>1, <1>2, <1>3 DEF Book, Listed
  <2>2. ASSUME Readable' PROVE Right'
    <3>1. Readable
        BY <1>1, <1>3, <2>2, DueStays
    <3>2. Counted(Due)
        BY <1>1, <3>1 DEF SearchInv, Right
    <3>3. Counted(Due)'
        BY <1>1, <1>3, <3>2, CountedStays
    <3>4. StatsDoNotLeak' /\ Told'
        BY <1>1, <1>2, <1>3 DEF StatsDoNotLeak, Told
    <3> QED
        BY <1>3, <3>3, <3>4 DEF Right
  <2> QED
      BY <2>1, <2>2 DEF SearchInv
<1>4. CASE /\ ~Skipped /\ Db.format # "none" /\ phase' = "entries"
           /\ procdata' = [procdata EXCEPT !.check = Checked(Db.format)]
           /\ opened' = Append(opened, Opened)
  <2> DEFINE o == Opened
             m == Append(opened, o)
             list == o.list
  <2>0. PICK b : b = WantedOfAll
      OBVIOUS
  <2>1. /\ list \in Names /\ o.format = Db.format
        /\ (Db.format \in Slocate => Len(list) <= 1) => Place(procdata', Db, list, 0)
      BY <1>1, <1>4, OpenedIs
  <2>2. PICK S : opened \in Seq(S)
      BY DEF AtDatabase
  <2>3. Len(m) = Len(opened) + 1 /\ m[Len(m)] = o /\ \E T : m \in Seq(T)
    <3> DEFINE more == m
    <3>1. more = Append(opened, o)
        OBVIOUS
    <3> HIDE DEF more, o
    <3>2. /\ \E T : more \in Seq(T)
          /\ Len(more) = Len(opened) + 1 /\ more[Len(opened) + 1] = o
        BY <2>2, <3>1, AppendIs
    <3>3. more[Len(more)] = o
        BY <3>2
    <3> QED
        BY <3>2, <3>3 DEF more
  <2>4. Listed(m) /\ WantedThrough(m)[Len(m)] = b \o WantedOf(o)
    <3> DEFINE more == m
    <3>1. more = Append(opened, o) /\ o.list \in Names
        BY <2>1
    <3> HIDE DEF more, o
    <3>2. /\ Listed(more)
          /\ WantedThrough(more)[Len(more)] = WantedThrough(opened)[Len(opened)] \o WantedOf(o)
        BY <1>2, <3>1, WantedThroughGrows
    <3> QED
        BY <2>0, <3>2 DEF more, WantedOfAll
  <2>5. opened' = m
      BY <1>4
  <2> HIDE DEF m
  <2>6. /\ WantedOfAll' = WantedThrough(m)[Len(m)] /\ LastWanted' = WantedOf(m[Len(m)])
        /\ \A k : FirstWanted(k)' = WantedUpTo(m[Len(m)])[k]
      BY <1>1, <2>5, HistoryGrows
  <2>7. b \in Names
    <3>1. Len(opened) \in 0 .. Len(opened)
        BY <1>2
    <3> QED
        BY <1>2, <2>0, <3>1, WantedThroughIs DEF WantedOfAll
  <2>8. WantedUpTo(o)[0] = <<>>
    <3> HIDE DEF o
    <3> QED
        BY <2>1, WantedUpToIs
  <2>9. Book'
      BY <1>1, <1>2, <1>4, <2>3, <2>4, <2>5 DEF Book
  <2>10. ASSUME Readable' PROVE Right'
    <3>1. Readable
      <4>1. (misread => misread') /\ opened \in Seq(S) /\ \E x : opened' = Append(opened, x)
          BY <1>1, <1>4, <2>2
      <4> QED
          BY <2>10, <4>1, ReadableBefore
    <3>2. Counted(Due)
        BY <1>1, <3>1 DEF SearchInv, Right
    <3>3. Due = b
      <4>1. UseLimit => Len(Limited(b)) < opt.limit
          BY <1>1, <2>0, <3>2 DEF WithinLimit, Counted, Due
      <4>2. opt \in Option
          BY DEF WithinLimit
      <4> QED
          BY <2>0, <2>7, <4>1, <4>2, NothingIsCut DEF Due
    <3>4. Counted(b)
        BY <3>2, <3>3
    <3>5. Db.format \in Slocate => Len(list) <= 1
      <4>1. Len(m) \in DOMAIN m
          BY <1>2, <2>3
      <4>2. m[Len(m)].format \in Slocate => Len(m[Len(m)].list) <= 1
          BY <2>5, <2>10, <4>1 DEF Readable
      <4> QED
          BY <2>1, <2>3, <4>2
    <3>6. Place(procdata', Db, list, 0)
        BY <2>1, <3>5
    <3>7. Db' = Db
      <4>1. procdata'.inode = procdata.inode
          BY <1>4 DEF AtDatabase, Closed
      <4> QED
          BY <1>1, <4>1 DEF Db, updateVars
    <3>8. procdata'.check = Checked(o.format)
      <4>1. procdata'.check = Checked(Db.format)
          BY <1>4 DEF WithinLimit, CheckType
      <4> QED
          BY <2>1, <4>1
    <3>9. ~(o.format = "slocate1" /\ opt.existence = "nonexisting")
        BY <1>4, <2>1 DEF Skipped
    <3> DEFINE none == WantedUpTo(o)[0]
    <3>10. b \o none = b /\ Len(none) = 0
      <4>1. b \in Seq(Seq(Char)) /\ none = <<>>
          BY <2>7, <2>8 DEF Names
      <4> QED
          BY <4>1
    <3> HIDE DEF none, list, o
    <3>11. /\ WantedOfAll' = b \o LastWanted'
           /\ FirstWanted(0)' = none
        BY <2>3, <2>4, <2>6 DEF none
    <3>12. accepted' = Len(b \o FirstWanted(0)') /\ (opt'.print => printed' = b \o FirstWanted(0)')
        BY <1>1, <3>4, <3>10, <3>11 DEF Counted
    <3>13. total' = Len(FirstWanted(0)')
        BY <1>1, <1>2, <3>10, <3>11
    <3>14. opened'[Len(opened')] = o
        BY <2>3, <2>5
    <3>15. Place(procdata', Db', o.list, 0)
        BY <3>6, <3>7 DEF list
    <3>16. /\ procdata'.check = IF o.format = "slocate1" THEN "existing" ELSE opt'.existence
           /\ ~(o.format = "slocate1" /\ opt'.existence = "nonexisting")
        BY <1>1, <3>8, <3>9 DEF Checked
    <3>17. \E k, c : SoFarAt(k, c)'
      <4>1. SoFarAt(0, b)'
          BY <2>7, <3>11, <3>12, <3>13, <3>14, <3>15, <3>16 DEF SoFarAt, Counted, Checked
      <4> QED
          BY <4>1
    <3>18. StatsDoNotLeak' /\ Told'
        BY <1>4 DEF StatsDoNotLeak, Told
    <3> QED
        BY <1>4, <3>17, <3>18 DEF Right
  <2> QED
      BY <2>9, <2>10 DEF SearchInv
<1> QED
    BY <1>3, <1>4 DEF ReadHeader, Exit

\* What VisitEntry does with the next name of the list.
LEMMA VisitIsOfNext ==
    ASSUME VisitEntry, NEW list, NEW k, IsNext(list, k)
    PROVE  LET name == list[k + 1]
               v == Process(name)
           IN /\ procdata' = [NextRead EXCEPT !.names = Append(@, name)]
              /\ phase' = IF v.result = "abort" THEN "closing" ELSE phase
              /\ total' = IF "stats" \in v.ran THEN total + 1 ELSE total
              /\ printed' = IF "print" \in v.ran THEN Append(printed, name) ELSE printed
              /\ accepted' = IF v.ran \cap {"limit", "count"} # {} THEN accepted + 1
                             ELSE accepted
<1> DEFINE old == Db.format = "old"
           e == NextEntry
           read == NextRead
           name == list[k + 1]
<1>1. ~(e.count < 0) /\ (~old => ~(e.count > procdata.len) /\ ~(e.text > Len(Db.bytes)))
    BY DEF IsNext
<1>2. Name(read.buf) = name
    BY DEF IsNext
<1>3. /\ e = IF old THEN OldEntry ELSE Locate02Entry
      /\ read = IF old THEN OldRead(e) ELSE Locate02Read(e)
    BY DEF NextEntry, NextRead
<1>4. /\ procdata' = [read EXCEPT !.names = Append(@, Name(read.buf))]
      /\ phase' = IF Process(Name(read.buf)).result = "abort" THEN "closing" ELSE phase
      /\ total' = IF "stats" \in Process(Name(read.buf)).ran THEN total + 1 ELSE total
      /\ printed' = IF "print" \in Process(Name(read.buf)).ran
                    THEN Append(printed, Name(read.buf)) ELSE printed
      /\ accepted' = IF Process(Name(read.buf)).ran \cap {"limit", "count"} # {}
                     THEN accepted + 1 ELSE accepted
    BY <1>1, <1>3 DEF VisitEntry
<1> HIDE DEF read, name
<1> QED
    BY <1>2, <1>4 DEF read, name

\* Reading an entry leaves the check of existence and the file what they are.
LEMMA NextReadKeeps ==
    ASSUME DOMAIN procdata = DOMAIN Closed, NEW n, NEW q, q = [NextRead EXCEPT !.names = n]
    PROVE  q.check = procdata.check /\ q.inode = procdata.inode
<1>1. ASSUME NEW e
      PROVE  /\ OldRead(e).check = procdata.check /\ Locate02Read(e).check = procdata.check
             /\ OldRead(e).inode = procdata.inode /\ Locate02Read(e).inode = procdata.inode
             /\ DOMAIN OldRead(e) = DOMAIN procdata /\ DOMAIN Locate02Read(e) = DOMAIN procdata
    BY DEF OldRead, Locate02Read, Closed
<1>2. /\ NextRead.check = procdata.check /\ NextRead.inode = procdata.inode
      /\ DOMAIN NextRead = DOMAIN procdata
    BY <1>1 DEF NextRead
<1> QED
    BY <1>2 DEF Closed

\* One more name: it is counted if it is wanted.
LEMMA VisitEntrySearch ==
    ASSUME AtomicInv, AtDatabase, WithinLimit, SearchInv, VisitEntry
    PROVE  SearchInv'
<1>1. /\ UNCHANGED <<updateVars, dbpath, opt, dbi, opened>> /\ phase = "entries"
      /\ procdata.pos <= Len(Db.bytes)
      /\ misread' = (misread \/ (Db.format = "old" /\ Misread))
      /\ phase' \in {"entries", "closing", "done"}
    BY DEF VisitEntry, Exit
<1>2. Book'
    BY <1>1 DEF SearchInv, Book, Listed
<1>3. ASSUME Readable' PROVE Right'
  <2>1. Readable /\ (Db.format = "old" => ~Misread)
      BY <1>1, <1>3 DEF Readable
  <2>2. PICK k, b : SoFarAt(k, b)
      BY <1>1, <2>1 DEF SearchInv, Right
  <2>3. PICK o : o = opened[Len(opened)]
      OBVIOUS
  <2> DEFINE list == o.list
             up == WantedUpTo(o)
             name == list[k + 1]
             v == Process(name)
             all == WantedOf(o)
  <2>4. /\ Place(procdata, Db, list, k)
        /\ b \in Names /\ WantedOfAll = b \o all
        /\ accepted = Len(b \o up[k]) /\ (opt.print => printed = b \o up[k])
        /\ opt.stats => total = Len(up[k])
        /\ procdata.check = Checked(o.format)
        /\ ~(o.format = "slocate1" /\ opt.existence = "nonexisting")
      BY <2>2, <2>3 DEF SoFarAt, Counted, FirstWanted, LastWanted
  <2>5. IsNext(list, k)
      BY <1>1, <2>1, <2>4, NextIs
  <2>6. /\ list \in Names /\ k + 1 \in 1 .. Len(list) /\ k \in 0 .. Len(list)
        /\ k + 1 \in 0 .. Len(list) /\ (k + 1) - 1 = k /\ name \in Seq(Char)
        /\ Place(NextRead, Db, list, k + 1) /\ DOMAIN procdata = DOMAIN Closed
    <3>1. /\ list \in Names /\ k + 1 \in 1 .. Len(list) /\ k \in 0 .. Len(list)
          /\ Place(NextRead, Db, list, k + 1) /\ DOMAIN procdata = DOMAIN Closed
        BY <2>4, <2>5 DEF IsNext, Place
    <3>2. k \in Nat /\ Len(list) \in Nat
        BY <3>1 DEF Names
    <3>3. k + 1 \in 0 .. Len(list) /\ (k + 1) - 1 = k
        BY <3>1, <3>2
    <3>4. name \in Seq(Char)
        BY <3>1 DEF Names
    <3> QED
        BY <3>1, <3>3, <3>4
  <2>7. /\ procdata' = [NextRead EXCEPT !.names = Append(@, name)]
        /\ phase' = IF v.result = "abort" THEN "closing" ELSE phase
        /\ total' = IF "stats" \in v.ran THEN total + 1 ELSE total
        /\ printed' = IF "print" \in v.ran THEN Append(printed, name) ELSE printed
        /\ accepted' = IF v.ran \cap {"limit", "count"} # {} THEN accepted + 1 ELSE accepted
      BY <2>5, VisitIsOfNext
  <2>8. Does(v, Shown(name))
      BY ProcessIs DEF WithinLimit
  <2>9. Shown(name) <=> Wanted(name, o)
      BY <2>4, ShownIsWanted DEF WithinLimit
  <2>10. /\ up \in [0 .. Len(list) -> Names] /\ WantedStep(up, o) /\ all \in Names
      BY <2>6, WantedUpToIs, WantedOfIs
  <2>11. up[k + 1] = IF Wanted(name, o) THEN Append(up[k], name) ELSE up[k]
    <3>1. up[k + 1] = IF Wanted(o.list[k + 1], o) THEN Append(up[(k + 1) - 1], o.list[k + 1])
                      ELSE up[(k + 1) - 1]
        BY <2>6, <2>10 DEF WantedStep
    <3> QED
        BY <2>6, <3>1
  <2>12. Prolongs(up[k + 1], all)
      BY <2>6, WantedGrows
  <2> HIDE DEF v, name, list
  <2>13. up[k] \in Names /\ up[k + 1] \in Names
      BY <2>6, <2>10
  <2> HIDE DEF up, all
  <2>14. PICK s, t : s = up[k] /\ t = up[k + 1]
      OBVIOUS
  <2>15. /\ s \in Names /\ t \in Names
         /\ accepted = Len(b \o s) /\ (opt.print => printed = b \o s)
         /\ opt.stats => total = Len(s)
         /\ t = IF Wanted(name, o) THEN Append(s, name) ELSE s
         /\ Prolongs(t, all) /\ all \in Names
      BY <2>4, <2>10, <2>11, <2>12, <2>13, <2>14
  <2>16. /\ accepted' = Len(b \o t) /\ (opt.print => printed' = b \o t)
         /\ opt.stats => total' = Len(t)
         /\ phase' = IF Wanted(name, o) /\ UseLimit /\ accepted + 1 >= opt.limit
                     THEN "closing" ELSE "entries"
    <3>1. CASE Wanted(name, o)
      <4>1. t = Append(s, name)
          BY <2>15, <3>1
      <4>2. b \o t = Append(b \o s, name) /\ Len(t) = Len(s) + 1 /\ Len(b \o t) = Len(b \o s) + 1
          BY <2>4, <2>6, <2>15, <4>1, OneMoreBehind
      <4>3. /\ v.ran \cap {"limit", "count"} # {}
            /\ "print" \in v.ran <=> opt.print
            /\ "stats" \in v.ran <=> opt.stats
            /\ v.result = "abort" <=> UseLimit /\ accepted + 1 >= opt.limit
          BY <2>8, <2>9, <3>1 DEF Does
      <4> QED
          BY <1>1, <2>7, <2>15, <3>1, <4>2, <4>3
    <3>2. CASE ~Wanted(name, o)
      <4>1. t = s
          BY <2>15, <3>2
      <4>2. /\ ~(v.ran \cap {"limit", "count"} # {})
            /\ "print" \notin v.ran /\ "stats" \notin v.ran /\ v.result # "abort"
          BY <2>8, <2>9, <3>2 DEF Does
      <4> QED
          BY <1>1, <2>7, <2>15, <3>2, <4>1, <4>2
    <3> QED
        BY <3>1, <3>2
  <2>17. WantedOfAll' = b \o all /\ LastWanted' = all /\ FirstWanted(k + 1)' = t
    <3>1. /\ WantedOfAll' = WantedOfAll /\ LastWanted' = LastWanted
          /\ FirstWanted(k + 1)' = FirstWanted(k + 1)
        BY <1>1, HistoryStays
    <3>2. LastWanted = all /\ FirstWanted(k + 1) = t
        BY <2>3, <2>14 DEF LastWanted, FirstWanted, up, all
    <3> QED
        BY <2>4, <3>1, <3>2
  <2>18. CASE phase' = "entries"
    <3>1. procdata'.check = procdata.check /\ procdata'.inode = procdata.inode
        BY <2>6, <2>7, NextReadKeeps
    <3>2. Db' = Db
        BY <1>1, <3>1 DEF Db, updateVars
    <3>3. Place(procdata', Db, list, k + 1)
        BY <2>6, <2>7, PlaceStays
    <3>4. opened'[Len(opened')] = o
        BY <1>1, <2>3
    <3>5. Place(procdata', Db', o.list, k + 1)
        BY <3>2, <3>3 DEF list
    <3>6. /\ procdata'.check = IF o.format = "slocate1" THEN "existing" ELSE opt'.existence
          /\ ~(o.format = "slocate1" /\ opt'.existence = "nonexisting")
        BY <1>1, <2>4, <3>1 DEF Checked
    <3>7. PICK j : j = k + 1
        OBVIOUS
    <3>8. SoFarAt(j, b)'
        BY <1>1, <2>4, <2>16, <2>17, <3>4, <3>5, <3>6, <3>7 DEF SoFarAt, Counted, Checked
    <3>9. StatsDoNotLeak' /\ Told'
        BY <2>18 DEF StatsDoNotLeak, Told
    <3> QED
        BY <2>18, <3>8, <3>9 DEF Right
  <2>19. CASE phase' = "closing"
    <3>1. /\ UseLimit /\ accepted' = accepted + 1 /\ accepted + 1 >= opt.limit
          /\ accepted < opt.limit /\ accepted \in Nat /\ opt.limit \in Nat
      <4>1. Wanted(name, o) /\ UseLimit /\ accepted + 1 >= opt.limit
          BY <2>16, <2>19
      <4>2. v.ran \cap {"limit", "count"} # {}
          BY <2>8, <2>9, <4>1 DEF Does
      <4>3. accepted' = accepted + 1
          BY <2>7, <4>2
      <4>4. accepted < opt.limit /\ accepted \in Nat /\ opt.limit \in Nat
          BY <1>1, <4>1 DEF WithinLimit, UseLimit, Option
      <4> QED
          BY <4>1, <4>3, <4>4
    <3> DEFINE bt == b \o t
               whole == b \o all
    <3>2. Len(bt) = opt.limit /\ bt \in Names /\ whole \in Names /\ Prolongs(bt, whole)
      <4>1. Len(bt) = opt.limit
          BY <2>16, <3>1
      <4>2. bt \in Names /\ whole \in Names
          BY <2>4, <2>15, BehindIs
      <4>3. Prolongs(bt, whole)
          BY <2>4, <2>15, ProlongedBehind
      <4> QED
          BY <4>1, <4>2, <4>3
    <3> HIDE DEF bt, whole
    <3>3. Limited(whole) = bt
        BY <3>1, <3>2, RestIsCut DEF WithinLimit
    <3>4. Limited(WantedOfAll)' = bt
      <4>1. WantedOfAll' = whole /\ UseLimit' = UseLimit
          BY <1>1, <2>17, HistoryStays DEF whole
      <4>2. Limited(WantedOfAll)' = IF UseLimit'
                                    THEN SubSeq(WantedOfAll', 1, Min({opt'.limit, Len(WantedOfAll')}))
                                    ELSE WantedOfAll'
          BY DEF Limited
      <4>3. Limited(whole) = IF UseLimit THEN SubSeq(whole, 1, Min({opt.limit, Len(whole)}))
                             ELSE whole
          BY DEF Limited
      <4> QED
          BY <1>1, <3>3, <4>1, <4>2, <4>3
    <3>5. Counted(Due)'
        BY <1>1, <2>16, <3>4 DEF Counted, Due, bt
    <3>6. StatsDoNotLeak'
      <4>1. opt.stats => total' <= Len(all)
          BY <2>15, <2>16 DEF Prolongs
      <4>2. UseLimit'
          BY <1>1, <3>1, HistoryStays
      <4>3. WantedOf(opened[Len(opened)])' = all
          BY <2>17 DEF LastWanted
      <4> QED
          BY <1>1, <4>1, <4>2, <4>3 DEF StatsDoNotLeak
    <3>7. Told'
        BY <2>19 DEF Told
    <3> QED
        BY <2>19, <3>5, <3>6, <3>7 DEF Right
  <2> QED
      BY <2>16, <2>18, <2>19
<1> QED
    BY <1>2, <1>3 DEF SearchInv

\* At the end of the file every name has been read.
LEMMA EndOfFileSearch ==
    ASSUME WithinLimit, SearchInv, EndOfFile
    PROVE  SearchInv'
<1>1. /\ UNCHANGED <<opt, dbi, opened, misread, accepted, printed, total>> /\ phase = "entries"
      /\ procdata.pos > Len(Db.bytes) /\ phase' = "closing"
    BY DEF EndOfFile
<1>2. Book'
    BY <1>1 DEF SearchInv, Book, Listed
<1>3. ASSUME Readable' PROVE Right'
  <2>1. Readable
      BY <1>1, <1>3, DueStays
  <2>2. PICK k, b : SoFarAt(k, b)
      BY <1>1, <2>1 DEF SearchInv, Right
  <2> DEFINE o == opened[Len(opened)]
             all == WantedOf(o)
  <2>3. /\ Place(procdata, Db, o.list, k) /\ b \in Names /\ WantedOfAll = b \o all
        /\ Counted(b \o FirstWanted(k)) /\ (opt.stats => total = Len(FirstWanted(k)))
      BY <2>2 DEF SoFarAt, LastWanted
  <2>4. k = Len(o.list)
      BY <1>1, <2>3, EndIsLast
  <2>5. FirstWanted(k) = all
      BY <2>4 DEF FirstWanted, WantedOf
  <2>6. all \in Names
    <3>1. o.list \in Names
        BY <2>3 DEF Place
    <3> QED
        BY <3>1, WantedOfIs
  <2>7. LastWanted = all
      BY DEF LastWanted
  <2> HIDE DEF all, o
  <2> DEFINE whole == b \o all
  <2>8. whole \in Names
      BY <2>3, <2>6, BehindIs
  <2>9. Counted(whole) /\ WantedOfAll = whole /\ (opt.stats => total = Len(all))
      BY <2>3, <2>5
  <2> HIDE DEF whole
  <2>10. Due = whole
    <3>1. UseLimit => Len(whole) <= opt.limit
        BY <1>1, <2>9 DEF Counted, WithinLimit, UseLimit, Option
    <3> QED
        BY <2>8, <2>9, <3>1, ShortIsNotCut DEF WithinLimit, Due
  <2>11. Counted(Due)'
    <3>1. Counted(Due)
        BY <2>9, <2>10
    <3> QED
        BY <1>1, <3>1, CountedStays
  <2>12. StatsDoNotLeak'
    <3>1. LastWanted' = all
        BY <1>1, <2>7, HistoryStays
    <3>2. WantedOf(opened[Len(opened)])' = all
        BY <3>1 DEF LastWanted
    <3>3. Len(all) \in Nat
        BY <2>6 DEF Names
    <3> QED
        BY <1>1, <2>9, <3>2, <3>3 DEF StatsDoNotLeak
  <2>13. Told'
      BY <1>1 DEF Told
  <2> QED
      BY <1>1, <2>11, <2>12, <2>13 DEF Right
<1> QED
    BY <1>2, <1>3 DEF SearchInv

\* search_one_database returns what the limit has counted, and dolocate makes
\* the status of it.
LEMMA CloseSearch ==
    ASSUME SearchInv, Close \/ Finish
    PROVE  SearchInv'
<1>1. /\ UNCHANGED <<opt, dbi, opened, misread, accepted, printed, total>>
      /\ \/ phase = "closing" /\ phase' = "next" /\ found' = accepted
         \/ phase = "next" /\ phase' = "done" /\ found' = found /\ status' = Result
    BY DEF Close, Finish, Exit
<1>2. Book'
    BY <1>1 DEF SearchInv, Book, Listed
<1>3. ASSUME Readable' PROVE Right'
  <2>1. Readable
      BY <1>1, <1>3, DueStays
  <2>2. Counted(Due) /\ Told
      BY <1>1, <2>1 DEF SearchInv, Right
  <2>3. Counted(Due)'
      BY <1>1, <2>2, CountedStays
  <2>4. phase' = "done" => Result' = Result
      BY <1>1 DEF Result, UseLimit
  <2>5. StatsDoNotLeak' /\ Told'
      BY <1>1, <2>2, <2>4 DEF StatsDoNotLeak, Told
  <2> QED
      BY <1>1, <2>3, <2>5 DEF Right
<1> QED
    BY <1>2, <1>3 DEF SearchInv

\* Nothing that updatedb does reaches the file that is open.
LEMMA OpenFileStays ==
    ASSUME AtomicInv, UNCHANGED locateVars, UpdatedbNext(format) \/ UNCHANGED updateVars
    PROVE  Db' = Db
<1>1. UNCHANGED <<procdata, dbpath, dbi, format>>
    BY DEF locateVars
<1>2. CASE procdata.inode = NoFile
    BY <1>1, <1>2 DEF Db
<1>3. CASE procdata.inode # NoFile
  <2>1. procdata.inode \in 0 .. MaxUpdates /\ Final(procdata.inode)
      BY <1>3, DbIsMade
  <2>2. file'[procdata.inode] = file[procdata.inode]
    <3>1. CASE UpdatedbNext(format)
      <4>1. Stays(procdata.inode)
          BY <1>1, <2>1, <3>1, UpdateStep DEF AtomicInv
      <4> QED
          BY <4>1 DEF Stays
    <3>2. CASE UNCHANGED updateVars
        BY <3>2 DEF updateVars
    <3> QED
        BY <3>1, <3>2
  <2> QED
      BY <1>1, <1>3, <2>2 DEF Db
<1> QED
    BY <1>2, <1>3

\* A step of updatedb is none of the search's.
LEMMA IdleSearch ==
    ASSUME SearchInv, UNCHANGED locateVars, Db' = Db
    PROVE  SearchInv'
<1>1. UNCHANGED <<opt, phase, dbi, procdata, accepted, found, total, printed, status, opened,
                  misread>>
    BY DEF locateVars
<1>2. Book'
    BY <1>1 DEF SearchInv, Book, Listed
<1>3. ASSUME Readable' PROVE Right'
  <2>1. Readable
      BY <1>1, <1>3, DueStays
  <2>2. Right
      BY <2>1 DEF SearchInv
  <2>3. /\ WantedOfAll' = WantedOfAll /\ LastWanted' = LastWanted
        /\ \A k : FirstWanted(k)' = FirstWanted(k)
        /\ Readable' = Readable
      BY <1>1, HistoryStays, DueStays
  <2>4. ASSUME phase' = "entries" PROVE \E k, b : SoFarAt(k, b)'
    <3>1. PICK k, b : SoFarAt(k, b)
        BY <1>1, <2>2, <2>4 DEF Right
    <3>2. opened'[Len(opened')] = opened[Len(opened)]
        BY <1>1
    <3>3. /\ Place(procdata', Db', opened'[Len(opened')].list, k)
          /\ b \in Names /\ WantedOfAll' = b \o LastWanted'
          /\ accepted' = Len(b \o FirstWanted(k)')
          /\ opt'.print => printed' = b \o FirstWanted(k)'
          /\ opt'.stats => total' = Len(FirstWanted(k)')
          /\ procdata'.check = IF opened'[Len(opened')].format = "slocate1" THEN "existing"
                               ELSE opt'.existence
          /\ ~(opened'[Len(opened')].format = "slocate1" /\ opt'.existence = "nonexisting")
        BY <1>1, <2>3, <3>1, <3>2 DEF SoFarAt, Counted, Checked
    <3>4. SoFarAt(k, b)'
        BY <3>3 DEF SoFarAt, Counted, Checked
    <3> QED
        BY <3>4
  <2>5. phase' # "entries" => Counted(Due)'
      BY <1>1, <2>2, CountedStays DEF Right
  <2>6. StatsDoNotLeak'
    <3>1. StatsDoNotLeak /\ LastWanted = WantedOf(opened[Len(opened)])
        BY <2>2 DEF Right, LastWanted
    <3>2. LastWanted' = WantedOf(opened[Len(opened)])'
        BY DEF LastWanted
    <3>3. UseLimit' = UseLimit
        BY <1>1, HistoryStays
    <3> QED
        BY <1>1, <2>1, <2>3, <3>1, <3>2, <3>3 DEF StatsDoNotLeak
  <2>7. Told'
    <3>1. Result' = Result
        BY <1>1 DEF Result, UseLimit
    <3> QED
        BY <1>1, <2>2, <3>1 DEF Right, Told
  <2> QED
      BY <2>4, <2>5, <2>6, <2>7 DEF Right
<1> QED
    BY <1>2, <1>3 DEF SearchInv

\* At the start nothing is due.
LEMMA InitSearch ==
    ASSUME LocateInit
    PROVE  SearchInv
<1>1. /\ phase = "next" /\ dbi = 0 /\ opened = <<>> /\ accepted = 0 /\ found = 0
      /\ printed = <<>> /\ opt \in Option
    BY InitWithinLimit DEF LocateInit, WithinLimit
<1>2. Len(opened) = 0 /\ \E S : opened \in Seq(S)
  <2>1. opened \in Seq({})
      BY <1>1
  <2> QED
      BY <1>1, <2>1
<1>3. Listed(opened)
  <2>1. 1 .. Len(opened) = {}
      BY <1>2
  <2> QED
      BY <1>2, <2>1 DEF Listed
<1>4. Book
    BY <1>1, <1>2, <1>3 DEF Book
<1> DEFINE none == WantedThrough(opened)[0]
<1>5. WantedOfAll = none
    BY <1>2 DEF WantedOfAll
<1>6. none = <<>>
    BY <1>3, WantedThroughIs
<1>7. none \in Names /\ Len(none) = 0
  <2>1. <<>> \in Seq(Seq(Char)) /\ Len(<<>>) = 0
      OBVIOUS
  <2> QED
      BY <1>6, <2>1 DEF Names
<1> HIDE DEF none
<1>8. Due = none
  <2>1. UseLimit => Len(none) <= opt.limit
      BY <1>1, <1>7 DEF UseLimit, Option
  <2>2. Limited(none) = none
      BY <1>1, <1>7, <2>1, ShortIsNotCut
  <2> QED
      BY <1>5, <2>2 DEF Due
<1>9. Counted(Due)
    BY <1>1, <1>6, <1>7, <1>8 DEF Counted
<1>10. StatsDoNotLeak /\ Told
    BY <1>1 DEF StatsDoNotLeak, Told
<1> QED
    BY <1>1, <1>4, <1>9, <1>10 DEF SearchInv, Right

\* Every step, of locate or of updatedb.
LEMMA SearchStep ==
    ASSUME StaticWritten, AtomicInv, AtDatabase, WithinLimit, SearchInv, [Next]_locateDbVars
    PROVE  SearchInv'
<1>1. CASE NextDatabase
    BY <1>1, NextDatabaseSearch
<1>2. CASE ReadHeader
    BY <1>2, ReadHeaderSearch
<1>3. CASE VisitEntry
    BY <1>3, VisitEntrySearch
<1>4. CASE EndOfFile
    BY <1>4, EndOfFileSearch
<1>5. CASE Close \/ Finish
    BY <1>5, CloseSearch
<1>6. CASE UNCHANGED locateVars /\ (UpdatedbNext(format) \/ UNCHANGED updateVars)
  <2>1. Db' = Db
      BY <1>6, OpenFileStays
  <2> QED
      BY <1>6, <2>1, IdleSearch
<1> QED
    BY <1>1, <1>2, <1>3, <1>4, <1>5, <1>6 DEF Next, LocateNext, locateDbVars

\* All the invariants that the search relies on.
LocateInv == AtomicInv /\ GuessInv /\ WithinLimit /\ SearchInv

LEMMA LocateInvHolds ==
    ASSUME SystemWritten, StaticWritten
    PROVE  Spec => []LocateInv
<1>1. OldWritten
    BY StaticIsOld
<1>2. LocateInit => LocateInv
  <2> SUFFICES ASSUME LocateInit PROVE LocateInv
      OBVIOUS
  <2>1. AtomicInv
      BY AtomicInit
  <2>2. GuessInv
      BY GuessInit
  <2>3. WithinLimit /\ SearchInv
      BY InitWithinLimit, InitSearch
  <2> QED
      BY <2>1, <2>2, <2>3 DEF LocateInv
<1>3. LocateInv /\ [Next]_locateDbVars => LocateInv'
  <2> SUFFICES ASSUME LocateInv, [Next]_locateDbVars PROVE LocateInv'
      OBVIOUS
  <2>1. AtomicInv /\ GuessInv /\ WithinLimit /\ SearchInv /\ AtDatabase
      BY DEF LocateInv, GuessInv
  <2>2. AtomicInv'
      BY <2>1, AtomicStep
  <2>3. GuessInv'
      BY <1>1, <2>1, GuessStep
  <2>4. WithinLimit'
      BY <2>1, StepWithinLimit
  <2>5. SearchInv'
      BY <2>1, SearchStep
  <2> QED
      BY <2>2, <2>3, <2>4, <2>5 DEF LocateInv
<1> QED
    BY <1>2, <1>3, PTL DEF Spec

\* locate.c: dolocate.  Whatever names the databases hold, in whichever of the
\* formats, however they were compressed, clamped and escaped, and whatever
\* updatedb does meanwhile: locate prints the wanted names, each once and in
\* order, up to the limit.
THEOREM SearchFindsAll ==
    ASSUME SystemWritten, StaticWritten
    PROVE  Spec => []SearchIsExact
<1>1. LocateInv => SearchIsExact
    BY DEF LocateInv, SearchInv, Right, Counted, Due, SearchIsExact
<1> QED
    BY <1>1, LocateInvHolds, PTL

\* locate.c: found, what -c prints, and the status dolocate makes of it tell of
\* the wanted names of all the databases, not of the last one alone.
THEOREM StatusIsTrue ==
    ASSUME SystemWritten, StaticWritten
    PROVE  Spec => []StatusTellsMatch
<1>1. LocateInv => StatusTellsMatch
  <2> SUFFICES ASSUME LocateInv, phase = "done", Readable, Len(opened) = dbi
               PROVE  /\ found = Len(Due)
                      /\ status = IF found > 0 \/ (UseLimit /\ opt.limit = 0) \/ opt.stats
                                  THEN 0 ELSE 1
      BY DEF StatusTellsMatch, Due
  <2>1. Counted(Due) /\ found = accepted /\ status = Result /\ accepted \in Nat
      BY DEF LocateInv, SearchInv, Right, Told, WithinLimit
  <2>2. found # 0 <=> found > 0
      BY <2>1
  <2> QED
      BY <2>1, <2>2 DEF Counted, Result
<1> QED
    BY <1>1, LocateInvHolds, PTL

\* locate.c: the stats visitor stands behind the check of existence and the
\* patterns, so that -S counts no name that a search would not show.
THEOREM StatsTellNoMore ==
    ASSUME SystemWritten, StaticWritten
    PROVE  Spec => []StatsDoNotLeak
<1>1. LocateInv => StatsDoNotLeak
    BY DEF LocateInv, SearchInv, Right, StatsDoNotLeak
<1> QED
    BY <1>1, LocateInvHolds, PTL
=============================================================================
