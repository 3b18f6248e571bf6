------------------------------ MODULE MCLocate ------------------------------
(***************************************************************************)
(* Small instances of Locate.  A byte has 4 values, so a count is one byte *)
(* from -1 to 1 and a short from -8 to 7; the paths share prefixes of 1,   *)
(* 2, 4 and 9 characters, so that every encoding, the clamp and the        *)
(* assertion of put_short occur.                                           *)
(***************************************************************************)
EXTENDS Locate

A(n) == [i \in 1 .. n |-> 1]
other == <<2>>
a == A(1)
aab == A(2) \o <<2>>
a4 == A(4)
a9 == A(9)
a9b == A(9) \o <<2, 3>>
MCSortedPaths == <<a, a4, a9, a9b, aab, other>>

MCMatches == [p |-> {other, aab, a4, a9b}, q |-> {aab, a4, a9}]
MCExisting == {other, a, a4, a9}

Options(patterns, existence, limits, modes) ==
    [patterns : patterns, op_and : BOOLEAN, existence : existence, limit : limits,
     print : {m[1] : m \in modes}, stats : {m[2] : m \in modes}]
PrintAll == [patterns |-> <<"p">>, op_and |-> FALSE, existence |-> "either", limit |-> NoLimit,
             print |-> TRUE, stats |-> FALSE]

Static(f, foreign, list) ==
    [kind |-> "static", foreign |-> foreign, list |-> list, file |-> Encoded(f, list)]
System == [kind |-> "system"]
Missing == [kind |-> "missing"]

\* locate prints everything of the database updatedb is replacing.
Updating ==
    [dbpath : {<<System>>}, opt : {[PrintAll EXCEPT !.patterns = <<>>, !.stats = TRUE]},
     format : {"LOCATE02"}, list : {<<a, aab>>}]

\* Every combination of options, over two databases of several formats.
Lists == {<<>>, <<a4>>, <<aab, a9>>, <<other, a, a4, a9b>>}
Databases ==
    {Static("LOCATE02", FALSE, l) : l \in Lists}
    \cup {Static("slocate1", FALSE, <<a4>>), Static("slocate0", FALSE, <<aab>>),
          Static("slocate2", FALSE, <<a4>>), Static("none", FALSE, <<>>), Missing}
Searching ==
    [dbpath : {<<d>> : d \in Databases} \cup (Databases \X Databases),
     opt : [patterns : {<<>>, <<"p">>, <<"p", "q">>}, op_and : BOOLEAN,
            existence : {"either", "existing", "nonexisting"},
            limit : {NoLimit, 0, 1, 2, 3}, print : BOOLEAN, stats : BOOLEAN],
     format : {"LOCATE02"}, list : {<<>>}]

\* Databases in the old format, of this machine or of another.
OldLists == UNION {[1 .. n -> Path] : n \in 1 .. 3}
ReadingOld ==
    [dbpath : {<<Static("old", b, l)>> : b \in BOOLEAN, l \in OldLists},
     opt : {[PrintAll EXCEPT !.patterns = <<>>]}, format : {"LOCATE02"}, list : {<<>>}]

MCScenarios == Updating \cup Searching \cup ReadingOld

\* slocate databases of several names.
SlocateLists == UNION {[1 .. n -> Path] : n \in 1 .. 3}
SlocateScenarios ==
    [dbpath : {<<Static("slocate0", FALSE, l)>> : l \in SlocateLists},
     opt : {PrintAll}, format : {"LOCATE02"}, list : {<<>>}]

\* The databases of the runs are such as the theorems about them suppose.
ASSUME MCWritten == SystemWritten /\ OldWritten /\ StaticWritten
=============================================================================
