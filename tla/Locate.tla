------------------------------- MODULE Locate -------------------------------
(***************************************************************************)
(* locate: the loop of dolocate over the databases of the path, the header *)
(* of each, the reading of its entries in the three formats, the chain of  *)
(* visitors an entry goes through, and the exit status; while updatedb may *)
(* replace the database of the system.                                     *)
(*                                                                         *)
(* An element of the path is the database of the system, another database  *)
(* with the list it was made of, or one that cannot be opened.  A pattern  *)
(* is known by the paths it matches.  procdata is the struct of that name. *)
(***************************************************************************)
EXTENDS Updatedb

CONSTANTS
    Matches,        \* Matches[x]: the paths pattern x matches
    Existing,       \* the paths of files that exist
    Scenarios       \* the [dbpath, opt, format, list] to look at

NoLimit == -1

\* The visitors that are not patterns.
Visitors == {"existing", "nonexisting", "stats", "print", "limit", "count"}

Option ==
    [patterns : Seq(DOMAIN Matches), op_and : BOOLEAN,
     existence : {"either", "existing", "nonexisting"}, limit : Nat \cup {NoLimit},
     print : BOOLEAN, stats : BOOLEAN]

ASSUME LocateAssumption ==
    /\ DOMAIN Matches \cap Visitors = {}
    /\ \A s \in Scenarios : s.opt \in Option /\ Len(s.dbpath) \in Nat

VARIABLES
    dbpath,         \* the databases to search; never changes
    opt,            \* the options; never changes
    format,         \* the format updatedb is told to write; never changes
    phase,          \* where dolocate stands
    dbi,            \* the number of databases taken from the path
    procdata,       \* what the visitors share about the open database
    accepted,       \* limits.items_accepted
    found,          \* what search_one_database returned last
    total,          \* statistics.total_filename_count
    printed,        \* the names printed
    status,         \* the exit status; -1 while running
    opened,         \* history: the databases read, with the list of each
    misread         \* history: a word of an old database was taken for another

locateVars == <<dbpath, opt, format, phase, dbi, procdata, accepted, found, total, printed,
                status, opened, misread>>
locateDbVars == <<updateVars, locateVars>>

Closed ==
    [inode |-> NoFile, pos |-> 1, buf |-> <<>>, len |-> 0, count |-> 0, itemcount |-> 0,
     endian |-> "initial", check |-> "either", names |-> <<>>]

LocateInit ==
    \E s \in Scenarios :
        /\ UpdatedbInit(s.format, s.list)
        /\ dbpath = s.dbpath /\ opt = s.opt /\ format = s.format
        /\ phase = "next" /\ dbi = 0 /\ procdata = Closed
        /\ accepted = 0 /\ found = 0 /\ total = 0 /\ printed = <<>> /\ status = -1
        /\ opened = <<>> /\ misread = FALSE

UseLimit == opt.limit # NoLimit /\ ~(opt.stats /\ opt.patterns = <<>>)

\* The file that is open.
Db == IF procdata.inode # NoFile THEN file[procdata.inode]
      ELSE dbpath[dbi].file

Exit(s) == phase' = "done" /\ status' = s

BadLimitReached == UseLimit /\ accepted > opt.limit
LimitReached == UseLimit /\ accepted >= opt.limit

------------------------------------------------------------------------------
(* dolocate: the next database.                                            *)

NextDatabase ==
    /\ phase = "next" /\ dbi < Len(dbpath)
    /\ ~LimitReached
    /\ dbi' = dbi + 1
    /\ total' = 0
    /\ LET e == dbpath[dbi + 1]
       IN IF e.kind = "missing"
          THEN Exit(0) /\ UNCHANGED procdata
          ELSE /\ phase' = "header" /\ UNCHANGED status
               /\ procdata' = [Closed EXCEPT !.inode = IF e.kind = "system" THEN locate_db
                                                      ELSE NoFile]
    /\ UNCHANGED <<updateVars, dbpath, opt, format, accepted, found, printed, opened, misread>>

BadResult == IF found # 0 THEN 0 ELSE 1
Result == IF found # 0 \/ (UseLimit /\ opt.limit = 0) \/ opt.stats THEN 0 ELSE 1

\* No more databases, or the limit is reached.
Finish ==
    /\ phase = "next"
    /\ dbi = Len(dbpath) \/ LimitReached
    /\ Exit(Result)
    /\ UNCHANGED <<updateVars, dbpath, opt, format, dbi, procdata, accepted, found, total,
                   printed, opened, misread>>

------------------------------------------------------------------------------
(* search_one_database: the header.                                        *)

Skipped == Db.format = "slocate2" \/ (Db.format = "slocate1" /\ opt.existence = "nonexisting")

Checked(f) == IF f = "slocate1" THEN "existing" ELSE opt.existence

\* What the history says of the open database.
Opened ==
    IF procdata.inode # NoFile
    THEN [list |-> given[procdata.inode], format |-> Db.format, foreign |-> FALSE]
    ELSE [list |-> dbpath[dbi].list, format |-> Db.format, foreign |-> dbpath[dbi].foreign]

\* A database is skipped, too short to be one, or read.
ReadHeader ==
    /\ phase = "header"
    /\ CASE Skipped -> phase' = "next" /\ found' = 0 /\ UNCHANGED <<procdata, status, opened>>
         [] Db.format = "none" -> Exit(1) /\ UNCHANGED <<found, procdata, opened>>
         [] OTHER -> /\ phase' = "entries"
                     /\ procdata' = [procdata EXCEPT !.check = Checked(Db.format)]
                     /\ opened' = Append(opened, Opened)
                     /\ UNCHANGED <<found, status>>
    /\ UNCHANGED <<updateVars, dbpath, opt, format, dbi, accepted, total, printed, misread>>

------------------------------------------------------------------------------
(* visit_locate02_format: the entry at pos, as [count, text], where text   *)
(* is the position of its text.                                            *)

Byte(i) == Db.bytes[i]

CountRead ==
    LET i == procdata.pos
    IN IF Byte(i) = Escape
       THEN [count |-> procdata.count + Signed(Byte(i + 1) * ByteValues + Byte(i + 2),
                                               ByteValues * ByteValues),
             text |-> i + 3]
       ELSE [count |-> procdata.count + Signed(Byte(i), ByteValues), text |-> i + 1]

\* The first entry of an slocate database has no count.  For the second one
\* the count is not what the byte says.
Locate02Entry ==
    IF Db.format \in Slocate /\ procdata.itemcount = 0
    THEN [count |-> 0, text |-> procdata.pos]
    ELSE IF Db.format \in Slocate /\ procdata.itemcount = 1
    THEN [count |-> procdata.len - 1, text |-> procdata.pos + 1]
    ELSE CountRead

\* locate_read_str reads up to a NUL, or to the end of the file.
NulFrom(i) == Min({k \in i .. Len(Db.bytes) : Byte(k) = NUL} \cup {Len(Db.bytes)})

Locate02Read(e) ==
    LET end == NulFrom(e.text)
    IN [procdata EXCEPT !.count = e.count,
                        !.len = e.count + end - e.text + 1,
                        !.pos = end + 1,
                        !.buf = SubSeq(@, 1, e.count) \o SubSeq(Db.bytes, e.text, end),
                        !.itemcount = IF Db.format \in Slocate /\ @ < 6 THEN @ + 1 ELSE @]

------------------------------------------------------------------------------
(* visit_old_format.                                                       *)

WordValue(high, low) == Signed(high * WordBase + low, WordBase * WordBase)

\* The word at position i as this machine sees it, and byte-swapped.  What
\* another machine wrote is swapped in the file.
Native(i) == IF opened[Len(opened)].foreign THEN WordValue(Byte(i + 1), Byte(i))
             ELSE WordValue(Byte(i), Byte(i + 1))
Swap(i) == IF opened[Len(opened)].foreign THEN WordValue(Byte(i), Byte(i + 1))
           ELSE WordValue(Byte(i + 1), Byte(i))

\* decode_value: guesses the byte order by the first word that tells.
DecodedWord(i, limit) ==
    CASE procdata.endian = "native" -> [value |-> Native(i), endian |-> "native"]
      [] procdata.endian = "swab" -> [value |-> Swap(i), endian |-> "swab"]
      [] procdata.endian = "initial" ->
           IF Native(i) > limit /\ Swap(i) <= limit
           THEN [value |-> Swap(i), endian |-> "swab"]
           ELSE [value |-> Native(i),
                 endian |-> IF Native(i) <= limit /\ Swap(i) > limit THEN "native"
                            ELSE "initial"]

\* The limit getword is given: the count is 14 too low at this point.
BadMaxVal == procdata.len - procdata.count
MaxVal == LET count == procdata.count - OldOffset
          IN IF count >= 0 THEN procdata.len - count ELSE procdata.len

IsLong == Byte(procdata.pos) = OldEscape
Word == DecodedWord(procdata.pos + 1, MaxVal)

OldEntry ==
    IF IsLong
    THEN [count |-> procdata.count - OldOffset + Word.value, text |-> procdata.pos + 3]
    ELSE [count |-> procdata.count + Byte(procdata.pos) - OldOffset, text |-> procdata.pos + 1]

\* The word is not what the writer meant.
Misread == IsLong /\ Word.value # (IF opened[Len(opened)].foreign THEN Swap(procdata.pos + 1)
                                   ELSE Native(procdata.pos + 1))

\* Up to the next count byte.  A count beyond the end of the last name leaves
\* that name in front, with its NUL.
OldRead(e) ==
    LET end == Min({k \in e.text .. Len(Db.bytes) : Byte(k) <= OldEscape}
                   \cup {Len(Db.bytes) + 1})
        kept == SubSeq(procdata.buf \o [i \in 1 .. e.count |-> NUL], 1, e.count)
    IN [procdata EXCEPT !.count = e.count, !.len = e.count + end - e.text, !.pos = end,
                        !.buf = kept \o [i \in 1 .. end - e.text |->
                                            Byte(e.text + i - 1) - OldEscape] \o <<NUL>>,
                        !.endian = IF IsLong THEN Word.endian ELSE @]

\* The name in the buffer, which is a C string.
Name(buf) == SubSeq(buf, 1, Min({i \in DOMAIN buf : buf[i] = NUL}) - 1)

------------------------------------------------------------------------------
(* The visitors.                                                           *)

Inspect(v, name) ==
    CASE v \in DOMAIN Matches -> IF name \in Matches[v] THEN "accepted" ELSE "rejected"
      [] v = "existing" -> IF name \in Existing THEN "continue" ELSE "rejected"
      [] v = "nonexisting" -> IF name \in Existing THEN "rejected" ELSE "continue"
      [] v = "limit" -> IF accepted + 1 >= opt.limit THEN "abort" ELSE "continue"
      [] OTHER -> "continue"

\* visit: the visitors in turn, until one gives a result outside the flags.
Visit(list, flags, name) ==
    LET last == Min({i \in DOMAIN list : Inspect(list[i], name) \notin flags} \cup {Len(list)})
    IN [result |-> Inspect(list[last], name), ran |-> ToSet(SubSeq(list, 1, last))]

Optional(b, v) == IF b THEN <<v>> ELSE <<>>
BadPastPatterns ==
    Optional(opt.stats, "stats")
    \o Optional(procdata.check # "either", procdata.check)
    \o Optional(opt.print, "print")
    \o <<IF UseLimit THEN "limit" ELSE "count">>
PastPatterns ==
    Optional(procdata.check # "either", procdata.check)
    \o Optional(opt.stats, "stats")
    \o Optional(opt.print, "print")
    \o <<IF UseLimit THEN "limit" ELSE "count">>

\* process_and and process_or.
PatternFlags == {"continue", IF opt.op_and THEN "accepted" ELSE "rejected"}

\* process_simple has one chain, the other two look at the patterns first.
Process(name) ==
    IF Len(opt.patterns) <= 1
    THEN Visit(opt.patterns \o PastPatterns, {"continue", "accepted"}, name)
    ELSE LET first == Visit(opt.patterns, PatternFlags, name)
         IN IF first.result = "accepted" THEN Visit(PastPatterns, {"continue"}, name)
            ELSE first

\* One turn of the main loop: an entry is read and visited.
VisitEntry ==
    /\ phase = "entries" /\ procdata.pos <= Len(Db.bytes)
    /\ LET old == Db.format = "old"
           e == IF old THEN OldEntry ELSE Locate02Entry
           corrupt == e.count < 0 \/ (~old /\ e.count > procdata.len)
       IN IF corrupt
          THEN Exit(1) /\ UNCHANGED <<procdata, accepted, total, printed>>
          ELSE IF ~old /\ e.text > Len(Db.bytes)
          THEN phase' = "closing" /\ UNCHANGED <<procdata, accepted, total, printed, status>>
          ELSE LET read == IF old THEN OldRead(e) ELSE Locate02Read(e)
                   name == Name(read.buf)
                   visit == Process(name)
               IN /\ procdata' = [read EXCEPT !.names = Append(@, name)]
                  /\ phase' = IF visit.result = "abort" THEN "closing" ELSE phase
                  /\ total' = IF "stats" \in visit.ran THEN total + 1 ELSE total
                  /\ printed' = IF "print" \in visit.ran THEN Append(printed, name) ELSE printed
                  /\ accepted' = IF visit.ran \cap {"limit", "count"} # {} THEN accepted + 1
                                 ELSE accepted
                  /\ UNCHANGED status
    /\ misread' = (misread \/ (Db.format = "old" /\ Misread))
    /\ UNCHANGED <<updateVars, dbpath, opt, format, dbi, found, opened>>

EndOfFile ==
    /\ phase = "entries" /\ procdata.pos > Len(Db.bytes)
    /\ phase' = "closing"
    /\ UNCHANGED <<updateVars, dbpath, opt, format, dbi, procdata, accepted, found, total,
                   printed, status, opened, misread>>

\* search_one_database returns and the file is closed.
Close ==
    /\ phase = "closing"
    /\ phase' = "next"
    /\ found' = accepted
    /\ UNCHANGED <<updateVars, dbpath, opt, format, dbi, procdata, accepted, total, printed,
                   status, opened, misread>>

LocateNext == NextDatabase \/ Finish \/ ReadHeader \/ VisitEntry \/ EndOfFile \/ Close

\* updatedb is of interest only while its database is on the path.
SystemRead == \E i \in DOMAIN dbpath : dbpath[i].kind = "system"

Next == LocateNext \/ (SystemRead /\ UpdatedbNext(format) /\ UNCHANGED locateVars)

Spec == LocateInit /\ [][Next]_locateDbVars

------------------------------------------------------------------------------
(* Properties.                                                             *)

\* What the manual page says is to be found of a database o: the names some
\* pattern matches, or with -A all do, that exist or do not, if asked.
Wanted(p, o) ==
    /\ \/ opt.patterns = <<>>
       \/ IF opt.op_and THEN \A v \in ToSet(opt.patterns) : p \in Matches[v]
          ELSE \E v \in ToSet(opt.patterns) : p \in Matches[v]
    /\ (o.format = "slocate1" \/ opt.existence = "existing") => p \in Existing
    /\ opt.existence = "nonexisting" => p \notin Existing

\* The wanted names among the first k of a database, in order.
WantedUpTo(o) ==
    LET names[k \in 0 .. Len(o.list)] ==
            IF k = 0 THEN <<>>
            ELSE IF Wanted(o.list[k], o) THEN Append(names[k - 1], o.list[k])
            ELSE names[k - 1]
    IN names
WantedOf(o) == WantedUpTo(o)[Len(o.list)]

\* The wanted names of the first i databases, one database after the other.
WantedThrough(dbs) ==
    LET names[i \in 0 .. Len(dbs)] ==
            IF i = 0 THEN <<>> ELSE names[i - 1] \o WantedOf(dbs[i])
    IN names
WantedOfAll == WantedThrough(opened)[Len(opened)]
Limited(list) == IF UseLimit THEN SubSeq(list, 1, Min({opt.limit, Len(list)})) ELSE list

\* The databases that are read as they were written: see SlocateReadsBack and
\* GuessIsSound.
Readable == ~misread /\ \A i \in DOMAIN opened :
                           opened[i].format \in Slocate => Len(opened[i].list) <= 1

\* Whatever was compressed, clamped and escaped on the way, and whichever
\* visitor stopped first: locate prints the wanted names of the lists the
\* databases were made of, each once and in order, up to the limit.
SearchIsExact ==
    phase = "done" /\ Readable /\ opt.print => printed = Limited(WantedOfAll)

\* The same of an slocate database of more than one name.
SlocateReadsBack ==
    phase = "done" /\ ~misread /\ opt.print => printed = Limited(WantedOfAll)

\* -c, and the exit status: they tell of all the databases, as long as none
\* is skipped and each can be opened.
StatusTellsMatch ==
    phase = "done" /\ Readable /\ Len(opened) = dbi =>
        /\ found = Len(Limited(WantedOfAll))
        /\ status = IF found > 0 \/ (UseLimit /\ opt.limit = 0) \/ opt.stats THEN 0 ELSE 1

\* locate.1, -l: "Limit the number of matches to N": at no time are there
\* more, over all the databases and whatever these hold.
LimitKept == UseLimit => accepted <= opt.limit /\ Len(printed) <= opt.limit

\* locate.c: the stats visitor stands where it "leak[s] [no] information about
\* files that the caller cannot see": -S counts no name of a database that a
\* search would not show.
StatsDoNotLeak ==
    phase = "closing" /\ Readable /\ opt.stats =>
        LET shown == Len(WantedOf(opened[Len(opened)]))
        IN total <= shown /\ (~UseLimit => total = shown)

\* A database this machine wrote in the old format is misread only when a long
\* count comes after a short prefix and the prefix reaches almost to the end
\* of the name before: getword is given a limit that is up to 14 too low.
GuessIsSound ==
    misread /\ (\A i \in DOMAIN opened : ~opened[i].foreign) =>
        \E i \in DOMAIN opened : opened[i].format = "old" /\
            LET list == opened[i].list
                shared(k) == IF k = 1 THEN 0 ELSE PrefixLength(list[k - 1], list[k])
            IN \E k \in 2 .. Len(list) :
                  /\ shared(k - 1) < OldOffset
                  /\ shared(k) - shared(k - 1) > OldOffset
                  /\ shared(k) - shared(k - 1) + OldOffset > Len(list[k - 1])

\* The databases of this machine in the old format were written by code, and
\* their names are so short that a count fits a word.
OldWritten ==
    \A s \in Scenarios : \A i \in 1 .. Len(s.dbpath) :
        LET e == s.dbpath[i]
        IN e.kind \notin {"missing", "system"} /\ e.file.format = "old" /\ ~e.foreign =>
               /\ e.list \in Seq(Seq(Char)) /\ e.file = Encoded("old", e.list)
               /\ \A k \in 1 .. Len(e.list) :
                     Len(e.list[k]) + OldOffset < (WordBase * WordBase) \div 2

\* So were the others, of any machine, and those in the format of frcode are
\* ones it came through.  A database that is skipped may be anything.
StaticWritten ==
    \A s \in Scenarios : \A i \in 1 .. Len(s.dbpath) :
        LET e == s.dbpath[i]
        IN e.kind \notin {"missing", "system"} /\ e.file.format \notin {"none", "slocate2"} =>
               /\ e.list \in Seq(Seq(Char)) /\ e.file = Encoded(e.file.format, e.list)
               /\ e.file.format \in {"LOCATE02", "old"} \cup Slocate
               /\ e.file.format = "LOCATE02" =>
                     \A k \in 1 .. Len(e.list) : ~Writers("LOCATE02", e.list)[k].aborted
               /\ e.file.format = "old" =>
                     \A k \in 1 .. Len(e.list) :
                        Len(e.list[k]) + OldOffset < (WordBase * WordBase) \div 2

\* The database of the system is in the format updatedb writes by default, and
\* the one in place at the start is one that frcode came through.
SystemWritten ==
    \A s \in Scenarios :
        /\ s.format = "LOCATE02" /\ s.list \in Seq(Path)
        /\ \A k \in 1 .. Len(s.list) : ~Writers("LOCATE02", s.list)[k].aborted

\* updatedb.sh: "To avoid breaking locate while this script is running, put the
\* results in a temp file, then rename it atomically."
Reads == procdata.inode # NoFile /\ phase \in {"header", "entries", "closing"}
AtomicDb == INSTANCE LocateDb WITH
    installed <- given[locate_db],
    building <- IF shell = "none" THEN <<>> ELSE given[update],
    complete <- shell # "none" /\ frcode[update] = "ok",
    reading <- IF Reads THEN given[procdata.inode] ELSE <<>>,
    got <- IF Reads THEN procdata.names ELSE <<>>
ImplementsLocateDb == AtomicDb!DbSpec
=============================================================================
