------------------------------ MODULE FindTests -----------------------------
(***************************************************************************)
(* The tests of find that compare a number, a time or a mode of the file   *)
(* with one typed on the command line: their parsers (find/parser.c), the  *)
(* option -daystart, which moves the time that days are counted from, and  *)
(* the predicates (find/pred.c).                                           *)
(*                                                                         *)
(* A time is [sec, nsec], as a struct timespec, with TicksPerSec in the    *)
(* place of 10^9.  The number of a time test may have a fraction and is    *)
(* counted in parts of a day or a minute.  Midnight is at the multiples of *)
(* DAYSECS.  The definitions whose names begin with Bad are slips; nothing *)
(* uses them.                                                              *)
(***************************************************************************)
EXTENDS Integers

CONSTANTS
    TicksPerSec,        \* nanosec_per_sec
    DAYSECS, MinuteSecs,
    Parts,              \* the fractions of a number that can be typed
    StartTimes,         \* values of options.start_time
    Amounts,            \* the numbers of time tests, in parts
    Numbers,            \* the numbers of -links and -size
    Units,              \* values of blocksize
    Masks,              \* modes of -perm, [file |-> bits, dir |-> bits]
    Files,              \* [a, c, m |-> time, links, size, mode, dir]
    References          \* the files that -newer names

Time == [sec : Int, nsec : 0 .. TicksPerSec - 1]
Stamps == {"a", "c", "m"}
Signs == {"+", "-", ""}

ASSUME FindTestsAssumption ==
    /\ TicksPerSec \in Nat \ {0} /\ DAYSECS \in Nat \ {0} /\ MinuteSecs \in Nat \ {0}
    /\ Parts \in Nat \ {0} /\ Amounts \subseteq Nat
    /\ StartTimes \subseteq Time
    /\ Numbers \subseteq Nat /\ Units \subseteq Nat \ {0}
    /\ References \subseteq Files
    /\ \A f \in Files : /\ \A x \in Stamps : f[x] \in Time
                        /\ f.links \in Nat /\ f.size \in Nat /\ f.dir \in BOOLEAN

VARIABLES
    start_time,         \* options.start_time
    cur_day_start,      \* options.cur_day_start
    full_days,          \* options.full_days
    pred,               \* the predicate: its function and args
    stat_buf,           \* the file the predicate was applied to last
    matched,            \* what it said
    test                \* history: the test typed, and whether -daystart came before

testVars == <<start_time, cur_day_start, full_days, pred, stat_buf, matched, test>>

None == [func |-> "none"]

TestsInit ==
    /\ start_time \in StartTimes
    /\ cur_day_start = [start_time EXCEPT !.sec = @ - DAYSECS]
    /\ full_days = FALSE
    /\ pred = None /\ stat_buf = None /\ matched = FALSE /\ test = None

------------------------------------------------------------------------------
(* Parsers.                                                                *)

\* The hours, minutes and seconds of the local time are taken away.
StartOfDay ==
    LET now == cur_day_start.sec + DAYSECS
    IN [sec |-> now - (now % DAYSECS), nsec |-> 0]

BadDaystart ==
    /\ cur_day_start' = StartOfDay /\ full_days' = TRUE
    /\ UNCHANGED <<start_time, pred, stat_buf, matched, test>>
\* -daystart; a second one changes nothing.
Daystart ==
    /\ ~full_days
    /\ cur_day_start' = StartOfDay /\ full_days' = TRUE
    /\ UNCHANGED <<start_time, pred, stat_buf, matched, test>>

Insert(p, t) ==
    /\ pred = None
    /\ pred' = p
    /\ test' = t
    /\ UNCHANGED <<start_time, cur_day_start, full_days, stat_buf, matched>>

\* get_comp_type, as it stands and with its sense inverted.
CompType(sign) == IF sign = "+" THEN "GT" ELSE IF sign = "-" THEN "LT" ELSE "EQ"
Inverted(sign) == IF sign = "+" THEN "LT" ELSE IF sign = "-" THEN "GT" ELSE "EQ"

\* offset * sec_per_unit.
Ticks(n, unit) == (n * unit * TicksPerSec) \div Parts

\* get_relative_timestamp: the offset before origin.
Before(origin, offset) ==
    LET seconds == offset \div TicksPerSec
        nanosec == offset % TicksPerSec
        borrow == IF origin.nsec < nanosec THEN 1 ELSE 0
    IN [sec |-> origin.sec - seconds - borrow,
        nsec |-> origin.nsec - nanosec + borrow * TicksPerSec]

TimeTest(func, x, sign, n, unit, origin) ==
    Insert([func |-> func, xval |-> x, kind |-> Inverted(sign),
            ts |-> Before(origin, Ticks(n, unit))],
           [func |-> func, xval |-> x, sign |-> sign, n |-> n, daystart |-> full_days])

Later(t, seconds) == [t EXCEPT !.sec = @ + seconds]

\* -atime, -ctime, -mtime: "-n" counts from the end of today.
ParseTime(x, sign, n) ==
    TimeTest("time", x, sign, n, DAYSECS,
             IF sign = "-" THEN Later(cur_day_start, DAYSECS - 1) ELSE cur_day_start)

\* -amin, -cmin, -mmin.
DoParseXmin(x, sign, n) ==
    TimeTest("min", x, sign, n, MinuteSecs, Later(cur_day_start, DAYSECS))

ParseUsed(sign, n) == TimeTest("used", "a", sign, n, DAYSECS, [sec |-> 0, nsec |-> 0])

\* -newerXY reference; -anewer, -cnewer and -newer are am, cm and mm.
ParseNewerXY(x, y, reference) ==
    Insert([func |-> "newerXY", xval |-> x, kind |-> "GT", ts |-> reference[y]],
           [func |-> "newerXY", xval |-> x, time |-> reference[y]])

ParseLinks(sign, n) ==
    Insert([func |-> "links", kind |-> CompType(sign), l_val |-> n],
           [func |-> "links", sign |-> sign, n |-> n])

ParseSize(sign, n, unit) ==
    Insert([func |-> "size", kind |-> CompType(sign), size |-> n, blocksize |-> unit],
           [func |-> "size", sign |-> sign, n |-> n, unit |-> unit])

\* "+MODE" is exact when it is a symbolic mode, which POSIX asks for; "/000",
\* which would match no file, matches all.
PermKind(form, symbolic, mask) ==
    CASE form = "-" -> "AT_LEAST"
      [] form = "+" -> IF symbolic THEN "EXACT" ELSE "ANY"
      [] form = "/" -> IF mask.file = {} /\ mask.dir = {} THEN "AT_LEAST" ELSE "ANY"
      [] form = "" -> "EXACT"

ParsePerm(form, symbolic, mask) ==
    Insert([func |-> "perm", kind |-> PermKind(form, symbolic, mask), val |-> mask],
           [func |-> "perm", form |-> form, symbolic |-> symbolic, mask |-> mask])

------------------------------------------------------------------------------
(* Predicates.                                                             *)

\* ts_difference, compare_ts.
Difference(t, u) == (t.sec - u.sec) * TicksPerSec + (t.nsec - u.nsec)

\* pred_timewindow.
TimeWindow(ts, window) ==
    LET delta == Difference(ts, pred.ts)
    IN \/ pred.kind = "GT" /\ delta > 0
       \/ pred.kind = "LT" /\ delta < 0
       \/ pred.kind = "EQ" /\ 0 < delta /\ delta <= window * TicksPerSec

\* pred_used: the access time less the status change time, normalised.
UsedDelta(f) ==
    LET borrow == IF f.a.nsec < f.c.nsec THEN 1 ELSE 0
    IN [sec |-> f.a.sec - f.c.sec - borrow,
        nsec |-> f.a.nsec - f.c.nsec + borrow * TicksPerSec]

Compared(val, num) ==
    \/ pred.kind = "GT" /\ val > num
    \/ pred.kind = "LT" /\ val < num
    \/ pred.kind = "EQ" /\ val = num

BadBlocks(size, unit) == size \div unit
\* pred_size counts a block that is begun.
Blocks(size, unit) == size \div unit + (IF size % unit # 0 THEN 1 ELSE 0)

PermMatches(mode, mask) ==
    \/ pred.kind = "AT_LEAST" /\ mask \subseteq mode
    \/ pred.kind = "ANY" /\ (mask = {} \/ mask \cap mode # {})
    \/ pred.kind = "EXACT" /\ mode = mask

Holds(f) ==
    \/ pred.func = "time" /\ TimeWindow(f[pred.xval], DAYSECS)
    \/ pred.func = "min" /\ TimeWindow(f[pred.xval], MinuteSecs)
    \/ pred.func = "used" /\ TimeWindow(UsedDelta(f), DAYSECS)
    \/ pred.func = "newerXY" /\ Difference(f[pred.xval], pred.ts) > 0
    \/ pred.func = "links" /\ Compared(f.links, pred.l_val)
    \/ pred.func = "size" /\ Compared(Blocks(f.size, pred.blocksize), pred.size)
    \/ /\ pred.func = "perm"
       /\ PermMatches(f.mode, IF f.dir THEN pred.val.dir ELSE pred.val.file)

ApplyPredicate(f) ==
    /\ pred # None
    /\ stat_buf' = f
    /\ matched' = Holds(f)
    /\ UNCHANGED <<start_time, cur_day_start, full_days, pred, test>>

TestsNext ==
    \/ Daystart
    \/ \E sign \in Signs, n \in Amounts :
          \/ \E x \in Stamps : ParseTime(x, sign, n) \/ DoParseXmin(x, sign, n)
          \/ ParseUsed(sign, n)
    \/ \E x, y \in Stamps, reference \in References : ParseNewerXY(x, y, reference)
    \/ \E sign \in Signs, n \in Numbers :
          ParseLinks(sign, n) \/ \E unit \in Units : ParseSize(sign, n, unit)
    \/ \E form \in {"-", "+", "/", ""}, symbolic \in BOOLEAN, mask \in Masks :
          ParsePerm(form, symbolic, mask)
    \/ \E f \in Files : ApplyPredicate(f)

TestsSpec == TestsInit /\ [][TestsNext]_testVars

------------------------------------------------------------------------------
(* Properties.                                                             *)

Applied(func) == stat_buf # None /\ test.func = func

\* What the age of a file is counted from: the start of find or, after
\* -daystart, the midnight that ends the day find started in.  (find.1:330-338
\* has it "from the beginning of today rather than from 24 hours ago", as the
\* reference time of "0 days" is; -amin counts from the end of today too.)
Now(daystart) ==
    IF daystart THEN [sec |-> (start_time.sec \div DAYSECS + 1) * DAYSECS, nsec |-> 0]
    ELSE start_time
Age == Difference(Now(test.daystart), stat_buf[test.xval])
Span(seconds) == seconds * TicksPerSec

\* "+n for greater than n, -n for less than n, n for exactly n" (find.1:490-498).
AsTyped(count) == CASE test.sign = "+" -> count > 0
                    [] test.sign = "-" -> count < 0
                    [] test.sign = "" -> count = 0

\* find.1:515-521: the number of 24-hour periods, "any fractional part is
\* ignored", so to match +1 "a file has to have been accessed at least two days
\* ago".  The code does this but for two windows: a file of n+1 days to the tick
\* does not match +n, and one of n days to n days and a second matches -n.
DaysMean ==
    Applied("time") =>
        LET n == Ticks(test.n, DAYSECS)
            daysBeyond == (Age - n) \div Span(DAYSECS)
            lastTick == test.sign = "+" /\ Age = n + Span(DAYSECS)
            secondMore == test.sign = "-" /\ n <= Age /\ Age < n + Span(1)
        IN matched <=> (AsTyped(daysBeyond) /\ ~lastTick) \/ secondMore

\* Minutes are not rounded: +n and -n are more and less than n of them.  The
\* code departs from the manual for n, which is the whole minute before n rather
\* than n itself or the minute after it: all that n matches -n matches too, and
\* at n minutes to the tick no form matches.
MinutesMean ==
    Applied("min") =>
        LET n == Ticks(test.n, MinuteSecs)
            minuteBefore == n - Span(MinuteSecs) <= Age /\ Age < n
        IN matched <=> IF test.sign = "" THEN minuteBefore ELSE AsTyped(Age - n)

\* The time tests say what the manual has them say of the age of the file, but
\* for the windows that DaysMean and MinutesMean name, wherever -daystart is typed
\* (it is for the tests after it) and however often; and -newer is for later
\* times only.
TimesMean ==
    /\ DaysMean
    /\ MinutesMean
    /\ Applied("newerXY") => (matched <=> Difference(stat_buf[test.xval], test.time) > 0)

Agrees(val) == CASE test.sign = "+" -> val > test.n
                 [] test.sign = "-" -> val < test.n
                 [] test.sign = "" -> val = test.n

\* -size counts in units and rounds up; -perm looks for all of the bits, any of
\* them (all files, if there are none), or exactly these, and a symbolic +MODE
\* is of the last kind.
NumbersMean ==
    /\ Applied("links") => (matched <=> Agrees(stat_buf.links))
    /\ Applied("size") =>
          \E units \in 0 .. stat_buf.size :
              /\ units * test.unit >= stat_buf.size
              /\ units > 0 => (units - 1) * test.unit < stat_buf.size
              /\ matched <=> Agrees(units)
    /\ Applied("perm") =>
          LET mask == IF stat_buf.dir THEN test.mask.dir ELSE test.mask.file
              any == mask \cap stat_buf.mode # {} \/ mask = {}
          IN matched <=> CASE test.form = "-" -> mask \subseteq stat_buf.mode
                           [] test.form = "/" -> any
                           [] test.form = "+" /\ ~test.symbolic -> any
                           [] OTHER -> stat_buf.mode = mask
=============================================================================
