--------------------------- MODULE FindTestsProofs --------------------------
(***************************************************************************)
(* The tests of find mean what TimesMean and NumbersMean say, for all      *)
(* starting times, lengths of the day, fractions, numbers, units, modes    *)
(* and files.                                                              *)
(*                                                                         *)
(* A test is parsed once and then applied to many files, possibly after a  *)
(* later -daystart.  IInv therefore relates three things: the options to   *)
(* the time find started, the predicate to the test that was typed (its    *)
(* reference time, counted in ticks, is an exact number of ticks before    *)
(* Now), and the last answer to the predicate.  Ticks do away with the     *)
(* borrow of nanoseconds, and the order of two times is linear in them.    *)
(***************************************************************************)
EXTENDS FindTests, TLAPS

\* A time in ticks.
InTicks(t) == t.sec * TicksPerSec + t.nsec

------------------------------------------------------------------------------
(* Arithmetic of times.                                                    *)

\* modf: the seconds and the fraction make up the offset.
LEMMA Division ==
    ASSUME NEW a \in Nat, NEW b \in Nat \ {0}
    PROVE  /\ a \div b \in Nat /\ a % b \in 0 .. b - 1
           /\ a = (a \div b) * b + (a % b)
  OBVIOUS

\* Where the whole number of times that b goes into a lies.
LEMMA WholePart ==
    ASSUME NEW a \in Int, NEW b \in Nat \ {0}
    PROVE  /\ a \div b \in Int
           /\ a \div b = 0 <=> 0 <= a /\ a < b
           /\ a \div b > 0 <=> a >= b
           /\ a \div b < 0 <=> a < 0
<1> DEFINE q == a \div b
<1>1. q \in Int /\ q * b <= a /\ a < q * b + b
  OBVIOUS
<1> HIDE DEF q
<1>2. CASE q = 0
  BY <1>1, <1>2
<1>3. CASE q > 0
  <2>1. (q - 1) * b \in Nat
    BY <1>1, <1>3
  <2>2. (q - 1) * b = q * b - b
    BY <1>1
  <2>3. b <= q * b
    BY <1>1, <2>1, <2>2
  <2> QED BY <1>1, <1>3, <2>3
<1>4. CASE q < 0
  <2>1. (-q - 1) * b \in Nat
    BY <1>1, <1>4
  <2>2. (-q - 1) * b = -(q * b) - b
    BY <1>1
  <2>3. q * b + b <= 0
    BY <1>1, <2>1, <2>2
  <2> QED BY <1>1, <1>4, <2>3
<1>5. a \div b \in Int /\ (a \div b = 0 <=> 0 <= a /\ a < b)
      /\ (a \div b > 0 <=> a >= b) /\ (a \div b < 0 <=> a < 0)
  <2>1. q = 0 \/ q > 0 \/ q < 0
    BY <1>1
  <2>2. q \in Int /\ (q = 0 <=> 0 <= a /\ a < b) /\ (q > 0 <=> a >= b) /\ (q < 0 <=> a < 0)
    BY <1>1, <1>2, <1>3, <1>4, <2>1
  <2> QED BY <2>2 DEF q
<1> QED BY <1>5

\* get_relative_timestamp goes back exactly as far as it is told.
LEMMA BeforeInTicks ==
    ASSUME NEW t \in Time, NEW offset \in Nat
    PROVE  /\ Before(t, offset) \in Time
           /\ InTicks(Before(t, offset)) = InTicks(t) - offset
<1> DEFINE seconds == offset \div TicksPerSec
           nanosec == offset % TicksPerSec
           borrow == IF t.nsec < nanosec THEN 1 ELSE 0
<1>1. TicksPerSec \in Nat \ {0}
  BY FindTestsAssumption
<1>2. /\ seconds \in Nat /\ nanosec \in 0 .. TicksPerSec - 1
      /\ offset = seconds * TicksPerSec + nanosec
  BY <1>1, Division
<1>3. t.sec \in Int /\ t.nsec \in 0 .. TicksPerSec - 1
  BY DEF Time
<1> HIDE DEF seconds, nanosec
<1>4. Before(t, offset) = [sec |-> t.sec - seconds - borrow,
                           nsec |-> t.nsec - nanosec + borrow * TicksPerSec]
  BY DEF Before, seconds, nanosec
<1>5. CASE t.nsec < nanosec
  <2>1. Before(t, offset) = [sec |-> t.sec - seconds - 1,
                             nsec |-> t.nsec - nanosec + TicksPerSec]
    BY <1>1, <1>4, <1>5
  <2>2. (t.sec - seconds - 1) * TicksPerSec
            = t.sec * TicksPerSec - seconds * TicksPerSec - TicksPerSec
    BY <1>1, <1>2, <1>3
  <2> QED BY <2>1, <2>2, <1>1, <1>2, <1>3, <1>5 DEF Time, InTicks
<1>6. CASE ~(t.nsec < nanosec)
  <2>1. Before(t, offset) = [sec |-> t.sec - seconds, nsec |-> t.nsec - nanosec]
    BY <1>1, <1>2, <1>3, <1>4, <1>6
  <2>2. (t.sec - seconds) * TicksPerSec = t.sec * TicksPerSec - seconds * TicksPerSec
    BY <1>1, <1>2, <1>3
  <2> QED BY <2>1, <2>2, <1>1, <1>2, <1>3, <1>6 DEF Time, InTicks
<1> QED BY <1>5, <1>6

\* ts_difference is the difference in ticks.
LEMMA DifferenceInTicks ==
    ASSUME NEW t \in Time, NEW u \in Time
    PROVE  /\ Difference(t, u) = InTicks(t) - InTicks(u)
           /\ Difference(t, u) \in Int /\ InTicks(t) \in Int
<1>1. TicksPerSec \in Nat /\ t.sec \in Int /\ u.sec \in Int /\ t.nsec \in Int /\ u.nsec \in Int
  BY FindTestsAssumption DEF Time
<1>2. (t.sec - u.sec) * TicksPerSec = t.sec * TicksPerSec - u.sec * TicksPerSec
  BY <1>1
<1> QED BY <1>1, <1>2 DEF Difference, InTicks

\* Later adds whole seconds.
LEMMA LaterInTicks ==
    ASSUME NEW t \in Time, NEW s \in Int
    PROVE  Later(t, s) \in Time /\ InTicks(Later(t, s)) = InTicks(t) + Span(s)
<1>1. TicksPerSec \in Nat /\ t.sec \in Int /\ t.nsec \in Int
  BY FindTestsAssumption DEF Time
<1>2. Later(t, s) = [sec |-> t.sec + s, nsec |-> t.nsec]
  BY DEF Later, Time
<1>3. (t.sec + s) * TicksPerSec = t.sec * TicksPerSec + s * TicksPerSec
  BY <1>1
<1> QED BY <1>1, <1>2, <1>3 DEF Time, InTicks, Span

\* An hour of the day is taken away from the time.
LEMMA DayDivision ==
    ASSUME NEW a \in Int, NEW b \in Nat \ {0}
    PROVE  a \div b \in Int /\ a % b \in Int /\ a - (a % b) = (a \div b) * b
  OBVIOUS

------------------------------------------------------------------------------
(* The invariant.                                                          *)

\* The time days are counted from, which -daystart moves once.
OptionsKept ==
    /\ start_time \in Time /\ full_days \in BOOLEAN
    /\ cur_day_start =
          IF full_days THEN [sec |-> (start_time.sec \div DAYSECS) * DAYSECS, nsec |-> 0]
          ELSE Later(start_time, -DAYSECS)

\* How far before Now the reference time of a test is.
Offset ==
    IF test.func = "min" THEN Ticks(test.n, MinuteSecs)
    ELSE Ticks(test.n, DAYSECS) + (IF test.sign = "-" THEN Span(1) ELSE Span(DAYSECS))

ParsedTime ==
    /\ test.xval \in Stamps /\ test.sign \in Signs
    /\ test.daystart \in BOOLEAN /\ test.n \in Nat
    /\ pred.xval = test.xval /\ pred.kind = Inverted(test.sign)
    /\ pred.ts \in Time
    /\ Offset \in Int
    /\ InTicks(pred.ts) = InTicks(Now(test.daystart)) - Offset

ParsedNewer ==
    /\ pred.ts = test.time /\ pred.xval = test.xval

ParsedLinks ==
    /\ test.sign \in Signs /\ pred.kind = CompType(test.sign)
    /\ pred.l_val = test.n

ParsedSize ==
    /\ test.sign \in Signs /\ pred.kind = CompType(test.sign)
    /\ pred.size = test.n /\ pred.blocksize = test.unit /\ test.unit \in Nat \ {0}

ParsedPerm ==
    /\ test.form \in {"-", "+", "/", ""} /\ test.symbolic \in BOOLEAN
    /\ pred.kind = PermKind(test.form, test.symbolic, test.mask)
    /\ pred.val = test.mask

\* The predicate is the test that was typed.
ParsedAs ==
    /\ pred.func = test.func
    /\ test.func = "links" => ParsedLinks
    /\ test.func = "size" => ParsedSize
    /\ test.func = "perm" => ParsedPerm
    /\ test.func \in {"time", "min"} => ParsedTime
    /\ test.func = "newerXY" => ParsedNewer

\* The answer is the one of the predicate for the file.
Answered == pred # None /\ stat_buf \in Files /\ matched = Holds(stat_buf)

IInv ==
    /\ OptionsKept
    /\ pred = None \/ ParsedAs
    /\ stat_buf = None \/ Answered

LEMMA NowType ==
    ASSUME OptionsKept, NEW daystart \in BOOLEAN
    PROVE  Now(daystart) \in Time
<1>1. start_time.sec \in Int /\ TicksPerSec \in Nat \ {0} /\ DAYSECS \in Nat \ {0}
  BY FindTestsAssumption DEF OptionsKept, Time
<1>2. start_time.sec \div DAYSECS \in Int
  BY <1>1, DayDivision
<1>3. (start_time.sec \div DAYSECS + 1) * DAYSECS \in Int
  BY <1>1, <1>2
<1> QED BY <1>1, <1>3 DEF OptionsKept, Now, Time

\* cur_day_start is a day before Now.
LEMMA DayStartInTicks ==
    ASSUME OptionsKept
    PROVE  /\ cur_day_start \in Time
           /\ InTicks(cur_day_start) = InTicks(Now(full_days)) - Span(DAYSECS)
<1>1. /\ start_time \in Time /\ start_time.sec \in Int
      /\ TicksPerSec \in Nat \ {0} /\ DAYSECS \in Nat \ {0}
  BY FindTestsAssumption DEF OptionsKept, Time
<1>2. CASE full_days
  <2> DEFINE day == start_time.sec \div DAYSECS
  <2>1. day \in Int
    BY <1>1, DayDivision
  <2>2. /\ cur_day_start = [sec |-> day * DAYSECS, nsec |-> 0]
        /\ Now(full_days) = [sec |-> (day + 1) * DAYSECS, nsec |-> 0]
    BY <1>2 DEF OptionsKept, Now
  <2> HIDE DEF day
  <2>3. /\ day * DAYSECS \in Int
        /\ (day + 1) * DAYSECS = day * DAYSECS + DAYSECS
    BY <1>1, <2>1
  <2>4. (day * DAYSECS + DAYSECS) * TicksPerSec
            = (day * DAYSECS) * TicksPerSec + DAYSECS * TicksPerSec
    BY <1>1, <2>3
  <2> QED BY <1>1, <2>2, <2>3, <2>4 DEF Time, InTicks, Span
<1>3. CASE ~full_days
  <2>1. cur_day_start = Later(start_time, -DAYSECS) /\ Now(full_days) = start_time
    BY <1>3 DEF OptionsKept, Now
  <2>2. -DAYSECS \in Int /\ Span(-DAYSECS) = -Span(DAYSECS) /\ Span(DAYSECS) \in Int
    BY <1>1 DEF Span
  <2>3. InTicks(start_time) \in Int
    BY <1>1, DifferenceInTicks
  <2> QED BY <1>1, <2>1, <2>2, <2>3, LaterInTicks
<1> QED BY <1>2, <1>3 DEF OptionsKept

\* The offset of a test is a number of ticks.
LEMMA TicksType ==
    ASSUME NEW n \in Nat, NEW unit \in Nat
    PROVE  Ticks(n, unit) \in Nat
<1>1. TicksPerSec \in Nat /\ Parts \in Nat \ {0}
  BY FindTestsAssumption
<1>2. n * unit * TicksPerSec \in Nat
  BY <1>1
<1> QED BY <1>1, <1>2, Division DEF Ticks

\* A day is at least a second.
LEMMA SpanOfDay ==
    /\ Span(DAYSECS) \in Nat \ {0} /\ Span(1) \in Nat \ {0}
    /\ Span(1) <= Span(DAYSECS)
<1>1. TicksPerSec \in Nat \ {0} /\ DAYSECS \in Nat \ {0}
  BY FindTestsAssumption
<1>2. (DAYSECS - 1) * TicksPerSec \in Nat
  BY <1>1
<1>3. (DAYSECS - 1) * TicksPerSec = DAYSECS * TicksPerSec - TicksPerSec
  BY <1>1
<1>4. DAYSECS * TicksPerSec \in Int /\ 1 * TicksPerSec = TicksPerSec
  BY <1>1
<1> QED BY <1>1, <1>2, <1>3, <1>4 DEF Span

LEMMA SpanType ==
    ASSUME NEW s \in Int
    PROVE  Span(s) \in Int
  BY FindTestsAssumption DEF Span

\* What is not touched stays true.
LEMMA AnswerKept ==
    ASSUME stat_buf = None \/ Answered, UNCHANGED <<pred, stat_buf, matched>>
    PROVE  (stat_buf = None \/ Answered)'
<1>1. pred' = pred /\ stat_buf' = stat_buf /\ matched' = matched
  OBVIOUS
<1>2. Holds(stat_buf)' = Holds(stat_buf)
  BY <1>1 DEF Holds, TimeWindow, UsedDelta, Compared, PermMatches
<1>3. CASE stat_buf = None
  BY <1>1, <1>3 DEF None
<1>4. CASE Answered
  BY <1>1, <1>2, <1>4, Zenon DEF Answered, None
<1> QED BY <1>3, <1>4

LEMMA TestKept ==
    ASSUME pred = None \/ ParsedAs, UNCHANGED <<start_time, pred, test>>
    PROVE  (pred = None \/ ParsedAs)'
<1>1. pred' = pred /\ test' = test /\ start_time' = start_time
  OBVIOUS
<1>2. (ParsedTime' <=> ParsedTime) /\ (ParsedNewer' <=> ParsedNewer)
  BY <1>1 DEF ParsedTime, ParsedNewer, Offset, Now, InTicks
<1>3. (ParsedLinks' <=> ParsedLinks) /\ (ParsedSize' <=> ParsedSize)
  BY <1>1 DEF ParsedLinks, ParsedSize
<1>4. ParsedPerm' <=> ParsedPerm
  BY <1>1 DEF ParsedPerm
<1> QED BY <1>1, <1>2, <1>3, <1>4 DEF ParsedAs, None

LEMMA InitInvariant ==
    ASSUME TestsInit
    PROVE  IInv
<1>1. start_time \in Time /\ start_time.sec \in Int
  BY FindTestsAssumption DEF TestsInit, Time
<1>2. cur_day_start = Later(start_time, -DAYSECS)
  BY <1>1, FindTestsAssumption DEF TestsInit, Later, Time
<1> QED BY <1>1, <1>2 DEF TestsInit, IInv, OptionsKept

------------------------------------------------------------------------------
(* Steps.                                                                  *)

\* The first -daystart finds midnight, whatever the time is.
LEMMA DaystartInvariant ==
    ASSUME IInv, Daystart
    PROVE  IInv'
<1>1. /\ start_time \in Time /\ start_time.sec \in Int
      /\ TicksPerSec \in Nat \ {0} /\ DAYSECS \in Nat \ {0}
  BY FindTestsAssumption DEF IInv, OptionsKept, Time
<1>2. cur_day_start.sec + DAYSECS = start_time.sec
  BY <1>1 DEF IInv, OptionsKept, Daystart, Later, Time
<1>3. StartOfDay = [sec |-> (start_time.sec \div DAYSECS) * DAYSECS, nsec |-> 0]
  BY <1>1, <1>2, DayDivision DEF StartOfDay
<1>4. OptionsKept'
  BY <1>3 DEF IInv, OptionsKept, Daystart
<1>5. UNCHANGED <<start_time, pred, stat_buf, matched, test>>
  BY DEF Daystart
<1>6. (pred = None \/ ParsedAs)'
  BY <1>5, TestKept DEF IInv
<1>7. (stat_buf = None \/ Answered)'
  BY <1>5, AnswerKept DEF IInv
<1> QED BY <1>4, <1>6, <1>7 DEF IInv

\* A test is typed before any file is looked at.
LEMMA InsertInvariant ==
    ASSUME IInv, NEW p, NEW t, Insert(p, t), ParsedAs'
    PROVE  IInv'
<1>1. stat_buf = None /\ stat_buf' = None
  BY DEF Insert, IInv, Answered
<1>2. OptionsKept'
  BY DEF Insert, IInv, OptionsKept
<1> QED BY <1>1, <1>2 DEF IInv, None

\* The reference time of a test is its offset before the end of today.
LEMMA TimeTestInvariant ==
    ASSUME IInv, NEW func \in {"time", "min"}, NEW x \in Stamps, NEW sign \in Signs,
           NEW n \in Nat, NEW unit \in Nat, NEW origin \in Time, NEW ahead \in Int,
           unit = (IF func = "min" THEN MinuteSecs ELSE DAYSECS),
           TimeTest(func, x, sign, n, unit, origin),
           InTicks(origin) = InTicks(Now(full_days)) - ahead,
           ahead = (IF func = "min" THEN 0
                    ELSE IF sign = "-" THEN Span(1) ELSE Span(DAYSECS))
    PROVE  IInv'
<1> DEFINE p == [func |-> func, xval |-> x, kind |-> Inverted(sign),
                 ts |-> Before(origin, Ticks(n, unit))]
           t == [func |-> func, xval |-> x, sign |-> sign, n |-> n, daystart |-> full_days]
<1>1. Insert(p, t)
  BY DEF TimeTest
<1>2. pred' = p /\ test' = t /\ start_time' = start_time /\ full_days \in BOOLEAN
  BY <1>1 DEF Insert, IInv, OptionsKept
<1>3. Ticks(n, unit) \in Nat
  BY TicksType
<1>4. /\ p.ts \in Time
      /\ InTicks(p.ts) = InTicks(origin) - Ticks(n, unit)
  BY <1>3, BeforeInTicks
<1>5. Now(full_days) \in Time /\ InTicks(Now(full_days)) \in Int
  BY <1>2, NowType, DifferenceInTicks DEF IInv
<1>6. Offset' = Ticks(n, unit) + ahead
  BY <1>2, <1>3 DEF Offset, Ticks, Span
<1>7. (InTicks(Now(test.daystart)))' = InTicks(Now(full_days))
  BY <1>2 DEF Now, InTicks
<1>8. (InTicks(pred.ts))' = InTicks(p.ts)
  BY <1>2 DEF InTicks
<1>9. (InTicks(pred.ts) = InTicks(Now(test.daystart)) - Offset)'
  BY <1>3, <1>4, <1>5, <1>6, <1>7, <1>8
<1>10. Offset' \in Int
  BY <1>3, <1>6
<1>11. ParsedTime'
  BY <1>2, <1>4, <1>9, <1>10 DEF ParsedTime, Inverted, Time, Stamps, Signs
<1>12. ParsedAs'
  BY <1>2, <1>11 DEF ParsedAs
<1> QED BY <1>1, <1>12, InsertInvariant

LEMMA ParseTimeInvariant ==
    ASSUME IInv, NEW x \in Stamps, NEW sign \in Signs, NEW n \in Amounts,
           ParseTime(x, sign, n)
    PROVE  IInv'
<1>1. n \in Nat /\ DAYSECS \in Nat /\ TicksPerSec \in Nat
  BY FindTestsAssumption
<1>2. /\ cur_day_start \in Time
      /\ InTicks(cur_day_start) = InTicks(Now(full_days)) - Span(DAYSECS)
      /\ InTicks(Now(full_days)) \in Int
  BY DayStartInTicks, NowType, DifferenceInTicks DEF IInv, OptionsKept
<1>3. CASE sign = "-"
  <2>1. /\ Later(cur_day_start, DAYSECS - 1) \in Time
        /\ InTicks(Later(cur_day_start, DAYSECS - 1))
               = InTicks(cur_day_start) + Span(DAYSECS - 1)
    BY <1>1, <1>2, LaterInTicks
  <2>2. /\ Span(DAYSECS - 1) = Span(DAYSECS) - Span(1)
        /\ Span(DAYSECS) \in Int /\ Span(1) \in Int
    BY <1>1 DEF Span
  <2>3. InTicks(Later(cur_day_start, DAYSECS - 1)) = InTicks(Now(full_days)) - Span(1)
    BY <1>2, <2>1, <2>2
  <2>4. TimeTest("time", x, sign, n, DAYSECS, Later(cur_day_start, DAYSECS - 1))
    BY <1>3 DEF ParseTime
  <2> QED BY <1>1, <1>3, <2>1, <2>2, <2>3, <2>4, TimeTestInvariant
<1>4. CASE sign # "-"
  <2>1. TimeTest("time", x, sign, n, DAYSECS, cur_day_start)
    BY <1>4 DEF ParseTime
  <2> QED BY <1>1, <1>2, <1>4, <2>1, TimeTestInvariant, SpanType
<1> QED BY <1>3, <1>4

LEMMA DoParseXminInvariant ==
    ASSUME IInv, NEW x \in Stamps, NEW sign \in Signs, NEW n \in Amounts,
           DoParseXmin(x, sign, n)
    PROVE  IInv'
<1>1. n \in Nat /\ DAYSECS \in Nat /\ MinuteSecs \in Nat /\ Span(DAYSECS) \in Int
  BY FindTestsAssumption, SpanType
<1>2. /\ cur_day_start \in Time
      /\ InTicks(cur_day_start) = InTicks(Now(full_days)) - Span(DAYSECS)
      /\ InTicks(Now(full_days)) \in Int
  BY DayStartInTicks, NowType, DifferenceInTicks DEF IInv, OptionsKept
<1>3. /\ Later(cur_day_start, DAYSECS) \in Time
      /\ InTicks(Later(cur_day_start, DAYSECS)) = InTicks(Now(full_days)) - 0
  BY <1>1, <1>2, LaterInTicks
<1>4. TimeTest("min", x, sign, n, MinuteSecs, Later(cur_day_start, DAYSECS))
  BY DEF DoParseXmin
<1> QED BY <1>1, <1>3, <1>4, TimeTestInvariant

LEMMA OtherTestInvariant ==
    ASSUME IInv,
           \/ \E sign \in Signs, n \in Amounts : ParseUsed(sign, n)
           \/ \E x, y \in Stamps, reference \in References : ParseNewerXY(x, y, reference)
           \/ \E sign \in Signs, n \in Numbers :
                 ParseLinks(sign, n) \/ \E unit \in Units : ParseSize(sign, n, unit)
           \/ \E form \in {"-", "+", "/", ""}, symbolic \in BOOLEAN, mask \in Masks :
                 ParsePerm(form, symbolic, mask)
    PROVE  IInv'
<1>1. ASSUME NEW sign, NEW n, ParseUsed(sign, n) PROVE IInv'
  <2> DEFINE p == [func |-> "used", xval |-> "a", kind |-> Inverted(sign),
                   ts |-> Before([sec |-> 0, nsec |-> 0], Ticks(n, DAYSECS))]
             t == [func |-> "used", xval |-> "a", sign |-> sign, n |-> n,
                   daystart |-> full_days]
  <2>1. Insert(p, t)
    BY <1>1 DEF ParseUsed, TimeTest
  <2>2. ParsedAs'
    BY <2>1 DEF Insert, ParsedAs
  <2> HIDE DEF p, t
  <2> QED BY <2>1, <2>2, InsertInvariant
<1>2. ASSUME NEW x, NEW y, NEW reference, ParseNewerXY(x, y, reference) PROVE IInv'
  <2> DEFINE p == [func |-> "newerXY", xval |-> x, kind |-> "GT", ts |-> reference[y]]
             t == [func |-> "newerXY", xval |-> x, time |-> reference[y]]
  <2>1. Insert(p, t)
    BY <1>2 DEF ParseNewerXY
  <2>2. ParsedAs'
    BY <2>1 DEF Insert, ParsedAs, ParsedNewer
  <2> HIDE DEF p, t
  <2> QED BY <2>1, <2>2, InsertInvariant
<1>3. ASSUME NEW sign \in Signs, NEW n, ParseLinks(sign, n) PROVE IInv'
  <2> DEFINE p == [func |-> "links", kind |-> CompType(sign), l_val |-> n]
             t == [func |-> "links", sign |-> sign, n |-> n]
  <2>1. Insert(p, t)
    BY <1>3 DEF ParseLinks
  <2>2. ParsedAs'
    BY <1>3, <2>1 DEF Insert, ParsedAs, ParsedLinks
  <2> HIDE DEF p, t
  <2> QED BY <2>1, <2>2, InsertInvariant
<1>4. ASSUME NEW sign \in Signs, NEW n, NEW unit \in Units, ParseSize(sign, n, unit)
      PROVE  IInv'
  <2> DEFINE p == [func |-> "size", kind |-> CompType(sign), size |-> n, blocksize |-> unit]
             t == [func |-> "size", sign |-> sign, n |-> n, unit |-> unit]
  <2>1. Insert(p, t)
    BY <1>4 DEF ParseSize
  <2>2. ParsedAs'
    BY <1>4, <2>1, FindTestsAssumption DEF Insert, ParsedAs, ParsedSize
  <2> HIDE DEF p, t
  <2> QED BY <2>1, <2>2, InsertInvariant
<1>5. ASSUME NEW form \in {"-", "+", "/", ""}, NEW symbolic \in BOOLEAN, NEW mask,
             ParsePerm(form, symbolic, mask)
      PROVE  IInv'
  <2> DEFINE p == [func |-> "perm", kind |-> PermKind(form, symbolic, mask), val |-> mask]
             t == [func |-> "perm", form |-> form, symbolic |-> symbolic, mask |-> mask]
  <2>1. Insert(p, t)
    BY <1>5 DEF ParsePerm
  <2>2. ParsedAs'
    BY <1>5, <2>1 DEF Insert, ParsedAs, ParsedPerm
  <2> HIDE DEF p, t
  <2> QED BY <2>1, <2>2, InsertInvariant
<1> QED BY <1>1, <1>2, <1>3, <1>4, <1>5

LEMMA ApplyInvariant ==
    ASSUME IInv, NEW f \in Files, ApplyPredicate(f)
    PROVE  IInv'
<1>1. UNCHANGED <<start_time, cur_day_start, full_days, pred, test>>
  BY DEF ApplyPredicate
<1>2. OptionsKept'
  BY <1>1 DEF IInv, OptionsKept
<1>3. (pred = None \/ ParsedAs)'
  BY <1>1, TestKept DEF IInv
<1>4. Answered'
  BY <1>1 DEF ApplyPredicate, Answered, Holds, TimeWindow, UsedDelta, Compared, PermMatches
<1> QED BY <1>2, <1>3, <1>4 DEF IInv

LEMMA StepInvariant ==
    ASSUME IInv, [TestsNext]_testVars
    PROVE  IInv'
<1>1. CASE Daystart
  BY <1>1, DaystartInvariant
<1>2. CASE \E sign \in Signs, n \in Amounts, x \in Stamps :
              ParseTime(x, sign, n) \/ DoParseXmin(x, sign, n)
  BY <1>2, ParseTimeInvariant, DoParseXminInvariant
<1>3. CASE \E f \in Files : ApplyPredicate(f)
  BY <1>3, ApplyInvariant
<1>4. CASE UNCHANGED testVars
  <2>1. OptionsKept'
    BY <1>4 DEF testVars, IInv, OptionsKept
  <2>2. UNCHANGED <<start_time, pred, stat_buf, matched, test>>
    BY <1>4 DEF testVars
  <2> QED BY <2>1, <2>2, TestKept, AnswerKept DEF IInv
<1> QED BY <1>1, <1>2, <1>3, <1>4, OtherTestInvariant DEF TestsNext

------------------------------------------------------------------------------
(* Theorems.                                                               *)

\* OptionsKept, the predicate being the test that was typed, and the answer
\* being the predicate's, are an inductive invariant of FindTests.
THEOREM InductiveInvariant == TestsSpec => []IInv
<1>1. TestsInit => IInv
  BY InitInvariant
<1>2. IInv /\ [TestsNext]_testVars => IInv'
  BY StepInvariant
<1> QED BY <1>1, <1>2, PTL DEF TestsSpec

\* TimesMean follows from the invariant: the order of two times is the order of
\* their ticks, and the reference time lies Offset before Now.
LEMMA InvariantMeans == IInv => TimesMean
<1> SUFFICES ASSUME IInv, stat_buf # None, test.func \in {"time", "min", "newerXY"}
             PROVE  TimesMean
  BY DEF TimesMean, DaysMean, MinutesMean, Applied
<1>1. /\ pred # None /\ stat_buf \in Files /\ matched = Holds(stat_buf)
      /\ ParsedAs /\ pred.func = test.func
  BY DEF IInv, Answered, ParsedAs
<1>2. TicksPerSec \in Nat /\ DAYSECS \in Nat /\ MinuteSecs \in Nat
  BY FindTestsAssumption
<1>3. CASE test.func \in {"time", "min"}
  <2> DEFINE ts == stat_buf[test.xval]
             delta == Difference(ts, pred.ts)
             window == IF test.func = "min" THEN MinuteSecs ELSE DAYSECS
  <2>1. ParsedTime
    BY <1>1, <1>3 DEF ParsedAs
  <2>2. ts \in Time /\ pred.ts \in Time /\ Now(test.daystart) \in Time
    BY <1>1, <2>1, FindTestsAssumption, NowType DEF ParsedTime, IInv
  <2>3. /\ delta = InTicks(ts) - InTicks(pred.ts)
        /\ Age = InTicks(Now(test.daystart)) - InTicks(ts)
        /\ InTicks(ts) \in Int /\ InTicks(pred.ts) \in Int
        /\ InTicks(Now(test.daystart)) \in Int
    BY <2>2, DifferenceInTicks DEF Age
  <2>4. delta = Offset - Age /\ delta \in Int /\ Age \in Int /\ Offset \in Int
    BY <2>1, <2>3 DEF ParsedTime
  <2>5. Holds(stat_buf) <=>
           \/ pred.kind = "GT" /\ delta > 0
           \/ pred.kind = "LT" /\ delta < 0
           \/ pred.kind = "EQ" /\ 0 < delta /\ delta <= Span(window)
    BY <1>1, <1>3, <2>1 DEF Holds, TimeWindow, ParsedTime, Span
  <2>6. /\ test.sign \in {"+", "-", ""}
        /\ test.sign = "+" => pred.kind = "LT"
        /\ test.sign = "-" => pred.kind = "GT"
        /\ test.sign = "" => pred.kind = "EQ"
    BY <2>1 DEF ParsedTime, Inverted, Signs
  <2> HIDE DEF ts, delta, window
  <2>7. /\ test.sign = "+" => (matched <=> Age > Offset)
        /\ test.sign = "-" => (matched <=> Age < Offset)
        /\ test.sign = "" => (matched <=> Offset - Span(window) <= Age /\ Age < Offset)
    <3>1. Span(window) \in Int
      BY <1>2, SpanType DEF window
    <3>2. CASE test.sign = "+"
      BY <1>1, <2>4, <2>5, <2>6, <3>2
    <3>3. CASE test.sign = "-"
      BY <1>1, <2>4, <2>5, <2>6, <3>3
    <3>4. CASE test.sign = ""
      <4>1. pred.kind = "EQ"
        BY <2>6, <3>4
      <4>2. matched <=> 0 < delta /\ delta <= Span(window)
        BY <1>1, <2>5, <4>1, Zenon
      <4>3. 0 < delta <=> Age < Offset
        BY <2>4
      <4>4. delta <= Span(window) <=> Offset - Span(window) <= Age
        BY <2>4, <3>1
      <4>5. matched <=> Offset - Span(window) <= Age /\ Age < Offset
        BY <4>2, <4>3, <4>4, Zenon
      <4> QED BY <3>4, <4>5
    <3> QED BY <2>6, <3>2, <3>3, <3>4
  <2>8. Span(DAYSECS) \in Int /\ Span(1) \in Int /\ Span(MinuteSecs) \in Int
    BY <1>2, SpanType
  <2>9. /\ Ticks(test.n, DAYSECS) \in Nat /\ Ticks(test.n, MinuteSecs) \in Nat
    BY <1>2, <2>1, TicksType DEF ParsedTime
  <2>10. CASE test.func = "time"
    <3>1. Offset = Ticks(test.n, DAYSECS)
                   + (IF test.sign = "-" THEN Span(1) ELSE Span(DAYSECS))
      BY <2>10 DEF Offset
    <3>2. window = DAYSECS
      BY <2>10 DEF window
    <3> DEFINE n == Ticks(test.n, DAYSECS)
    <3>3. n \in Int
      BY <2>9
    <3>4. Offset = n + (IF test.sign = "-" THEN Span(1) ELSE Span(DAYSECS))
      BY <3>1
    <3> HIDE DEF n
    <3> DEFINE daysBeyond == (Age - n) \div Span(DAYSECS)
    <3>5. Span(DAYSECS) \in Nat \ {0} /\ Span(1) \in Nat \ {0} /\ Span(1) <= Span(DAYSECS)
      BY SpanOfDay
    <3>6. /\ daysBeyond = 0 <=> n <= Age /\ Age < n + Span(DAYSECS)
          /\ daysBeyond > 0 <=> Age >= n + Span(DAYSECS)
          /\ daysBeyond < 0 <=> Age < n
      <4>1. Age - n \in Int
        BY <2>4, <3>3
      <4>2. /\ daysBeyond = 0 <=> 0 <= Age - n /\ Age - n < Span(DAYSECS)
            /\ daysBeyond > 0 <=> Age - n >= Span(DAYSECS)
            /\ daysBeyond < 0 <=> Age - n < 0
        BY <3>5, <4>1, WholePart
      <4> HIDE DEF daysBeyond
      <4> QED BY <2>4, <3>3, <3>5, <4>2
    <3> DEFINE lastTick == test.sign = "+" /\ Age = n + Span(DAYSECS)
               secondMore == test.sign = "-" /\ n <= Age /\ Age < n + Span(1)
    <3> HIDE DEF daysBeyond
    <3>7. ASSUME test.sign = ""
          PROVE  matched <=> (AsTyped(daysBeyond) /\ ~lastTick) \/ secondMore
      <4>1. Offset = n + Span(DAYSECS)
        BY <3>4, <3>7
      <4>2. matched <=> Offset - Span(DAYSECS) <= Age /\ Age < Offset
        BY <2>7, <3>2, <3>7, Zenon
      <4>3. Offset - Span(DAYSECS) = n
        BY <2>8, <3>3, <4>1
      <4>4. matched <=> daysBeyond = 0
        BY <3>6, <4>1, <4>2, <4>3, Zenon
      <4>5. AsTyped(daysBeyond) <=> daysBeyond = 0
        BY <3>7 DEF AsTyped
      <4> QED BY <3>7, <4>4, <4>5
    <3>8. ASSUME test.sign = "+"
          PROVE  matched <=> (AsTyped(daysBeyond) /\ ~lastTick) \/ secondMore
      <4>1. Offset = n + Span(DAYSECS)
        BY <3>4, <3>8
      <4>2. AsTyped(daysBeyond) <=> Age >= n + Span(DAYSECS)
        BY <3>6, <3>8 DEF AsTyped
      <4>3. Age > Offset <=> Age >= n + Span(DAYSECS) /\ ~(Age = n + Span(DAYSECS))
        BY <2>4, <3>3, <3>5, <4>1
      <4>4. matched <=> Age > Offset
        BY <2>7, <3>8, Zenon
      <4> QED BY <3>8, <4>2, <4>3, <4>4, Zenon
    <3>9. ASSUME test.sign = "-"
          PROVE  matched <=> (AsTyped(daysBeyond) /\ ~lastTick) \/ secondMore
      <4>1. Offset = n + Span(1)
        BY <3>4, <3>9
      <4>2. AsTyped(daysBeyond) <=> Age < n
        BY <3>6, <3>9 DEF AsTyped
      <4>3. Age < Offset <=> Age < n \/ (n <= Age /\ Age < n + Span(1))
        BY <2>4, <3>3, <3>5, <4>1
      <4>4. matched <=> Age < Offset
        BY <2>7, <3>9, Zenon
      <4> QED BY <3>9, <4>2, <4>3, <4>4, Zenon
    <3>10. matched <=> (AsTyped(daysBeyond) /\ ~lastTick) \/ secondMore
      <4> HIDE DEF lastTick, secondMore
      <4> QED BY <2>6, <3>7, <3>8, <3>9, Zenon
    <3>11. DaysMean
      BY <3>10, Zenon DEF DaysMean, daysBeyond, lastTick, secondMore, n
    <3> QED BY <2>10, <3>11 DEF TimesMean, MinutesMean, Applied
  <2>11. CASE test.func = "min"
    <3>1. Offset = Ticks(test.n, MinuteSecs) /\ window = MinuteSecs
      BY <2>11 DEF Offset, window
    <3> DEFINE n == Ticks(test.n, MinuteSecs)
    <3>2. n \in Int /\ Offset = n
      BY <2>9, <3>1
    <3> HIDE DEF n
    <3> DEFINE minuteBefore == n - Span(MinuteSecs) <= Age /\ Age < n
    <3>3. ASSUME test.sign = "" PROVE matched <=> minuteBefore
      BY <2>7, <3>1, <3>2, <3>3, Zenon
    <3>4. ASSUME test.sign = "+" PROVE matched <=> AsTyped(Age - n)
      <4>1. Age > Offset <=> Age - n > 0
        BY <2>4, <3>2
      <4> QED BY <2>7, <3>4, <4>1 DEF AsTyped
    <3>5. ASSUME test.sign = "-" PROVE matched <=> AsTyped(Age - n)
      <4>1. Age < Offset <=> Age - n < 0
        BY <2>4, <3>2
      <4> QED BY <2>7, <3>5, <4>1 DEF AsTyped
    <3> HIDE DEF minuteBefore
    <3>6. matched <=> IF test.sign = "" THEN minuteBefore ELSE AsTyped(Age - n)
      BY <2>6, <3>3, <3>4, <3>5
    <3>7. MinutesMean
      BY <3>6, Zenon DEF MinutesMean, minuteBefore, n
    <3> QED BY <2>11, <3>7 DEF TimesMean, DaysMean, Applied
  <2> QED BY <1>3, <2>10, <2>11
<1>4. CASE test.func = "newerXY"
  <2>1. pred.ts = test.time /\ pred.xval = test.xval /\ pred.func = "newerXY"
    BY <1>1, <1>4 DEF ParsedAs, ParsedNewer
  <2>2. matched <=> Difference(stat_buf[test.xval], test.time) > 0
    BY <1>1, <2>1 DEF Holds
  <2> QED BY <1>4, <2>2 DEF TimesMean, DaysMean, MinutesMean, Applied
<1> QED BY <1>3, <1>4

\* find.1:490-521, -atime, -amin, -newer and -daystart: for every length of the
\* day, fraction, time and file, a time test says of the age of the file what the
\* manual says, but for the windows that DaysMean and MinutesMean name.
THEOREM TimeTestsMeanAges == TestsSpec => []TimesMean
  BY InductiveInvariant, InvariantMeans, PTL

\* A block that is begun counts, so a size is rounded up.
LEMMA BlocksRoundUp ==
    ASSUME NEW size \in Nat, NEW unit \in Nat \ {0}
    PROVE  /\ Blocks(size, unit) \in 0 .. size
           /\ Blocks(size, unit) * unit >= size
           /\ Blocks(size, unit) > 0 => (Blocks(size, unit) - 1) * unit < size
<1> DEFINE q == size \div unit
           rest == size % unit
<1>1. q \in Nat /\ rest \in 0 .. unit - 1 /\ size = q * unit + rest
  BY Division
<1>2. Blocks(size, unit) = q + (IF rest # 0 THEN 1 ELSE 0)
  BY DEF Blocks
<1> HIDE DEF q, rest
<1>3. q * (unit - 1) \in Nat /\ q * unit = q * (unit - 1) + q /\ q * unit \in Nat
  BY <1>1
<1>4. CASE rest # 0
  <2>1. Blocks(size, unit) = q + 1
    BY <1>1, <1>2, <1>4
  <2>2. (q + 1) * unit = q * unit + unit
    BY <1>1
  <2>3. q + 1 <= size /\ (q + 1) * unit >= size /\ (q + 1 - 1) * unit < size
    BY <1>1, <1>3, <1>4, <2>2
  <2> QED BY <1>1, <2>1, <2>3
<1>5. CASE rest = 0
  <2>1. Blocks(size, unit) = q /\ size = q * unit
    BY <1>1, <1>2, <1>5
  <2>2. (q - 1) * unit = q * unit - unit /\ q * unit - unit < q * unit
    BY <1>1
  <2> QED BY <1>1, <1>3, <2>1, <2>2
<1> QED BY <1>4, <1>5

\* The comparison that was typed is the one that is made.
LEMMA ComparedAgrees ==
    ASSUME test.sign \in Signs, pred.kind = CompType(test.sign), NEW val
    PROVE  Compared(val, test.n) <=> Agrees(val)
<1>1. CASE test.sign = "+"
  BY <1>1 DEF Compared, Agrees, CompType
<1>2. CASE test.sign = "-"
  BY <1>2 DEF Compared, Agrees, CompType
<1>3. CASE test.sign = ""
  BY <1>3 DEF Compared, Agrees, CompType
<1> QED BY <1>1, <1>2, <1>3 DEF Signs

\* NumbersMean follows from the invariant.
LEMMA InvariantCounts == IInv => NumbersMean
<1> SUFFICES ASSUME IInv, stat_buf # None, test.func \in {"links", "size", "perm"}
             PROVE  NumbersMean
  BY DEF NumbersMean, Applied
<1>1. /\ pred # None /\ stat_buf \in Files /\ matched = Holds(stat_buf)
      /\ ParsedAs /\ pred.func = test.func
  BY DEF IInv, Answered, ParsedAs
<1>2. CASE test.func = "links"
  <2>1. ParsedLinks
    BY <1>1, <1>2 DEF ParsedAs
  <2>2. matched <=> Compared(stat_buf.links, test.n)
    BY <1>1, <1>2, <2>1 DEF Holds, ParsedLinks
  <2>3. matched <=> Agrees(stat_buf.links)
    BY <2>1, <2>2, ComparedAgrees DEF ParsedLinks
  <2> QED BY <1>2, <2>3 DEF NumbersMean, Applied
<1>3. CASE test.func = "size"
  <2> DEFINE units == Blocks(stat_buf.size, test.unit)
  <2>1. ParsedSize
    BY <1>1, <1>3 DEF ParsedAs
  <2>2. matched <=> Compared(units, test.n)
    BY <1>1, <1>3, <2>1 DEF Holds, ParsedSize
  <2>3. matched <=> Agrees(units)
    BY <2>1, <2>2, ComparedAgrees DEF ParsedSize
  <2>4. /\ units \in 0 .. stat_buf.size /\ units * test.unit >= stat_buf.size
        /\ units > 0 => (units - 1) * test.unit < stat_buf.size
    BY <1>1, <2>1, FindTestsAssumption, BlocksRoundUp DEF ParsedSize
  <2> HIDE DEF units
  <2> QED BY <1>3, <2>3, <2>4 DEF NumbersMean, Applied
<1>4. CASE test.func = "perm"
  <2> DEFINE mask == IF stat_buf.dir THEN test.mask.dir ELSE test.mask.file
             any == mask \cap stat_buf.mode # {} \/ mask = {}
             meant == CASE test.form = "-" -> mask \subseteq stat_buf.mode
                        [] test.form = "/" -> any
                        [] test.form = "+" /\ ~test.symbolic -> any
                        [] OTHER -> stat_buf.mode = mask
  <2>1. ParsedPerm
    BY <1>1, <1>4 DEF ParsedAs
  <2>2. matched <=> PermMatches(stat_buf.mode, mask)
    BY <1>1, <1>4, <2>1 DEF Holds, ParsedPerm
  <2>3. ASSUME test.form = "-" PROVE matched <=> meant
    BY <2>1, <2>2, <2>3 DEF ParsedPerm, PermKind, PermMatches
  <2>4. ASSUME test.form = "/" PROVE matched <=> meant
    <3>1. test.mask.file = {} /\ test.mask.dir = {} => mask = {}
      OBVIOUS
    <3>2. pred.kind \in {"AT_LEAST", "ANY"}
      BY <2>1, <2>4 DEF ParsedPerm, PermKind
    <3>3. pred.kind = "AT_LEAST" => mask = {}
      BY <2>1, <2>4, <3>1 DEF ParsedPerm, PermKind
    <3>4. matched <=> any
      BY <2>2, <3>2, <3>3 DEF PermMatches
    <3> QED BY <2>4, <3>4
  <2>5. ASSUME test.form = "+" PROVE matched <=> meant
    BY <2>1, <2>2, <2>5 DEF ParsedPerm, PermKind, PermMatches
  <2>6. ASSUME test.form = "" PROVE matched <=> meant
    BY <2>1, <2>2, <2>6 DEF ParsedPerm, PermKind, PermMatches
  <2>7. matched <=> meant
    <3>1. test.form \in {"-", "+", "/", ""}
      BY <2>1 DEF ParsedPerm
    <3> HIDE DEF meant
    <3> QED BY <2>3, <2>4, <2>5, <2>6, <3>1
  <2> QED BY <1>4, <2>7 DEF NumbersMean, Applied
<1> QED BY <1>2, <1>3, <1>4

\* find.1, -links, -size and -perm: for every number, unit, mode and file, the
\* size is rounded up to the unit and compared as typed, and the bits are all,
\* some or exactly those of the mask that is for this kind of file.
THEOREM NumberTestsMeanCounts == TestsSpec => []NumbersMean
  BY InductiveInvariant, InvariantCounts, PTL
=============================================================================
