------------------------------- MODULE FrCode -------------------------------
(***************************************************************************)
(* The two programs that write a locate database, as functions from what   *)
(* they remember of the paths so far and the next path to the bytes they   *)
(* put out: locate/frcode.c (LOCATE02 and, with -S, slocate) and           *)
(* locate/code.c (the old format).                                         *)
(*                                                                         *)
(* A path is a sequence of characters, which are bytes but not NUL.  The   *)
(* sizes are scaled down together: with OneByteMax = 127 a byte has 256    *)
(* values and LOCATEDB_ESCAPE is 0x80, as in locatedb.h.  The bigrams of   *)
(* the old format are left out: they are a lossless code for its text.     *)
(***************************************************************************)
EXTENDS Integers, SequencesExt, FiniteSetsExt

CONSTANTS
    OneByteMax,     \* LOCATEDB_ONEBYTE_MAX
    OldOffset,      \* LOCATEDB_OLD_OFFSET
    WordBase        \* values of half a machine word in the old format

ASSUME FrCodeAssumption ==
    OneByteMax \in Nat \ {0} /\ OldOffset \in Nat \ {0} /\ WordBase \in Nat \ {0}

NUL == 0
ByteValues == 2 * (OneByteMax + 1)
Char == 1 .. ByteValues - 1
OneByteMin == -OneByteMax
Escape == OneByteMax + 1
ShortMax == (ByteValues * ByteValues) \div 2 - 1
ShortMin == -ShortMax - 1

\* A count byte of the old format is at most OldEscape, a character is more.
OldEscape == 2 * OldOffset + 2
OldChar(c) == OldEscape + c

PrefixLength(s, t) == Len(LongestCommonPrefix({s, t}))

\* What the writer remembers, and what it has put out.
Fresh(slocate) ==
    [oldpath |-> <<>>, oldcount |-> 0, slocate_compat |-> slocate, aborted |-> FALSE,
     bytes |-> <<>>]

PutShort(c) == <<(c \div ByteValues) % ByteValues, c % ByteValues>>

BadFitsOneByte(d) == d \in OneByteMin - 1 .. OneByteMax
FitsOneByte(d) == d \in OneByteMin .. OneByteMax

CountBytes(d) == IF FitsOneByte(d) THEN <<d % ByteValues>> ELSE <<Escape>> \o PutShort(d)

\* The prefix that is left out.  When the difference would overflow a short
\* it is 0, and the difference minus the old count.
Shared(w, path) ==
    LET count == PrefixLength(w.oldpath, path)
    IN IF count - w.oldcount \in ShortMin .. ShortMax THEN count ELSE 0

\* frcode's loop for one path.  The assertion in put_short may end it.
FrcodePath(w, path) ==
    LET count == Shared(w, path)
        diffcount == count - w.oldcount
    IN IF ~w.slocate_compat /\ ~FitsOneByte(diffcount)
          /\ diffcount \notin ShortMin .. ShortMax
       THEN [w EXCEPT !.aborted = TRUE]
       ELSE [oldpath |-> path, oldcount |-> count, slocate_compat |-> FALSE,
             aborted |-> FALSE,
             bytes |-> w.bytes \o (IF w.slocate_compat THEN <<>> ELSE CountBytes(diffcount))
                       \o SubSeq(path, count + 1, Len(path)) \o <<NUL>>]

\* putword, on a machine that has the high half of a word first.
PutWord(n) == <<(n \div WordBase) % WordBase, n % WordBase>>

OldCount(d) == IF d \in -OldOffset .. OldOffset THEN <<d + OldOffset>>
               ELSE <<OldEscape>> \o PutWord(d + OldOffset)

\* code's loop for one path.
CodePath(w, path) ==
    LET count == PrefixLength(w.oldpath, path)
    IN [w EXCEPT !.oldpath = path, !.oldcount = count,
                 !.bytes = @ \o OldCount(count - w.oldcount)
                             \o [i \in 1 .. Len(path) - count |-> OldChar(path[count + i])]]

Slocate == {"slocate0", "slocate1"}

\* What the writer is after each of the paths of a list.
Writers(format, list) ==
    LET w[k \in 0 .. Len(list)] ==
            IF k = 0 THEN Fresh(format \in Slocate)
            ELSE IF format = "old" THEN CodePath(w[k - 1], list[k])
            ELSE FrcodePath(w[k - 1], list[k])
    IN w

\* A whole database, as it stands in a file: its format and its bytes.
Encoded(format, list) ==
    [format |-> format, bytes |-> Writers(format, list)[Len(list)].bytes]

\* The signed number that n stands for in two's complement, of size values.
Signed(n, size) == IF n < size \div 2 THEN n ELSE n - size
=============================================================================
