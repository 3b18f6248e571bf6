----------------------------- MODULE XargsRead ------------------------------
(***************************************************************************)
(* read_line and read_string of xargs/xargs.c: the text of the input cut   *)
(* into arguments, one character at a time.  The characters are reduced to *)
(* the classes the code tells apart: an ordinary one, a second ordinary    *)
(* one so that there is an end-of-file string to recognise, the blank, the *)
(* newline (the delimiter, for read_string), two quotes and the backslash. *)
(* Both functions keep their locals for one line: Return resets them.      *)
(***************************************************************************)
EXTENDS Integers, Sequences, FiniteSetsExt, SequencesExt

CONSTANTS
    EofStrs,        \* the end-of-file strings (-E) considered, <<>> for none
    Room,           \* characters linebuf can hold before endbuf
    CommandSize,    \* for -I, the command name and its NUL; otherwise 0
    MaxChars        \* bound: the characters of the input

XargsReadAssumption ==
    <<>> \in EofStrs /\ Room \in Nat /\ CommandSize \in 0 .. Room + 1 /\ MaxChars \in Nat

Ordinary == {"x", "e"}
Quotes == {"dq", "sq"}
Char == Ordinary \cup Quotes \cup {"sp", "nl", "bs"}

VARIABLES
    mode,           \* "words", "lines" (-I), or "strings" (-0, -d): read_string
    eof_str,        \* the option's value; neither it nor mode ever changes
    state, quotc, prevc, first, seen_arg, linebuf,  \* locals of read_line
    eof,            \* the static eof
    lineno,
    args,           \* what was pushed or, for -I, returned
    phase,          \* "reading", "end" (-1), or the error message
    input           \* history: the characters read

options == <<mode, eof_str>>
locals == <<state, quotc, prevc, first, seen_arg, linebuf>>
vars == <<options, locals, eof, lineno, args, phase, input>>

Init ==
    /\ mode \in {"words", "lines", "strings"} /\ eof_str \in EofStrs
    /\ state = "SPACE" /\ quotc = "none" /\ prevc = "none"
    /\ first = TRUE /\ seen_arg = FALSE /\ linebuf = <<>>
    /\ eof = FALSE /\ lineno = 0 /\ args = <<>> /\ phase = "reading" /\ input = <<>>

IsEofStr == eof_str # <<>> /\ linebuf = eof_str

Delimited == mode = "strings"

------------------------------------------------------------------------------
(* What a character does.                                                  *)

\* The locals of the next call.
Return ==
    /\ state' = "SPACE" /\ quotc' = "none" /\ prevc' = "none"
    /\ first' = TRUE /\ seen_arg' = FALSE /\ linebuf' = <<>>

Error(message) == phase' = message /\ UNCHANGED <<locals, eof, lineno, args>>

\* Where endbuf leaves off.  It is computed in every call, and -I pushes the
\* command name as an initial argument when the first line has been returned:
\* cmd_initial_argv_chars counts it from then on.
RoomFor(n) == IF n = 1 THEN Room ELSE Room - CommandSize

\* p < endbuf: the character, and a NUL after it, have a place in linebuf.
Fits == Len(linebuf) < RoomFor(Len(args) + 1)

\* *p++ = c, unless the buffer is full.
StoreChar(c) ==
    IF ~Fits
    THEN Error("too_long")
    ELSE /\ linebuf' = Append(linebuf, c)
         /\ UNCHANGED <<first, quotc, eof, lineno, args, phase>>

\* For -L: a newline after a blank does not end the line.
LineCounts(c) == c # "sp"

\* Blanks, and empty or blank lines, before an argument.
SkipSpace(c) ==
    /\ state = "SPACE" /\ c \in {"sp", "nl"}
    /\ prevc' = c
    /\ UNCHANGED <<state, quotc, first, seen_arg, linebuf, eof, lineno, args, phase>>

\* The end of a line: its last argument is pushed, unless it is the
\* end-of-file string.  With read_line's "return first ? -1 : len" the next
\* call returns -1 at once.
EndLine(c) ==
    /\ state = "NORM" /\ c = "nl"
    /\ lineno' = IF LineCounts(prevc) THEN lineno + 1 ELSE lineno
    /\ eof' = IsEofStr
    /\ IF IsEofStr THEN phase' = "end" /\ UNCHANGED args
                   ELSE args' = Append(args, linebuf) /\ UNCHANGED phase
    /\ Return

\* An unquoted blank ends an argument within the line.
EndWord(c) ==
    /\ state = "NORM" /\ c = "sp" /\ mode = "words"
    /\ IF IsEofStr
       THEN eof' = TRUE /\ phase' = "end" /\ Return /\ UNCHANGED args
       ELSE /\ args' = Append(args, linebuf)
            /\ linebuf' = <<>> /\ state' = "SPACE" /\ first' = FALSE
            /\ seen_arg' = TRUE /\ prevc' = c
            /\ UNCHANGED <<quotc, eof, phase>>
    /\ UNCHANGED lineno

\* A backslash, or an opening quote.
StartQuoting(c) ==
    /\ state \in {"SPACE", "NORM"} /\ c \in Quotes \cup {"bs"}
    /\ IF c = "bs" THEN state' = "BACKSLASH" /\ UNCHANGED quotc
                   ELSE state' = "QUOTE" /\ quotc' = c
    /\ seen_arg' = TRUE /\ prevc' = c
    /\ UNCHANGED <<first, linebuf, eof, lineno, args, phase>>

EndQuote(c) ==
    /\ state = "QUOTE" /\ c = quotc
    /\ state' = "NORM" /\ seen_arg' = TRUE /\ prevc' = c
    /\ UNCHANGED <<quotc, first, linebuf, eof, lineno, args, phase>>

QuoteUnmatched(c) ==
    /\ state = "QUOTE" /\ c = "nl"
    /\ Error("unmatched")

BadStateAfter == IF state = "QUOTE" THEN "QUOTE" ELSE state
\* The state once a character has been taken literally.
StateAfter == IF state = "QUOTE" THEN "QUOTE" ELSE "NORM"

\* A character taken literally.
Literal(c) ==
    /\ \/ state = "BACKSLASH"
       \/ state = "QUOTE" /\ c \notin {quotc, "nl"}
       \/ state \in {"SPACE", "NORM"} /\ c \in Ordinary
       \/ state = "NORM" /\ c = "sp" /\ mode = "lines"
    /\ StoreChar(c)
    /\ phase' = "reading" =>
          /\ state' = StateAfter /\ prevc' = c
          /\ seen_arg' = (seen_arg \/ state \in {"SPACE", "NORM"})

\* getc returns EOF in read_line.
EndOfInput ==
    /\ eof' = TRUE
    /\ IF linebuf = <<>> \/ (state # "QUOTE" /\ first /\ IsEofStr)
       THEN phase' = "end" /\ UNCHANGED args
       ELSE IF state = "QUOTE"
            THEN phase' = "unmatched" /\ UNCHANGED args
            ELSE phase' = "end" /\ args' = Append(args, linebuf)
    /\ Return
    /\ UNCHANGED lineno

ReadLine(c) ==
    \/ SkipSpace(c) \/ EndLine(c) \/ EndWord(c) \/ StartQuoting(c)
    \/ EndQuote(c) \/ QuoteUnmatched(c) \/ Literal(c)

------------------------------------------------------------------------------
(* read_string: the same without quoting.                                  *)

\* The text after the last delimiter is an argument when there is any.
PushesAtEnd == linebuf # <<>>

ReadString(c) ==
    IF c = "nl"
    THEN args' = Append(args, linebuf) /\ lineno' = lineno + 1 /\ Return
         /\ UNCHANGED <<eof, phase>>
    ELSE StoreChar(c) /\ UNCHANGED <<state, prevc, seen_arg>>

EndOfStrings ==
    /\ eof' = TRUE /\ phase' = "end"
    /\ args' = IF PushesAtEnd THEN Append(args, linebuf) ELSE args
    /\ Return
    /\ UNCHANGED lineno

Getc(c) ==
    /\ phase = "reading" /\ Len(input) < MaxChars
    /\ input' = Append(input, c)
    /\ UNCHANGED options
    /\ IF Delimited THEN ReadString(c) ELSE ReadLine(c)

Eof ==
    /\ phase = "reading"
    /\ UNCHANGED <<options, input>>
    /\ IF Delimited THEN EndOfStrings ELSE EndOfInput

Next == Eof \/ \E c \in Char : Getc(c)

Spec == Init /\ [][Next]_vars

------------------------------------------------------------------------------
(* The text as xargs.1 describes it: "items ... delimited by blanks (which *)
(* can be protected with double or single quotes or a backslash) or        *)
(* newlines.  Blank lines on the standard input are ignored."              *)

\* The quoting in force after i characters: none, a backslash, or a quote.
Quoting ==
    LET q[i \in 0 .. Len(input)] ==
            IF i = 0 THEN "none"
            ELSE CASE q[i - 1] = "none" /\ input[i] \in Quotes \cup {"bs"} -> input[i]
                   [] q[i - 1] \in Quotes /\ input[i] # q[i - 1] -> q[i - 1]
                   [] OTHER -> "none"
    IN q

Separator(i) ==
    IF Delimited THEN input[i] = "nl"
    ELSE /\ Quoting[i - 1] = "none"
         /\ input[i] = "nl" \/ (input[i] = "sp" /\ mode = "words")

\* The quotes and backslashes that only protect others.
Protector(i) ==
    ~Delimited /\ \/ Quoting[i - 1] = "none" /\ input[i] \in Quotes \cup {"bs"}
                  \/ Quoting[i - 1] \in Quotes /\ input[i] = Quoting[i - 1]

\* Blanks before a -I item.
Leading(i) ==
    /\ mode = "lines"
    /\ \E s \in 1 .. i :
          /\ s = 1 \/ Separator(s - 1)
          /\ \A j \in s .. i : input[j] = "sp" /\ Quoting[j - 1] = "none"

Stands(i) == ~Separator(i) /\ ~Leading(i)

\* The items start where something stands that is not preceded by more of it;
\* with a delimiter there may also be nothing between two of them.
Starts ==
    {i \in 1 .. Len(input) :
        IF Delimited THEN i = 1 \/ Separator(i - 1)
        ELSE Stands(i) /\ (i = 1 \/ ~Stands(i - 1))}

ItemAt(s) ==
    LET ends == {i \in s .. Len(input) : Separator(i)}
        end  == IF ends = {} THEN Len(input) ELSE Min(ends) - 1
        kept == {i \in s .. end : ~Protector(i)}
    IN [n \in 1 .. Cardinality(kept) |-> input[SetToSortSeq(kept, <)[n]]]

Items == [n \in 1 .. Cardinality(Starts) |-> ItemAt(SetToSortSeq(Starts, <)[n])]

Unmatched ==
    ~Delimited /\ \/ Quoting[Len(input)] \in Quotes
                  \/ \E i \in 1 .. Len(input) :
                        input[i] = "nl" /\ Quoting[i - 1] \in Quotes

\* The newlines that end a line with something on it; a blank before the
\* newline continues the line.
EndsLine(i) ==
    input[i] = "nl" /\ Separator(i) /\ i > 1 /\ Stands(i - 1)

\* The lines -L counts.
CountedLines ==
    {i \in 1 .. Len(input) :
        IF Delimited THEN input[i] = "nl" ELSE EndsLine(i) /\ input[i - 1] # "sp"}

\* Item n is the end-of-file string.  When nothing ends it, because the
\* input stops there, it must also be the first item of its line.
EndsInput(n) ==
    /\ ~Delimited /\ eof_str # <<>> /\ Items[n] = eof_str
    /\ \/ n < Len(Items) \/ Separator(Len(input))
       \/ \A s \in Starts \ {Max(Starts)} :
             \E i \in s .. Max(Starts) : EndsLine(i)

Wanted == LET ends == {n \in DOMAIN Items : EndsInput(n)}
          IN IF ends = {} THEN Items ELSE SubSeq(Items, 1, Min(ends) - 1)

------------------------------------------------------------------------------
(* Properties.                                                             *)

\* The locals keep their types, and the text of an argument stays below
\* endbuf, however quotes and backslashes are mixed.
TypeOK ==
    /\ mode \in {"words", "lines", "strings"} /\ eof_str \in EofStrs
    /\ state \in {"NORM", "SPACE", "QUOTE", "BACKSLASH"}
    /\ quotc \in Quotes \cup {"none"} /\ prevc \in Char \cup {"none"}
    /\ first \in BOOLEAN /\ seen_arg \in BOOLEAN /\ eof \in BOOLEAN
    /\ linebuf \in Seq(Char) /\ Len(linebuf) <= Room /\ lineno \in Nat /\ args \in Seq(Seq(Char))
    /\ phase \in {"reading", "end", "unmatched", "too_long"}
    /\ input \in Seq(Char)

\* The character-by-character reading finds the items that the text as a
\* whole has, up to the end-of-file string, and accepts no unmatched quote.
\* The one exception is an input that ends within or after an empty item:
\* '' or a lone '.  On the way, lineno, which -L goes by, counts the newlines
\* that end a line with something on it, except after a blank ("Trailing
\* blanks cause an input line to be logically continued on the next input
\* line", xargs.1), and every delimiter of read_string.
ItemsFound ==
    /\ phase = "end" =>
        \/ args = Wanted /\ ~Unmatched
        \/ Append(args, <<>>) = Items /\ ~Separator(Len(input))
    /\ phase = "reading" => lineno = Cardinality(CountedLines)

\* The two errors are given for inputs they are true of only; for -I the room
\* is less from the second line on.
ErrorsAreTrue ==
    /\ phase = "unmatched" => Unmatched
    /\ phase = "too_long" =>
          \E n \in DOMAIN Items :
             Len(Items[n]) > IF n = 1 THEN Room ELSE Room - CommandSize
=============================================================================
