# findutils in TLA+

TLA+ specifications of the programs of GNU findutils (`find`, `xargs`,
`locate`, `updatedb`), translated from the C sources and the shell script, with
TLC configurations that check them on small instances and TLAPS proofs of what
holds in general. The code is the reference throughout; the manual pages are
used only for what they promise of it.

Check a run with `tlc -config <run>.cfg <module>` (the table of runs names both)
and the proofs with `tlapm <module>` for `BuildCmdProofs`, `XargsMainProofs`,
`XargsOptionsProofs`, `XargsProcsProofs`, `FindExecProofs`, `FindWalkProofs`,
`FindTestsProofs` and `LocateProofs`. `PROJECT.json` lists components, runs,
hazards and theorems, and, under "map", the source lines of each definition.

## The system and its parts

findutils is a set of single-threaded programs. What is hard about them is not
shared memory but what surrounds one thread: child processes that end in any
order, signals that land between two statements, `exec` calls that are refused
and retried, a database replaced while it is read, and code in which what one
function leaves behind is relied upon in another, far away.

| Part | Source | State it keeps | Operations | Interacts with |
|---|---|---|---|---|
| command-line construction | `lib/buildcmd.c` | the list under construction, its size, the `todo` flag, the bounds learnt from E2BIG | push an argument, run the list, try fewer words, clear, insert (`-I`), measure the limits of the system | called by xargs and find; calls them back to exec |
| xargs options | `xargs/xargs.c` main | `bc_ctl`, the end-of-file string | one option after another, the system's limits before and after | everything else in xargs |
| xargs main loop | `xargs/xargs.c` main | line counter, whether anything was run | read, push, run after `-L` lines, run the last command | input, command-line construction, processes |
| xargs `-I` | `xargs/xargs.c` main, `bc_do_insert` | the line, the template | substitute and push each word, run | the same |
| xargs input | `read_line`, `read_string` | quoting state, the buffer, the static `eof` | one character at a time | main loop |
| xargs processes | `xargs_do_exec`, `add_proc`, `wait_for_proc`, `wait_for_proc_all`, the signal handlers | slots of running children, `procs_executing`, `proc_max`, `stop_waiting`, `child_error` | fork, read the errno pipe, enter, reap, wait, the atexit handler | children by waitpid and the pipe; user by SIGUSR1, SIGUSR2 |
| find `-exec`, `-execdir` with `+` | `find/pred.c`, `find/util.c`, `find/ftsfind.c` | a command line and a directory per predicate | record the directory, push, complete on a change of level and at the end | the traversal, command-line construction, children |
| find traversal | `find/ftsfind.c`, fts | fts handle, level, `stop_at_current_level`, exit status | visit, prune, ignore errors and loops, `-mindepth`, `-maxdepth`, `-depth` | predicates, utilities |
| find expression | `find/parser.c`, `find/tree.c` | predicate list and tree | insert `-a` and `-print`, parse by precedence, reorder by cost, evaluate | traversal |
| find tests | `find/parser.c`, `find/pred.c` | reference times, `-daystart` | parse a number, a time, a size, a mode; compare it with a file | expression |
| locate writer | `locate/frcode.c`, `locate/code.c` | the previous path, the previous prefix length | encode a sorted list | updatedb, locate |
| locate reader | `locate/locate.c`, `locate/word_io.c` | path buffer, running prefix length, guessed byte order, chain of visitors | decode, test, limit, count | database |
| updatedb | `locate/updatedb.sh` | the database, a temporary file | run find into frcode, test the result, rename | locate |
| shared output files | `find/sharefile.c` | streams by device and inode | open once, close at the end | parser, cleanup |
| library helpers | `lib/*.c` | a growing buffer, a cursor over a list, open descriptors | extend, next element, find leaks | all |
| old traversal, file-system types, listing, quoting, option tables | `find/find.c`, `fstype.c`, `lib/listfile.c`, ... | caches, formats | I/O and formatting | find |
| gnulib, tests, documentation, translations | `gnulib`, `tests`, `doc`, `po` | | | not part of the development |

What each part owes its users:

- command-line construction: nothing pushed is lost, repeated or reordered,
  whatever exec refuses; the limits of count and size are kept; the retries end.
- options: of the options that exclude each other the last wins; `-s` stays
  within what exec takes; an environment that is too large is reported.
- main loop and `-I`: all of the input is used; the rule for empty input; `-L`,
  `-x` and `-r` mean what they say; a template is run whole as long as exec takes it.
- input: the same arguments character by character as the text has as a whole.
- processes: never more than `-P` children; every child in a slot; the
  exit status has a cause; nothing starts after an abort; xargs ends.
- `-exec ... +`: every matching file is run once, in its own directory; every
  directory that was opened is closed.
- traversal: the expression is applied once to each file that is asked for, a
  directory before or after its contents; a message and the exit status tell of
  each file that was not reached; `-prune` is about one directory.
- expression: a file gets the actions, in the order, that the words ask for,
  however the tree was rearranged.
- tests: what a test says of a file is what the manual says of its age, size or mode.
- locate and updatedb: a reader gets a complete list, the old one or the new one;
  locate prints what is wanted of it, once, in order, up to the limit.

## Modules

`A <- B` means B EXTENDS or INSTANCEs A.

    ArgStream    <- BuildCmd <- XargsMain    <- MCXargs
                             <- XargsReplace <- MCXargs
                             <- FindExec     <- MCFindExec
                             <- MCBuildCmd
                             <- BuildCmdProofs <- XargsMainProofs, FindExecProofs
    XargsMain, XargsReplace <- XargsMainProofs
    FindExec     <- FindExecProofs
    XargsOptions <- MCXargs
                 <- XargsOptionsProofs
    XargsRead    <- MCXargs
    XargsProcs   <- MCXargsProcs
                 <- XargsProcsProofs
    FindWalk     <- MCFindWalk
                 <- FindWalkProofs
    FindTree     <- MCFindTree
    FindTests    <- MCFindTree
                 <- FindTestsProofs
    FrCode <- Updatedb <- Locate <- MCLocate
    LocateDb           <- Locate <- LocateProofs

**BuildCmd** is `lib/buildcmd.c`. A constant stands for each field of
`struct buildcmd_control`, a variable for each field of `struct
buildcmd_state`. `cmd_argv` holds what follows the initial arguments. The two C
frames, `bc_push_arg` and the `bc_do_exec` it may call before and after it
appends, are `pc` (the innermost frame) and `ret` (where `bc_do_exec` returns
to). `PushArg` is `bc_push_arg` up to its first call of `bc_do_exec`,
`CheckCount` and `AppendArg` the rest; `ExecAccepted` and `ExecTooBig` are one
turn of the loop of `bc_do_exec` each, for the two answers of the callback.
`UpdateLimit` is `update_limit`, bisection and both floors included. History
variables `taken` and `delivered` record what callers pushed and commands got.

**ArgStream** is the abstract promise of the library to its callers: arguments
go in one by one, and come out in order, exactly once, in batches of any size.
`ImplementsArgStream` says that BuildCmd implements it.

**XargsOptions** is the start of xargs: `bc_init_controlinfo`, which measures the
environment, the option loop of `main` with the ways `-I`, `-L`, `-n` and `-x`
change each other's fields, the clamping of `-s`, and
`bc_use_sensible_arg_max`. The numbers of the system (`ARG_MAX`, the headroom,
LINE_MAX, the size of a pointer) are constants.

**XargsMain** puts the loop of `main` without `-I` on top of BuildCmd. The input
is abstracted to what `read_line` returns to main: another argument, whether a
counted newline ended it, the end-of-file string, the end, or an error. The
library's actions are taken together with what they change in xargs
(`procs_executed`).

**XargsReplace** is the second loop of `main`. The template has `Words` words; an
argument is the pair of a word and a line. Substitution is abstracted to its
length. `initial_argc` is 0 here, so for the library the command name is an
argument like the others. `refused` remembers an E2BIG: until then what exec is
given is the whole template (`WholeTemplate`), after it a part.

**XargsRead** is `read_line` and `read_string`, a step per character. Characters
are reduced to the classes the code tells apart. Its properties compare the
result with declarative definitions of items, quoting and lines over the whole
text (`Quoting`, `Items`, `EndsLine`, `EndsInput`), written from xargs.1.
`RoomFor` is `endbuf`: with `-I` the command name, of `CommandSize` characters, is
counted in `cmd_initial_argv_chars` once the first line has been pushed, so every
line but the first has that much less room.

**MCXargs** composes these four: the options are read first, and what they come to
selects what runs next and with which settings: the input as words, lines or
delimited strings, or the loop of main as `-n`, `-L` or `-I` set it. The end-of-file
string and `-r` reach the later stages as the options left them.

**XargsProcs** is everything of xargs that touches processes. A step of xargs is
a stretch of code between two points where a signal or a child can make a
difference: system calls that can block (`input_block`, `read_block`,
`settle_block`, `w_block`), the test and the reset of `stop_waiting`, and calls
of `exit`. Children are forked, exec or are refused, run, end in one of four ways
and are zombies until reaped. The handlers of SIGUSR1 and SIGUSR2 run in any
state; in a blocked call they also make it fail with EINTR, since they are
installed with `sa_flags` 0. `exit` inside `wait_for_proc` runs the atexit
handler, which calls `wait_for_proc` again. Its `commands` only counts the command
lines: what they hold is XargsMain's and BuildCmd's.

**FindExec** is one `-exec ... {} +` (or, with `Local`, `-execdir ... {} +`)
predicate on top of BuildCmd: `impl_pred_exec` with `record_exec_dir`, the
completion on a change of level, at the end and after `-quit`, and what `launch`
reports. The hierarchy is reduced to the directory the walk is in.

**FindWalk** is the loop of `find ()` over `fts_read`, `consider_visiting` and
`visit`, with `-depth`, `-mindepth`, `-maxdepth`, `-prune`, `-quit` and `-delete`.
A step is either a call of `fts_read` (`FtsRead`, `StartPoint`, `Abort`) or what
`consider_visiting` does with its result: each early return is an action
(`ReportError`, `ForceStat`), and so is each thing that can happen after the last
one (`PassOver`, `Visit`, `VisitQuits`, `VisitDeletes`). The hierarchy is any
forest of `Nodes` files, chosen in the initial state together with the options and
never changed; its starting points are searched one after another by the same
`state`. Whether the expression applies `-prune` or `-quit` to a file is left
open. `dot` is the starting point whose name below its directory is ".", if there is
one (from `Dots`): `pred_delete` leaves it alone and answers true. Left open too are
the order of the entries of a directory and the failures of fts:
a directory that cannot be opened or entered (`CannotRead`), one whose failure
`fts_build` forgets (`CannotReadLeaf`), no way back up or no memory (`Stop`), a
file that is gone when it is looked at again (`ReadAgain`). `abandoned` records
the files that fts gives up without telling find. `cur`, `info` and `instr` are
`fts_cur` and its two fields.

**FindTree** goes from the words of the command line to what a file gets: the
predicate list with the `-a` that is inserted between two primaries and the
`-print` that is added, `get_expr` and `scan_rest` with the precedences, `opt_expr`
with its two lists (names first, then cheap tests), `do_arm_swaps`, and the
evaluation of the tree with its side effects. `opt_expr` returns its tree, whether
that has side effects, and whether its root is the node it was given; the statement
that stores the second in the node the first has replaced (tree.c:820) is modelled with
both of the orders C allows (`target` in `Optimise`), and `flag_lost` remembers a
flag that was set in the old root and looked for in the new one. A primary is a name, a test, an
action or an action that prints nothing; the optimiser knows its cost and its
success rate. `eval_tree` is the tree. `Meaning` is the reference: the meaning of
the words by the grammar of the manual, found without building a tree.

**FindTests** is the tests whose number matters: `-atime`, `-amin`, `-used`,
`-newerXY`, `-links`, `-size` and `-perm`, their parsers, and `-daystart`, which
moves the time the days are counted from. Times are seconds and nanoseconds with
the borrow and the carry of the code; a day, a minute and a second have as many
parts as the constants say. `DaysMean` and `MinutesMean` are written from the manual
(the age in days with its fraction dropped, more, less or exactly `n`), and name
each window in which the code departs from it.

**FrCode** is the encoders, `frcode` and `code`, as functions from what they
remember of the paths so far and the next path to the bytes they write, with the
clamp, the escape, the two-byte counts and the assertion of `put_short`. `Writers`
is what the writer remembers after each path of a list, `Encoded` the file it leaves.
A character is a byte, but not NUL.

**Updatedb** is `updatedb.sh` from the removal of the old temporary file to `mv`: a
step of the shell, of frcode or of find in the pipe; HUP and TERM, which a trap
handles between two commands; a kill, which leaves frcode running; a failure of
frcode. A failing `mv` leaves what a kill just before it leaves, and is not an action.

**Locate** is `dolocate`, `search_one_database` and the visitors over any number of
databases: the header and the three formats, `getword` with its guess of the byte
order, the chain of visitors with `-A`, `-e`, `-E`, `-l`, `-c` and `-S`, and the
exit status. `procdata` is the struct of that name. It runs beside Updatedb.
`SystemWritten`, `OldWritten` and `StaticWritten` say of the databases that frcode and
code wrote them; they are hypotheses of theorems, and MCLocate asserts them of the
databases of the runs. `WantedOf` and `WantedThrough` are what the manual page says is to
be found, written as recursive functions over the list and over the databases, so that a
proof can unfold them.

**LocateDb** is the abstract promise of the two: a list is installed as a whole and
when it is complete, and a reader gets the list that was there when he opened it.
`ImplementsLocateDb` says that Updatedb and Locate implement it.

The modules whose names end in **Proofs** hold the theorems; **MC...** modules give
constants the values TLC's configuration files cannot, and compose.

Operators whose names begin with `Bad` are plausible slips in the definition
that follows them: the property they are for is violated when the definition is
replaced by them. No specification uses them.

## Runs

Each run that passes covers everything its components owe, with the options as
rigid variables chosen at the start, rather than a run per option.

| Run | Module | Shows | Bounds and why they suffice |
|---|---|---|---|
| `BuildCmd` | MCBuildCmd | exactly once in order; count, size; gives up only on one argument; the retries end; implements ArgStream | 7 arguments of size 1 or 3, room for 9 and for 6, exec free to refuse anything: both limits are hit, the search goes up, down and bisects, lists are cut two and three times |
| `Xargs` | MCXargs | the last of `-I`, `-L`, `-n` wins; `-s` is allowed; items, quoting, end-of-file string and its errors; all input used; empty-input rule; `-L`; no command cut short by its size under `-x`; whole template | up to 4 options of 13 in 5 environments: every pair of exclusive options with one between and one after; texts of 5 characters of 7 classes with a buffer of 3 for words and, for lines, of 4 and after the first of 2, so that a line of 3 fits only as the first; 5 arguments, or 3 words on 3 lines, against limits of lines, size and count that are all hit |
| `XargsProcs` | MCXargsProcs | slots and count agree; one escape for a signal; `-P`; the status has a cause; nothing after an abort; xargs ends | 3 commands, `-P 2`, one signal at any point, one E2BIG, 3 process ids that are reused: a slot is waited for, an id comes back, a wait is cut short or not |
| `FindExec_dir` | MCFindExec | own directory, all files, directories closed | 2 directories, 5 files, no limit hit |
| `FindWalk` | MCFindWalk | once, in order, nothing missed, `-prune`, `-delete`, ends | all hierarchies of 4 files, 5 kinds of file, depths 0 and 1 for the limits: a pruned directory has a sibling with contents, an upper limit has something below it, and starting points come one, two, three and four at a time; `Dots` = {1}: the first starting point is "." or none is, as all starting points are treated alike |
| `FindTree` | MCFindTree | the tree is the expression; the optimised tree gives the same actions, unless a flag was lost; names first; numbers mean what the manual says, and times but for named windows | expressions of 5 words over a name, a test, an action and `-prune`, with `!`, parentheses, `-a`, `-o`, `,`: a group within a group, both arms of an operator rearranged, a side effect between tests. Days of 4 seconds, minutes of 2, seconds of 2 ticks: each boundary of each window, from either side, and midnight itself, with fractions and `-daystart` |
| `Locate` | MCLocate | exact search; count and status; `-l`; what `-S` may tell; the guess of the byte order; implements LocateDb | 6 paths whose shared prefixes make every encoding, the clamp and the assertion occur; 4 values to a byte; 3 scenarios: 2 updates with one trouble beside a reader; all options over 2 databases of 4 formats; old-format databases of up to 3 names of two byte orders |
| `FindExec_wrongdir` | MCFindExec | disagreement 1 | 6 files, command lines of 3 |
| `FindTree_comma` | MCFindTree | disagreement 2 | 4 words |
| `FindTree_flag` | MCFindTree | disagreement 3 | 5 words, the fewest that show it: an action, two tests in its group, and a test in another |
| `Xargs_env` | MCXargs | disagreement 4 | as `Xargs` |
| `Locate_slocate` | MCLocate | disagreement 5 | databases of up to 3 names |

Deadlock checking is off because each program ends: the last state of a run has
no successor, and so have the states behind `error (EXIT_FAILURE, ...)`. That the
programs do not stop early is stated by `ExecEnds`, `XargsEnds` and `WalkEnds`.
The bounds `MaxPushes`, `MaxChars`, `MaxOptions`, `MaxWords`, `Commands`,
`MaxSignals`, `MaxTooBig`, `MaxUpdates`, `MaxGiven` and `MaxTroubles` end the
input, the commands, the signals, the updates and the troubles; nothing in the
code counts to them.

**Fairness.** `BuildCmd!FairSpec`: a library call, once begun, goes on (one
thread; the callback returns). `FindWalk!FairSpec`: find is scheduled, and the
hierarchy does not grow while it is read. `XargsProcs!FairSpec`: xargs is
scheduled, and so is each child until it execs; and each command ends by itself.
That last one the code cannot give: xargs waits for its commands for as long as
they run. No fairness is assumed of signals or of exec's answers. The other
specifications have none: Locate's entries and FindTree's words are used up by
steps that the safety properties already wait for.

## Disagreements shown by a run

1. `FindExec_wrongdir`: `bc_push_arg` sets `todo`, then runs a full list, which
   clears `todo`, then appends. The appended file waits with `todo` clear: find
   does not complete it on leaving the directory, and opens the next directory
   over the recorded one. It is run with files of, and in, another directory.
   The same mechanism leaves out the last file of the walk, and the descriptor of
   the directory that was recorded over is never closed.
2. `FindTree_comma`: `consider_arm_swap` (tree.c:601) looks at the operator only
   when both arms cost the same, so it exchanges the arms of a `,` whose left one
   costs more: `-size +9 , -name a.c` has the value of `-size +9`.
3. `FindTree_flag`: `curr->pred_right->side_effects = opt_expr (&curr->pred_right)`
   (tree.c:820) assigns through a pointer that `opt_expr` may replace. C leaves open
   which is read first; gcc reads the pointer first, so the flag lands on the old root,
   and line 831 tests the new one. The group then counts as free of side effects, and
   a cheap test is moved in front of its action: of `-exec x ; -size +1 -name n -o
   -name m`, `-name m` is evaluated first and `-exec` is not run for files named m.
   It takes a group in which another arm has come to be evaluated last.
   `OptimisedTheSame` is for the trees in which no flag was lost, all those of a
   compiler of the other kind among them.
4. `Xargs_env`: an environment that leaves some room, but less than LINE_MAX,
   passes `bc_init_controlinfo` and fails the assertion at xargs.c:471, for
   `xargs --help` too; the comment at xargs.c:404 promises an error message.
5. `Locate_slocate`: for the second entry of an slocate database
   `visit_locate02_format` uses the length of the first name and ignores the count
   that `frcode -S` wrote: later names are read back wrong (locate.c:575).

## Disagreements seen in the code and in the models, without a run

xargs:

- SIGUSR1 or SIGUSR2 during the read of the errno pipe makes `xargs_do_exec` return
  without `add_proc` (xargs.c:1180). The command runs, is in no slot, and one more
  than `-P` is started. `EveryCommandTracked` and `RunsAtMostMaxProcs` say that it
  is one for each signal.
- SIGUSR1 between the test of `proc_max` and `waitpid` does not end the wait
  (xargs.c:1318; comment at 1441). SIGUSR1 or SIGUSR2 while the input is read
  makes `getc` return EOF, and the rest of the input is not read (xargs.c:809).
- `wait_for_proc_all` compares `child_error` with `original_exit_value`
  (xargs.c:1415), still 0 when `error` or `exit` ended the run, so a command that
  fails meanwhile turns the status 124..127 into 123 (xargs.1:404-407).
- `-L`: after a run because of `max_arg_count` the line counter is left behind and
  one command without arguments is run (xargs.c:723); `-p` offers the empty
  command when every other was declined (xargs.c:732). `EmptyInputRule` has "no
  empty command after input" for `-n` only.
- `-I`: after E2BIG a part of the template is run (buildcmd.c:316), and then the
  rest of it, as a command whose name is a word that was to be an argument
  (xargs.1, `-I`). `WholeTemplate` is for what exec is given before it refuses.
- `-I`: a line that would be taken as the first one is too long as a later one, by the
  length of the command name (xargs.c:802, buildcmd.c:434-437).
- `-x` alone has no effect: `exit_if_size_exceeded` is looked at only with
  `lines_per_exec` or `args_per_exec` (buildcmd.c:384; xargs.1:302-305).
- An empty quoted argument at the end of an input without a newline is ignored
  (xargs.c:816, the exception in `ItemsFound`); the end-of-file string counts
  anywhere in a line (xargs.1:141-142), except unterminated at the end.
- `-P` is parsed as a long and stored as an int (xargs.c:593).

find:

- The size test of `bc_push_arg` leaves out the prefix (buildcmd.c:377), so a
  command line of `-execdir` may be two characters over.
- `find ()` takes the NULL of `fts_read` for the end of the hierarchy
  (ftsfind.c:567) and never looks at `errno`. When fts stops (fts.c:1041, 1379,
  1504), and when `fts_build` cannot enter a directory that has no subdirectories
  (fts.c:1318), files are left out and find exits with 0 (find.1:2007-2008).
  `NothingMissed` excepts exactly these files (`abandoned`).
- `FTS_AGAIN` (ftsfind.c:473) asks fts to return a directory that it took for a
  file; `enter_dir` is not called for it, so `leave_dir` does not find it and calls
  `abort` (`Abort` of FindWalk). It takes a file system for which fts counts
  links, and a directory made since its parent was looked at.
- `pred_prune` goes by `stat_buf` and only FTS_DP ends `stop_at_current_level`, so
  pruning a file that has become a directory since fts saw it makes visit skip
  the next directory as well (pred.c:1726). FindWalk has no such file.
- The artificial parentheses around the expression can be closed by the user's:
  `find . -name 'a*' \) -o \( -name 'b*'` is accepted (tree.c:1370).
- The comment of `consider_arm_swap` says which arm should come first for `-o` and
  the code does it the other way round; the order affects speed only.
- `-delete` of a starting point "." is true and does nothing, without a message and
  with exit status 0 (pred.c:447-451), where find.1:957-965 says "true if removal
  succeeded" and has an exit status for a failure. `DeletesAll` excepts it.
- The time tests depart from find.1:490-521 in windows named in `DaysMean` and
  `MinutesMean`. `+n` needs more than n+1 days, where "at least two days ago" should
  match `+1`: an age of 2 days to the tick matches neither `-mtime 1` nor `-mtime +1`.
  `-n` takes in a second more than n days: a file 2 days and 0.3 seconds old matches
  both `-mtime 2` and `-mtime -2`. `-mmin n` is the minute before n (the manual has
  "n minutes ago", find.texi "rounding is done in a similar way" as for days): an age
  of 290 seconds matches both `-mmin 5` and `-mmin -5`, one of 300 seconds none.
- `-daystart` counts from "the beginning of today" (find.1:330-338) only in that a day
  is subtracted first: ages in days and in minutes are counted back from the end of
  today (`Now`).
- `-used`: `parse_used` subtracts the days from 0 (parser.c:2620) and `pred_used`
  compares the delay with the result, the wrong way round: a file read 3 days after its
  status changed is matched by `-used -1`, and neither by `-used 2` nor `-used +1`
  (find.1:914). FindTests has the parser and the predicate; no property is about them.
- `-newerBt` and its kin never match on systems with birth times: a stray
  semicolon ends the condition in `pred_newerXY`.

locate and updatedb:

- `found` is overwritten for each database, with 0 for one that is skipped, and
  one that cannot be opened ends `dolocate` with 0 (locate.c:1873);
  `StatusTellsMatch` is for runs without either.
- The limit `getword` checks an old-format count against is up to 14 too low, so a
  database of this very machine can be taken for one of the other byte order
  (word_io.c:76); `GuessIsSound` says when.
- The clamp of frcode leaves a difference below `SHRT_MIN` to the assertion of
  `put_short`, which ends frcode (frcode.c:300).
- updatedb does not look at the status of find, and the header frcode writes at
  once makes `test -s` true for an empty list: what find lists before it fails is
  installed. Two updatedbs at once write to one temporary file (updatedb.sh:278).

## Proofs

All theorems are for every value of the constants that satisfies the module's
assumption; the bounds are arbitrary natural numbers.

**BuildCmdProofs**, from `BuildCmdAssumption`: sizes are positive, limits are
natural numbers, and `MaxArgCount > InitialArgc` (bc_init_controlinfo leaves
room for one argument). The inductive invariant is

    IInv == TypeOK /\ ControlOK /\ RoomOK /\ WithinArgCount /\ ExactlyOnceInOrder

`ExactlyOnceInOrder` and `WithinArgCount` are not inductive by themselves. The
first needs `ControlOK`: when `bc_do_exec` clears the list, the argument in hand
must be exactly what `ret` says will be appended, and `done` must lie in the
list. The second needs `RoomOK`: `bc_argc_limit_reached` tests for equality, so
it is kept only because a list outside `bc_do_exec` is strictly below its limit,
which in turn holds because `bc_do_exec` always ends with an empty list.
`UpdateLimitType` gives the floor of `limit` that makes every turn of the loop
take a word; `WorkingArgsSplit` and `OneTry` say what a turn takes and leaves.
There is one lemma per action, gathered in `NextInvariant`.
From it follow `TypeCorrect`, `ArgumentsExactlyOnce`, `ArgumentCountBounded`,
`GivesUpOnlyOnSingleArg`, `RetriesShrink` and `BuildCmdImplementsArgStream`,
the refinement of ArgStream under the identity on `taken` and `delivered`: every
accepted exec is a Deliver step (`FrontDelivered`), every push a Take, the rest
stutters. `SizeBounded` (`cmd_argv_chars <= ArgMax`) needs `FitsAlone` besides: no
prefix, and every single argument fits after the initial ones. A list is empty
after `bc_do_exec`, and the argument that did not fit is then appended without
another test; `FitsAlone` is what `read_line`'s `endbuf` ensures for xargs.

**XargsMainProofs**, from the assumptions of BuildCmd alone (not `MainOptions`),
takes the loop of main as a use of the library (`UsesLibrary`), so BuildCmd's `IInv`
holds throughout, and adds to it:

    Ending, Counting, NoInput, NoneEmpty

`Ending`: the last `bc_do_exec` returns to main and leaves an empty list; with
`ExactlyOnceInOrder` it gives `InputIsUsed`. `Counting`: `bc_push_arg` may run a command
in the middle of a line and does not reset `lineno`, so the counter can only be ahead
of the lines in the list, the argument in hand included; that gives
`LinesAreBounded`. `NoInput`: before the first argument nothing but the last command
of main can be run, and its one try ends the call; that gives `NoInputRunsOnce`
without `-p`. `NoneEmpty`: with some input every try has at least one argument; that
gives `CommandsHaveArguments` where no lines are counted (with `-L` it is false, see
disagreements without a run). `NeverCutShort` (`ShortOnlyAtEnd`) needs, besides `IInv`, that with `-x` and `-n` or `-L`
the three ways into `bc_do_exec` while input remains are a full count, the lines that were
asked for, and the system's limit of words (`ShortStep`): the size test ends xargs instead.
The loop of `-I` is not a use of BuildCmd's `Spec` (main begins each line with a
buffer of 0 characters), so it has an invariant of its own, `Collecting`, under
`TemplateFits`: the options of `-I`, and a template of fewer words than the list may
have. Without that a word that filled the list would make `bc_push_arg` run it before
main does, and main would then run an empty one. `Collecting` says that the list holds
the first words of the template, and the buffer just their characters, one word less
while one is being appended; that `bc_push_arg` runs no command; and that what exec is
given, as long as it has refused nothing (`refused`), is the whole template, after which
the library returns to main. `TemplateIsWhole` follows: whatever line, template and
sizes, up to the first E2BIG exec is given the whole template of one line, and
"argument list too long" is said only of a line that is too long. The second part rests
on `CharsGrow`: the characters of a line, a function computed word by word
(`SumsExist`), do not decrease.
The properties proved are those of XargsMain and XargsReplace; run `Xargs` checks each
of them at the stages of MCXargs it is about, XargsMain with two sets of limits.

**FindExecProofs**, from `FindExecAssumption` and BuildCmd's: `-exec ... +` too is a use
of the library. What it promises needs a hypothesis, `[]NeverFull`: `bc_push_arg`
never runs a list by itself. `FindExec_wrongdir` shows that it is needed. Then

    DirInv == Collecting /\ InDirectory

`Collecting`: `todo`, which decides whether find completes a command line, is true of
exactly the lists with something in them. `InDirectory`: such a list never outlives the
stay in the directory its files are in. From these follow `OwnDirectory` and `AllRun`,
for any hierarchy, any files and any limits.

**XargsProcsProofs**, from `XargsProcsAssumption` (process ids are finite), for any
number of them, of commands and of signals:

    IInv == PoolType /\ PoolIsTrue /\ AtChild /\ AfterExit
    CountInv == IInv /\ FewEscape /\ RoomToStart
    StatusInv == CountInv /\ CauseInv /\ EndsKnown

`PoolIsTrue` is not inductive: `add_proc` fills a slot on the word of the errno
pipe. `AtChild` says that the word is true of the child, and that the child is in
no slot yet, however its steps and the signals fall between the fork and the
read; `AfterExit` that a command that aborts the run makes xargs call exit, and
that from there it can only be in the waits of the atexit handler, which is why
nothing is forked again. `FewEscape` counts the living commands that neither a slot
nor the statement xargs is at knows of (`Escaped`): only EINTR in the read of the
pipe adds one. `RoomToStart` carries the test of `procs_executing >= proc_max` across
the waits and failed forks between it and `add_proc`, during which the handlers
may lower `proc_max`; that is why it speaks of `peak`. `EndsKnown` follows an ending
from the child through the slot to `counted`, and `CauseInv` from `counted` to
`child_error` or the argument of `exit`, and to the status; its part `LastWait` says
that the atexit handler leaves its wait only when no slot is in use. From these
follow `PoolTrue`, `NoneStartedAfterAbort`, `CommandsTracked`, `AtMostMaxProcs` and
`StatusTrue`. TLC has checked `StatusInv` on the instance of the run.

**FindWalkProofs**, from `FindWalkAssumption`, for every number of files, every
hierarchy, every mixture of the options and every failure of fts:

    IInv == TypeOK /\ AtFile /\ PruneIsTransient

`PruneIsTransient` is not inductive by itself: that a file is passed over while
the flag is on (`PrunedIsPassedOver`) needs `TypeOK`'s "nothing is pruned with
-depth", and that no other starting point begins with the flag on
(`NothingPrunedAtTop`) needs that only files are pruned, which takes `AtFile`.
From it follow `TypeCorrect` and `PruneEndsWithDirectory`. The rest takes

    WalkInv == IInv /\ Hierarchy /\ TopDown /\ NotTwice /\ OrderOfVisits
                    /\ PruneSteers /\ TroublesTold /\ NoneLost

`Hierarchy` says that a parent has a smaller number than its children and is a
directory. `TopDown`: what has been returned has no directory above it that has not,
and a directory returned for the first time still has everything below it to come.
`NotTwice`: what fts has still to return, the file at hand and (with `-depth`) the
directories it is in have not been evaluated. The two give `NoFileTwice` and, for
directories before or after their contents, `VisitsInOrder`. `PruneSteers` ties
`-prune` to the instruction find leaves for fts; `TroublesTold` says that each failure
shows in the exit status and that `-delete` deletes or complains, but for "."; `NoneLost`, that
each file is settled (evaluated, or excepted by `NothingMissed`), at hand, or to come
because it, or a directory it is in, is an unread entry of a directory that is
open. At the end nothing is at hand or to come: `WalkIsComplete` (`NothingMissed`) and
`DeleteIsComplete` (`DeletesAll`). The ancestors and the level of a file are recursive
functions; what is needed of them is proved from the least element of a set of
naturals.

**FindTestsProofs**, from `FindTestsAssumption`: for every length of the day, of
the minute and of the second, all starting times, fractions and files,
`TimeTestsMeanAges` (`TimesMean`) and `NumberTestsMeanCounts` (`NumbersMean`). A
test is parsed once and applied to many files, after later `-daystart`s, so the
invariant relates the options to the start, the predicate to the words it was
parsed from, and the last answer to the predicate. Its lemmas turn the borrow and
carry of nanoseconds into arithmetic on ticks, the whole days of an age into
bounds (`WholePart`), and the rounding up of blocks into a quotient.

**XargsOptionsProofs**, from `XargsOptionsAssumption`, for any sequence of options
and any environment. The loop keeps no record of what was typed, so
`LastOfOptionsWins` (`LastOptionWins`) needs `Winner`, which says in each state which
option the fields of `bc_ctl` stand for: the last of `-I`, `-L`, `-n` that counts, and
`-n 1` after `-I` does not. `SizeAlwaysAllowed` (`SizeIsAllowed`) needs `SizeInRange`:
with room in the environment, `arg_max` is positive, within what exec takes, and the
sensible size unless `-s` was typed.

**LocateProofs** has six results, from the assumptions of Locate, Updatedb and
FrCode.

- `LimitIsKept` (`LimitKept`) for any databases, whatever their bytes. `ProcessIs`
  says what the chain of visitors does with a name: which of them run, and with what
  result. At most one of limit and count is in the chain, it is the last, and nothing
  is printed before it that it does not count; the invariant `WithinLimit` adds that
  entries are read only while the limit is not reached.
- `UpdatesAreAtomic` (`ImplementsLocateDb`), the refinement, under `SystemWritten`,
  with

      AtomicInv == UpdateInv /\ ReadInv

  `UpdateInv`: every file is what frcode makes of the list `given` to it, whatever
  signals, kills and failures fall between its writes; only a file whose frcode
  ended well can come to be `LOCATE_DB`; and no later update writes to it. `ReadInv`:
  the reader stands where the writer stood between two paths, with the same count and
  the same name in its buffer. Then an entry is a Read step. Under it lies the round
  trip from frcode to locate: `CountReadsBack` (one byte, or escape and two, with
  their signs), `SharedIs` (the clamp), `RunIs` (the bytes of a list, part by part)
  and `EntryIsRead`. `SystemWritten` is needed: an slocate database of several names
  is misread (disagreement 5), and a list on which frcode's assertion failed has no
  complete database.
- `OnlyLongCountsMislead` (`GuessIsSound`), under `SystemWritten` and `OldWritten`, with

      GuessInv == AtDatabase /\ OldSoFar /\ GuessIsSound

  added to `AtomicInv`. `AtDatabase` ties the open file to the last entry of `opened`;
  `OldSoFar` says that as long as nothing was misread the reader of an old-format
  database stands where `code` stood. The count then read is the one that was written,
  it makes a prefix no longer than the name before (`CountsAreShared`), and so the
  native value is within the limit of `getword` unless the prefixes are those the
  property names.
- `SearchFindsAll` (`SearchIsExact`), `StatusIsTrue` (`StatusTellsMatch`) and
  `StatsTellNoMore` (`StatsDoNotLeak`), under `SystemWritten` and `StaticWritten`, from

      LocateInv == AtomicInv /\ GuessInv /\ WithinLimit /\ SearchInv

  `SearchInv` is the new part. While a database is read (`SoFarAt`), locate stands where
  the writer of that database stood after its first `k` names (`Place`, one disjunct for
  each format), `accepted` and `printed` are what was wanted of the databases before
  followed by what is wanted of these `k` names, and `total` counts the latter. Between
  databases `accepted` and `printed` are what is due (`Due`): all that is wanted, up to
  the limit. The properties say nothing of a database that is half read, so they are
  not inductive without `SoFarAt`; `WithinLimit` is needed to know that nothing has
  been cut off yet while entries are read (`ShortIsNotCut`) and everything from here on
  is when the limit visitor aborts (`RestIsCut`); `AtomicInv` to know that the open file
  does not change below the reader. The steps rest on `NextIs`, the round trip for
  all three formats (the next entry is the next name: `FrcodeNext`, `CodeNext`,
  `SlocateNext`), on `EndIsLast` (every name takes a byte, so the file ends with the
  last one), and on `ProcessIs` with `ShownIsWanted` (the visitors let pass what is
  wanted). That `WantedUpTo` and `WantedThrough` are the functions they are meant to be
  is `StepsMakeAFunction`: a function computed step by step exists, by the least index
  at which it would not. All three theorems are about the runs in which what was read
  is `Readable`: no word of an old database misread, which `OnlyLongCountsMislead`
  confines, and no slocate database of several names (disagreement 5).

Only model-checked:

- liveness (`ExecEnds`, `XargsEnds`, `WalkEnds`), which is outside the prover's reach;
- `ItemsFound` of XargsRead, a parser against a grammar, both recursive over the bytes;
- in MCXargs, `AllInputUsed`, `EmptyInputRule`, `LinesBounded`, `ShortOnlyAtEnd` and
  `WholeTemplate` speak of stages of one run; XargsMainProofs proves for each single stage what they say of it;
- FindTree, whose recursive operators on trees rule out a proof.

## Not modelled

- The testing limit of `bc_do_exec`, a debugging aid.
- xargs: the prompt of `-p` beyond its answer, `-t`, `--show-limits`, NUL warnings,
  locale-dependent blanks (one blank stands for all), descriptors and stdin of
  children, the file of `-a`.
- find: the `;` forms of `-exec`, `-ok`, several `+` predicates in one expression;
  `-H`, `-L`, `-xdev`, a hierarchy that changes during the walk (except that a
  file may be gone when fts stats it again); users and groups, patterns and
  regular expressions, `-printf` and the other output, which are pure functions
  of one file and have no hazard of order; birth times. `find.c` is the older
  walk, built as oldfind.
- The shared output files and the helpers of `lib`, small tables and buffers.
- locate: option parsing, the age warning, a database on stdin, quoting. The
  bigrams of the old format, a lossless code. updatedb: its options and the find
  command line it makes, the old-format pipeline, two updatedbs at once.
- gnulib is vendored and external, except for what FindWalk needs of fts.

The map covers the control of the programs and a small share of all the C in the
repository: most of the rest is gnulib (regular expressions, formatted output,
date parsing), then option tables, usage texts, formatting and the older walk.

## Plan

What is left, in order of importance:

1. FindExec: the `;` forms and several predicates in one expression.
2. FindWalk: `-L` and `-xdev`.
3. A composition of XargsMain and XargsProcs in which `commands` are what XargsMain
   makes; ShareFile, `extend_buf`, `next_element`, `fdleak`.
