# A verification project for libipd and its Catch

The repository has two libraries.  libipd (`src/lib/libipd`) is the small C library that a
programming course links into its homework programs: it wraps the allocation functions to
impose and trace limits, counts checks and runs tests in forked processes, runs whole
programs and compares what they print, and reads lines of any length.  `src/lib/catch` is the
test framework of the course's C++ programs, as one source and one header.  This directory
holds TLA+ models of both, the TLC configurations that check them, and proofs that TLAPS checks.

Contents: [inventory](#inventory), [modules](#modules), [runs](#runs), [proofs](#proofs),
[disagreements](#disagreements-between-the-code-and-what-is-said-of-it),
[what is not modelled](#what-is-not-modelled), [plan](#plan).

## Inventory

Sources of libipd are in `src/lib/libipd/src`, Catch is `src/lib/catch/src/catch.cxx` (C below)
and `src/lib/catch/include/catch.hxx` (H below).

| Part | State it keeps | Operations | Hard behaviours |
|---|---|---|---|
| Allocation limiter, `alloc_rt.c` 87-450 | `alloc_limit_state`, `bytes_remaining`, `allocation_list` | `rtipd_malloc`, `calloc`, `realloc`, `reallocf`, `free`; three setters | accounting across failures and resizes, blocks that move, addresses used again, limits changed while blocks live, `size_t` arithmetic |
| Environment limits, `alloc_rt.c` 115-180 | none (reads four variables, once) | `get_limit`, `alloc_limit_init_once` | precedence, unreadable values, shifts that overflow |
| Allocation tracing, `alloc_rt.c` 28-84 | `trace_out`, `trace_is_init` | `alloc_tracef`, an exit handler | order of exit handlers, a buffer copied by `fork` |
| Test runtime, `test_rt.c` | three counters, `tests_enabled`, `atexit_installed` | the checks, errors, `RUN_TEST`, `start_testing`, the exit hook, `libipd_exit_rt` | forked tests that crash, exit or nest; statuses; output buffered across `fork`; one summary |
| Program tests, `program_test_rt.c` | a table of four descriptors, temporary files | `CHECK_COMMAND`, `CHECK_EXEC` | descriptors leaked, confused or closed; failing system calls; interrupted waits |
| Growing buffer, `buffer.h` | capacity, fill | `balloc`, `brealloc`, `bfread` | end of file at capacity |
| Line reader, `read_line.inc` | a growing buffer, a stream | `fread_line`, `read_line`, `prompt_line` | growth at the boundary, failure under an allocation limit |
| Catch's trackers, C 4187-4290, 5292-5500 | a tree of sections and generators, the current one | open, close, fail, another run | which path the next cycle takes; exceptions; generators with sections after them |
| Catch's runner, C 4290-4730, 800-1070 | totals, active and unfinished sections, messages, the last assertion | test cases, cycles, sections, assertions, messages, fatal signals | early exits, aborts, statuses, messages that outlive their scope |
| Catch's generators, H 6720-7330 | each its position and what is under it | values, ranges, random numbers, take, filter, repeat, map, chunk, concatenation | get after next, exhaustion in a constructor, ranges at the limits of their type |
| Catch's test specs, C 1246-1420, 5640-5830 | a pattern half read | the parser and the filters it makes | escapes, exclusions, malformed patterns, hidden tests |
| Catch's command line, C 2105-3045, 516-540 | words still to read, the configuration | every option, the spec, the lists | where an option's value comes from, limits of values, what a list shows |
| Catch's reporters, C 6880-9431, H 10297-10984 | what each has been told and has printed | eight reporters and the listeners before them | elements left open, headings out of date, sums by subtraction, exceptions that skip ends |
| Catch's texts, C 5819-6057, 6099-6290, 8966-8975, 627-690 | a position in a text | columns, XML and TeamCity escaping, the names of `CAPTURE` | words wider than a line, malformed UTF-8, quotes and brackets |
| Catch's matchers, H 9135-10240, C 6435-6720, 345-393 | pointers to the matchers below | `&&`, `||`, `!`, the matchers of strings, vectors, ranges and numbers, `Approx` | operands taken over, infinities and zeros |
| Temporary names, `replace_tmpnam.c` | a static buffer, the file system | `tmpnam`, `tmpnam_r`, `tempnam` | failed `mkstemp`, sizes off by one |
| Literals and `eprintf` | none | escaping of characters and strings | wording only |
| CMake helpers, scripts, example tests | - | - | build configuration, a one-off rewriting script |

How they meet.  Programs include `<ipd.h>`, which replaces `malloc` and its
relatives by the `rtipd_` wrappers, `exit` by `libipd_exit_rt`, and the line readers
by versions that allocate through the wrappers.  The library itself is compiled
without these replacements, and so is the C library: blocks cross between wrapped and
unwrapped code in both directions.  Program tests report through the test
runtime's `log_check` and `log_error`.  The tracer and the test runtime each install
an exit handler; a failing test's handler ends the process with `_exit`.

In Catch the session parses its command line into a configuration and a test spec, filters the
test cases by it, and hands them to the runner.  A test function is called again and again; its
sections, generators, assertions and messages call the runner, which asks the trackers where to
go and tells one reporter, and listeners, of each start, end and result.  The reporters write
through the columns and the XML writer.

What makes each part correct.

* Limiter: the bytes remaining and the records tell what is allocated; a limit is
  never exceeded; a refusal is always for want of budget; a total limit never gives back.
* Test runtime: the verdict on a test is the test's own; the exit status says whether something
  failed; nothing printed is repeated, and the trace is kept; a `RUN_TEST` ends when its test does.
* Program tests: one result per check; no descriptor of the program's own is closed or lost.
* Readers: what is read is the input's, inside its block; on failure the block is freed once.
* Trackers and runner: each path through a test case is run once, and none is left out; starts and ends are told
  in pairs; the exit status tells; the session ends.
* Generators: a generator yields the sequence that its expression denotes.
* Specs and command line: what runs, what is listed and what is configured is what was written.
* Reporters: each report is well formed, places results, has the right messages, adds up.
* Texts and matchers: no text is lost or misread; a matcher accepts what it says it does.

## Modules

| Module | Models | Notes |
|---|---|---|
| `EnvLimit` | `get_limit`, `alloc_limit_init_once` | pure definitions over the outcome of the scan of each variable |
| `AllocLimit` | the limiter | one action per public function; the C allocator is external |
| `Volume` | - | the sum of a function, as a cardinality, so that it can be reasoned about without recursion |
| `AllocContract`, `AllocImplements` | the promise of `alloc_limit_set_peak(3)`, and the mapping to it | abstract: objects are charged against a limit |
| `AllocLimitProofs`, `AllocContractProofs`, `ReadersProofs`, `ProgramTestProofs`, `TestRuntimeProofs`, `CatchTrackerProofs`, `CatchRunProofs`, `CatchPathsProofs` | - | lemmas and theorems |
| `TestRuntime` | `test_rt.c`, with and without `LIBIPD_HAS_POSIX`; the tracer's stream and handler | several processes, their memory, and what the kernel reports of them |
| `ProgramTest` | `do_check_exec` | parent and child, a descriptor table each |
| `LineSource`, `Readers`, `ReadersImplement` | `read_line.inc`, `buffer.h`, `fdread_all` | the readers over a stream and an allocator that fail; the promise of `read_line(3)` and the mapping to it |
| `CatchTracker`, `CatchRun` | trackers; the session, `RunContext`, sections | pure operators on a context, and the runner that uses them |
| `CatchGenerators` | generators | each a record, `Get` and `Next` on it; `GENERATE` reading one |
| `CatchSelect`, `CatchCommandLine` | test specs; the command line, `Config`, the lists | a parser one character or word at a time |
| `CatchXml`, `CatchReporters`, `CatchReports` | the XML writer; the reporters; the runner's results and messages told to them | a reporter is a value, each handler an operator |
| `CatchText`, `CatchEncode`, `CatchMatchers`, `CatchHelpers` | columns; escaping and `CAPTURE`; matchers; calls of them | one step is one row, byte, replacement or character of the code's loop |
| `MC...` | - | instances for TLC |

### The limiter in `AllocLimit`

`alloc_limit_state`, `bytes_remaining` and `allocation_list` are the statics of those
names.  The list is kept as a stack of sizes for each address: both of the code's
searches stop at the first record of an address, which is the newest, so the order of
records of different addresses cannot be observed.  `heap` is the C heap (external),
`env` the four environment variables, `status` how the process ended inside a call,
and `reply` what the last call answered.  `limit`, `counted` and `spent` are history
variables: they remember the limit that was set, which live blocks were granted since,
and how much was granted under a total limit.  No guard reads them; only `reply.cost`
and the properties do.

Each wrapper starts with `ENSURE_ALLOC_DEBUG_INIT()`: the body runs on `Ensured`, the
limiter after initialisation from the environment.  A wrapper is one action, split
over its returns.  `quiet_malloc` can refuse, be refused by the C allocator, grant any
free address, or end the process when the list node cannot be allocated.  A `realloc`
on a live block can be refused, fail, free the block when the size is zero
(`ZeroFrees`: glibc does, other libraries may not), or return a block, at another address if
`MayMove`.  The program obeys the C contract: it frees and resizes live blocks only.
`ForeignMalloc` and `ForeignFree` are the code that was not compiled with `<ipd.h>`.

The three switches `MayMove`, `ZeroFrees` and `ForeignFrees` describe the surroundings,
not the code.  They let each property be checked under the weakest assumptions it
needs.  Sizes are below `Modulus`, and `Wrap` is `size_t` addition and subtraction: the wrapped
`change_in_size` of `realloc_with_peak_limit` is computed as the code computes it.

`AllocContract` knows no records, no `bytes_remaining` and no heap: an object has a charge, and a
call is refused only if it asks for more than the limit leaves.  `AllocImplements`
maps an object's charge to the size of its live block if that was granted under the present
limit, and the limit to the one a wrapper would see (so that the lazy initialisation is
a stutter).

### The test runtime in `TestRuntime`

A process has its memory (the counters and flags of `test_rt.c`, the order of its exit handlers, its
unflushed stdout and trace), a program counter (`run`), the child it waits for, and the status that
`waitpid` reports.  `RunTest` is `libipd_do_run_test` up to the flush before `fork`;
`Fork` or `ForkFails` follows, then `Reap` when the child is over, or `WaitFails`.  Without
POSIX the test is called in the same process, and its verdict is what it has added to the counters.
A test function makes any calls: checks, nested tests, output, `exit` (the C
library's in `RawExit`, the replacement in `libipd_exit_rt`), or it dies by a signal at any
step.  `Exit` is `exit()` with the handlers from the last installed to the first: the exit hook, whose
`_exit` on a failure cuts off what comes after it, the tracer's, and the final flush.  All
`libipd_do_check_*` functions are one action, `LogCheck`: they differ in comparison and wording;
`CHECK_STRING` with a NULL expectation, which aborts, is an action of its own.  Statuses are cut to
`StatusMod` values as the kernel cuts them to 256.

`left`, `seen` and the like are history variables: how a process went over, which
bad results it has met (its checks', and its tests' true outcomes, whatever was counted),
and how many summaries it printed.

### Program tests in `ProgramTest`

The parent goes through `do_check_exec` (`step`), from one system call that may fail to the next:
make four files, write the input, fork, wait, read stdout, read stderr, compare the
code, finish.  `fd` is the local of that name, with the values its initialiser really gives
it, and `table` the process's descriptors, handed out as the kernel does, lowest first.
The child has its own copy (`streams`), moves the four files to 0..3 one by one, and
executes the program, which writes and exits as it likes (`did`).  Any system call may fail
(`Mishap`).  The two faults in `Faults` are switches, and `faulted` remembers which have
happened, because they alone make a difference to a caller's descriptors and a program's input.  `logged` counts what is reported to the test
runtime by `log_check` and `log_error`, which are `LogCheck` and `LogError` of `TestRuntime`.  After an
interrupted `waitpid` the child left behind is dropped from the model: it shares
no descriptor with the parent.

### The readers in `Readers`

One process reads lines (`Call`, then a `Turn` for each turn of `fread_line`'s loop) or a whole file
(`Open`, `Fill`, `Close`: `fdread_all` over `bfread`).  `getc` and `fread` may come to the end or fail at
any character; an allocation may be refused, as the limiter of `AllocLimit` does.  `LineSource` says
what `read_line(3)` promises, with no buffers in it.

### Catch's sessions in `CatchTracker` and `CatchRun`

A tracker is named by its path from the root, so that `findChild` is a lookup and two sections with one name
at different places stay apart as in the code.  `open`, `close`, `fail`, `acquireSection` and
`acquireGenerator` are operators from a context to the next, and a state that the code calls illogical is
a value outside `CycleState`.  `CatchRun` runs any test function of sections, generators and assertions.
`RunTest`, `StartCycle`, `RunEnded`, `TestCaseEnded` and `SessionEnds` are `runTest`, `runCurrentTest` and
`TestGroup::execute`; `SectionStarted`, `SectionEnded`, `Generate`, `AssertionPasses` and `AssertionFails` are
what the function's macros call.  An exception unwinds one section at a time (`SectionEndedEarly`),
and a signal (`FatalErrorCondition`) ends the process.  `reporter` is the stack that the starts and ends told so far make.

### Generators in `CatchGenerators`

A generator is a record with the values it keeps and the generator `of` which it is made; `Get` and `Next`
follow the virtual functions, and a constructor that reads ahead (`FilterMade`, `ChunkMade`) does so when it is
made.  Integers are of `Width` bits.  `Denotes` is the sequence an expression stands for, written without `Get` or
`Next`.  Random numbers come from a list.

### Selection and command line in `CatchSelect` and `CatchCommandLine`

The spec parser is a record of the members of `TestSpecParser` and takes one character at a time
(`visitChar`); the line parser takes one word, or one short option of a bundle, at a time, and each option's
lambda is an operator on the configuration.  A word is a sequence of characters where the code looks into it.
`SelectsAsWritten` reads the same words by the documented grammar.

### Reports in `CatchXml`, `CatchReporters` and `CatchReports`

A reporter is a value: what it keeps and what it has printed, as far as that tells something.  `CatchReports`
is the part of `RunContext` that makes events: results with their messages, scoped and unscoped, sections that
end late, missing assertions, benchmarks, captured output, exceptions and fatal signals.  Which section a cycle enters is
`CatchRun`'s affair and free here.  Eight reporters are told of each event; `history` keeps what truly happened, and
the properties compare the two: each says what is right, and of what is not in which cases and how.
The totals of JUnit are numbers below `SizeModulus`, as a `size_t` is.

### Helpers in `CatchText`, `CatchEncode`, `CatchMatchers` and `CatchHelpers`

A `job` is one call on one input, `work` how far it has come.  The loops of the code are steps:
a row of columns, a byte encoded, a replacement, a character of `CAPTURE`'s text.  Matchers are records
that hold the matchers they point to, and an expression of `&&`, `||` and `!` is built as the overloads
build it, operands that are taken over included.  `MaxRows` bounds the rows
of a column that never ends.  Numbers are small integers with infinities and a NaN, or, for
ULPs, a sign and a magnitude whose largest values stand for infinity and the NaNs.

## Runs

| Run | Expected | Properties | What it shows |
|---|---|---|---|
| `AllocAny` | pass | `LedgerBalanced`, `SpentBalanced`, `TotalOnlyShrinks`, `RecordFollowsBlock` | whatever the C allocator and foreign code do, the books balance, a total limit never gives back, and a block keeps its own record on top, unless `realloc` has moved it |
| `AllocInPlace` | pass | `PeakCap`, `ImplementsContract` | if blocks do not move and all frees are seen, a peak limit caps the heap and the limiter implements the manual page |
| `AllocMoved` | violation | `PeakCap` | moved blocks let a program exceed a peak limit |
| `TestForks` | pass | `StatusTells`, `PrintedOnce`, `OutputKept`, `VerdictIsRight`, `RunTestEnds` | through forks, crashes and early exits, and without POSIX: which statuses and verdicts tell and which hide a failure, that nothing is printed twice, what the exit hook cuts off; a waiting `RUN_TEST` is released |
| `ProgramRuns` | pass | `DescriptorsKept`, `StreamsReachProgram`, `ResultIsTold`, `CheckEnds` | across two checks with failing system calls: which descriptors and streams there are, descriptor 0 after a failed `mkstemp` included; what is reported, and that it is never a pass; every check ends |
| `ReadersLines` | pass | `RoomForNext`, `NothingLeaks`, `AllOrNothing`, `ImplementsLineSource`, `CallEnds` | nothing is written outside a block, leaked or truncated in silence, and lines are those of the input |
| `CatchRuns` | pass | `NeverIllogical`, `NoneForgotten`, `NoneTwice`, `WellTold`, `ExitTells`, `NoStartAfterAbort`, `SessionEndsAtLast` | every path of a test runs once, through exceptions, aborts and section filters; the reporters are told nested ends, but for those an exception or a signal left; the session ends, unless `--section` has a generator wait for ever |
| `CatchExhausts` | violation | `ReadsOnlyValues` | a `GENERATE` behind two sections is read when its generator has no value left |
| `CatchGenerators` | pass | `YieldsAsDenoted` | generators and adaptors on one another yield what they denote |
| `CatchCommandLine` | pass | `SelectsAsWritten`, `NothingCarriedOver`, `ParsedAsWritten`, `ListsWhatRuns` | what runs, is listed and is configured is what was written |
| `CatchReports` | pass | `WellNested`, `ToldInPlace`, `MessagesInScope`, `CountsAgree` | what eight reporters write of the same session is well formed, in place and with the right messages, and which of their sums are right |
| `CatchHelpers` | pass | `Wrapped`, `TextKept`, `CapturesNamed`, `MatchesAsMeant` | the helpers keep texts and meanings, and exactly when they do not |

### Bounds

* Limiter: limits 3 and 5, requests 0, 1, 2, 4 and a `size_t` of 3 bits (0..7), so that
  a limit can be met exactly and passed by one, one or two blocks fit but not three, `calloc`
  overflows, and wrapping subtraction differs from subtraction.  Two addresses are
  enough for a block to move and for the old address to be used again; `AllocInPlace` has
  three, because there the contract is compared.  `MaxRecords` = 2 lets one address be
  recorded twice, which is the only way for a record to be hidden by another.  The four
  environments are: nothing set, a peak limit, a total limit that takes precedence over
  a peak limit, a value that cannot be read.  Addresses are symmetric.
* Test runtime: three processes allow a test inside a test, or two tests one after the
  other.  `StatusMod` = 3 tells the outcomes 0, 1 and 2 of a test apart, and the program and its first test make three
  checks or tests each, as many as there are statuses: that is the case of 256 failures, which read as none (10 and 11 become 1 and 2, still
  not 0).  The third process only prints, exits or dies.  One text is enough: a text goes its way alone.
* Program tests: eight descriptors are what a check needs beside the caller's three (four files and a
  duplicate); two checks let one suffer from the other; the codes are success, an error, and a reserved code.
* Readers: blocks of two characters and inputs of up to five over two letters and the newline: a block grows twice, a
  line or a file ends before, at and after a capacity, and lines are empty, adjacent or cut off by the end.
* `CatchRuns`: every test function of up to five instructions with two generators of two values and two assertions, whole,
  with `-x 1 -w NoAssertions`, and for each choice of one or two `--section`s, those with which a generator waits for ever
  included (without assertions: their number would grow for ever); and two test cases with each pair of tags.  Five instructions nest two sections or put a section after
  another under a generator.  Besides, two or three sections before a generator of one or two values, and before one around another, which
  exhaust it (alone in `CatchExhausts`).  Exit codes go to 3, less than the failures there can be.
* `CatchGenerators`: numbers of four bits, and up to three adaptors on lists of one to three values, on random numbers and on three ranges:
  ascending, descending past its end, and of one value.  No list is empty (the code's constructor has no value to read
  then), and no range comes near a limit of its type, where it goes on for ever (fourth disagreement of Catch).
* `CatchCommandLine`: words of up to four characters over those the parsers tell apart, up to two of them to an
  option or a spec, and lines made of every option in every way to give it a value.
* `CatchReports`: four steps of a test function with two section names in two cycles, one or two test cases with their tags, with and without
  `-s`, and a console of eight columns for the divider, less than the kinds of result times their counts.  `SizeModulus` = 16 is more than
  there are results, so that a difference that passes below zero is told from any number of failures.
* `CatchHelpers`: texts of up to seven characters of three kinds in columns of two, three and four with an indent of one, so that there is
  room for one character, two or three, up to ten rows; and the library's own layouts
  on a console of 18; every three bytes out of those at the edges of the encoding tables, with the controls, surrogates and noncharacters, and four-byte
  sequences; texts of five for TeamCity; up to three arguments of twelve shapes; expressions of up to three
  operators over fifteen matchers; numbers from -5 to 5 with infinities and NaN, every float of seven magnitudes and
  either sign.

Deadlock is not checked: a program may stop (its process has ended), and the bounds stop the models.

### Fairness

In `TestRuntime`: weak fairness of each process's own steps, `Step(p)`,
without the mishaps (`atexit` or `waitpid` failing, a signal), so that a `RUN_TEST` never ends
because something had to go wrong.  The kernel runs every runnable process, and a test function makes finitely many calls
(`MaxCount`, `MaxProcs`, each text once); a test that loops for ever is left out, and
`RUN_TEST` has no timeout for it.  In `ProgramTest`: weak fairness of the parent and of the child, again without
the mishaps; the program that is checked ends.  In `Readers`: weak fairness of `Reads`, the steps of a reader that was called,
for `getc` and `fread` answer; no caller has to call.  In `CatchRun`: weak fairness of `Goes`, everything but a signal: the code
between two calls of Catch terminates, nothing has to fail or to be raised.

## Proofs

TLC checks the instances above; the theorems hold for every finite set of addresses, every size of `size_t`,
every set of requests, limits and environments, every bound on records, every input and every capacity, every number
of processes, and every set of test functions whose sections nest.  The assumptions on the constants are
`SizeMaxAssumption`, `AllocAssumption`, `ReadersAssumption`, `TestAssumption`, `ExitAssumption` and
`SessionsAssumption` (the sections of a test function are scopes of a program), evaluated by TLC on the runs of their modules.

| Module | Theorem | States |
|---|---|---|
| `AllocLimitProofs` | `Invariance` | `[]IInv`, the inductive invariant |
| | `TypeCorrect` | `[]TypeOK`, on which the rest is built |
| | `LedgerAlwaysBalanced` | `[]LedgerBalanced`: bytes remaining + recorded sizes = limit |
| | `SpentAlwaysBalanced` | `[]SpentBalanced`: bytes remaining + bytes granted = limit |
| | `TotalNeverGrows` | `TotalOnlyShrinks`: a total limit never gives bytes back |
| | `PeakCapped` | `[]PeakCap` if `~ MayMove`: a peak limit caps the heap |
| `AllocContractProofs` | `ContractHolds` | `ImplementsContract` if `~ MayMove`, `~ ZeroFrees` and `~ ForeignFrees` |
| `ReadersProofs` | `NeverPastTheBlock` | `[]RoomForNext`: no reader writes outside its block |
| | `NeverLeaks` | `[]NothingLeaks`: each block and stream has one owner to the end |
| | `NeverInPart` | `[]AllOrNothing`: a file is answered whole or not at all |
| | `ReadsEachLine` | `ImplementsLineSource`: `fread_line` does what `read_line(3)` promises |
| `ProgramTestProofs` | `Invariance` | `[]IInv`: which file is on which descriptor, and the result so far, step by step |
| | `DescriptorsAlwaysKept` | `[]DescriptorsKept`: the same files are open after a check as before, or all but descriptor 0 once `mkstemp` has failed (Disagreement 7) |
| | `StreamsAlwaysReach` | `[]StreamsReachProgram`: the checked program has the streams and the input of its check, but the first stream exactly if its caller has it |
| | `ResultAlwaysTold` | `[]ResultIsTold`: a check reports that something was wrong exactly if it was, and never a pass |
| `TestRuntimeProofs` | `Invariance` | `[]IInv`: what a process may be doing, and in which buffers a text is |
| | `AlwaysPrintedOnce` | `[]PrintedOnce`: one summary per process, and no fork duplicates output |
| | `OutputAlwaysKept` | `OutputKept`: what of its output and trace a process loses when it exits, and that it loses nothing else |
| | `ToldInvariance` | `[]Told` if `StatusesApart`: what a process has seen is counted, and its status says so |
| | `StatusAlwaysTells` | `[]StatusTells` if `StatusesApart`: a zero status means that nothing failed or that it is hidden, and when it is hidden |
| | `VerdictAlwaysRight` | `VerdictIsRight` if `StatusesApart`: each test is counted once, as what it came to, unless it hides it |
| `CatchRunProofs` | `Invariance` | `[]IInv`: counts, trackers, sections and reporter |
| | `NeverAnIllogicalState` | `[]NeverIllogical`: `TrackerBase::close` is called only where it may be |
| | `AlwaysWellTold` | `WellTold`: what ends is what began last, except exactly after an exception that left several sections and a signal in one |
| | `NothingStartsAfterAbort` | `NoStartAfterAbort`: once aborting, no test case, cycle or section begins |
| | `ExitAlwaysTells` | `[]ExitTells`: the exit code is zero exactly if all was as it should be |
| `CatchPathsProofs` | `NothingForgotten` | `[]NoneForgotten`: when a test case is over, each innermost section has been run with each choice of values, but for exceptions around it and exhausted generators |
| | `NothingRunsTwice` | `NoneTwice`: none is entered twice with the same values |

**Sums.**  `Volume(f)`, the sum of a function with a finite domain, is a natural number; it splits over the domain
(`VolumeSplit`), changes by the difference when one entry changes (`VolumeUpdate`), is zero when every entry is
(`VolumeZero`), and does not shrink along an injection of entries (`VolumeInjection`).  It is defined by a cardinality
and not by recursion, so that none of these needs an induction.

**The balances.**  The inductive invariant is `IInv`: `TypeOK`, both balances, and `FreshStart` (before
initialisation nothing is counted or spent).  `TypeOK` is not inductive alone: that
`bytes_remaining` stays a `size_t` after `forget_allocation` adds a record's size rests
on the ledger, which says that the sum is at most the limit; and the ledger is
preserved because the code subtracts only what `alloc_limit_may_alloc` has tested
against the bytes remaining.  The argument runs on limiter values, not on states: a
limiter is `Balanced` when its records and its bytes remaining add up to its limit, and
one lemma per operation (`remember_allocation`, `forget_allocation`,
`alloc_limit_did_alloc`, `did_realloc`, ...) shows that a balanced limiter stays so.  Each
action then applies one of these operations to `Ensured`, which is balanced.
`TotalNeverGrows` follows from the balance: the bytes remaining are the limit less the
bytes granted, no call but a setter changes the limit, and none makes the bytes granted
fewer (`NextSpends`, one lemma per group of calls).

**The cap.**  `PeakCap` speaks of live blocks, the ledger of records, and foreign frees leave records behind
whose blocks are gone.  `NewestIsOwn` closes the gap: the newest record of a live block that counts
is its own size, whatever lies below.  That gives an injection of the charges into the records, and with
`VolumeInjection` and the balance `InUse <= Ledger <= limit`.  `NewestIsOwn` needs blocks that stay where they
are; the run `AllocMoved` shows that `PeakCap` fails without that.

**The contract.**  Where nothing is freed behind the limiter's back, `OwnRecords` holds besides: a block
that counts has one record, any other none.  Then records and charges have one sum (`OneSum`, by two
injections), so that the budget of the manual page is the bytes remaining (`BudgetsAgree`), and each action is a step of the
contract: `GrantMaps`, `RefuseMaps` and `ReleaseMaps` say it of the three things a call can do, `ExitStutters`
of a call that does not return.  `realloc(p, 0)` that frees `p` is excluded because it keeps the record.

**The readers.**  The invariant of `ReadersProofs` says where each reader's loop may be and that
end of file is only seen when nothing is left (`InPlace`); that what `fdread_all` has in its block, followed by what its stream still
holds, is the input (`InputKept`); and the three properties.  `InputKept` is what makes `AllOrNothing` inductive: the answer is
the whole input because the rest is empty by then.  `GetcReads`, `FreadTakes` and `BfreadKeeps` state what the helpers do to a stream, `CutInTwo`
that a sequence is its beginning and its end.

**The lines.**  The mapping of `ReadersImplement` reads the block and the stream as what is left of the text.
`LineInv` is what the steps need: there is no newline in the block so far, and `c` is `EOF` only over a stream
that failed or is exhausted.  One lemma per action: `CallMaps`, `EndOfLineMaps`, `OtherTurnMaps`, and `ElseStutters` for the file reader.

**Checks of a program.**  The invariant of `ProgramTestProofs` says which files are open where.  A temporary file takes the lowest
free descriptor, so that each has a place of its own, shifted once descriptor 0 is lost (`FilesInPlace`); which of them the
parent holds depends on the step it is at (`FilesOfStep`), for a call may fail at each of them; and the child has
those it has not moved yet and, on its streams, those it has; one that stood on its stream already is closed there
(`StreamsInPlace`).  `ResultSoFar` says of each step that the
result is bad exactly if something failed around the program or what has been compared so far differs.

**Test processes.**  `Processes` says what a process may be doing: its exit handler is registered exactly while tests are
enabled, its standard output is empty while a child runs its test, a child is another process than the one that
waits for it.  `TextsInPlace` follows a text: one printed to `stdout` is in one buffer or out, since every `fork` comes after a
flush; one that was traced stays in the buffer of the process that traced it, whatever copies its forks have, until that process ends.
A step that ends a process flushes, or is the hook's and cuts off what `OutputKept` says.
`Told` (`ToldInvariance`) follows a failure: what a process has seen is what its counters have grown by, test by test for those that run inside one
another without `LIBIPD_HAS_POSIX`, and the status of a child says what it counted or hides it; where it does, so may all the processes that wait
for it.  Its hypothesis `StatusesApart` asks that a status can hold the outcomes of a test and the exit codes; of the number of failures it
asks nothing, for the kernel keeps eight bits, so that 256 of them are none (Disagreement 4).

**Trackers.**  `CatchTrackerProofs` has what the operators of a context do, called as the code calls them.
`close` closes one tracker after the other until it comes to the one it is called on; that this keeps the
trackers in order is an induction on their number, which needs no induction rule with a predicate: a number that
failed first (`LeastNumber`) is a contradiction (`UpToInduction`).  Then `Tree`: each tracker is in the sections that
enclose its place, and all that comes before a section that has started is complete.  Then `InFunction`, what holds between two instructions: the active sections
are around what is current, and either all that was passed is complete, or the cycle is complete and no section that has started lies ahead
(`NoneAhead`).  The last is what makes `NeverIllogical` hold.  A section that an earlier cycle has left busy is open, so
that a function that came to it in a complete cycle would run it and close it out of turn; it does not, as the first section
that ends in a cycle is the one resumed.  `fail` and `close` in the order of `sectionEndedEarly` keep `Tree` as well (`LeavesEarly`).

**Sessions.**  `Counted` relates the counters of the run since the test case began to what the test case has seen, and those of the
group to the test cases that are over; a failure is known to the exit code only when the two meet, in `TestCaseEnded`.
`Tracking` places the trackers at each step of the runner, and adds that a session which is aborting is in a complete cycle:
a failed `CHECK` that lets the function go on has not reached the limit.  `Reporting` says what the reporter takes for begun: the run, the group,
the test case, its outermost section, the active sections, and those an exception has left, the innermost last to have begun.  `handleUnfinishedSections` ends
these the outermost first, so that their kinds agree and their names do not (Catch, Disagreement 3); and a signal ends one section
whatever was begun (Disagreement 2).  `WellTold` says that these are told so, and all else as it should be.

**What a test case runs.**  `CatchPathsProofs` follows a *choice*: a path of places with a value for each of its generators, as the
elements of `ToRun` are and the history `ran`.  No cycle knows what the others have run, and a generator that goes on
forgets all that was below it; what is left of them is in the states of the trackers and the values of the generators.  Two
readings of a context bring it back.  A choice is `Begun` when its section has started, or a generator on its path is past its value; what was
run stays begun (`RanBegun`), since the only steps that forget a section that has started move a generator around it on.  A section that is
entered is not complete, and an innermost one that is neither complete nor around what is current has not started (`LeavesRun`); so what it
is entered with has not been run, which is `NoneTwice`.  A choice is `Behind` when a section on its path is complete, or a generator is past its
value; what is behind is `Covered`: run, thrown away by an exception, or idle (`NoneLost`).  When the test case's own tracker is complete everything is behind, which is
`NoneForgotten`.

`NoneLost` is at stake where a tracker is closed.  `BehindBefore` says that a choice which is newly behind goes through the tracker
that completes, with its present values, so that one step of `close` needs this (`MayClose`): for each choice through that tracker which is not
covered there is a tracker of what comes next (`Due`), which is complete or has the generator wait for it (`AtFirst`).  `Due` rests on what the function comes by: for each
tracker around what is current, and the next thing in it before the present instruction, there is a tracker
(`ComesBy`); `PathFollows` and `SessionAsks` show that the paths of `ToRun` are made of such next things, and `AskedKept` that `--section` filters out none
of them.  What was opened after the cycle was complete was not followed by a section that could be entered (`LateOpened`): then all
sections below are not started and make the generator wait, or there is an exhausted generator among them, and the choice is idle.
An exception takes both away, as the function does not come to the rest: what it leaves fails, which keeps all that is
around from completing in this cycle (`Held`), unless it was thrown in no section, when all that completes is `left`.
`Following` says all this of each step of the runner, and is inductive together with `IInv`.

Model-checked only: liveness under fairness (`RunTestEnds`, `CheckEnds`, `CallEnds`, `SessionEndsAtLast`), which is out of
the prover's reach; and the other modules of Catch (generators, specs, command line,
reports, texts, matchers), most of which compute over sequences with recursive operators, which the prover does not handle.

## Disagreements between the code and what is said of it

Two have a run.  At `alloc_rt.c:340` a block that `realloc` moves keeps its record at the old address, so that a
peak limit is exceeded (`AllocMoved`).  And at `catch.hxx:6891` `generate` calls `get()` on the generator of a tracker that is complete, whose
`next()` was false, against the precondition of `get()` (H 6733): with two sections before a `GENERATE` the first cycle
uses up its last value and the second reads one more (`CatchExhausts`).  The others are in the models, where most
are stated by the property about them (its comment says in which cases, and the run reaches them) and the others excepted or
kept out by a bound, or were met while reading.  Named in brackets is what states one, or leaves it out.

libipd:

1. `alloc_rt.c:332`: `realloc(p, 0)` that frees `p` keeps its record and its charge (`ZeroFrees`).
2. `alloc_rt.c:148`: limits in KiB, MiB and GiB lose their high bits (`Scaled`).
3. `alloc_rt.c:287`: `calloc(0, n)` divides by zero (`CallocTraps`).
4. `test_rt.c:89`: the exit status is the number of failures, modulo 256 (`StatusTells`, `VerdictIsRight`).
5. `test_rt.c:450`: `exit(0)` while testing reports failed checks but not errors (`StatusTells`); the hook's `_exit` loses buffered
   output, and the trace if it was begun before the first check (`OutputKept`).
6. `test_rt.c:416`: a NULL expectation of `CHECK_STRING` aborts, where CHECK(3) has a failed test (`CheckStringNull`).
7. `program_test_rt.c:191`: the descriptor table starts as -1, 0, 0, 0, so that a failed `mkstemp` closes descriptor 0, and the programs of
   later checks have no standard input (`DescriptorsKept`, `StreamsReachProgram`).
8. `program_test_rt.c:190`: `passed` is never true, so that no passed check is logged (`ResultIsTold`).
9. `program_test_rt.c:121`: a failed `fclose` of a program's input is only a warning (excepted in `StreamsReachProgram`).
10. `program_test_rt.c:231`: a program's exit codes 250 to 252 are taken for the child's own failures (`ResultIsTold`).
11. `replace_tmpnam.c:18` lacks a `return`, so that a failed `mkstemp` is not told; `:49` allocates and copies a name without its terminator.

Catch:

1. A `GENERATE` after a `SECTION` reads its generator again when it is exhausted (`CatchExhausts`).  A generator around such a one goes
   on without running the sections that follow: the test whether it should wait for a child (C 4260) takes the
   exhausted generator for a child that has started (`Idle`).
2. A fatal signal inside a nested section ends the sections in an order that breaks the reporters' `assert`, leaves XML
   elements open, or aborts a cumulative reporter (`WellTold`; excepted in `WellNested`).
3. Sections left by an exception are ended outermost first, so that cumulative reporters swap their names (`WellTold`).
4. `repeat` keeps a value as often as it is read in the first pass, so that a filter around it, which reads a value twice, has
   it repeated; a range that ends near a limit of a narrow type wraps and goes on (not among the inputs of `CatchGenerators`).
5. `chunk(0, ...)` never ends.
6. A `--section` that excludes every section after a `GENERATE` repeats the test case for ever (`SessionEndsAtLast`).
7. A pattern of a test spec that ends in an escape is lost or carried over to the next; `--nothrow` without a spec runs
   tests tagged `[!throws]`; `splitStringRef` drops parts of one character.
8. Command line: a file of test names that is empty erases the last spec before it (C 2875), names from a line and a file run
   together without a comma, a second `-w` is refused (C 2856), `-x 0` aborts at once, `-x 2z` is accepted,
   unsigned options take negative numbers modulo their range, an empty word is skipped as a value, and a list whose specs are all
   invalid shows every visible test where a run has none.
9. Benchmarks: a `CHECK` while one is prepared puts XML attributes outside a tag, a `REQUIRE` that fails in one leaves
   `BenchmarkResults` open, and one that fails after it started misaligns the console's table.
10. Sums (`CountsAgree`): a `CHECK_NOFAIL` that throws makes JUnit's failures too few, or underflow (C 8245), an uncaught exception after a
    `CHECK_NOFAIL`, passed or failed, is told as suppressed and not counted, TAP's plan leaves out warnings and
    suppressed failures that it numbered and has one more for each missing assertion, and JUnit has
    failure elements of `[!mayfail]` tests that its sums leave out.
11. Places: TeamCity's header is out of date after a section ends, the compact reporter names no section, and for a warning it tells the first
    `INFO` where a comment says that it is ignored (C 7270).
12. Messages: an `INFO` is lost when a section ends, and one left by an exception that the test catches stays (`MessagesInScope`).
13. Columns: one with room for a single character goes on for ever or loses text (`Wrapped`); a header with ": " at column 77 or later fails
    an `assert` (at 76 it does not end); text after an empty line loses its indentation, and a line of blanks before an empty line loses that line; a
    word broken after several blanks has its hyphen there.
14. XML (`TextKept`): "]]>" at the very start is not escaped (C 6187 tests `idx > 2`), the control characters 0x0B and 0x0C, the surrogates, U+FFFE and U+FFFF pass, and so
    does the overlong F0 80 A0 80 (C 6251).
15. `CAPTURE` takes the commas between template arguments for its own and a digit separator for the beginning of a character literal.
16. Matchers (the first three in `MatchesAsMeant`): `Contains` refuses a comparator longer than the vector, where its documentation asks for the elements only (H 10103 and 10213);
    `WithinULP` describes a range that crosses zero and refuses values of the other sign (C 6468); `WithinRel(inf, 0)` refuses infinity; the vector's
    `Approx` takes its margin relative to the element that is tested (H 10162); `setEpsilon` says "0 < epsilon < 1" and takes both ends (H 3486).

## What is not modelled

* Characters of the environment variables (their scan is represented by its outcome), of checks and of output; `strtoul` saturating is part of the outcome.
* Threads and signal handlers calling the wrappers: the library has plain statics and promises nothing of them.
* The heap used by list nodes: it counts against no limit and only matters when it runs out.
* After a process ends inside a call its memory is not looked at.
* What a checked program leaves running, and the wording of the child's error message.
* The arm of `CheckCode` that logs a pass is there as in the code, and never taken.
* The tracer's wording, `has_run_tests` (a word in the summary), colours.
* Of Catch: the clocks and statistics of benchmarks (their events are modelled), making strings of values, registration of tests at
  start-up, colours, stream redirection, platforms other than POSIX, the `Regex` matcher, the ordering operators of `Approx`.
* Temporary names (`replace_tmpnam.c`): the two slips are told above; the rest is the file system's.
* Literals and `eprintf`: wording.  CMake helpers and scripts: build configuration.  Example tests: uses of the library.

## Plan

In order of what matters most to a user of the libraries:

1. Proofs about `CatchReports`: `WellNested` and `CountsAgree` for every sequence of events, with its reporters written without recursion.
2. The composition of `ProgramTest` with the counters of `TestRuntime`, and a caller that starts with closed standard streams.
3. A module for temporary names: `mkstemp` failing, `tempnam` falling back, the static buffer used again.
