------------------------------ MODULE CatchRun ------------------------------
(***************************************************************************)
(* A session of Catch (lib/catch): TestGroup runs the test cases one by    *)
(* one, RunContext runs a test function again and again until its trackers *)
(* are complete, counts its assertions, tells the reporter and, when the   *)
(* function leaves by an exception, ends its sections afterwards.          *)
(*                                                                         *)
(* A test function is a sequence of instructions: a SECTION begins and     *)
(* ends, a GENERATE is read, an assertion is evaluated.  What an assertion *)
(* comes to is arbitrary, and so is where an exception or a signal is      *)
(* raised.  The function itself does not catch what leaves a section.      *)
(***************************************************************************)
EXTENDS Integers, CatchTracker

CONSTANTS
  Sessions,     \* the sessions that may be run: records like a Session
  MaxExitCode   \* the largest exit code used (255)

ASSUME ExitAssumption == MaxExitCode \in Nat \ {0}

VARIABLES
  session,    \* the tests and options of this run
  mode,       \* what the runner is doing
  test,       \* the test case that is run, or the last that was
  pc,         \* the next instruction of its test function
  ctx,        \* m_trackerContext
  active,     \* m_activeSections: the sections the function is in
  unfinished, \* m_unfinishedSections: those an exception has left
  exception,  \* the exception that has left the function, if any
  totals,     \* m_totals of the RunContext
  before,     \* prevTotals of the test case, prevAssertions of the cycle
  group,      \* totals of TestGroup::execute
  reporter,   \* what the reporter has been told has begun, and how it ended
  exitCode,   \* what the session returned, or None
  ran,        \* history: the sections and values the test case has run
  left,       \* history: the sections and values an exception was thrown in
  saw         \* history: the tests that saw a failure, a lack of assertions

vars == <<session, mode, test, pc, ctx, active, unfinished, exception, totals,
          before, group, reporter, exitCode, ran, left, saw>>

None == -1

Counts == [passed : Nat, failed : Nat, failedButOk : Nat]
Totals == [assertions : Counts, testCases : Counts]

(* The test functions and the tags of the test cases; how many values a    *)
(* GENERATE has; --section, --abortx and --warn; and whether a test spec   *)
(* was given that matches nothing.                                         *)
Session == [code : Seq(Seq({"section", "end", "generate", "check"})),
            tag : Seq({"none", "mayfail", "shouldfail"}),
            values : Nat \ {0}, sections : Seq(Nat), abortAfter : Nat \ {0},
            warn : SUBSET {"NoAssertions", "NoTests"}, noMatch : BOOLEAN]

Zero == [passed |-> 0, failed |-> 0, failedButOk |-> 0]

Plus(a, b)  == [k \in DOMAIN a |-> a[k] + b[k]]
Minus(a, b) == [k \in DOMAIN a |-> a[k] - b[k]]
Total(a)    == a.passed + a.failed + a.failedButOk

Code == session.code[test]
Tag  == session.tag[test]

(* The end of the section that begins at k: the first place at which as    *)
(* many sections have ended as begun.                                      *)
Count(code, from, to, what) == Cardinality({i \in from .. to : code[i] = what})

EndOf(code, k) ==
  CHOOSE e \in k .. Len(code) :
    \A d \in k .. e : (Count(code, k, d, "section") = Count(code, k, d, "end")) <=> d = e

(* The sections of a function nest, as the blocks of a program do: each    *)
(* has an end of its own, and one that begins in another ends before it.   *)
Nested(code) ==
  LET sections == {k \in DOMAIN code : code[k] = "section"}
      ends     == {e \in DOMAIN code : code[e] = "end"}
  IN  /\ \A k \in sections : EndOf(code, k) \in ends /\ EndOf(code, k) > k
      /\ \A e \in ends : \E k \in sections : EndOf(code, k) = e
      /\ \A j, k \in sections :
           j < k /\ k <= EndOf(code, j) => EndOf(code, k) < EndOf(code, j)

ASSUME SessionsAssumption ==
  \A s \in Sessions :
    s \in Session /\ Len(s.tag) = Len(s.code) /\ \A i \in DOMAIN s.code : Nested(s.code[i])

(* The test case is its outermost section, at a place of its own.          *)
TestCase == <<0>>

aborting == totals.assertions.failed >= session.abortAfter

-----------------------------------------------------------------------------
(* What the reporter is told: that an element starts, that some end.       *)
Run         == [what |-> "run", at |-> 0]
Group       == [what |-> "group", at |-> 0]
Test        == [what |-> "test_case", at |-> 0]
Section(at) == [what |-> "section", at |-> at]

Starts(element) == reporter' = [reporter EXCEPT !.open = Append(@, element)]

(* The reporters keep a stack and take off the last for each that ends:    *)
(* whether it has always been of that kind, as they assert, and whether it *)
(* was that one for each of those that end now.                            *)
Ends(elements) ==
  LET begun   == Len(reporter.open)
      last(i) == reporter.open[begun + 1 - i]
      ended   == 1 .. Len(elements)
      enough  == Len(elements) <= begun
  IN  reporter' =
        [open    |-> SubSeq(reporter.open, 1, begun - Len(elements)),
         asserts |-> reporter.asserts /\ enough /\ \A i \in ended : last(i).what = elements[i].what,
         ordered |-> enough /\ \A i \in ended : last(i) = elements[i]]

NothingTold == UNCHANGED reporter

(* A tracker's path with the values of its generators; and the innermost   *)
(* section, or all of the test case up to here, as the place of a throw.   *)
Valued(c, t) ==
  [i \in 1 .. Len(t) |->
     LET u == SubSeq(t, 1, i)
     IN  <<t[i], IF isGeneratorTracker(c, u) THEN c.generator[u].at ELSE 0>>]

Here == IF active = <<>> THEN ctx.current ELSE Last(active).tracker

(* assertionEnded, for a result that is not ok.                            *)
Failure(a) ==
  IF Tag = "none" THEN [a EXCEPT !.failed = @ + 1] ELSE [a EXCEPT !.failedButOk = @ + 1]

(* testForMissingAssertions, with a the assertions counted meanwhile: how  *)
(* many failures it adds.                                                  *)
Missing(c, a) ==
  IF "NoAssertions" \in session.warn /\ Total(a) = 0 /\ Children(c, c.current) = {}
  THEN 1 ELSE 0

Seen(failures, what) == IF failures > 0 THEN saw \cup {<<test, what>>} ELSE saw

-----------------------------------------------------------------------------
Init ==
  /\ session \in Sessions
  /\ mode = "group"
  /\ test = 0
  /\ pc = 1
  /\ ctx = startRun(<<>>)
  /\ active = <<>> /\ unfinished = <<>>
  /\ exception = "none"
  /\ totals = [assertions |-> Zero, testCases |-> Zero]
  /\ before = [test |-> totals, cycle |-> Zero]
  /\ group = totals
  /\ reporter = [open |-> <<Run, Group>>, asserts |-> TRUE, ordered |-> TRUE]
  /\ exitCode = None
  /\ ran = {} /\ left = {} /\ saw = {}

(* execute() comes to the next test case: runTest.                         *)
RunTest ==
  /\ mode = "group"
  /\ test < Len(session.code)
  /\ ~ aborting
  /\ mode' = "cycle"
  /\ test' = test + 1
  /\ ctx' = startRun(session.sections)
  /\ before' = [before EXCEPT !.test = totals]
  /\ Starts(Test)
  /\ ran' = {} /\ left' = {}
  /\ UNCHANGED <<session, pc, active, unfinished, exception, totals, group, exitCode, saw>>

(* execute(), once aborting: the test cases left over are skipped.         *)
SkipTests ==
  /\ mode = "group"
  /\ test < Len(session.code)
  /\ aborting
  /\ test' = Len(session.code)
  /\ UNCHANGED <<session, mode, pc, ctx, active, unfinished, exception, totals, before,
                 group, reporter, exitCode, ran, left, saw>>

(* runCurrentTest, up to the call of the test function.                    *)
StartCycle ==
  /\ mode = "cycle"
  /\ mode' = "function"
  /\ pc' = 1
  /\ ctx' = acquireSection(startCycle(ctx), Last(TestCase))
  /\ before' = [before EXCEPT !.cycle = totals.assertions]
  /\ Starts(Section(Last(TestCase)))
  /\ UNCHANGED <<session, test, active, unfinished, exception, totals, group, exitCode,
                 ran, left, saw>>

At(instruction) ==
  /\ mode = "function"
  /\ pc <= Len(Code)
  /\ Code[pc] = instruction
  /\ UNCHANGED <<session, test, before, group, exitCode>>

(* Section's constructor: sectionStarted.                                  *)
SectionStarted ==
  /\ At("section")
  /\ LET t == Append(ctx.current, pc)
     IN  /\ ctx' = acquireSection(ctx, pc)
         /\ \/ /\ isOpen(ctx', t)
               /\ active' = Append(active, [tracker |-> t, prevAssertions |-> totals.assertions])
               /\ pc' = pc + 1
               /\ Starts(Section(pc))
               /\ ran' = ran \cup {Valued(ctx', t)}
            \/ /\ ~ isOpen(ctx', t)
               /\ pc' = EndOf(Code, pc) + 1
               /\ NothingTold
               /\ UNCHANGED <<active, ran>>
  /\ UNCHANGED <<mode, unfinished, exception, totals, left, saw>>

(* Section's destructor, at the end of its body: sectionEnded.             *)
SectionEnded ==
  /\ At("end")
  /\ LET s == Last(active)
         m == Missing(ctx, Minus(totals.assertions, s.prevAssertions))
     IN  /\ totals' = [totals EXCEPT !.assertions.failed = @ + m]
         /\ saw' = Seen(m, "no_assertions")
         /\ ctx' = close(ctx, s.tracker)
         /\ Ends(<<Section(Last(s.tracker))>>)
  /\ active' = Front(active)
  /\ pc' = pc + 1
  /\ UNCHANGED <<mode, unfinished, exception, ran, left>>

(* GENERATE: acquireGeneratorTracker, and the value of its generator.      *)
Generate ==
  /\ At("generate")
  /\ ctx' = acquireGenerator(ctx, pc, session.values)
  /\ ran' = ran \cup {Valued(ctx', GeneratorAt(ctx, pc))}
  /\ pc' = pc + 1
  /\ NothingTold
  /\ UNCHANGED <<mode, active, unfinished, exception, totals, left, saw>>

(* An assertion that is evaluated, or suppressed as a CHECK_NOFAIL, and    *)
(* lets the test function go on.                                           *)
AssertionPasses(counted) ==
  /\ At("check")
  /\ totals' = [totals EXCEPT !.assertions.passed = @ + (IF counted THEN 1 ELSE 0)]
  /\ pc' = pc + 1
  /\ NothingTold
  /\ UNCHANGED <<mode, ctx, active, unfinished, exception, ran, left, saw>>

Throws(what) ==
  /\ mode' = "unwinding"
  /\ exception' = what
  /\ left' = left \cup {Valued(ctx, Here)}
  /\ UNCHANGED pc

(* Faulty variant of the next definition: only a REQUIRE throws.           *)
ShouldThrowRequired(required, a) == required

(* populateReaction.                                                       *)
shouldThrow(required, a) == required \/ a.failed >= session.abortAfter

(* An assertion that fails: a REQUIRE leaves the test function, a CHECK    *)
(* only when aborting.                                                     *)
AssertionFails(required) ==
  /\ At("check")
  /\ totals' = [totals EXCEPT !.assertions = Failure(@)]
  /\ saw' = Seen(1, "failure")
  /\ IF shouldThrow(required, totals'.assertions)
     THEN Throws("TestFailureException")
     ELSE pc' = pc + 1 /\ UNCHANGED <<mode, exception, left>>
  /\ NothingTold
  /\ UNCHANGED <<ctx, active, unfinished, ran>>

(* The code under test throws where no assertion catches it.               *)
CodeThrows ==
  /\ At("check")
  /\ Throws("unexpected")
  /\ NothingTold
  /\ UNCHANGED <<ctx, active, unfinished, totals, ran, saw>>

(* The tracker of a section that an exception leaves: the innermost fails. *)
LeftEarly(c, t) == IF unfinished = <<>> THEN fail(c, t) ELSE close(c, t)

(* Section's destructor, as the exception passes: sectionEndedEarly.       *)
SectionEndedEarly ==
  /\ mode = "unwinding"
  /\ active # <<>>
  /\ ctx' = LeftEarly(ctx, Last(active).tracker)
  /\ unfinished' = Append(unfinished, Last(active))
  /\ active' = Front(active)
  /\ UNCHANGED <<session, mode, test, pc, exception, totals, before, group, reporter,
                 exitCode, ran, left, saw>>

(* Faulty variant of the next definition: one section is left out.         *)
ButOne(s) == IF s = <<>> THEN s ELSE Front(Reverse(s))

(* handleUnfinishedSections goes from the last that was left, which is the *)
(* outermost, to the first.                                                *)
Backwards(s) == Reverse(s)

(* runCurrentTest, after the test function: the exception is reported, the *)
(* test case's tracker is closed and the sections left early are ended.    *)
RunEnded ==
  /\ \/ mode = "function" /\ pc > Len(Code)
     \/ mode = "unwinding" /\ active = <<>>
  /\ UNCHANGED <<session, test, pc, active, before, group, exitCode, ran, left>>
  /\ LET a == IF exception = "unexpected" THEN Failure(totals.assertions) ELSE totals.assertions
         m == Missing(ctx, Minus(a, before.cycle))
     IN  /\ totals' = [totals EXCEPT !.assertions = [a EXCEPT !.failed = @ + m]]
         /\ saw' = saw \cup Seen(m, "no_assertions")
                        \cup Seen(IF exception = "unexpected" THEN 1 ELSE 0, "failure")
  /\ ctx' = close(ctx, TestCase)
  /\ LET ended == Backwards(unfinished)
     IN  Ends([i \in DOMAIN ended |-> Section(Last(ended[i].tracker))]
                \o <<Section(Last(TestCase))>>)
  /\ unfinished' = <<>>
  /\ exception' = "none"
  /\ mode' = IF isSuccessfullyCompleted(ctx', TestCase) \/ aborting' THEN "test_over" ELSE "cycle"

(* Totals::delta: the test case is counted by the worst it has seen.       *)
Kind(a) == CASE a.failed > 0 -> "failed"
             [] a.failed = 0 /\ a.failedButOk > 0 -> "failedButOk"
             [] OTHER -> "passed"

Delta(now, then) ==
  LET a == Minus(now.assertions, then.assertions)
  IN  [assertions |-> a, testCases |-> [Zero EXCEPT ![Kind(a)] = 1]]

(* Faulty variant of the next definition: a test that should fail may pass. *)
AsItIs(d) == d

(* A test case that should fail and has not is a failure of the session.   *)
Expected(d) ==
  IF Tag = "shouldfail" /\ d.testCases.passed > 0
  THEN [assertions |-> [d.assertions EXCEPT !.failed = @ + 1],
        testCases |-> [Zero EXCEPT !.failed = 1]]
  ELSE d

(* runTest returns to execute().                                           *)
TestCaseEnded ==
  /\ mode = "test_over"
  /\ mode' = "group"
  /\ LET d == Expected(Delta(totals, before.test))
     IN  /\ totals' = [totals EXCEPT !.testCases = Plus(@, d.testCases)]
         /\ group' = [assertions |-> Plus(group.assertions, d.assertions),
                      testCases |-> Plus(group.testCases, d.testCases)]
  /\ Ends(<<Test>>)
  /\ UNCHANGED <<session, test, pc, ctx, active, unfinished, exception, before, exitCode,
                 ran, left, saw>>

Clamped(n) == IF n < MaxExitCode THEN n ELSE MaxExitCode

(* execute() returns, runInternal returns the exit code, and the end of    *)
(* the RunContext ends the run.                                            *)
SessionEnds ==
  /\ mode = "group"
  /\ test = Len(session.code)
  /\ mode' = "over"
  /\ exitCode' = IF "NoTests" \in session.warn /\ session.noMatch THEN 2
                 ELSE Clamped(group.assertions.failed)
  /\ Ends(<<Group, Run>>)
  /\ UNCHANGED <<session, test, pc, ctx, active, unfinished, exception, totals, before,
                 group, ran, left, saw>>

(* A signal in the test function: handleFatalErrorCondition tells of the   *)
(* end of one section, and of all the rest, and the signal is raised anew. *)
(* No section has been left early while the function runs.                 *)
FatalErrorCondition ==
  /\ mode = "function"
  /\ mode' = "dead"
  /\ totals' = [assertions |-> Failure(totals.assertions),
                testCases |-> [totals.testCases EXCEPT !.failed = @ + 1]]
  /\ saw' = Seen(1, "failure")
  /\ Ends(<<Section(Last(TestCase)), Test, Group, Run>>)
  /\ UNCHANGED <<session, test, pc, ctx, active, unfinished, exception, before, group,
                 exitCode, ran, left>>

Goes ==
  \/ RunTest \/ SkipTests \/ StartCycle
  \/ SectionStarted \/ SectionEnded \/ Generate
  \/ \E counted \in BOOLEAN : AssertionPasses(counted)
  \/ \E required \in BOOLEAN : AssertionFails(required)
  \/ CodeThrows
  \/ SectionEndedEarly
  \/ RunEnded \/ TestCaseEnded \/ SessionEnds

Next == Goes \/ FatalErrorCondition

(* The program runs on: the code between two calls of Catch terminates.    *)
Spec == Init /\ [][Next]_vars /\ WF_vars(Goes)

-----------------------------------------------------------------------------
(***************************************************************************)
(* "Illogical state": a tracker is only closed while it is open, and is    *)
(* current then or around the current one.                                 *)
(***************************************************************************)
NeverIllogical == \A t \in DOMAIN ctx.state : ctx.state[t] \in CycleState

(* The sections and generators around place k, itself included: a section  *)
(* is around what it encloses, a generator around what follows it there.   *)
Encloses(code, j, k) ==
  CASE code[j] = "section"  -> j <= k /\ k <= EndOf(code, j)
    [] code[j] = "generate" ->
         j <= k /\ \A i \in 1 .. j - 1 :
           code[i] = "section" /\ j <= EndOf(code, i) => k <= EndOf(code, i)
    [] OTHER -> FALSE

Around(code, k) == {j \in 1 .. k : Encloses(code, j, k)}

Leaf(code, k) ==
  /\ code[k] \in {"section", "generate"}
  /\ \A j \in k + 1 .. Len(code) : k \notin Around(code, j) \/ code[j] \in {"end", "check"}

(* What a test case is to run: each innermost section or generator with    *)
(* every choice of values for the generators around it, if it is one of    *)
(* the sections that were asked for, level by level.                       *)
Increasing(s) == \A i, j \in DOMAIN s : i < j => s[i] < s[j]

PathTo(code, k) ==
  LET places == {0} \cup Around(code, k)
  IN  CHOOSE s \in [1 .. Cardinality(places) -> places] : Increasing(s)

Depth(code, path, i) == Cardinality({j \in 2 .. i : code[path[j]] = "section"})

Asked(code, path, asked) ==
  \A i \in 2 .. Len(path) :
    code[path[i]] = "section" /\ Depth(code, path, i) \in DOMAIN asked =>
      path[i] = asked[Depth(code, path, i)]

ToRun(code) ==
  UNION {LET path == PathTo(code, k)
             choices == {f \in [DOMAIN path -> 0 .. session.values] :
                           \A i \in DOMAIN path : f[i] = 0 <=> path[i] = 0 \/ code[path[i]] = "section"}
         IN  IF Asked(code, path, session.sections) THEN {[i \in DOMAIN path |-> <<path[i], f[i]>>] : f \in choices} ELSE {}
         : k \in {k \in DOMAIN code : Leaf(code, k)}}

(***************************************************************************)
(* A GENERATE reads a value that its generator has: get() is not called    *)
(* once next() was false.                                                  *)
(***************************************************************************)
Exhausted(q) == Last(q)[2] > session.values

ReadsOnlyValues == \A q \in ran : ~ Exhausted(q)

(* Values that a generator goes through with nothing run for them: all     *)
(* there is after it is a generator that is read when it has none left.    *)
Idle(leaf) ==
  \E q \in ran : /\ Exhausted(q)
                 /\ Last(Front(q))[2] > 0
                 /\ IsPrefix(Front(q), leaf)

(***************************************************************************)
(* No part of a test case is forgotten: when it is over, and the session   *)
(* is not aborting, each innermost section has been run with each choice   *)
(* of values, unless an exception was thrown by the code around it, or     *)
(* generators were read that had no value left.                            *)
(***************************************************************************)
NoneForgotten ==
  mode = "test_over" /\ ~ aborting =>
    \A leaf \in ToRun(Code) :
      leaf \in ran \/ (\E t \in left : IsPrefix(t, leaf)) \/ Idle(leaf)

(***************************************************************************)
(* None is run twice: whatever the cycles, failures and exceptions, an     *)
(* innermost section is entered once with the same values.                 *)
(***************************************************************************)
NoneTwice ==
  [][ Len(active') > Len(active) /\ Leaf(Code, pc) => ran' # ran ]_vars

(***************************************************************************)
(* The reporters are told of the ends of all that has begun, each when it  *)
(* was the last to begin.  What the code tells otherwise, it always does:  *)
(* the ends of two sections or more that one exception has left are told   *)
(* from the outermost in; and a signal in a section is told as the end of  *)
(* the test case's own section and of the test case, with which the        *)
(* reporters' assertion on the stack of sections fails, and only then.     *)
(***************************************************************************)
InSection == mode = "dead" /\ active # <<>>

WellTold ==
  /\ [](mode = "over" => reporter.open = <<>>)
  /\ [](~ reporter.asserts <=> InSection)
  /\ [][ Len(reporter'.open) < Len(reporter.open) =>
           (~ reporter'.ordered <=> Len(unfinished) > 1 \/ InSection') ]_vars

(***************************************************************************)
(* The exit code tells: it is zero only if no test that was run has gone   *)
(* against its tag or lacked assertions it was asked to have, all of them  *)
(* were run, and no test was missing that it was asked to miss.            *)
(***************************************************************************)
AsTagged(i) ==
  /\ <<i, "no_assertions">> \notin saw
  /\ session.tag[i] = "none" => <<i, "failure">> \notin saw
  /\ session.tag[i] = "shouldfail" => <<i, "failure">> \in saw

ExitTells ==
  mode = "over" =>
    (exitCode = 0 <=> /\ \A i \in DOMAIN session.code : AsTagged(i)
                      /\ ~ ("NoTests" \in session.warn /\ session.noMatch))

(***************************************************************************)
(* Once as many assertions have failed as the session was to stop at, no   *)
(* test case, cycle or section begins.                                     *)
(***************************************************************************)
NoStartAfterAbort ==
  [][ aborting => Len(reporter'.open) <= Len(reporter.open) ]_vars

(***************************************************************************)
(* The session ends, except when --section leaves a generator that is      *)
(* reached with nothing after it but sections that are not entered: it     *)
(* waits for one of them to be started, the test function is run again for *)
(* ever, and only a signal ends the session.  Entering are the sections    *)
(* that were asked for at their own level or at a deeper one.              *)
(***************************************************************************)
Entering(code, asked, k) ==
  LET path     == PathTo(code, k)
      level(i) == Depth(code, path, i)
  IN  \A i \in 2 .. Len(path) :
        code[path[i]] = "section" /\ level(i) <= Len(asked) =>
          path[i] \in ToSet(SubSeq(asked, level(i), Len(asked)))

After(code, g) ==
  {k \in g + 1 .. Len(code) : /\ code[k] \in {"section", "generate"}
                              /\ Front(PathTo(code, k)) = PathTo(code, g)}

NeverAsked(code, asked, g) ==
  /\ code[g] = "generate" /\ Entering(code, asked, g)
  /\ After(code, g) # {}
  /\ \A k \in After(code, g) : code[k] = "section" /\ ~ Entering(code, asked, k)

Stuck(s) == \E i \in DOMAIN s.code : \E g \in DOMAIN s.code[i] : NeverAsked(s.code[i], s.sections, g)

SessionEndsAtLast ==
  /\ ~ Stuck(session) => <>(mode \in {"over", "dead"})
  /\ Stuck(session) => [](mode # "over")
=============================================================================
