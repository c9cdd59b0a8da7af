----------------------------- MODULE CatchReports -----------------------------
(***************************************************************************)
(* What the reporters of Catch make of a session: RunContext with its      *)
(* assertions and messages, a test function that does anything a test can, *)
(* and each reporter told of every event.  A program has one reporter, and *)
(* listeners; the reporters here stand for as many programs that run the   *)
(* same tests.  Which sections a cycle enters is CatchRun's; here a test   *)
(* function enters any it has not completed.                               *)
(***************************************************************************)
EXTENDS CatchReporters

CONSTANTS
  Configs,      \* the sessions: records like a Config
  SectionNames  \* names of sections; those of test cases are their numbers

VARIABLES
  mode,      \* what the runner is doing
  test,      \* the test case that is run
  cycle,     \* how often its function has been called
  steps,     \* what the test functions have done so far
  context,   \* the RunContext
  function,  \* the test function: what it has declared, entered and printed
  reporters, \* the reporters, by name
  history    \* what has happened

vars == <<config, mode, test, cycle, steps, context, function, reporters, history>>

(* The tags of the test cases; which reporters are told of; -s, -w and -x; *)
(* how much the functions do; and the test cases counted before.           *)
Config == [tests : Seq({"none", "mayfail", "shouldfail"}), all : BOOLEAN, success : BOOLEAN,
           warn : BOOLEAN, abortAfter : Nat \ {0}, steps : Nat, cycles : Nat,
           earlier : [passed : Nat, failed : Nat, failedButOk : Nat]]

Zero == [passed |-> 0, failed |-> 0, failedButOk |-> 0]

Plus(a, b)  == [k \in DOMAIN a |-> a[k] + b[k]]
Minus(a, b) == [k \in DOMAIN a |-> a[k] - b[k]]

okToFail(t) == config.tests[t] # "none"

m_includeSuccessfulResults == config.success \/ config.all

aborting(c) == c.totals.assertions.failed >= config.abortAfter

(* Where the function is: the test case and the sections around.           *)
Path == <<test>> \o [i \in DOMAIN context.active |-> context.active[i].name]

(* A result: its type, disposition, and whether it has an expression.      *)
Result(type, suppress, expr) ==
  [id |-> Len(history.happened) + 1, type |-> type, suppress |-> suppress, expr |-> expr]

HasText(type) == type \in {"ThrewException", "FatalErrorCondition", "ExplicitFailure", "Warning"}

-----------------------------------------------------------------------------
(* AssertionStats: the messages, and the result's own after them.          *)
AssertionStats(c, result) ==
  [event |-> "assertionEnded", result |-> result,
   messages |-> IF HasText(result.type) THEN Append(c.messages, [id |-> 0, type |-> result.type])
                ELSE c.messages]

SectionStats(name, missing) == [event |-> "sectionEnded", name |-> name, missing |-> missing]

SectionInfo(name) == [event |-> "sectionStarting", name |-> name]

Tells(events) ==
  reporters' = [k \in DOMAIN reporters |->
                  FoldLeft(LAMBDA r, e : Hears(k, r, e), reporters[k], events)]

Counted(a, result) ==
  CASE result.type = "Ok" -> [a EXCEPT !.passed = @ + 1]
    [] ~ isOk(result) /\ okToFail(test) -> [a EXCEPT !.failedButOk = @ + 1]
    [] ~ isOk(result) /\ ~ okToFail(test) -> [a EXCEPT !.failed = @ + 1]
    [] OTHER -> a

(* m_messageScopes.clear(): the unscoped messages go.                      *)
ClearScopes(c) ==
  [c EXCEPT !.messages = SelectSeq(@, LAMBDA m : m.id \notin c.messageScopes),
            !.messageScopes = {}]

(* Faulty variant of the next definition: a warning takes them, too.       *)
ClearsAlways(c, result) == ClearScopes(c)

ClearedAfter(c, result) == IF result.type = "Warning" THEN c ELSE ClearScopes(c)

(* assertionEnded, and resetAssertionInfo.                                 *)
assertionEnded(c, result) ==
  ClearedAfter([c EXCEPT !.totals.assertions = Counted(@, result),
                         !.lastAssertionInfo = [suppress |-> result.suppress, expr |-> TRUE]],
               result)

(* assertionPassed: nobody is told.                                        *)
assertionPassed(c) ==
  ClearScopes([c EXCEPT !.totals.assertions.passed = @ + 1, !.lastAssertionInfo.expr = TRUE])

(* A result as it happened: where, with which messages to be told, and     *)
(* whether it is that of a CHECK_NOFAIL, of another assertion, or of no    *)
(* assertion, uncaught.                                                    *)
Witnessed(result, by) ==
  LET scoped == {function.scope[i].id : i \in DOMAIN function.scope} \cup history.unscoped
  IN  [result |-> result, by |-> by, test |-> test, cycle |-> cycle, place |-> Path, stale |-> history.stale,
       messages |-> (scoped \cap history.recent) \cup history.leftBehind]

Happens(h, result, by) ==
  [h EXCEPT !.happened = Append(@, Witnessed(result, by)),
            !.unscoped = IF result.type = "Warning" THEN @ ELSE {}]

-----------------------------------------------------------------------------
NewFunction == [scope |-> <<>>, completed |-> {}, entered |-> {}, completedCycle |-> FALSE,
                benchmark |-> "none", out |-> 0]

NewInfo == [suppress |-> FALSE, expr |-> FALSE]

Init ==
  /\ config \in Configs
  /\ mode = "group" /\ test = 0 /\ cycle = 0 /\ steps = 0
  /\ context = [totals |-> [assertions |-> Zero, testCases |-> config.earlier],
                group |-> [assertions |-> Zero, testCases |-> config.earlier],
                prevTotals |-> Zero, prevAssertions |-> Zero,
                active |-> <<>>, messages |-> <<>>, messageScopes |-> {},
                lastAssertionInfo |-> NewInfo]
  /\ function = NewFunction
  /\ reporters = [k \in IF config.all THEN AllReporters ELSE AllReporters \ ReportAllAssertions |->
                    FoldLeft(LAMBDA r, e : Hears(k, r, e), Created(k),
                             <<[event |-> "testRunStarting"], [event |-> "testGroupStarting"]>>)]
  /\ history = [happened |-> <<>>, stale |-> FALSE, unscoped |-> {}, leftBehind |-> {},
                recent |-> {}, messages |-> 0, missing |-> {}, extra |-> {}, faults |-> {},
                printed |-> {}]

(* runTest, and the first call of runCurrentTest.                          *)
RunTest ==
  /\ mode = "group"
  /\ test < Len(config.tests)
  /\ ~ aborting(context)
  /\ mode' = "cycle" /\ test' = test + 1 /\ cycle' = 0
  /\ context' = [context EXCEPT !.prevTotals = context.totals.assertions]
  /\ function' = NewFunction
  /\ Tells(<<[event |-> "testCaseStarting", test |-> test', okToFail |-> okToFail(test')]>>)
  /\ UNCHANGED <<config, steps, history>>

SkipTest ==
  /\ mode = "group"
  /\ test < Len(config.tests)
  /\ aborting(context)
  /\ test' = test + 1
  /\ Tells(<<[event |-> "skipTest", test |-> test']>>)
  /\ UNCHANGED <<config, mode, cycle, steps, context, function, history>>

StartCycle ==
  /\ mode = "cycle"
  /\ mode' = "function" /\ cycle' = cycle + 1
  /\ context' = [context EXCEPT !.prevAssertions = context.totals.assertions,
                                !.lastAssertionInfo = NewInfo]
  /\ function' = [function EXCEPT !.scope = <<>>, !.completedCycle = FALSE]
  /\ history' = [history EXCEPT !.stale = FALSE, !.unscoped = {}, !.leftBehind = {}, !.recent = {}]
  /\ Tells(<<SectionInfo(test)>>)
  /\ UNCHANGED <<config, test, steps>>

(* The test function goes one step on.                                     *)
Runs ==
  /\ mode = "function"
  /\ steps < config.steps
  /\ steps' = steps + 1
  /\ UNCHANGED <<config, test, cycle>>

Within(benchmark) == Runs /\ function.benchmark \in benchmark

(* Section's constructor, for a section that is entered in this cycle.     *)
OpenSection(name) ==
  /\ Within({"none"})
  /\ Len(context.active) < 2
  /\ ~ function.completedCycle
  /\ Append(Path, name) \notin function.completed
  /\ context' = [context EXCEPT !.active = Append(@,
                   [name |-> name, prevAssertions |-> context.totals.assertions])]
  /\ function' = [function EXCEPT !.entered = @ \cup {Append(Path, name)}]
  /\ history' = [history EXCEPT !.stale = FALSE]
  /\ Tells(<<SectionInfo(name)>>)
  /\ UNCHANGED mode

HasChildren(path) == \E p \in function.entered : Len(p) > Len(path) /\ IsPrefix(path, p)

(* testForMissingAssertions, with the assertions before.                   *)
missingAssertions(c, prevAssertions, path) ==
  /\ config.warn
  /\ c.totals.assertions = prevAssertions
  /\ ~ HasChildren(path)

Failed(c, missing) == IF missing THEN [c EXCEPT !.totals.assertions.failed = @ + 1] ELSE c

Misses(missing) == IF missing THEN {<<test, cycle, Path>>} ELSE {}

(* The messages of the innermost block go out of scope with it.            *)
Depth == Len(context.active)
LocalMessages == {function.scope[i].id : i \in {j \in DOMAIN function.scope : function.scope[j].depth = Depth}}
OuterScope == SelectSeq(function.scope, LAMBDA m : m.depth < Depth)

(* Section's destructor at the end of its body: sectionEnded.              *)
SectionEnded ==
  /\ Within({"none"})
  /\ context.active # <<>>
  /\ LET s == Last(context.active)
         missing == missingAssertions(context, s.prevAssertions, Path)
     IN  /\ context' = [Failed(context, missing) EXCEPT !.active = Front(@), !.messages = <<>>,
                                                        !.messageScopes = {}]
         /\ Tells(<<SectionStats(s.name, missing)>>)
         /\ history' = [history EXCEPT !.stale = TRUE, !.unscoped = {}, !.leftBehind = {}, !.recent = {},
                                       !.missing = @ \cup Misses(missing)]
  /\ function' = [function EXCEPT !.completedCycle = TRUE, !.scope = OuterScope,
                                  !.completed = IF HasChildren(Path) THEN @ ELSE @ \cup {Path}]
  /\ UNCHANGED mode

(* The results of assertions: type, whether it is suppressed, whether the  *)
(* disposition is Normal, whether it has an expression.                    *)
Outcomes == {
  <<"Ok", FALSE, FALSE, TRUE>>,                \* CHECK
  <<"Ok", TRUE, FALSE, TRUE>>,                 \* CHECK_NOFAIL
  <<"ExpressionFailed", FALSE, FALSE, TRUE>>,  \* CHECK
  <<"ExpressionFailed", FALSE, TRUE, TRUE>>,   \* REQUIRE
  <<"ExpressionFailed", TRUE, FALSE, TRUE>>,   \* CHECK_NOFAIL
  <<"ThrewException", FALSE, FALSE, TRUE>>,    \* CHECK
  <<"ThrewException", FALSE, TRUE, TRUE>>,     \* REQUIRE
  <<"ThrewException", TRUE, FALSE, TRUE>>,     \* CHECK_NOFAIL
  <<"DidntThrowException", FALSE, FALSE, TRUE>>, \* CHECK_THROWS
  <<"ExplicitFailure", FALSE, FALSE, FALSE>>,  \* FAIL_CHECK
  <<"Warning", FALSE, FALSE, FALSE>> }         \* WARN

(* What goes wrong with a result that is reported here.                    *)
Faults(result, normal, c) ==
  (IF function.benchmark = "preparing" /\ (result.type # "Ok" \/ m_includeSuccessfulResults)
   THEN {"reported in preparation"} ELSE {})
  \cup (IF function.benchmark # "none" /\ ~ isOk(result) /\ (normal \/ aborting(c))
        THEN {"failed in benchmark"} ELSE {})

(* An assertion: handleExpr, handleMessage and their like.  A passing one  *)
(* may go by untold; a failing REQUIRE leaves the function.                *)
Assertion(outcome) ==
  LET result == Result(outcome[1], outcome[2], outcome[4])
      normal == outcome[3]
      c      == assertionEnded(context, result)
  IN  /\ Within({"none", "preparing", "measuring"})
      /\ IF result.type = "Ok" /\ ~ m_includeSuccessfulResults
         THEN /\ context' = assertionPassed(context)
              /\ history' = [history EXCEPT !.unscoped = {}]
              /\ UNCHANGED <<mode, reporters>>
         ELSE /\ context' = c
              /\ Tells(<<AssertionStats(context, result)>>)
              /\ history' = [Happens(history, result, IF outcome[2] THEN "CHECK_NOFAIL" ELSE "assertion")
                             EXCEPT !.faults = @ \cup Faults(result, normal, c)]
              /\ mode' = IF ~ isOk(result) /\ (normal \/ aborting(c)) THEN "failed" ELSE mode
      /\ UNCHANGED function

NewMessage == [id |-> history.messages + 1, type |-> "Info"]

(* INFO: pushScopedMessage, until the end of its block.                    *)
PushScopedMessage ==
  /\ Within({"none"})
  /\ context' = [context EXCEPT !.messages = Append(@, NewMessage)]
  /\ function' = [function EXCEPT !.scope = Append(@, [id |-> NewMessage.id, depth |-> Depth])]
  /\ history' = [history EXCEPT !.messages = @ + 1, !.recent = @ \cup {NewMessage.id}]
  /\ UNCHANGED <<mode, reporters>>

Popped(c, ids) == [c EXCEPT !.messages = SelectSeq(@, LAMBDA m : m.id \notin ids)]

(* The block of the last INFO ends: as it should, or by an exception that  *)
(* the function catches, and then the message is left behind.              *)
PopScopedMessage(caught) ==
  /\ Within({"none"})
  /\ LocalMessages # {}
  /\ LET id == Last(function.scope).id
     IN  IF caught
         THEN /\ history' = [history EXCEPT !.leftBehind = @ \cup {id}]
              /\ UNCHANGED context
         ELSE /\ context' = Popped(context, {id})
              /\ UNCHANGED history
  /\ function' = [function EXCEPT !.scope = Front(@)]
  /\ UNCHANGED <<mode, reporters>>

(* UNSCOPED_INFO.                                                          *)
EmplaceUnscopedMessage ==
  /\ Within({"none"})
  /\ context' = [context EXCEPT !.messages = Append(@, NewMessage),
                                !.messageScopes = @ \cup {NewMessage.id}]
  /\ history' = [history EXCEPT !.messages = @ + 1, !.recent = @ \cup {NewMessage.id},
                                !.unscoped = @ \cup {NewMessage.id}]
  /\ UNCHANGED <<mode, function, reporters>>

(* std::cout, redirected.                                                  *)
Prints ==
  /\ Within({"none"})
  /\ function.out = 0
  /\ function' = [function EXCEPT !.out = test]
  /\ UNCHANGED <<mode, context, reporters, history>>

(* BENCHMARK: Benchmark::run, up to the user's code and after it.          *)
Benchmark(from, to, event) ==
  /\ Within({from})
  /\ function' = [function EXCEPT !.benchmark = to]
  /\ Tells(<<[event |-> event]>>)
  /\ history' = [history EXCEPT !.faults = @ \cup
                   IF event = "benchmarkFailed" /\ from = "measuring" THEN {"failed measuring"} ELSE {}]
  /\ UNCHANGED <<mode, context>>

Benchmarks ==
  \/ Benchmark("none", "preparing", "benchmarkPreparing")
  \/ Benchmark("preparing", "measuring", "benchmarkStarting")
  \/ Benchmark("measuring", "none", "benchmarkEnded")
  \/ Benchmark("preparing", "none", "benchmarkFailed")
  \/ Benchmark("measuring", "none", "benchmarkFailed")

(* The code under test throws where nothing catches it.                    *)
Throws ==
  /\ Within({"none"})
  /\ mode' = "thrown"
  /\ history' = [history EXCEPT !.faults = @ \cup
                   IF Len(context.active) > 1 THEN {"left two sections"} ELSE {}]
  /\ UNCHANGED <<context, function, reporters>>

(* What runCurrentTest clears when it is over.                             *)
ClearedContext(c) == [c EXCEPT !.active = <<>>, !.messages = <<>>, !.messageScopes = {}]

(* runCurrentTest after the function: the exception is reported, and the   *)
(* sections that it left are ended, from the outermost.                    *)
RunCurrentTestEnds ==
  /\ \/ mode \in {"failed", "thrown"}
     \/ mode = "function" /\ context.active = <<>> /\ function.benchmark = "none"
  /\ LET result  == Result("ThrewException", context.lastAssertionInfo.suppress,
                           context.lastAssertionInfo.expr)
         thrown  == mode = "thrown"
         c       == IF thrown THEN assertionEnded(context, result) ELSE context
         missing == missingAssertions(c, context.prevAssertions, <<test>>)
         ends    == [i \in DOMAIN context.active |-> SectionStats(context.active[i].name, FALSE)]
     IN  /\ context' = ClearedContext(Failed(c, missing))
         /\ Tells((IF thrown THEN <<AssertionStats(context, result)>> ELSE <<>>)
                    \o ends \o <<SectionStats(test, missing)>>)
         /\ history' = [IF thrown THEN Happens(history, result, "nothing") ELSE history
                          EXCEPT !.missing = @ \cup Misses(missing),
                                 !.faults = @ \cup IF mode = "failed" /\ Len(context.active) > 1
                                                   THEN {"left two sections"} ELSE {}]
  /\ function' = [function EXCEPT !.benchmark = "none",
                                  !.completed = IF HasChildren(Path) THEN @ ELSE @ \cup {Path}]
  /\ mode' = "left"
  /\ UNCHANGED <<config, test, cycle, steps>>

(* The test case has more sections to run.                                 *)
NextCycle ==
  /\ mode = "left"
  /\ function.entered # {}
  /\ cycle < config.cycles
  /\ ~ aborting(context)
  /\ mode' = "cycle"
  /\ UNCHANGED <<config, test, cycle, steps, context, function, reporters, history>>

(* Totals::delta, and a test case that should have failed.                 *)
Kind(a) == CASE a.failed > 0 -> "failed"
             [] a.failed = 0 /\ a.failedButOk > 0 -> "failedButOk"
             [] OTHER -> "passed"

Delta(a) ==
  IF config.tests[test] = "shouldfail" /\ Kind(a) = "passed"
  THEN [assertions |-> [a EXCEPT !.failed = @ + 1], testCases |-> [Zero EXCEPT !.failed = 1]]
  ELSE [assertions |-> a, testCases |-> [Zero EXCEPT ![Kind(a)] = 1]]

TestCaseStats(delta, out) ==
  [event |-> "testCaseEnded", test |-> test, okToFail |-> okToFail(test), delta |-> delta, out |-> out]

TestCaseEnded ==
  /\ mode = "left"
  /\ mode' = "group"
  /\ LET a     == Minus(context.totals.assertions, context.prevTotals)
         delta == Delta(a)
     IN  /\ context' = [context EXCEPT !.totals.testCases = Plus(@, delta.testCases),
                                       !.group = [k \in DOMAIN @ |-> Plus(@[k], delta[k])]]
         /\ Tells(<<TestCaseStats(delta, function.out)>>)
         /\ history' = [history EXCEPT !.extra = IF delta.assertions = a THEN @ ELSE @ \cup {test},
                                       !.printed = @ \cup ({function.out} \ {0})]
  /\ UNCHANGED <<config, test, cycle, steps, function>>

SessionEnds ==
  /\ mode = "group"
  /\ test = Len(config.tests)
  /\ mode' = "over"
  /\ Tells(<<[event |-> "testGroupEnded", totals |-> context.group],
             [event |-> "testRunEnded", totals |-> context.totals]>>)
  /\ UNCHANGED <<config, test, cycle, steps, context, function, history>>

(* A signal in the test function: handleFatalErrorCondition.               *)
FatalErrorCondition ==
  /\ Within({"none"})
  /\ mode' = "dead"
  /\ LET result == Result("FatalErrorCondition", context.lastAssertionInfo.suppress,
                          context.lastAssertionInfo.expr)
         c      == [assertionEnded(context, result) EXCEPT !.totals.testCases.failed = @ + 1]
         delta  == [assertions |-> [Zero EXCEPT !.failed = 1], testCases |-> [Zero EXCEPT !.failed = 1]]
     IN  /\ context' = c
         /\ Tells(<<AssertionStats(context, result), SectionStats(test, FALSE), TestCaseStats(delta, 0),
                    [event |-> "testGroupEnded", totals |-> c.totals],
                    [event |-> "testRunEnded", totals |-> c.totals]>>)
         /\ history' = [Happens(history, result, "nothing") EXCEPT !.faults = @ \cup
                          IF context.active # <<>> THEN {"signal in section"} ELSE {}]
  /\ UNCHANGED function

Next ==
  \/ RunTest \/ SkipTest \/ StartCycle
  \/ \E name \in SectionNames : OpenSection(name)
  \/ SectionEnded
  \/ \E outcome \in Outcomes : Assertion(outcome)
  \/ PushScopedMessage \/ EmplaceUnscopedMessage
  \/ \E caught \in BOOLEAN : PopScopedMessage(caught)
  \/ Prints \/ Benchmarks \/ Throws
  \/ RunCurrentTestEnds \/ NextCycle \/ TestCaseEnded \/ SessionEnds
  \/ FatalErrorCondition

Spec == Init /\ [][Next]_vars

-----------------------------------------------------------------------------
Hearing(kind) == kind \in DOMAIN reporters

Ended == mode \in {"over", "dead"}

Spared(faults) == history.faults \cap faults # {}

(***************************************************************************)
(* The XML report is well nested: while the session runs, the elements     *)
(* that are open are those of the test case, sections and benchmark that   *)
(* run, attributes are written to start tags, and at the end every element *)
(* has ended.  It breaks where a result is reported while a benchmark is   *)
(* prepared, where a failure leaves a benchmark, and where a signal is     *)
(* raised in a section.  Likewise the table of benchmarks on the console   *)
(* has their names in its first column, until one fails when it has begun. *)
(***************************************************************************)
Elements ==
  CASE Ended -> <<>>
    [] mode = "group" -> <<"Catch", "Group">>
    [] mode \in {"cycle", "left"} -> <<"Catch", "Group", "TestCase">>
    [] OTHER -> <<"Catch", "Group", "TestCase">> \o [i \in DOMAIN context.active |-> "Section"]
                  \o IF function.benchmark = "none" THEN <<>> ELSE <<"BenchmarkResults">>

WellNested ==
  /\ Hearing("xml") /\ ~ Spared({"reported in preparation", "failed in benchmark", "signal in section"})
       => LET w == reporters["xml"].xml
          IN  /\ w.strays = 0 /\ w.underflows = 0
              /\ [i \in DOMAIN w.tags |-> w.tags[i].name] = Elements
  /\ Spared({"reported in preparation", "failed measuring"})
       \/ reporters["console"].names \subseteq {0}

(***************************************************************************)
(* Every reporter tells of the results that it is to tell of, each once,   *)
(* in the order in which they happened and under the sections in which     *)
(* they happened.  TeamCity names the sections it last named once one of   *)
(* them has ended, the compact report names none; the cumulative reports   *)
(* mix up the sections that an exception has left two at a time, and write *)
(* none once a signal was raised in a section; and the XML report is held  *)
(* to nothing after a failure has left a benchmark, whose elements stay    *)
(* open around what follows, or a signal a section.  A failure that a      *)
(* CHECK_NOFAIL excuses is none here, nor one that inherits its excuse.    *)
(***************************************************************************)
Happened(Holds(_)) == SelectSeq(history.happened, LAMBDA h : Holds(h.result))

Places(told)   == [i \in DOMAIN told |-> <<told[i].id, told[i].place>>]
PlacesOf(happened) == [i \in DOMAIN happened |-> <<happened[i].result.id, happened[i].place>>]
Ids(told)      == [i \in DOMAIN told |-> told[i].id]
IdsOf(happened) == [i \in DOMAIN happened |-> happened[i].result.id]

FailuresTold == {"junit", "sonarqube"} \cap DOMAIN reporters

ToldInPlace ==
  LET failures == Happened(LAMBDA r : ~ isOk(r))
      told     == Happened(IsTold)
  IN  /\ Places(reporters["console"].told) = PlacesOf(told)
      /\ Ids(reporters["compact"].told) = IdsOf(told)
      /\ Ids(reporters["teamcity"].told) = IdsOf(failures)
      /\ \A i \in DOMAIN failures :
           failures[i].stale \/ reporters["teamcity"].told[i].place = failures[i].place
      /\ Hearing("tap") => Ids(reporters["tap"].told) = IdsOf(history.happened)
      /\ Hearing("xml") =>
           \/ Spared({"failed in benchmark", "signal in section"})
           \/ Places(reporters["xml"].told) = PlacesOf(told)
      /\ \A k \in FailuresTold : Ended /\ ~ Spared({"signal in section"}) =>
           /\ Len(reporters[k].told) = Len(failures)
           /\ ToSet(Ids(reporters[k].told)) = ToSet(IdsOf(failures))
           /\ Spared({"left two sections"}) \/ ToSet(Places(reporters[k].told)) = ToSet(PlacesOf(failures))
      /\ Hearing("junit") /\ mode = "over" =>
           /\ Len(reporters["junit"].outs) = Cardinality(history.printed)
           /\ ToSet(reporters["junit"].outs) = history.printed

(***************************************************************************)
(* The messages that are told with a result are those in scope there, and  *)
(* the unscoped ones declared since the last assertion; but all that were  *)
(* declared before a section last ended are lost, even those still in      *)
(* scope, and one whose scope was left by an exception that the test       *)
(* caught is told all the same.  A warning may be told with fewer.         *)
(***************************************************************************)
InScope(a, Informed(_)) ==
  LET h   == history.happened[a.id]
      ids == {a.messages[i].id : i \in DOMAIN a.messages} \ {0}
  IN  /\ ids \subseteq h.messages
      /\ Informed(h.result) => ids = h.messages

MessagesInScope ==
  \A k \in DOMAIN reporters \ {"automake"} : \A i \in DOMAIN reporters[k].told :
    InScope(reporters[k].told[i], LAMBDA r : includeResults(r) \/ k = "tap")

(***************************************************************************)
(* What is said of the totals, against what happened.  A result is wrong   *)
(* when it is of a failing type and not that of a CHECK_NOFAIL; and a      *)
(* wrong result is counted, unless it is overlooked: an exception or a     *)
(* signal that no assertion caught, next after a CHECK_NOFAIL, passed or   *)
(* not, inherits its disposition from m_lastAssertionInfo and is excused.  *)
(***************************************************************************)
Witness(i) == history.happened[i]

Wrong(i) == ~ isOkType(Witness(i).result.type) /\ Witness(i).by # "CHECK_NOFAIL"

Overlooked(i) ==
  /\ Witness(i).by = "nothing"
  /\ i > 1
  /\ Witness(i - 1).by = "CHECK_NOFAIL"
  /\ <<Witness(i - 1).test, Witness(i - 1).cycle>> = <<Witness(i).test, Witness(i).cycle>>

Counts == {i \in DOMAIN history.happened : Wrong(i) /\ ~ Overlooked(i)}

CountsIn(t) == {i \in Counts : Witness(i).test = t}

MissingIn(t) == {m \in history.missing : m[1] = t}

(* A test case fails, may fail and does, or passes.                        *)
Fails(t) ==
  \/ ~ okToFail(t) /\ CountsIn(t) # {}
  \/ t \in history.extra
  \/ MissingIn(t) # {}
  \/ mode = "dead" /\ t = test

(* It is skipped when those before have failed as often as -x allows.      *)
FailedBefore(t) ==
  LET failing == {u \in 1 .. t - 1 : ~ okToFail(u)}
  IN  Cardinality(UNION {CountsIn(u) : u \in failing}) + Cardinality({m \in history.missing : m[1] < t})

VerdictOn(t) ==
  CASE FailedBefore(t) >= config.abortAfter -> "SKIP"
    [] FailedBefore(t) < config.abortAfter /\ Fails(t) -> "FAIL"
    [] OTHER -> IF CountsIn(t) # {} THEN "XFAIL" ELSE "PASS"

(* What the JUnit report counts, of tests that may not fail: exceptions,   *)
(* those that are excused or overlooked among them, and failures of other  *)
(* kinds, with the missing assertions and the tests that should have       *)
(* failed.                                                                 *)
Exceptions ==
  {i \in DOMAIN history.happened :
     Witness(i).result.type = "ThrewException" /\ ~ okToFail(Witness(i).test)}

OtherFailures ==
  Cardinality({i \in Counts \ Exceptions : ~ okToFail(Witness(i).test)})
    + Cardinality(history.missing)
    + (IF mode = "over" THEN Cardinality(history.extra) ELSE 0)

(* What the TAP report numbers and no total counts: warnings and what is   *)
(* excused or overlooked.                                                  *)
Uncounted == {i \in DOMAIN history.happened : Witness(i).result.type # "Ok"} \ Counts

DividerRight(testCases, parts) ==
  /\ Total(parts) = Width - 1
  /\ Total(testCases) > 0 => \A k \in DOMAIN parts : parts[k] > 0 <=> testCases[k] > 0

AllPassed == \A t \in 1 .. test : CountsIn(t) = {} /\ ~ Fails(t)

(***************************************************************************)
(* What the reports say of the totals, and of which of them it is true.    *)
(*   - The verdict of Automake on a test case, and that of the XML report, *)
(*     is what happened in it, overlooked exceptions apart.                *)
(*   - The errors of the JUnit report are the exceptions, the excused ones *)
(*     too; the failures are the others less these excused ones, in        *)
(*     unsigned arithmetic: right exactly when no exception was excused or *)
(*     overlooked, too few with one, and past every number there is when   *)
(*     there are more of these than of other failures (catch.cxx:8245).    *)
(*     There is no report after a signal in a section, where an assertion  *)
(*     of the reporter fails.                                              *)
(*   - The plan of the TAP report, which promises as many results as there *)
(*     are lines, leaves out the lines that no total counts and promises   *)
(*     one more for each missing assertion.                                *)
(*   - "All tests passed" is on the console exactly when something was     *)
(*     asserted and nothing was counted against any test.                  *)
(*   - The divider above the totals is as wide as the console and shows    *)
(*     every kind of test case there was.                                  *)
(***************************************************************************)
CountsAgree ==
  /\ \A i \in DOMAIN reporters["automake"].lines :
       LET line == reporters["automake"].lines[i] IN line[2] = VerdictOn(line[1])
  /\ Hearing("xml") =>
       \A i \in DOMAIN reporters["xml"].verdicts :
         LET v == reporters["xml"].verdicts[i] IN v[2] = ~ Fails(v[1])
  /\ Hearing("junit") /\ Ended =>
       IF Spared({"signal in section"}) THEN reporters["junit"].aborted
       ELSE /\ reporters["junit"].errors = Cardinality(Exceptions)
            /\ LET failures == OtherFailures - Cardinality(Exceptions \ Counts)
               IN  reporters["junit"].failures =
                     IF failures >= 0 THEN failures ELSE failures + SizeModulus
  /\ Hearing("tap") /\ Ended =>
       /\ reporters["tap"].counter = Len(history.happened)
       /\ reporters["tap"].plan =
            Len(history.happened) - Cardinality(Uncounted) + Cardinality(history.missing)
  /\ Ended =>
       /\ DividerRight(context.totals.testCases, reporters["console"].divider)
       /\ config.tests # <<>> =>
            (reporters["console"].summary = "All tests passed"
               <=> Total(context.totals.assertions) > 0 /\ AllPassed)
=============================================================================
