--------------------------- MODULE CatchReporters ---------------------------
(***************************************************************************)
(* The reporters of Catch.  Each is a value and each of its handlers an    *)
(* operator from the value and an event to the new value; a reporter       *)
(* ignores the events it has no operator for.  What it prints is kept as   *)
(* far as it tells something: which results, under which heading, with     *)
(* which messages, and what it says of the totals.  Wording, colours,      *)
(* durations and layout are left out.                                      *)
(*                                                                         *)
(* An event is a record with the name of the handler; a result has a       *)
(* number, its ResultWas type, whether its failure is suppressed, whether  *)
(* it has an expression and a message text of its own.                     *)
(***************************************************************************)
EXTENDS Integers, Sequences, FiniteSets, CatchXml

CONSTANTS
  Width,       \* CATCH_CONFIG_CONSOLE_WIDTH
  SizeModulus  \* bound: 2 to the bits of a std::size_t, here fewer

ASSUME WidthAssumption == Width \in Nat /\ Width > 3
ASSUME SizeAssumption == SizeModulus \in Nat \ {0}

VARIABLE config \* the session's options, never changed

isOkType(type) == type \in {"Ok", "Info", "Warning"}
isOk(result)   == isOkType(result.type) \/ result.suppress

Total(c)     == c.passed + c.failed + c.failedButOk
allPassed(c) == c.failed = 0 /\ c.failedButOk = 0
allOk(c)     == c.failed = 0

(* What is told of a result: its number, the place it is told to be at,    *)
(* what it is called and the messages told with it.                        *)
Account(result, place, as, messages) ==
  [id |-> result.id, place |-> place, as |-> as, messages |-> messages]

Informs(m) == m.type = "Info"

(* Results that are told although they passed: all if they are asked for,  *)
(* and warnings, these without the INFO messages.                          *)
includeResults(result) == config.success \/ ~ isOk(result)
IsTold(result) == includeResults(result) \/ result.type = "Warning"

-----------------------------------------------------------------------------
(* StreamingReporterBase: the test case and the sections that are open,    *)
(* the test case itself being the first.                                   *)
Streaming == [sections |-> <<>>, told |-> <<>>]

BaseHears(r, e) ==
  CASE e.event = "sectionStarting" -> [r EXCEPT !.sections = Append(@, e.name)]
    [] e.event = "sectionEnded" /\ r.sections # <<>> -> [r EXCEPT !.sections = Front(@)]
    [] OTHER -> r

-----------------------------------------------------------------------------
(* AutomakeReporter: one line for a test case.                             *)
Verdict(delta) ==
  IF allPassed(delta.assertions) THEN "PASS"
  ELSE IF allOk(delta.assertions) THEN "XFAIL" ELSE "FAIL"

Automake == [lines |-> <<>>]

AutomakeHears(r, e) ==
  CASE e.event = "testCaseEnded" -> [r EXCEPT !.lines = Append(@, <<e.test, Verdict(e.delta)>>)]
    [] e.event = "skipTest" -> [r EXCEPT !.lines = Append(@, <<e.test, "SKIP">>)]
    [] OTHER -> r

-----------------------------------------------------------------------------
(* CompactReporter: a line for a result, with the place in the source.     *)
(* The messages of a warning are told without INFOs, but the first message *)
(* of these types is told as the result's own, whatever it is.             *)
CompactMessages(e, printInfoMessages) ==
  LET first == e.result.type \in {"ThrewException", "FatalErrorCondition", "Info", "Warning"}
  IN  SelectSeq(e.messages, LAMBDA m :
        printInfoMessages \/ ~ Informs(m) \/ (first /\ m = Head(e.messages)))

CompactTotals(totals) ==
  CASE Total(totals.testCases) = 0 -> "No tests ran"
    [] Total(totals.testCases) > 0 /\ totals.testCases.failed = Total(totals.testCases) -> "Failed all"
    [] OTHER -> IF Total(totals.assertions) = 0 THEN "Passed, no assertions"
                ELSE IF totals.assertions.failed > 0 THEN "Failed" ELSE "Passed"

Compact == [told |-> <<>>, summary |-> ""]

CompactHears(r, e) ==
  CASE e.event = "assertionEnded" /\ IsTold(e.result) ->
         [r EXCEPT !.told = Append(@, Account(e.result, <<>>, "line",
                                        CompactMessages(e, includeResults(e.result))))]
    [] e.event = "testRunEnded" -> [r EXCEPT !.summary = CompactTotals(e.totals)]
    [] OTHER -> r

-----------------------------------------------------------------------------
(* TablePrinter: the column the last cell went to, -1 when a row is begun. *)
Columns == 4

Cell(t) == [open |-> TRUE, column |-> IF t.column = Columns - 1 THEN 0 ELSE t.column + 1]

Cells(t, n) == FoldLeft(LAMBDA u, i : Cell(u), t, [i \in 1 .. n |-> i])

RowBreak(t) == [t EXCEPT !.column = IF @ > 0 THEN -1 ELSE @]

Close(t) == IF t.open THEN [RowBreak(t) EXCEPT !.open = FALSE] ELSE t

(* The divider above the totals: a part for each kind of test case.        *)
makeRatio(number, total) ==
  LET ratio == IF total > 0 THEN (Width * number) \div total ELSE 0
  IN  IF ratio = 0 /\ number > 0 THEN 1 ELSE ratio

findMax(parts) ==
  IF parts.failed > parts.failedButOk /\ parts.failed > parts.passed THEN "failed"
  ELSE IF parts.failedButOk > parts.passed THEN "failedButOk" ELSE "passed"

RECURSIVE Fitted(_)
Fitted(parts) ==
  CASE Total(parts) < Width - 1 -> Fitted([parts EXCEPT ![findMax(parts)] = @ + 1])
    [] Total(parts) > Width - 1 -> Fitted([parts EXCEPT ![findMax(parts)] = @ - 1])
    [] OTHER -> parts

Ratios(testCases) == [k \in DOMAIN testCases |-> makeRatio(testCases[k], Total(testCases))]

printTotalsDivider(testCases) ==
  IF Total(testCases) > 0 THEN Fitted(Ratios(testCases))
  ELSE [passed |-> Width - 1, failed |-> 0, failedButOk |-> 0]

ConsoleTotals(totals) ==
  CASE Total(totals.testCases) = 0 -> "No tests ran"
    [] Total(totals.assertions) > 0 /\ allPassed(totals.testCases) -> "All tests passed"
    [] OTHER -> "table"

(* ConsoleReporter: a heading with the test case and the sections stands   *)
(* above the results it is printed for; headings remember which.           *)
Console == Streaming @@
  [headerPrinted |-> FALSE, heading |-> <<>>, table |-> [open |-> FALSE, column |-> -1],
   names |-> {}, missing |-> 0, summary |-> "", divider |-> <<>>]

lazyPrint(r) ==
  IF r.headerPrinted THEN r ELSE [r EXCEPT !.heading = r.sections, !.headerPrinted = TRUE]

ConsoleMessages(e) == SelectSeq(e.messages, LAMBDA m : includeResults(e.result) \/ ~ Informs(m))

ConsoleAssertionEnded(r, e) ==
  LET p == lazyPrint([r EXCEPT !.table = Close(@)])
  IN  IF ~ IsTold(e.result) THEN r
      ELSE [p EXCEPT !.told = Append(@, Account(e.result, p.heading, "block", ConsoleMessages(e)))]

ConsoleSectionStarting(r, e) ==
  BaseHears([r EXCEPT !.table = Close(@), !.headerPrinted = FALSE], e)

(* Faulty variant of the next definition: the heading stands for the rest. *)
ConsoleKeepsHeading(r, e) ==
  BaseHears([r EXCEPT !.table = Close(@), !.missing = IF e.missing THEN @ + 1 ELSE @], e)

ConsoleSectionEnded(r, e) ==
  LET closed  == [r EXCEPT !.table = Close(@)]
      printed == IF e.missing THEN [lazyPrint(closed) EXCEPT !.missing = @ + 1] ELSE closed
  IN  BaseHears([printed EXCEPT !.headerPrinted = FALSE], e)

ConsoleBenchmark(r, e) ==
  CASE e.event = "benchmarkPreparing" ->
         LET p == lazyPrint(r)
             t == Cell(p.table)
         IN  [p EXCEPT !.table = t, !.names = @ \cup {t.column}]
    [] e.event = "benchmarkStarting" -> [r EXCEPT !.table = Cells(@, 3)]
    [] e.event = "benchmarkEnded"    -> [r EXCEPT !.table = Cells(@, 12)]
    [] e.event = "benchmarkFailed"   -> [r EXCEPT !.table = RowBreak(Cell(@))]

ConsoleTestCaseEnded(r) == [r EXCEPT !.table = Close(@), !.headerPrinted = FALSE]

ConsoleRunEnded(r, e) ==
  [r EXCEPT !.summary = ConsoleTotals(e.totals), !.divider = printTotalsDivider(e.totals.testCases)]

ConsoleHears(r, e) ==
  CASE e.event = "assertionEnded"  -> ConsoleAssertionEnded(r, e)
    [] e.event = "sectionStarting" -> ConsoleSectionStarting(r, e)
    [] e.event = "sectionEnded"    -> ConsoleSectionEnded(r, e)
    [] e.event = "testCaseEnded"   -> ConsoleTestCaseEnded(r)
    [] e.event = "testRunEnded"    -> ConsoleRunEnded(r, e)
    [] e.event \in {"benchmarkPreparing", "benchmarkStarting", "benchmarkEnded", "benchmarkFailed"} ->
         ConsoleBenchmark(r, e)
    [] OTHER -> r

-----------------------------------------------------------------------------
(* CumulativeReporterBase: a tree of sections for each test case, by the   *)
(* numbers of its nodes, kept until the group has ended.                   *)
Node(name) == [name |-> name, kids |-> <<>>, assertions |-> <<>>, out |-> 0]

Cumulative ==
  [nodes |-> <<>>, root |-> 0, stack |-> <<>>, deepest |-> 0, cases |-> <<>>,
   aborted |-> FALSE, told |-> <<>>, outs |-> <<>>]

Entered(r, n) == [r EXCEPT !.stack = Append(@, n), !.deepest = n]

NewNode(r, name) == [r EXCEPT !.nodes = Append(@, Node(name))]

(* The child of the innermost section that has this name by now, if any.   *)
Known(r, name) ==
  SelectSeq(r.nodes[Last(r.stack)].kids, LAMBDA k : r.nodes[k].name = name)

CumulativeSectionStarting(r, name) ==
  LET new == Len(r.nodes) + 1
  IN  IF r.stack = <<>>
      THEN IF r.root # 0 THEN Entered(r, r.root)
           ELSE Entered([NewNode(r, name) EXCEPT !.root = new], new)
      ELSE IF Known(r, name) # <<>> THEN Entered(r, Head(Known(r, name)))
      ELSE Entered([NewNode(r, name) EXCEPT !.nodes[Last(r.stack)].kids = Append(@, new)], new)

(* The statistics that end a section are those of the node on the stack,   *)
(* its name among them.                                                    *)
CumulativeSectionEnded(r, name) ==
  [r EXCEPT !.nodes[Last(r.stack)].name = name, !.stack = Front(@)]

CumulativeAssertionEnded(r, e) ==
  [r EXCEPT !.nodes[Last(r.stack)].assertions = Append(@, [result |-> e.result, messages |-> e.messages])]

CumulativeTestCaseEnded(r, e) ==
  IF r.stack # <<>> THEN [r EXCEPT !.aborted = TRUE]
  ELSE [r EXCEPT !.cases = Append(@, [root |-> r.root, okToFail |-> e.okToFail]),
                 !.root = 0, !.nodes[r.deepest].out = e.out]

CumulativeHears(r, e) ==
  CASE e.event = "sectionStarting" -> CumulativeSectionStarting(r, e.name)
    [] e.event = "sectionEnded"    -> CumulativeSectionEnded(r, e.name)
    [] e.event = "assertionEnded"  -> CumulativeAssertionEnded(r, e)
    [] e.event = "testCaseEnded"   -> CumulativeTestCaseEnded(r, e)
    [] OTHER -> r

(* The results, but not the texts, of the INFO messages; a result's own    *)
(* message is written beside them.                                         *)
WrittenMessages(a) == SelectSeq(a.messages, LAMBDA m : Informs(m) \/ m.id = 0)

(* writeSection goes down the tree: each node with its path.               *)
RECURSIVE Subtree(_, _, _)
Subtree(r, n, above) ==
  LET path == Append(above, r.nodes[n].name)
      kids == r.nodes[n].kids
  IN  <<[node |-> r.nodes[n], path |-> path]>>
        \o FlattenSeq([i \in DOMAIN kids |-> Subtree(r, kids[i], path)])

(* The results of a section that are written, each as an element.          *)
Element(result) ==
  IF result.type \in {"ThrewException", "FatalErrorCondition"} THEN "error" ELSE "failure"

writeAssertions(s, skipped) ==
  LET failed == SelectSeq(s.node.assertions, LAMBDA a : ~ isOk(a.result))
  IN  [i \in DOMAIN failed |->
         Account(failed[i].result, s.path, IF skipped THEN "skipped" ELSE Element(failed[i].result),
                 WrittenMessages(failed[i]))]

(* writeGroup: the test cases one by one; SonarQube writes those of a test *)
(* that may fail as skipped, and no output.                                *)
Written(r, skipping) ==
  LET sections(c) == Subtree(r, c.root, <<>>)
      ofCase(c) == FlattenSeq([i \in DOMAIN sections(c) |->
                     writeAssertions(sections(c)[i], skipping /\ c.okToFail)])
  IN  FlattenSeq([k \in DOMAIN r.cases |-> ofCase(r.cases[k])])

WrittenOuts(r) ==
  LET sections == FlattenSeq([k \in DOMAIN r.cases |-> Subtree(r, r.cases[k].root, <<>>)])
      printed  == SelectSeq(sections, LAMBDA s : s.node.out # 0)
  IN  [i \in DOMAIN printed |-> printed[i].node.out]

-----------------------------------------------------------------------------
(* JunitReporter.                                                          *)
JUnit == Cumulative @@
  [okToFail |-> FALSE, unexpectedExceptions |-> 0, errors |-> 0, failures |-> 0]

(* Faulty variant of the next definition: a test that may fail counts, too *)
JUnitCountsAll(r, e) ==
  LET unexpected == e.result.type = "ThrewException"
  IN  CumulativeAssertionEnded(
        [r EXCEPT !.unexpectedExceptions = @ + (IF unexpected THEN 1 ELSE 0)], e)

JUnitAssertionEnded(r, e) ==
  LET unexpected == e.result.type = "ThrewException" /\ ~ r.okToFail
  IN  CumulativeAssertionEnded(
        [r EXCEPT !.unexpectedExceptions = @ + (IF unexpected THEN 1 ELSE 0)], e)

JUnitGroupEnded(r, e) ==
  [r EXCEPT !.errors = r.unexpectedExceptions,
            !.failures = (e.totals.assertions.failed - r.unexpectedExceptions) % SizeModulus,
            !.told = Written(r, FALSE), !.outs = WrittenOuts(r)]

JUnitHears(r, e) ==
  CASE e.event = "testCaseStarting" -> [r EXCEPT !.okToFail = e.okToFail]
    [] e.event = "assertionEnded"   -> JUnitAssertionEnded(r, e)
    [] e.event = "testGroupEnded"   -> JUnitGroupEnded(r, e)
    [] OTHER -> CumulativeHears(r, e)

-----------------------------------------------------------------------------
(* SonarQubeReporter.                                                      *)
SonarQubeHears(r, e) ==
  IF e.event = "testGroupEnded" THEN [r EXCEPT !.told = Written(r, TRUE)]
  ELSE CumulativeHears(r, e)

-----------------------------------------------------------------------------
(* TAPReporter: every result is a line, and the plan comes at the end.     *)
TAP == [test |-> 0, counter |-> 0, told |-> <<>>, plan |-> 0]

TAPHears(r, e) ==
  CASE e.event = "testCaseStarting" -> [r EXCEPT !.test = e.test]
    [] e.event = "assertionEnded" ->
         [r EXCEPT !.counter = @ + 1,
                   !.told = Append(@, Account(e.result, <<r.test>>, "line", e.messages))]
    [] e.event = "testRunEnded" -> [r EXCEPT !.plan = Total(e.totals.assertions)]
    [] OTHER -> r

-----------------------------------------------------------------------------
(* TeamCityReporter: a message for a failure; the first one since a        *)
(* section began names the sections.                                       *)
TeamCity == Streaming @@
  [headerPrinted |-> FALSE, heading |-> <<>>, okToFail |-> FALSE, outs |-> <<>>]

TeamCityAssertionEnded(r, e) ==
  LET headed == [lazyPrint(r) EXCEPT !.headerPrinted = TRUE]
  IN  IF isOk(e.result) THEN r
      ELSE [headed EXCEPT !.told = Append(@,
              Account(e.result, headed.heading, IF r.okToFail THEN "testIgnored" ELSE "testFailed",
                      e.messages))]

Printed(outs, e) == IF e.out = 0 THEN outs ELSE Append(outs, e.out)

TeamCityHears(r, e) ==
  CASE e.event = "assertionEnded"   -> TeamCityAssertionEnded(r, e)
    [] e.event = "sectionStarting"  -> BaseHears([r EXCEPT !.headerPrinted = FALSE], e)
    [] e.event = "testCaseStarting" -> [r EXCEPT !.okToFail = e.okToFail]
    [] e.event = "testCaseEnded"    -> [r EXCEPT !.outs = Printed(@, e)]
    [] OTHER -> BaseHears(r, e)

-----------------------------------------------------------------------------
(* XmlReporter.                                                            *)
Xml == [xml |-> XmlWriter, sectionDepth |-> 0, told |-> <<>>, outs |-> <<>>, verdicts |-> <<>>]

XmlMessages(e) ==
  SelectSeq(e.messages, LAMBDA m : (Informs(m) /\ includeResults(e.result)) \/ m.type = "Warning")

(* A result with a message text of its own writes it in its own element.   *)
OwnElement(result) ==
  result.type \in {"ThrewException", "FatalErrorCondition", "ExplicitFailure"}

XmlResult(w, result) == IF OwnElement(result) THEN scopedElement(w, result.type) ELSE w

XmlAssertionEnded(r, e) ==
  LET informed  == Several(r.xml, "Info", Len(XmlMessages(e)))
      expressed == Several(Opened(informed, "Expression", ""), "Original", 2)
      done      == IF ~ includeResults(e.result) THEN informed
                   ELSE IF e.result.expr THEN endElement(XmlResult(expressed, e.result))
                   ELSE XmlResult(informed, e.result)
      own       == SelectSeq(e.messages, LAMBDA m : m.id = 0 /\ OwnElement(e.result))
  IN  IF ~ IsTold(e.result) THEN r
      ELSE [r EXCEPT !.xml = done,
                     !.told = Append(@, Account(e.result, Place(r.xml), "element", XmlMessages(e) \o own))]

XmlSectionStarting(r, e) ==
  [r EXCEPT !.sectionDepth = @ + 1,
            !.xml = IF r.sectionDepth > 0 THEN ensureTagClosed(Opened(@, "Section", e.name)) ELSE @]

(* Faulty variant of the next definition: the depth before is looked at.   *)
XmlSectionEndedFirst(r) ==
  [r EXCEPT !.sectionDepth = @ - 1,
            !.xml = IF r.sectionDepth > 0 THEN endElement(scopedElement(@, "OverallResults")) ELSE @]

XmlSectionEnded(r) ==
  [r EXCEPT !.sectionDepth = @ - 1,
            !.xml = IF r.sectionDepth - 1 > 0 THEN endElement(scopedElement(@, "OverallResults")) ELSE @]

XmlTestCaseEnded(r, e) ==
  LET result == Opened(r.xml, "OverallResult", "")
      output == IF e.out = 0 THEN result ELSE scopedElement(result, "StdOut")
  IN  [r EXCEPT !.xml = endElement(endElement(output)),
                !.outs = Printed(@, e),
                !.verdicts = Append(@, <<e.test, allOk(e.delta.assertions)>>)]

XmlTotals(r) == [r EXCEPT !.xml = endElement(Several(@, "OverallResults", 2))]

XmlBenchmark(w, e) ==
  CASE e.event = "benchmarkPreparing" -> Opened(w, "BenchmarkResults", "")
    [] e.event = "benchmarkStarting"  -> ensureTagClosed(writeAttribute(w))
    [] e.event = "benchmarkEnded"     -> endElement(Several(w, "mean", 3))
    [] e.event = "benchmarkFailed"    -> endElement(scopedElement(w, "failed"))

XmlHears(r, e) ==
  CASE e.event = "testRunStarting"   -> [r EXCEPT !.xml = Opened(@, "Catch", "")]
    [] e.event = "testGroupStarting" -> [r EXCEPT !.xml = Opened(@, "Group", "")]
    [] e.event = "testCaseStarting"  -> [r EXCEPT !.xml = ensureTagClosed(Opened(@, "TestCase", e.test))]
    [] e.event = "sectionStarting"   -> XmlSectionStarting(r, e)
    [] e.event = "assertionEnded"    -> XmlAssertionEnded(r, e)
    [] e.event = "sectionEnded"      -> XmlSectionEnded(r)
    [] e.event = "testCaseEnded"     -> XmlTestCaseEnded(r, e)
    [] e.event \in {"testGroupEnded", "testRunEnded"} -> XmlTotals(r)
    [] e.event \in {"benchmarkPreparing", "benchmarkStarting", "benchmarkEnded", "benchmarkFailed"} ->
         [r EXCEPT !.xml = XmlBenchmark(@, e)]
    [] OTHER -> r

-----------------------------------------------------------------------------
(* The registered reporters; those that ask for every assertion are told   *)
(* of the ones that pass, too.                                             *)
AllReporters == {"automake", "compact", "console", "junit", "sonarqube", "tap", "teamcity", "xml"}
ReportAllAssertions == {"junit", "sonarqube", "tap", "xml"}

Created(kind) ==
  CASE kind = "automake" -> Automake
    [] kind = "compact" -> Compact
    [] kind = "console" -> Console
    [] kind = "junit" -> JUnit
    [] kind = "sonarqube" -> Cumulative
    [] kind = "tap" -> TAP
    [] kind = "teamcity" -> TeamCity
    [] kind = "xml" -> Xml

(* A reporter whose assertion fails ends the program: it hears no more.    *)
Hears(kind, r, e) ==
  CASE kind \in {"junit", "sonarqube"} /\ r.aborted -> r
    [] kind = "automake" -> AutomakeHears(r, e)
    [] kind = "compact" -> CompactHears(r, e)
    [] kind = "console" -> ConsoleHears(r, e)
    [] kind = "junit" /\ ~ r.aborted -> JUnitHears(r, e)
    [] kind = "sonarqube" /\ ~ r.aborted -> SonarQubeHears(r, e)
    [] kind = "tap" -> TAPHears(r, e)
    [] kind = "teamcity" -> TeamCityHears(r, e)
    [] kind = "xml" -> XmlHears(r, e)
=============================================================================
