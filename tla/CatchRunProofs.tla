--------------------------- MODULE CatchRunProofs ---------------------------
(***************************************************************************)
(* Proofs about CatchRun, for every session.  The invariant has four       *)
(* parts: the types; what has been counted (Counted), which tells what the *)
(* test cases saw and makes the exit code; the trackers (Tracking), with   *)
(* the function in the sections that are active; and what the reporter has *)
(* been told (Reporting), which are these sections and the ones left by an *)
(* exception, in the order in which they began.                            *)
(***************************************************************************)
EXTENDS CatchTrackerProofs

TypeOK ==
  /\ session \in Sessions
  /\ mode \in {"group", "cycle", "function", "unwinding", "test_over", "over", "dead"}
  /\ test \in 0 .. Len(session.code)
  /\ mode \notin {"group", "over"} => test > 0
  /\ exception \in {"none", "TestFailureException", "unexpected"}
  /\ totals \in Totals /\ group \in Totals
  /\ before \in [test : Totals, cycle : Counts]
  /\ saw \subseteq (1 .. test) \X {"failure", "no_assertions"}

-----------------------------------------------------------------------------
(***************************************************************************)
(* What is counted.  While a test case is run, what the counters have      *)
(* grown by tells what it saw; and the totals of the group, which the exit *)
(* code is made of, tell of every test case that is done.                  *)
(***************************************************************************)
InTestCase == mode \in {"cycle", "function", "unwinding"}

Done == IF mode \in {"group", "over"} THEN test ELSE test - 1

Wrong(i) == \E what \in {"failure", "no_assertions"} : <<i, what>> \in saw

Grown == Minus(totals.assertions, before.test.assertions)

CountsTell ==
  /\ Grown \in Counts
  /\ Tag = "none" => Grown.failedButOk = 0 /\ (Grown.failed > 0 <=> Wrong(test))
  /\ Tag # "none" => /\ Grown.failedButOk > 0 <=> <<test, "failure">> \in saw
                     /\ Grown.failed > 0 <=> <<test, "no_assertions">> \in saw

GroupTells == group.assertions.failed = 0 <=> \A i \in 1 .. Done : AsTagged(i)

Counted ==
  /\ InTestCase \/ mode = "test_over" =>
       CountsTell /\ group.assertions.failed >= before.test.assertions.failed
  /\ mode = "group" => group.assertions.failed >= totals.assertions.failed
  /\ mode # "dead" => GroupTells
  /\ mode = "over" =>
       /\ test = Len(session.code)
       /\ exitCode = IF "NoTests" \in session.warn /\ session.noMatch THEN 2
                     ELSE Clamped(group.assertions.failed)

LEMMA SessionIs ==
  ASSUME session \in Sessions
  PROVE  /\ session.code \in Seq(Seq({"section", "end", "generate", "check"}))
         /\ session.tag \in Seq({"none", "mayfail", "shouldfail"})
         /\ Len(session.tag) = Len(session.code) /\ Len(session.code) \in Nat
         /\ session.values \in Nat \ {0}
         /\ session.abortAfter \in Nat \ {0}
         /\ \A i \in DOMAIN session.code : Nested(session.code[i])
  BY SessionsAssumption DEF Session

LEMMA TestIs ==
  ASSUME session \in Sessions, test \in 1 .. Len(session.code)
  PROVE  /\ Code \in Seq({"section", "end", "generate", "check"}) /\ Nested(Code)
         /\ Tag \in {"none", "mayfail", "shouldfail"}
  BY SessionIs DEF Code, Tag

LEMMA MissingIs == \A c, a : Missing(c, a) \in {0, 1}
  BY DEF Missing

LEMMA FailureIs ==
  ASSUME NEW a \in Counts
  PROVE  /\ Failure(a) \in Counts /\ Failure(a).passed = a.passed
         /\ Tag = "none"  => Failure(a).failed = a.failed + 1 /\ Failure(a).failedButOk = a.failedButOk
         /\ Tag # "none" => Failure(a).failed = a.failed /\ Failure(a).failedButOk = a.failedButOk + 1
  BY DEF Failure, Counts


LEMMA InitTyped ==
  ASSUME Init
  PROVE  TypeOK /\ Counted
<1>1. TypeOK
  BY SessionIs DEF Init, TypeOK, Totals, Counts, Zero
<1>2. Counted
  BY <1>1 DEF Init, Counted, GroupTells, Done, InTestCase, Zero
<1>3. QED
  BY <1>1, <1>2

LEMMA KindIs ==
  ASSUME NEW a \in Counts
  PROVE  LET k == Kind(a)
         IN  /\ [Zero EXCEPT ![k] = 1] \in Counts
             /\ [Zero EXCEPT ![k] = 1].passed > 0 <=> a.failed = 0 /\ a.failedButOk = 0
<1>1. a.failed \in Nat /\ a.failedButOk \in Nat
  BY DEF Counts
<1>2. CASE a.failed > 0
  BY <1>1, <1>2 DEF Kind, Zero, Counts
<1>3. CASE a.failed = 0 /\ a.failedButOk > 0
  BY <1>1, <1>3 DEF Kind, Zero, Counts
<1>4. CASE a.failed = 0 /\ a.failedButOk = 0
  BY <1>1, <1>4 DEF Kind, Zero, Counts
<1>5. QED
  BY <1>1, <1>2, <1>3, <1>4

LEMMA AsTaggedIs ==
  ASSUME TypeOK, test > 0, CountsTell
  PROVE  AsTagged(test) <=> /\ Grown.failed = 0
                            /\ Tag = "shouldfail" => Grown.failedButOk > 0
<1>1. Grown.failed \in Nat /\ Grown.failedButOk \in Nat
  BY DEF CountsTell, Counts
<1>2. Tag \in {"none", "mayfail", "shouldfail"}
  <2>1. session \in Sessions /\ test \in 0 .. Len(session.code) /\ Len(session.code) \in Nat
    BY SessionIs DEF TypeOK
  <2>2. QED
    BY <2>1, TestIs
<1>3. AsTagged(test) <=> /\ <<test, "no_assertions">> \notin saw
                         /\ Tag = "none" => <<test, "failure">> \notin saw
                         /\ Tag = "shouldfail" => <<test, "failure">> \in saw
  BY Zenon DEF AsTagged, Tag
<1>4. /\ Tag = "none" => Grown.failedButOk = 0
      /\ Tag = "none" => (Grown.failed > 0 <=> <<test, "failure">> \in saw \/ <<test, "no_assertions">> \in saw)
      /\ Tag # "none" => (Grown.failedButOk > 0 <=> <<test, "failure">> \in saw)
      /\ Tag # "none" => (Grown.failed > 0 <=> <<test, "no_assertions">> \in saw)
  BY Zenon DEF CountsTell, Wrong
<1>5. (Grown.failed > 0 <=> ~ (Grown.failed = 0))
  BY <1>1
<1>6. QED
  BY <1>2, <1>3, <1>4, <1>5, Zenon

(* What runTest answers tells of the test case.                            *)
LEMMA DeltaIs ==
  ASSUME CountsTell
  PROVE  LET d == Expected(Delta(totals, before.test))
         IN  /\ d.assertions \in Counts /\ d.testCases \in Counts
             /\ d.assertions.failed >= Grown.failed
             /\ d.assertions.failed = 0 <=> /\ Grown.failed = 0
                                            /\ Tag = "shouldfail" => Grown.failedButOk > 0
<1> DEFINE e == Delta(totals, before.test)
           d == Expected(e)
<1>1. /\ Grown \in Counts /\ Grown.failed \in Nat /\ Grown.failedButOk \in Nat
  BY DEF CountsTell, Counts
<1>2. /\ e.assertions = Grown /\ e.testCases \in Counts
      /\ e.testCases.passed > 0 <=> Grown.failed = 0 /\ Grown.failedButOk = 0
  BY <1>1, KindIs DEF Delta, Grown
<1> HIDE DEF e
<1>3. CASE Tag = "shouldfail" /\ e.testCases.passed > 0
  <2>1. d = [assertions |-> [e.assertions EXCEPT !.failed = @ + 1],
             testCases |-> [Zero EXCEPT !.failed = 1]]
    BY <1>3 DEF Expected
  <2>2. d.assertions = [Grown EXCEPT !.failed = @ + 1] /\ d.testCases = [Zero EXCEPT !.failed = 1]
    BY <1>2, <2>1
  <2> HIDE DEF d
  <2>3. /\ d.assertions \in Counts /\ d.testCases \in Counts
        /\ d.assertions.failed = Grown.failed + 1
    BY <2>2, <1>1 DEF Counts, Zero
  <2>4. QED
    BY <1>1, <1>2, <1>3, <2>3 DEF d, e
<1>4. CASE ~ (Tag = "shouldfail" /\ e.testCases.passed > 0)
  <2>1. d = e
    BY <1>4 DEF Expected
  <2> HIDE DEF d
  <2>2. QED
    BY <1>1, <1>2, <1>4, <2>1 DEF d, e
<1>5. QED
  BY <1>3, <1>4

LEMMA MinusIs ==
  ASSUME NEW a \in Counts, NEW b \in Counts
  PROVE  LET d == Minus(a, b)
         IN  /\ d = [passed |-> d.passed, failed |-> d.failed, failedButOk |-> d.failedButOk]
             /\ d.passed = a.passed - b.passed /\ d.failed = a.failed - b.failed
             /\ d.failedButOk = a.failedButOk - b.failedButOk
  BY DEF Minus, Counts

LEMMA MinusGrows ==
  ASSUME NEW a \in Counts, NEW b \in Counts, Minus(a, b) \in Counts, NEW n \in Counts,
         NEW p \in Nat, NEW f \in Nat, NEW g \in Nat, n.passed = a.passed + p,
         n.failed = a.failed + f, n.failedButOk = a.failedButOk + g
  PROVE  /\ Minus(n, b) \in Counts
         /\ Minus(n, b).failed = Minus(a, b).failed + f
         /\ Minus(n, b).failedButOk = Minus(a, b).failedButOk + g
<1> DEFINE d == Minus(a, b)
           e == Minus(n, b)
<1>1. /\ e = [passed |-> e.passed, failed |-> e.failed, failedButOk |-> e.failedButOk]
      /\ d.passed = a.passed - b.passed /\ d.failed = a.failed - b.failed
      /\ d.failedButOk = a.failedButOk - b.failedButOk
      /\ e.passed = n.passed - b.passed /\ e.failed = n.failed - b.failed
      /\ e.failedButOk = n.failedButOk - b.failedButOk
  BY MinusIs
<1>2. /\ d.passed \in Nat /\ d.failed \in Nat /\ d.failedButOk \in Nat
      /\ a.passed \in Nat /\ a.failed \in Nat /\ a.failedButOk \in Nat
      /\ b.passed \in Nat /\ b.failed \in Nat /\ b.failedButOk \in Nat
  BY DEF Counts
<1> HIDE DEF d, e
<1>3. e.passed = d.passed + p /\ e.failed = d.failed + f /\ e.failedButOk = d.failedButOk + g
  BY <1>1, <1>2
<1>4. e.passed \in Nat /\ e.failed \in Nat /\ e.failedButOk \in Nat
  BY <1>2, <1>3
<1>5. e \in Counts
  BY <1>1, <1>4 DEF Counts
<1>6. QED
  BY <1>3, <1>5 DEF d, e

(***************************************************************************)
(* A step of a test case that counts p assertions passed, f failed and m   *)
(* failures for the lack of any, and remembers what was seen.              *)
(***************************************************************************)
CountsStep(p, f, m) ==
  /\ totals' = [totals EXCEPT !.assertions = totals'.assertions]
  /\ totals'.assertions \in Counts
  /\ totals'.assertions.passed = totals.assertions.passed + p
  /\ totals'.assertions.failed = totals.assertions.failed + m + (IF Tag = "none" THEN f ELSE 0)
  /\ totals'.assertions.failedButOk = totals.assertions.failedButOk + (IF Tag = "none" THEN 0 ELSE f)
  /\ saw' = saw \cup (IF f > 0 THEN {<<test, "failure">>} ELSE {})
                \cup (IF m > 0 THEN {<<test, "no_assertions">>} ELSE {})

LEMMA TypesAre ==
  ASSUME TypeOK
  PROVE  /\ session \in Sessions /\ test \in Nat /\ test <= Len(session.code)
         /\ Len(session.code) \in Nat
         /\ totals.assertions \in Counts /\ totals.testCases \in Counts
         /\ before.test \in Totals /\ before.test.assertions \in Counts /\ before.cycle \in Counts
         /\ group.assertions \in Counts /\ group.testCases \in Counts
         /\ mode \notin {"group", "over"} => test > 0 /\ test \in 1 .. Len(session.code)
<1>1. session \in Sessions /\ test \in 0 .. Len(session.code) /\ Len(session.code) \in Nat
  BY SessionIs DEF TypeOK
<1>2. /\ totals \in Totals /\ group \in Totals /\ before \in [test : Totals, cycle : Counts]
      /\ mode \notin {"group", "over"} => test > 0
  BY DEF TypeOK
<1>3. QED
  BY <1>1, <1>2 DEF Totals

LEMMA StepCounts ==
  ASSUME TypeOK, Counted, InTestCase, mode' \in {"cycle", "function", "unwinding", "test_over"},
         UNCHANGED <<session, test, group>>, before'.test = before.test,
         NEW p \in Nat, NEW f \in Nat, NEW m \in Nat, CountsStep(p, f, m)
  PROVE  /\ totals' \in Totals
         /\ saw' \subseteq (1 .. test') \X {"failure", "no_assertions"}
         /\ Counted'
<1>1. /\ totals.assertions \in Counts /\ before.test.assertions \in Counts
      /\ test \in Nat /\ test > 0 /\ group.assertions \in Counts
  BY TypesAre DEF InTestCase
<1>2. Grown \in Counts /\ CountsTell /\ group.assertions.failed >= before.test.assertions.failed
  BY DEF Counted, CountsTell
<1>3. totals' \in Totals
  <2>1. totals \in Totals
    BY DEF TypeOK
  <2>2. QED
    BY <2>1 DEF CountsStep, Totals
<1>4. /\ saw' \subseteq (1 .. test') \X {"failure", "no_assertions"}
      /\ <<test, "failure">> \in saw' <=> <<test, "failure">> \in saw \/ f > 0
      /\ <<test, "no_assertions">> \in saw' <=> <<test, "no_assertions">> \in saw \/ m > 0
      /\ \A i \in 1 .. test - 1 : \A what \in {"failure", "no_assertions"} :
           <<i, what>> \in saw' <=> <<i, what>> \in saw
  <2>1. PICK s : s = saw'
    OBVIOUS
  <2>2. s = saw \cup (IF f > 0 THEN {<<test, "failure">>} ELSE {})
                \cup (IF m > 0 THEN {<<test, "no_assertions">>} ELSE {})
    BY <2>1 DEF CountsStep
  <2>3. saw \subseteq (1 .. test) \X {"failure", "no_assertions"}
    BY DEF TypeOK
  <2>4. test \in 1 .. test /\ \A i \in 1 .. test - 1 : i # test
    BY <1>1
  <2>5. /\ s \subseteq (1 .. test) \X {"failure", "no_assertions"}
        /\ <<test, "failure">> \in s <=> <<test, "failure">> \in saw \/ f > 0
        /\ <<test, "no_assertions">> \in s <=> <<test, "no_assertions">> \in saw \/ m > 0
        /\ \A i \in 1 .. test - 1 : \A what \in {"failure", "no_assertions"} :
             <<i, what>> \in s <=> <<i, what>> \in saw
    BY <2>2, <2>3, <2>4
  <2>6. QED
    BY <2>1, <2>5
<1>5. Tag' = Tag
  BY DEF Tag
<1>6. PICK g : /\ g = Grown' /\ g \in Counts
               /\ g.failed = Grown.failed + (m + (IF Tag = "none" THEN f ELSE 0))
               /\ g.failedButOk = Grown.failedButOk + (IF Tag = "none" THEN 0 ELSE f)
  <2>1. PICK n : n = totals'.assertions /\ n \in Counts
    BY DEF CountsStep
  <2>2. PICK x \in Nat, y \in Nat :
          x = m + (IF Tag = "none" THEN f ELSE 0) /\ y = (IF Tag = "none" THEN 0 ELSE f)
    OBVIOUS
  <2>3. /\ n.passed = totals.assertions.passed + p
        /\ n.failed = totals.assertions.failed + x
        /\ n.failedButOk = totals.assertions.failedButOk + y
    <3>1. totals.assertions.failed \in Nat
      BY <1>1 DEF Counts
    <3>2. QED
      BY <2>1, <2>2, <3>1 DEF CountsStep
  <2>4. Grown = Minus(totals.assertions, before.test.assertions)
        /\ Grown' = Minus(n, before.test.assertions)
    BY <2>1 DEF Grown
  <2>5. /\ Minus(n, before.test.assertions) \in Counts
        /\ Minus(n, before.test.assertions).failed = Grown.failed + x
        /\ Minus(n, before.test.assertions).failedButOk = Grown.failedButOk + y
    BY <1>1, <1>2, <2>1, <2>2, <2>3, <2>4, MinusGrows
  <2>6. QED
    BY <2>2, <2>4, <2>5
<1>7. CountsTell'
  <2>1. Grown.failed \in Nat /\ Grown.failedButOk \in Nat
    BY <1>2 DEF Counts
  <2>2. CASE Tag = "none"
    <3>1. g.failedButOk = 0 /\ (g.failed > 0 <=> Grown.failed > 0 \/ f > 0 \/ m > 0)
      <4>1. Grown.failedButOk = 0
        BY <1>2, <2>2 DEF CountsTell
      <4>2. QED
        BY <1>6, <2>1, <2>2, <4>1
    <3>2. Wrong(test)' <=> Wrong(test) \/ f > 0 \/ m > 0
      BY <1>4, Zenon DEF Wrong
    <3>3. QED
      BY <1>2, <1>5, <1>6, <2>2, <3>1, <3>2, Zenon DEF CountsTell
  <2>3. CASE Tag # "none"
    <3>1. /\ g.failedButOk > 0 <=> Grown.failedButOk > 0 \/ f > 0
          /\ g.failed > 0 <=> Grown.failed > 0 \/ m > 0
      BY <1>6, <2>1, <2>3
    <3>2. test' = test
      OBVIOUS
    <3>3. QED
      BY <1>2, <1>4, <1>5, <1>6, <2>3, <3>1, <3>2, Zenon DEF CountsTell
  <2>4. QED
    BY <2>2, <2>3
<1>8. GroupTells'
  <2>1. Done' = test - 1 /\ Done = test - 1 /\ group' = group
    BY DEF Done, InTestCase
  <2>2. \A i \in 1 .. test - 1 : AsTagged(i)' <=> AsTagged(i)
    BY <1>4 DEF AsTagged
  <2>3. GroupTells
    BY DEF Counted, InTestCase
  <2>4. QED
    BY <2>1, <2>2, <2>3, Zenon DEF GroupTells
<1>9. QED
  BY <1>2, <1>3, <1>4, <1>7, <1>8 DEF Counted, InTestCase

(* A step that counts nothing and stays in the test case.                  *)
LEMMA StepCountsNothing ==
  ASSUME TypeOK, Counted, InTestCase, mode' \in {"cycle", "function", "unwinding"},
         exception' \in {"none", "TestFailureException", "unexpected"},
         before' \in [test : Totals, cycle : Counts], before'.test = before.test,
         UNCHANGED <<session, test, totals, group, saw>>
  PROVE  TypeOK' /\ Counted'
<1>1. TypeOK'
  BY DEF TypeOK, InTestCase
<1>2. Counted'
  BY DEF Counted, InTestCase, CountsTell, GroupTells, AsTagged, Done, Wrong, Grown, Tag
<1>3. QED
  BY <1>1, <1>2

(* A step that counts, and stays in the test case.                         *)
LEMMA StepTyped ==
  ASSUME TypeOK, Counted, InTestCase, mode' \in {"cycle", "function", "unwinding", "test_over"},
         exception' \in {"none", "TestFailureException", "unexpected"},
         UNCHANGED <<session, test, group, before>>,
         NEW p \in Nat, NEW f \in Nat, NEW m \in Nat, CountsStep(p, f, m)
  PROVE  TypeOK' /\ Counted'
<1>1. /\ totals' \in Totals
      /\ saw' \subseteq (1 .. test') \X {"failure", "no_assertions"}
      /\ Counted'
  BY StepCounts
<1>2. TypeOK'
  BY <1>1 DEF TypeOK, InTestCase
<1>3. QED
  BY <1>1, <1>2

(* The counters of failures, and what is seen, of each instruction.        *)
LEMMA CheckCounts ==
  ASSUME TypeOK
  PROVE  /\ \A counted \in BOOLEAN : AssertionPasses(counted) =>
              \E p \in Nat : CountsStep(p, 0, 0)
         /\ \A required \in BOOLEAN : AssertionFails(required) => CountsStep(0, 1, 0)
         /\ SectionEnded => \E m \in Nat : CountsStep(0, 0, m)
         /\ RunEnded => \E f \in Nat, m \in Nat : CountsStep(0, f, m)
<1>1. /\ totals \in Totals /\ totals.assertions \in Counts
  BY TypesAre DEF TypeOK
<1>2. /\ totals.assertions.passed \in Nat /\ totals.assertions.failed \in Nat
      /\ totals.assertions.failedButOk \in Nat
  BY <1>1 DEF Counts
<1>3. ASSUME NEW counted \in BOOLEAN, AssertionPasses(counted)
      PROVE  \E p \in Nat : CountsStep(p, 0, 0)
  <2> DEFINE p == IF counted THEN 1 ELSE 0
  <2>1. p \in Nat
    OBVIOUS
  <2>2. totals' = [totals EXCEPT !.assertions.passed = @ + p] /\ saw' = saw
    BY <1>3 DEF AssertionPasses
  <2> HIDE DEF p
  <2>3. CountsStep(p, 0, 0)
    BY <1>1, <1>2, <2>1, <2>2 DEF CountsStep, Totals, Counts
  <2>4. QED
    BY <2>1, <2>3
<1>4. ASSUME NEW required \in BOOLEAN, AssertionFails(required)
      PROVE  CountsStep(0, 1, 0)
  <2>1. PICK a : a = Failure(totals.assertions)
    OBVIOUS
  <2>2. /\ totals' = [totals EXCEPT !.assertions = a]
        /\ saw' = saw \cup {<<test, "failure">>}
    BY <1>4, <2>1 DEF AssertionFails, Seen
  <2>3. /\ a \in Counts /\ a.passed = totals.assertions.passed
        /\ Tag = "none"  => a.failed = totals.assertions.failed + 1
                            /\ a.failedButOk = totals.assertions.failedButOk
        /\ Tag # "none" => a.failed = totals.assertions.failed
                           /\ a.failedButOk = totals.assertions.failedButOk + 1
    BY <1>1, <2>1, FailureIs
  <2>4. totals'.assertions = a
    BY <1>1, <2>2 DEF Totals
  <2>5. QED
    BY <1>2, <2>2, <2>3, <2>4 DEF CountsStep
<1>5. ASSUME SectionEnded
      PROVE  \E m \in Nat : CountsStep(0, 0, m)
  <2>1. PICK m \in {0, 1} :
          /\ totals' = [totals EXCEPT !.assertions.failed = @ + m]
          /\ saw' = IF m > 0 THEN saw \cup {<<test, "no_assertions">>} ELSE saw
    BY <1>5, MissingIs DEF SectionEnded, Seen
  <2>2. CountsStep(0, 0, m)
    BY <1>1, <1>2, <2>1 DEF CountsStep, Totals, Counts
  <2>3. QED
    BY <2>2
<1>6. ASSUME RunEnded
      PROVE  \E f \in Nat, m \in Nat : CountsStep(0, f, m)
  <2>1. PICK f \in {0, 1} : f = IF exception = "unexpected" THEN 1 ELSE 0
    OBVIOUS
  <2>2. PICK a : a = IF exception = "unexpected" THEN Failure(totals.assertions) ELSE totals.assertions
    OBVIOUS
  <2>3. PICK m \in {0, 1} : m = Missing(ctx, Minus(a, before.cycle))
    BY MissingIs
  <2>4. /\ totals' = [totals EXCEPT !.assertions = [a EXCEPT !.failed = @ + m]]
        /\ saw' = saw \cup Seen(m, "no_assertions") \cup Seen(f, "failure")
    BY <1>6, <2>1, <2>2, <2>3 DEF RunEnded
  <2>5. /\ a \in Counts /\ a.passed = totals.assertions.passed
        /\ a.failed = totals.assertions.failed + (IF Tag = "none" THEN f ELSE 0)
        /\ a.failedButOk = totals.assertions.failedButOk + (IF Tag = "none" THEN 0 ELSE f)
    <3>1. CASE exception = "unexpected"
      <4>1. a = Failure(totals.assertions) /\ f = 1
        BY <2>1, <2>2, <3>1
      <4>2. QED
        BY <1>1, <1>2, <4>1, FailureIs
    <3>2. CASE exception # "unexpected"
      BY <1>1, <1>2, <2>1, <2>2, <3>2
    <3>3. QED
      BY <3>1, <3>2
  <2>6. PICK b : b = [a EXCEPT !.failed = @ + m]
    OBVIOUS
  <2>7. /\ b \in Counts /\ b.passed = totals.assertions.passed
        /\ b.failed = totals.assertions.failed + m + (IF Tag = "none" THEN f ELSE 0)
        /\ b.failedButOk = totals.assertions.failedButOk + (IF Tag = "none" THEN 0 ELSE f)
    BY <1>2, <2>5, <2>6 DEF Counts
  <2>8. totals' = [totals EXCEPT !.assertions = b] /\ totals'.assertions = b
    BY <1>1, <2>4, <2>6 DEF Totals
  <2>9. saw' = saw \cup (IF f > 0 THEN {<<test, "failure">>} ELSE {})
                   \cup (IF m > 0 THEN {<<test, "no_assertions">>} ELSE {})
    BY <2>4 DEF Seen
  <2>10. CountsStep(0, f, m)
    BY <1>2, <2>7, <2>8, <2>9 DEF CountsStep
  <2>11. QED
    BY <2>10
<1>7. QED
  BY <1>3, <1>4, <1>5, <1>6

LEMMA RunTestCounted ==
  ASSUME TypeOK, Counted, RunTest
  PROVE  TypeOK' /\ Counted'
<1>1. /\ mode = "group" /\ mode' = "cycle" /\ test' = test + 1 /\ test < Len(session.code)
      /\ before' = [before EXCEPT !.test = totals]
      /\ UNCHANGED <<session, exception, totals, group, saw>>
  BY DEF RunTest
<1>2. /\ test \in Nat /\ Len(session.code) \in Nat /\ totals \in Totals /\ totals.assertions \in Counts
      /\ group.assertions.failed >= totals.assertions.failed
      /\ saw \subseteq (1 .. test) \X {"failure", "no_assertions"}
      /\ before \in [test : Totals, cycle : Counts]
  BY <1>1, TypesAre DEF TypeOK, Counted
<1>3. before' \in [test : Totals, cycle : Counts] /\ before'.test = totals
  BY <1>1, <1>2
<1>4. /\ test' \in 0 .. Len(session.code) /\ test' > 0
      /\ saw \subseteq (1 .. test') \X {"failure", "no_assertions"}
  BY <1>1, <1>2
<1>5. TypeOK'
  BY <1>1, <1>3, <1>4 DEF TypeOK
<1>6. CountsTell'
  <2>1. PICK n : n = test' /\ n = test + 1
    BY <1>1
  <2>2. <<n, "failure">> \notin saw /\ <<n, "no_assertions">> \notin saw
    BY <1>2, <2>1
  <2>3. PICK g : g = Grown' /\ g = Minus(totals.assertions, totals.assertions)
    BY <1>1, <1>3 DEF Grown
  <2>4. g \in Counts /\ g.failed = 0 /\ g.failedButOk = 0
    BY <1>2, <2>3 DEF Minus, Counts
  <2>5. ~ Wrong(test)' /\ <<test', "failure">> \notin saw' /\ <<test', "no_assertions">> \notin saw'
    BY <1>1, <2>1, <2>2 DEF Wrong
  <2>6. QED
    BY <2>3, <2>4, <2>5 DEF CountsTell
<1>7. GroupTells'
  <2>1. Done' = test /\ Done = test /\ group' = group
    BY <1>1, <1>2 DEF Done
  <2>2. \A i : AsTagged(i)' <=> AsTagged(i)
    BY <1>1 DEF AsTagged
  <2>3. GroupTells
    BY <1>1 DEF Counted
  <2>4. QED
    BY <2>1, <2>2, <2>3, Zenon DEF GroupTells
<1>8. QED
  BY <1>1, <1>2, <1>3, <1>5, <1>6, <1>7 DEF Counted, InTestCase

(* The test cases that an abort skips leave the session a failed one.      *)
LEMMA SkipTestsCounted ==
  ASSUME TypeOK, Counted, SkipTests
  PROVE  TypeOK' /\ Counted'
<1>1. /\ mode = "group" /\ mode' = "group" /\ test' = Len(session.code) /\ test < Len(session.code)
      /\ totals.assertions.failed >= session.abortAfter
      /\ UNCHANGED <<session, exception, totals, before, group, saw>>
  BY DEF SkipTests, aborting
<1>2. /\ test \in Nat /\ Len(session.code) \in Nat /\ totals.assertions \in Counts
      /\ group.assertions \in Counts /\ session.abortAfter \in Nat \ {0}
      /\ group.assertions.failed >= totals.assertions.failed /\ GroupTells
      /\ saw \subseteq (1 .. test) \X {"failure", "no_assertions"}
  BY <1>1, TypesAre, SessionIs DEF TypeOK, Counted
<1>3. /\ test' \in 0 .. Len(session.code)
      /\ saw \subseteq (1 .. test') \X {"failure", "no_assertions"}
  BY <1>1, <1>2
<1>4. TypeOK'
  BY <1>1, <1>3 DEF TypeOK
<1>5. group.assertions.failed # 0
  BY <1>1, <1>2 DEF Counts
<1>6. PICK i \in 1 .. test : ~ AsTagged(i)
  <2>1. Done = test
    BY <1>1 DEF Done
  <2>2. QED
    BY <1>2, <1>5, <2>1 DEF GroupTells
<1>7. i \in 1 .. Len(session.code)
  BY <1>1, <1>2
<1>8. GroupTells'
  <2>1. Done' = Len(session.code) /\ group' = group
    BY <1>1 DEF Done
  <2>2. ~ AsTagged(i)'
    BY <1>1, <1>6 DEF AsTagged
  <2>3. QED
    BY <1>5, <1>7, <2>1, <2>2, Zenon DEF GroupTells
<1>9. QED
  BY <1>1, <1>2, <1>4, <1>8 DEF Counted, InTestCase

LEMMA PlusIs ==
  ASSUME NEW a \in Counts, NEW b \in Counts
  PROVE  Plus(a, b) \in Counts /\ Plus(a, b).failed = a.failed + b.failed
  BY DEF Plus, Counts

LEMMA TestCaseEndedCounted ==
  ASSUME TypeOK, Counted, TestCaseEnded
  PROVE  TypeOK' /\ Counted'
<1> DEFINE d == Expected(Delta(totals, before.test))
<1>1. /\ mode = "test_over" /\ mode' = "group"
      /\ totals' = [totals EXCEPT !.testCases = Plus(@, d.testCases)]
      /\ group' = [assertions |-> Plus(group.assertions, d.assertions),
                   testCases |-> Plus(group.testCases, d.testCases)]
      /\ UNCHANGED <<session, test, exception, before, saw>>
  BY DEF TestCaseEnded
<1>2. /\ d.assertions \in Counts /\ d.testCases \in Counts
      /\ d.assertions.failed >= Grown.failed
      /\ d.assertions.failed = 0 <=> AsTagged(test)
  <2>1. CountsTell /\ test > 0
    BY <1>1 DEF Counted, TypeOK
  <2>2. /\ d.assertions \in Counts /\ d.testCases \in Counts
        /\ d.assertions.failed >= Grown.failed
        /\ d.assertions.failed = 0 <=> /\ Grown.failed = 0
                                       /\ Tag = "shouldfail" => Grown.failedButOk > 0
    BY <2>1, DeltaIs
  <2> HIDE DEF d
  <2>3. QED
    BY <2>1, <2>2, AsTaggedIs, Zenon
<1> HIDE DEF d
<1>3. /\ totals \in Totals /\ totals.assertions \in Counts /\ totals.testCases \in Counts
      /\ group.assertions \in Counts /\ group.testCases \in Counts
      /\ before.test.assertions \in Counts /\ test \in Nat /\ test > 0
      /\ group.assertions.failed >= before.test.assertions.failed
  BY <1>1, TypesAre DEF TypeOK, Counted
<1>4. /\ totals' \in Totals /\ totals'.assertions = totals.assertions
      /\ group' \in Totals
      /\ group'.assertions.failed = group.assertions.failed + d.assertions.failed
  BY <1>1, <1>2, <1>3, PlusIs DEF Totals
<1>5. TypeOK'
  BY <1>1, <1>4 DEF TypeOK
<1>6. group'.assertions.failed >= totals'.assertions.failed
  <2>1. Grown.failed = totals.assertions.failed - before.test.assertions.failed
    BY <1>3, MinusIs DEF Grown
  <2>2. /\ group.assertions.failed \in Nat /\ d.assertions.failed \in Nat
        /\ totals.assertions.failed \in Nat /\ before.test.assertions.failed \in Nat
    BY <1>2, <1>3 DEF Counts
  <2>3. QED
    BY <1>2, <1>3, <1>4, <2>1, <2>2
<1>7. GroupTells'
  <2>1. Done' = test /\ Done = test - 1
    BY <1>1 DEF Done
  <2>2. \A i : AsTagged(i)' <=> AsTagged(i)
    BY <1>1 DEF AsTagged
  <2>3. group.assertions.failed = 0 <=> \A i \in 1 .. test - 1 : AsTagged(i)
    BY <1>1, <2>1 DEF Counted, GroupTells
  <2>4. group'.assertions.failed = 0 <=> group.assertions.failed = 0 /\ d.assertions.failed = 0
    BY <1>2, <1>3, <1>4 DEF Counts
  <2>5. \A i : i \in 1 .. test <=> i \in 1 .. test - 1 \/ i = test
    BY <1>3
  <2>6. QED
    BY <1>2, <2>1, <2>2, <2>3, <2>4, <2>5, Zenon DEF GroupTells
<1>8. QED
  BY <1>1, <1>5, <1>6, <1>7 DEF Counted, InTestCase

LEMMA SessionEndsCounted ==
  ASSUME TypeOK, Counted, SessionEnds
  PROVE  TypeOK' /\ Counted'
<1>1. /\ mode = "group" /\ mode' = "over" /\ test = Len(session.code)
      /\ exitCode' = IF "NoTests" \in session.warn /\ session.noMatch THEN 2
                     ELSE Clamped(group.assertions.failed)
      /\ UNCHANGED <<session, test, exception, totals, before, group, saw>>
  BY DEF SessionEnds
<1>2. TypeOK'
  BY <1>1 DEF TypeOK
<1>3. GroupTells'
  BY <1>1 DEF Counted, GroupTells, Done, AsTagged
<1>4. QED
  BY <1>1, <1>2, <1>3 DEF Counted, InTestCase, Clamped

LEMMA FatalCounted ==
  ASSUME TypeOK, FatalErrorCondition
  PROVE  TypeOK' /\ Counted'
<1>1. /\ mode = "function" /\ mode' = "dead"
      /\ totals' = [assertions |-> Failure(totals.assertions),
                    testCases |-> [totals.testCases EXCEPT !.failed = @ + 1]]
      /\ saw' = saw \cup {<<test, "failure">>}
      /\ UNCHANGED <<session, test, exception, before, group>>
  BY DEF FatalErrorCondition, Seen
<1>2. /\ totals.assertions \in Counts /\ totals.testCases \in Counts
      /\ saw \subseteq (1 .. test) \X {"failure", "no_assertions"}
      /\ test \in Nat /\ test > 0
  BY <1>1, TypesAre DEF TypeOK
<1>3. totals' \in Totals
  BY <1>1, <1>2, FailureIs DEF Totals, Counts
<1>4. saw' \subseteq (1 .. test) \X {"failure", "no_assertions"}
  <2>1. test \in 1 .. test
    BY <1>2
  <2>2. QED
    BY <1>1, <1>2, <2>1
<1>5. TypeOK'
  BY <1>1, <1>3, <1>4 DEF TypeOK
<1>6. QED
  BY <1>1, <1>5 DEF Counted, InTestCase

LEMMA CountedStep ==
  ASSUME TypeOK, Counted, [Next]_vars
  PROVE  TypeOK' /\ Counted'
<1>1. CASE RunTest
  BY <1>1, RunTestCounted
<1>2. CASE SkipTests
  BY <1>2, SkipTestsCounted
<1>3. CASE StartCycle
  <2>1. totals \in Totals /\ totals.assertions \in Counts /\ before \in [test : Totals, cycle : Counts]
    BY TypesAre DEF TypeOK
  <2>2. before' \in [test : Totals, cycle : Counts] /\ before'.test = before.test
    BY <1>3, <2>1 DEF StartCycle
  <2>3. QED
    BY <1>3, <2>2, StepCountsNothing DEF StartCycle, InTestCase, TypeOK
<1>4. CASE SectionStarted \/ Generate \/ CodeThrows \/ SectionEndedEarly
  <2>1. /\ InTestCase /\ mode' \in {"cycle", "function", "unwinding"}
        /\ exception' \in {"none", "TestFailureException", "unexpected"}
        /\ UNCHANGED <<session, test, totals, group, saw, before>>
    <3>1. CASE SectionStarted
      BY <3>1 DEF SectionStarted, At, InTestCase, TypeOK
    <3>2. CASE Generate
      BY <3>2 DEF Generate, At, InTestCase, TypeOK
    <3>3. CASE CodeThrows
      BY <3>3 DEF CodeThrows, At, Throws, InTestCase, TypeOK
    <3>4. CASE SectionEndedEarly
      BY <3>4 DEF SectionEndedEarly, InTestCase, TypeOK
    <3>5. QED
      BY <1>4, <3>1, <3>2, <3>3, <3>4
  <2>2. QED
    BY <2>1, StepCountsNothing DEF TypeOK
<1>5. CASE SectionEnded
  <2>1. /\ InTestCase /\ mode' = "function" /\ exception' = exception
        /\ UNCHANGED <<session, test, group, before>>
    BY <1>5 DEF SectionEnded, At, InTestCase
  <2>2. QED
    BY <1>5, <2>1, CheckCounts, StepTyped DEF TypeOK
<1>6. CASE \E counted \in BOOLEAN : AssertionPasses(counted)
  <2>1. /\ InTestCase /\ mode' = "function" /\ exception' = exception
        /\ UNCHANGED <<session, test, group, before>>
    BY <1>6 DEF AssertionPasses, At, InTestCase
  <2>2. QED
    BY <1>6, <2>1, CheckCounts, StepTyped DEF TypeOK
<1>7. CASE \E required \in BOOLEAN : AssertionFails(required)
  <2>1. /\ InTestCase /\ mode' \in {"function", "unwinding"}
        /\ exception' \in {"none", "TestFailureException", "unexpected"}
        /\ UNCHANGED <<session, test, group, before>>
    BY <1>7 DEF AssertionFails, At, Throws, InTestCase, TypeOK
  <2>2. QED
    BY <1>7, <2>1, CheckCounts, StepTyped
<1>8. CASE RunEnded
  <2>1. /\ InTestCase /\ mode' \in {"cycle", "test_over"} /\ exception' = "none"
        /\ UNCHANGED <<session, test, group, before>>
    BY <1>8 DEF RunEnded, InTestCase
  <2>2. QED
    BY <1>8, <2>1, CheckCounts, StepTyped
<1>9. CASE TestCaseEnded
  BY <1>9, TestCaseEndedCounted
<1>10. CASE SessionEnds
  BY <1>10, SessionEndsCounted
<1>11. CASE FatalErrorCondition
  BY <1>11, FatalCounted
<1>12. CASE UNCHANGED vars
  BY <1>12 DEF vars, TypeOK, Counted, InTestCase, CountsTell, GroupTells, AsTagged, Done, Wrong,
               Grown, Tag
<1>13. QED
  BY <1>1, <1>2, <1>3, <1>4, <1>5, <1>6, <1>7, <1>8, <1>9, <1>10, <1>11, <1>12 DEF Next, Goes

-----------------------------------------------------------------------------
(***************************************************************************)
(* The trackers of the session: from one cycle of a test case to the next  *)
(* they are a tree; while the function runs it is in the sections that are *)
(* active; and once aborting, the cycle is complete, so that no section    *)
(* begins.                                                                 *)
(***************************************************************************)
Tracking ==
  /\ IsContext(ctx)
  /\ active \in Seq(Scoped) /\ unfinished \in Seq(Scoped)
  /\ mode \in {"group", "cycle", "test_over"} => active = <<>> /\ unfinished = <<>>
  /\ mode = "cycle" => /\ Tree(Code, ctx)
                       /\ ~ aborting
                       /\ TestCase \in DOMAIN ctx.state => IsBusy(ctx, TestCase)
  /\ mode = "function" => /\ InFunction(Code, ctx, active, pc)
                          /\ unfinished = <<>>
                          /\ aborting => ctx.completedCycle
  /\ mode = "unwinding" => Tree(Code, ctx) /\ ActiveAround(Code, ctx, active)

LEMMA CodeIs ==
  ASSUME TypeOK, mode \notin {"group", "over"}
  PROVE  IsCode(Code) /\ Len(Code) \in Nat
<1>1. session \in Sessions /\ test \in 1 .. Len(session.code)
  BY TypesAre
<1>2. Code \in Seq({"section", "end", "generate", "check"}) /\ Nested(Code)
  BY <1>1, TestIs
<1>3. QED
  BY <1>2 DEF IsCode

LEMMA TreeIsContext ==
  ASSUME NEW code, NEW c, Tree(code, c)
  PROVE  IsContext(c)
  BY DEF Tree, Ordered

(* Two ways to be in a test case after a step, with what is unchanged.     *)
LEMMA StaysInFunction ==
  ASSUME TypeOK, Tracking, mode' = "function", UNCHANGED <<session, test>>,
         active' \in Seq(Scoped), unfinished' = <<>>,
         NEW c, NEW act, NEW x, c = ctx', act = active', x = pc', InFunction(Code, c, act, x),
         aborting' => c.completedCycle
  PROVE  Tracking'
<1>1. Code' = Code
  BY DEF Code
<1>2. IsContext(c)
  BY TreeIsContext DEF InFunction
<1>3. QED
  BY <1>1, <1>2 DEF Tracking

LEMMA TrackingStarts ==
  ASSUME TypeOK, Tracking
  PROVE  /\ RunTest => Tracking'
         /\ SkipTests => Tracking'
         /\ TestCaseEnded => Tracking'
         /\ SessionEnds => Tracking'
         /\ FatalErrorCondition => Tracking'
         /\ UNCHANGED vars => Tracking'
<1>1. ASSUME RunTest PROVE Tracking'
  <2>1. /\ mode = "group" /\ mode' = "cycle" /\ ctx' = startRun(session.sections)
        /\ ~ aborting /\ UNCHANGED <<session, totals, active, unfinished>>
    BY <1>1 DEF RunTest
  <2>2. PICK c : c = ctx' /\ c = startRun(session.sections)
    BY <2>1
  <2>3. PICK code : code = Code'
    OBVIOUS
  <2>4. Tree(code, c) /\ TestCase \notin DOMAIN c.state
    BY <2>2, RunStarts
  <2>5. IsContext(c)
    BY <2>4, TreeIsContext
  <2>6. ~ aborting'
    BY <2>1 DEF aborting
  <2>7. QED
    BY <2>1, <2>2, <2>3, <2>4, <2>5, <2>6 DEF Tracking
<1>2. ASSUME SkipTests PROVE Tracking'
  BY <1>2 DEF SkipTests, Tracking
<1>3. ASSUME TestCaseEnded PROVE Tracking'
  BY <1>3 DEF TestCaseEnded, Tracking
<1>4. ASSUME SessionEnds PROVE Tracking'
  BY <1>4 DEF SessionEnds, Tracking
<1>5. ASSUME FatalErrorCondition PROVE Tracking'
  BY <1>5 DEF FatalErrorCondition, Tracking
<1>6. ASSUME UNCHANGED vars PROVE Tracking'
  BY <1>6 DEF vars, Tracking, Code, aborting
<1>7. QED
  BY <1>1, <1>2, <1>3, <1>4, <1>5, <1>6

LEMMA StartCycleTracks ==
  ASSUME TypeOK, Tracking, StartCycle
  PROVE  Tracking'
<1>1. /\ mode = "cycle" /\ mode' = "function" /\ pc' = 1
      /\ ctx' = acquireSection(startCycle(ctx), Last(TestCase))
      /\ UNCHANGED <<session, test, totals, active, unfinished>>
  BY DEF StartCycle
<1>2. /\ Tree(Code, ctx) /\ (TestCase \in DOMAIN ctx.state => IsBusy(ctx, TestCase))
      /\ ~ aborting /\ active = <<>> /\ unfinished = <<>> /\ active \in Seq(Scoped)
  BY <1>1 DEF Tracking
<1>3. IsCode(Code)
  BY <1>1, CodeIs
<1>4. PICK c, act, x : /\ c = ctx' /\ act = active' /\ x = pc' /\ act = <<>> /\ x = 1
                       /\ c = acquireSection(startCycle(ctx), Last(TestCase))
  BY <1>1, <1>2
<1>5. InFunction(Code, c, act, x)
  BY <1>2, <1>3, <1>4, CycleStarts
<1>6. ~ aborting' /\ active' \in Seq(Scoped) /\ unfinished' = <<>>
  BY <1>1, <1>2 DEF aborting
<1>7. QED
  BY <1>1, <1>4, <1>5, <1>6, StaysInFunction

(* Where the function is before an instruction.                            *)
LEMMA AtIs ==
  ASSUME TypeOK, Tracking, NEW instruction, At(instruction)
  PROVE  /\ mode = "function" /\ pc \in 1 .. Len(Code) /\ Code[pc] = instruction
         /\ IsCode(Code) /\ InFunction(Code, ctx, active, pc)
         /\ active \in Seq(Scoped) /\ unfinished = <<>>
         /\ aborting => ctx.completedCycle
         /\ UNCHANGED <<session, test>>
<1>1. /\ mode = "function" /\ pc <= Len(Code) /\ Code[pc] = instruction
      /\ UNCHANGED <<session, test>>
  BY DEF At
<1>2. /\ InFunction(Code, ctx, active, pc) /\ active \in Seq(Scoped) /\ unfinished = <<>>
      /\ aborting => ctx.completedCycle
  BY <1>1 DEF Tracking
<1>3. IsCode(Code) /\ Len(Code) \in Nat
  BY <1>1, CodeIs
<1>4. pc \in 1 .. Len(Code)
  <2>1. pc \in 1 .. Len(Code) + 1
    BY <1>2 DEF InFunction, FunctionAt
  <2>2. QED
    BY <1>1, <1>3, <2>1
<1>5. QED
  BY <1>1, <1>2, <1>3, <1>4

LEMMA SectionStartedTracks ==
  ASSUME TypeOK, Tracking, SectionStarted
  PROVE  /\ Tracking'
         /\ aborting => UNCHANGED reporter
<1> DEFINE t == Append(ctx.current, pc)
<1>1. /\ mode = "function" /\ pc \in 1 .. Len(Code) /\ Code[pc] = "section"
      /\ IsCode(Code) /\ InFunction(Code, ctx, active, pc)
      /\ active \in Seq(Scoped) /\ unfinished = <<>>
      /\ aborting => ctx.completedCycle
      /\ UNCHANGED <<session, test>>
  BY AtIs DEF SectionStarted
<1>2. /\ ctx' = acquireSection(ctx, pc)
      /\ UNCHANGED <<mode, unfinished, totals>>
      /\ \/ /\ isOpen(ctx', t)
            /\ active' = Append(active, [tracker |-> t, prevAssertions |-> totals.assertions])
            /\ pc' = pc + 1
         \/ /\ ~ isOpen(ctx', t)
            /\ pc' = EndOf(Code, pc) + 1 /\ active' = active /\ reporter' = reporter
  BY DEF SectionStarted, NothingTold
<1>3. aborting' <=> aborting
  BY <1>1, <1>2 DEF aborting
<1>4. PICK c : c = ctx' /\ c = acquireSection(ctx, pc)
  BY <1>2
<1>5. CASE isOpen(ctx', t)
  <2>1. PICK s : s = [tracker |-> t, prevAssertions |-> totals.assertions]
    OBVIOUS
  <2>2. t \in Path
    BY <1>1, AsksFor
  <2>3. s \in Scoped /\ s.tracker = t
    BY <2>1, <2>2, TypesAre DEF Scoped
  <2>4. PICK act : act = active' /\ act = Append(active, s)
    BY <1>2, <1>5, <2>1
  <2>5. isOpen(c, t)
    BY <1>4, <1>5
  <2>6. InFunction(Code, c, act, pc + 1)
    BY <1>1, <1>4, <2>3, <2>4, <2>5, EntersSection
  <2>7. ~ ctx.completedCycle
    BY <1>1, <1>4, <2>5, EntersOpened
  <2>8. active' \in Seq(Scoped)
    BY <1>1, <2>3, <2>4, AppendProperties
  <2>9. Tracking'
    BY <1>1, <1>2, <1>3, <1>4, <1>5, <2>4, <2>6, <2>7, <2>8, StaysInFunction
  <2>10. QED
    BY <1>1, <2>7, <2>9
<1>6. CASE ~ isOpen(ctx', t)
  <2>1. ~ isOpen(c, t)
    BY <1>4, <1>6
  <2>2. InFunction(Code, c, active, EndOf(Code, pc) + 1) /\ c.completedCycle = ctx.completedCycle
    BY <1>1, <1>4, <2>1, PassesSection
  <2>3. Tracking'
    BY <1>1, <1>2, <1>3, <1>4, <1>6, <2>2, StaysInFunction
  <2>4. QED
    BY <1>2, <1>6, <2>3
<1>7. QED
  BY <1>5, <1>6

LEMMA SectionEndedTracks ==
  ASSUME TypeOK, Tracking, SectionEnded
  PROVE  Tracking' /\ active # <<>> /\ unfinished = <<>>
<1>1. /\ mode = "function" /\ pc \in 1 .. Len(Code) /\ Code[pc] = "end"
      /\ IsCode(Code) /\ InFunction(Code, ctx, active, pc)
      /\ active \in Seq(Scoped) /\ unfinished = <<>>
      /\ UNCHANGED <<session, test>>
  BY AtIs DEF SectionEnded
<1>2. /\ ctx' = close(ctx, Last(active).tracker) /\ active' = Front(active) /\ pc' = pc + 1
      /\ UNCHANGED <<mode, unfinished>>
  BY DEF SectionEnded
<1>3. PICK c : c = ctx' /\ c = close(ctx, Last(active).tracker)
  BY <1>2
<1>4. active # <<>> /\ InFunction(Code, c, Front(active), pc + 1) /\ c.completedCycle
  BY <1>1, <1>3, LeavesSection
<1>5. Front(active) \in Seq(Scoped)
  BY <1>1, <1>4, LastAndFront
<1>6. Tracking'
  BY <1>1, <1>2, <1>3, <1>4, <1>5, StaysInFunction
<1>7. QED
  BY <1>1, <1>4, <1>6

LEMMA GenerateTracks ==
  ASSUME TypeOK, Tracking, Generate
  PROVE  Tracking'
<1>1. /\ mode = "function" /\ pc \in 1 .. Len(Code) /\ Code[pc] = "generate"
      /\ IsCode(Code) /\ InFunction(Code, ctx, active, pc)
      /\ active \in Seq(Scoped) /\ unfinished = <<>>
      /\ aborting => ctx.completedCycle
      /\ UNCHANGED <<session, test>>
  BY AtIs DEF Generate
<1>2. /\ ctx' = acquireGenerator(ctx, pc, session.values) /\ pc' = pc + 1
      /\ UNCHANGED <<mode, active, unfinished, totals>>
  BY DEF Generate
<1>3. session.values \in Nat
  BY SessionIs DEF TypeOK
<1>4. PICK c : c = ctx' /\ c = acquireGenerator(ctx, pc, session.values)
  BY <1>2
<1>5. InFunction(Code, c, active, pc + 1) /\ c.completedCycle = ctx.completedCycle
  BY <1>1, <1>3, <1>4, Generates
<1>6. aborting' <=> aborting
  BY <1>1, <1>2 DEF aborting
<1>7. QED
  BY <1>1, <1>2, <1>4, <1>5, <1>6, StaysInFunction

LEMMA AssertionTracks ==
  ASSUME TypeOK, Tracking
  PROVE  /\ \A counted \in BOOLEAN : AssertionPasses(counted) => Tracking'
         /\ \A required \in BOOLEAN : AssertionFails(required) => Tracking'
         /\ CodeThrows => Tracking'
<1>1. ASSUME At("check")
      PROVE  /\ mode = "function" /\ IsCode(Code) /\ InFunction(Code, ctx, active, pc)
             /\ Tree(Code, ctx) /\ ActiveAround(Code, ctx, active)
             /\ InFunction(Code, ctx, active, pc + 1)
             /\ active \in Seq(Scoped) /\ unfinished = <<>>
             /\ aborting => ctx.completedCycle
             /\ UNCHANGED <<session, test>>
  <2>1. /\ mode = "function" /\ pc \in 1 .. Len(Code) /\ Code[pc] = "check"
        /\ IsCode(Code) /\ InFunction(Code, ctx, active, pc)
        /\ active \in Seq(Scoped) /\ unfinished = <<>>
        /\ aborting => ctx.completedCycle
        /\ UNCHANGED <<session, test>>
    BY <1>1, AtIs
  <2>2. InFunction(Code, ctx, active, pc + 1)
    BY <2>1, PassesCheck
  <2>3. QED
    BY <2>1, <2>2 DEF InFunction
<1>2. ASSUME At("check"), UNCHANGED <<ctx, active, unfinished>>, mode' = "unwinding"
      PROVE  Tracking'
  <2>1. Code' = Code
    BY <1>1, <1>2 DEF Code
  <2>2. IsContext(ctx)
    BY DEF Tracking
  <2>3. QED
    BY <1>1, <1>2, <2>1, <2>2 DEF Tracking
<1>3. ASSUME At("check"), UNCHANGED <<mode, ctx, active, unfinished>>, pc' = pc + 1,
             aborting' => aborting
      PROVE  Tracking'
  BY <1>1, <1>3, StaysInFunction
<1>4. ASSUME NEW counted \in BOOLEAN, AssertionPasses(counted) PROVE Tracking'
  <2>1. /\ At("check") /\ pc' = pc + 1 /\ UNCHANGED <<mode, ctx, active, unfinished>>
        /\ totals' = [totals EXCEPT !.assertions.passed = @ + (IF counted THEN 1 ELSE 0)]
    BY <1>4 DEF AssertionPasses
  <2>2. totals'.assertions.failed = totals.assertions.failed
    <3>1. totals.assertions \in Counts /\ totals \in Totals
      BY TypesAre DEF TypeOK
    <3>2. QED
      BY <2>1, <3>1 DEF Totals, Counts
  <2>3. aborting' => aborting
    BY <1>1, <2>1, <2>2 DEF aborting
  <2>4. QED
    BY <1>3, <2>1, <2>3
<1>5. ASSUME NEW required \in BOOLEAN, AssertionFails(required) PROVE Tracking'
  <2>1. /\ At("check") /\ UNCHANGED <<ctx, active, unfinished>>
        /\ IF shouldThrow(required, totals'.assertions)
           THEN Throws("TestFailureException")
           ELSE pc' = pc + 1 /\ UNCHANGED <<mode, exception, left>>
    BY <1>5 DEF AssertionFails
  <2>2. CASE shouldThrow(required, totals'.assertions)
    BY <1>2, <2>1, <2>2 DEF Throws
  <2>3. CASE ~ shouldThrow(required, totals'.assertions)
    <3>1. ~ aborting'
      BY <1>1, <2>1, <2>3 DEF shouldThrow, aborting
    <3>2. QED
      BY <1>3, <2>1, <2>3, <3>1
  <2>4. QED
    BY <2>2, <2>3
<1>6. ASSUME CodeThrows PROVE Tracking'
  BY <1>2, <1>6 DEF CodeThrows, Throws
<1>7. QED
  BY <1>4, <1>5, <1>6

LEMMA EndsTrack ==
  ASSUME TypeOK, Tracking
  PROVE  /\ SectionEndedEarly => Tracking'
         /\ RunEnded => Tracking' /\ active = <<>>
<1>1. ASSUME SectionEndedEarly PROVE Tracking'
  <2>1. /\ mode = "unwinding" /\ active # <<>> /\ mode' = mode
        /\ ctx' = LeftEarly(ctx, Last(active).tracker)
        /\ unfinished' = Append(unfinished, Last(active)) /\ active' = Front(active)
        /\ UNCHANGED <<session, test>>
    BY <1>1 DEF SectionEndedEarly
  <2>2. /\ Tree(Code, ctx) /\ ActiveAround(Code, ctx, active)
        /\ active \in Seq(Scoped) /\ unfinished \in Seq(Scoped)
    BY <2>1 DEF Tracking
  <2>3. PICK c : c = ctx' /\ c \in {fail(ctx, Last(active).tracker), close(ctx, Last(active).tracker)}
    BY <2>1 DEF LeftEarly
  <2>4. Tree(Code, c) /\ ActiveAround(Code, c, Front(active)) /\ Front(active) \in Seq(Scoped)
    BY <2>1, <2>2, <2>3, LeavesEarly
  <2>5. Append(unfinished, Last(active)) \in Seq(Scoped)
    BY <2>1, <2>2, LastAndFront, AppendProperties
  <2>6. Code' = Code /\ IsContext(c)
    BY <2>1, <2>4, TreeIsContext DEF Code
  <2>7. QED
    BY <2>1, <2>3, <2>4, <2>5, <2>6 DEF Tracking
<1>2. ASSUME RunEnded PROVE Tracking' /\ active = <<>>
  <2>1. /\ (mode = "function" /\ pc > Len(Code)) \/ (mode = "unwinding" /\ active = <<>>)
        /\ ctx' = close(ctx, TestCase) /\ unfinished' = <<>>
        /\ mode' = IF isSuccessfullyCompleted(ctx', TestCase) \/ aborting' THEN "test_over" ELSE "cycle"
        /\ UNCHANGED <<session, test, active>>
    BY <1>2 DEF RunEnded
  <2>2. IsCode(Code) /\ Len(Code) \in Nat
    BY <2>1, CodeIs
  <2>3. Tree(Code, ctx) /\ ctx.current # Root /\ active \in Seq(Scoped)
    BY <2>1 DEF Tracking, InFunction, ActiveAround
  <2>4. active = <<>>
    <3>1. CASE mode = "function" /\ pc > Len(Code)
      <4>1. InFunction(Code, ctx, active, pc)
        BY <3>1 DEF Tracking
      <4>2. pc = Len(Code) + 1
        BY <2>2, <3>1, <4>1 DEF InFunction, FunctionAt
      <4>3. QED
        BY <2>2, <2>3, <4>1, <4>2, FunctionOver
    <3>2. QED
      BY <2>1, <3>1
  <2>5. PICK c : c = ctx' /\ c = close(ctx, TestCase)
    BY <2>1
  <2>6. /\ Tree(Code, c)
        /\ ~ isSuccessfullyCompleted(c, TestCase) => IsBusy(c, TestCase)
    BY <2>3, <2>5, CaseCloses
  <2>7. Code' = Code /\ IsContext(c)
    BY <2>1, <2>6, TreeIsContext DEF Code
  <2>8. active' = <<>> /\ active' \in Seq(Scoped) /\ unfinished' \in Seq(Scoped)
    BY <2>1, <2>4
  <2>9. CASE mode' = "cycle"
    <3>1. ~ isSuccessfullyCompleted(c, TestCase) /\ ~ aborting'
      BY <2>1, <2>5, <2>9
    <3>2. QED
      BY <2>1, <2>4, <2>5, <2>6, <2>7, <2>8, <2>9, <3>1 DEF Tracking
  <2>10. CASE mode' = "test_over"
    BY <2>1, <2>4, <2>5, <2>7, <2>8, <2>10 DEF Tracking
  <2>11. QED
    BY <2>1, <2>4, <2>9, <2>10
<1>3. QED
  BY <1>1, <1>2

LEMMA TrackingStep ==
  ASSUME TypeOK, Tracking, [Next]_vars
  PROVE  Tracking'
  BY TrackingStarts, StartCycleTracks, SectionStartedTracks, SectionEndedTracks, GenerateTracks,
     AssertionTracks, EndsTrack DEF Next, Goes

LEMMA InitTracks ==
  ASSUME Init
  PROVE  Tracking
<1>1. /\ mode = "group" /\ ctx = startRun(<<>>) /\ active = <<>> /\ unfinished = <<>>
  BY DEF Init
<1>2. Tree(<<>>, ctx)
  BY <1>1, RunStarts
<1>3. IsContext(ctx)
  BY <1>2, TreeIsContext
<1>4. QED
  BY <1>1, <1>3 DEF Tracking

-----------------------------------------------------------------------------
(***************************************************************************)
(* What the reporter has been told: the run, the group, the test case and  *)
(* its outermost section have begun, then the sections the function is in, *)
(* then those that an exception has left, the last one first.              *)
(***************************************************************************)
Element == [what : {"run", "group", "test_case", "section"}, at : Nat]

OpenAre(n) ==
  /\ Len(reporter.open) = n
  /\ n > 0 => reporter.open[1] = Run
  /\ n > 1 => reporter.open[2] = Group
  /\ n > 2 => reporter.open[3] = Test
  /\ n > 3 => reporter.open[4] = Section(Last(TestCase))

(* The sections that have begun in the test case's do so in this order.    *)
Deeper ==
  \A i, j \in 5 .. Len(reporter.open) : i < j => reporter.open[i].at < reporter.open[j].at

Asserting == ~ reporter.asserts <=> InSection

Reporting ==
  /\ reporter \in [open : Seq(Element), asserts : BOOLEAN, ordered : BOOLEAN]
  /\ mode = "group" => OpenAre(2)
  /\ mode \in {"cycle", "test_over"} => OpenAre(3)
  /\ mode \in {"function", "unwinding"} =>
       /\ OpenAre(4 + Len(active) + Len(unfinished))
       /\ \A i \in 1 .. Len(active) :
            reporter.open[4 + i] = Section(Last(active[i].tracker))
       /\ \A i \in 1 .. Len(unfinished) :
            reporter.open[4 + Len(active) + Len(unfinished) + 1 - i]
              = Section(Last(unfinished[i].tracker))
       /\ Deeper
  /\ mode = "over" => reporter.open = <<>>
  /\ Asserting

LEMMA ElementsAre ==
  /\ Run \in Element /\ Group \in Element /\ Test \in Element
  /\ \A at \in Nat : Section(at) \in Element /\ Section(at).what = "section"
  /\ Last(TestCase) \in Nat
  /\ \A t \in Path : Len(t) > 0 => Last(t) \in Nat
<1>1. \A t \in Path : Len(t) > 0 => Last(t) \in Nat
  <2>1. SUFFICES ASSUME NEW t \in Path, Len(t) > 0 PROVE Last(t) \in Nat
    OBVIOUS
  <2>2. Len(t) \in 1 .. Len(t) /\ \A i \in 1 .. Len(t) : t[i] \in Nat
    BY <2>1, PathAt
  <2>3. QED
    BY <2>2 DEF Last
<1>2. Last(TestCase) \in Nat
  BY DEF TestCase, Last
<1>3. /\ Run \in Element /\ Group \in Element /\ Test \in Element
      /\ \A at \in Nat : Section(at) \in Element /\ Section(at).what = "section"
  BY DEF Run, Group, Test, Section, Element
<1>4. QED
  BY <1>1, <1>2, <1>3

LEMMA StartsIs ==
  ASSUME reporter \in [open : Seq(Element), asserts : BOOLEAN, ordered : BOOLEAN],
         NEW e \in Element, Starts(e)
  PROVE  LET n == Len(reporter.open)
         IN  /\ reporter' \in [open : Seq(Element), asserts : BOOLEAN, ordered : BOOLEAN]
             /\ n \in Nat /\ Len(reporter'.open) = n + 1 /\ reporter'.open[n + 1] = e
             /\ \A i \in 1 .. n : reporter'.open[i] = reporter.open[i]
             /\ reporter'.asserts = reporter.asserts /\ reporter'.ordered = reporter.ordered
<1>1. PICK s \in Seq(Element) : s = reporter.open
  OBVIOUS
<1>2. PICK r \in Seq(Element) : r = Append(s, e)
  BY AppendProperties
<1>3. reporter' = [reporter EXCEPT !.open = r]
  BY <1>1, <1>2 DEF Starts
<1>4. /\ Len(s) \in Nat /\ Len(r) = Len(s) + 1 /\ r[Len(s) + 1] = e
      /\ \A i \in 1 .. Len(s) : r[i] = s[i]
  BY <1>2, AppendProperties
<1>5. /\ reporter' \in [open : Seq(Element), asserts : BOOLEAN, ordered : BOOLEAN]
      /\ reporter'.open = r
      /\ reporter'.asserts = reporter.asserts /\ reporter'.ordered = reporter.ordered
  BY <1>3
<1>6. QED
  BY <1>1, <1>4, <1>5

LEMMA EndsIs ==
  ASSUME reporter \in [open : Seq(Element), asserts : BOOLEAN, ordered : BOOLEAN],
         NEW elements, Len(elements) \in Nat, Ends(elements)
  PROVE  LET n == Len(reporter.open)
             k == Len(elements)
         IN  /\ reporter' \in [open : Seq(Element), asserts : BOOLEAN, ordered : BOOLEAN]
             /\ n \in Nat /\ Len(reporter'.open) <= n
             /\ k <= n => /\ Len(reporter'.open) = n - k
                          /\ \A i \in 1 .. n - k : reporter'.open[i] = reporter.open[i]
                          /\ (\A i \in 1 .. k : reporter.open[n + 1 - i].what = elements[i].what)
                               => reporter'.asserts = reporter.asserts
                          /\ reporter'.ordered <=>
                               \A i \in 1 .. k : reporter.open[n + 1 - i] = elements[i]
<1> DEFINE n == Len(reporter.open)
           k == Len(elements)
           kinds == \A i \in 1 .. k : reporter.open[n + 1 - i].what = elements[i].what
           same  == \A i \in 1 .. k : reporter.open[n + 1 - i] = elements[i]
<1>1. PICK s \in Seq(Element) : s = reporter.open
  OBVIOUS
<1>2. n \in Nat /\ k \in Nat /\ n = Len(s)
  BY <1>1
<1>3. PICK r : r = SubSeq(s, 1, n - k)
  OBVIOUS
<1>4. /\ r \in Seq(Element) /\ Len(r) \in Nat /\ Len(r) <= n
      /\ k <= n => Len(r) = n - k /\ \A i \in 1 .. n - k : r[i] = s[i]
  <2>1. n - k \in Int /\ 1 \in Int /\ \A i \in 1 .. n - k : s[i] \in Element
    BY <1>2
  <2>2. /\ r \in Seq(Element)
        /\ Len(r) = IF 1 <= n - k THEN (n - k) - 1 + 1 ELSE 0
        /\ \A i \in 1 .. (n - k) - 1 + 1 : r[i] = s[1 + i - 1]
    BY <1>3, <2>1, SubSeqProperties
  <2>3. PICK l \in Nat : l = Len(r)
    <3>1. r \in Seq(Element)
      BY <2>2
    <3>2. Len(r) \in Nat
      BY <3>1
    <3>3. QED
      BY <3>2
  <2>4. l <= n /\ (k <= n => l = n - k)
    BY <1>2, <2>2, <2>3
  <2>5. \A i \in 1 .. n - k : i \in 1 .. (n - k) - 1 + 1 /\ 1 + i - 1 = i
    BY <2>1
  <2>6. QED
    BY <2>2, <2>3, <2>4, <2>5
<1>5. reporter' = [open |-> r, asserts |-> reporter.asserts /\ k <= n /\ kinds,
                   ordered |-> k <= n /\ same]
  BY <1>1, <1>3 DEF Ends
<1> HIDE DEF kinds, same, n, k
<1>6. /\ reporter' \in [open : Seq(Element), asserts : BOOLEAN, ordered : BOOLEAN]
      /\ reporter'.open = r
  BY <1>4, <1>5
<1>7. /\ k <= n /\ kinds => reporter'.asserts = reporter.asserts
      /\ k <= n => (reporter'.ordered <=> same)
  <2>1. reporter.asserts \in BOOLEAN
    OBVIOUS
  <2>2. /\ reporter'.asserts = (reporter.asserts /\ k <= n /\ kinds)
        /\ reporter'.ordered = (k <= n /\ same)
    BY <1>5
  <2>3. QED
    BY <2>1, <2>2
<1>8. QED
  BY <1>1, <1>2, <1>4, <1>6, <1>7 DEF kinds, same, n, k

LEMMA AssertingStays ==
  ASSUME Asserting, mode # "dead", mode' # "dead", reporter'.asserts = reporter.asserts
  PROVE  Asserting'
BY DEF Asserting, InSection

(* The sections that the function is in are at places before it.           *)
LEMMA ActiveBefore ==
  ASSUME NEW code, IsCode(code), NEW c, NEW act, NEW x \in 1 .. Len(code),
         InFunction(code, c, act, x), NEW i \in 1 .. Len(act)
  PROVE  Last(act[i].tracker) < x
<1> DEFINE n == Len(c.current)
           k == Len(act[i].tracker)
<1>1. /\ c.current \in Path /\ n \in Nat /\ n > 0 /\ c.current[n] \in Nat /\ c.current[n] < x
      /\ x \in Nat
  BY AsksFor
<1>2. /\ \A j \in 1 .. n : c.current[j] \in Nat
      /\ \A h, j \in 1 .. n : h < j => c.current[h] < c.current[j]
  BY CurrentIs DEF InFunction, ActiveAround
<1>3. k \in 2 .. n /\ act[i].tracker = SubSeq(c.current, 1, k)
  BY DEF InFunction, ActiveAround
<1>4. SubSeq(c.current, 1, k)[k] = c.current[k]
  BY <1>1, <1>3, PathAt
<1>5. c.current[k] < x
  BY <1>1, <1>2, <1>3
<1>6. QED
  BY <1>3, <1>4, <1>5 DEF Last

(* An element that begins, where the runner goes on in the test case.      *)
LEMMA BeginsTold ==
  ASSUME TypeOK, Tracking, Reporting
  PROVE  /\ RunTest => Reporting'
         /\ StartCycle => Reporting'
         /\ SectionStarted => Reporting'
<1>1. /\ reporter \in [open : Seq(Element), asserts : BOOLEAN, ordered : BOOLEAN]
      /\ reporter.asserts \in BOOLEAN /\ reporter.ordered \in BOOLEAN
      /\ Asserting
  BY DEF Reporting
<1>2. ASSUME RunTest PROVE Reporting'
  <2>1. mode = "group" /\ mode' = "cycle" /\ Starts(Test)
    BY <1>2 DEF RunTest
  <2>2. OpenAre(2)
    BY <2>1 DEF Reporting
  <2>3. /\ reporter' \in [open : Seq(Element), asserts : BOOLEAN, ordered : BOOLEAN]
        /\ Len(reporter'.open) = 3 /\ reporter'.open[3] = Test
        /\ \A i \in 1 .. 2 : reporter'.open[i] = reporter.open[i]
        /\ reporter'.asserts = reporter.asserts /\ reporter'.ordered = reporter.ordered
    BY <1>1, <2>1, <2>2, ElementsAre, StartsIs DEF OpenAre
  <2>4. OpenAre(3)'
    BY <2>2, <2>3 DEF OpenAre
  <2>5. Asserting'
    BY <1>1, <2>1, <2>3, AssertingStays
  <2>6. QED
    BY <2>1, <2>2, <2>3, <2>4, <2>5 DEF Reporting
<1>3. ASSUME StartCycle PROVE Reporting'
  <2>1. /\ mode = "cycle" /\ mode' = "function" /\ Starts(Section(Last(TestCase)))
        /\ UNCHANGED <<active, unfinished>>
    BY <1>3 DEF StartCycle
  <2>2. OpenAre(3) /\ active = <<>> /\ unfinished = <<>>
    BY <2>1 DEF Reporting, Tracking
  <2>3. /\ reporter' \in [open : Seq(Element), asserts : BOOLEAN, ordered : BOOLEAN]
        /\ Len(reporter'.open) = 4 /\ reporter'.open[4] = Section(Last(TestCase))
        /\ \A i \in 1 .. 3 : reporter'.open[i] = reporter.open[i]
        /\ reporter'.asserts = reporter.asserts /\ reporter'.ordered = reporter.ordered
    BY <1>1, <2>1, <2>2, ElementsAre, StartsIs DEF OpenAre
  <2>4. OpenAre(4 + Len(active) + Len(unfinished))'
    BY <2>1, <2>2, <2>3 DEF OpenAre
  <2>5. Asserting' /\ Deeper'
    BY <1>1, <2>1, <2>3, AssertingStays DEF Deeper
  <2>6. /\ \A i \in 1 .. Len(active') : FALSE
        /\ \A i \in 1 .. Len(unfinished') : FALSE
    BY <2>1, <2>2
  <2>7. QED
    BY <2>1, <2>2, <2>3, <2>4, <2>5, <2>6 DEF Reporting
<1>4. ASSUME SectionStarted PROVE Reporting'
  <2> DEFINE t == Append(ctx.current, pc)
             s == [tracker |-> t, prevAssertions |-> totals.assertions]
             l == Len(active)
  <2>1. /\ mode = "function" /\ mode' = "function" /\ UNCHANGED unfinished
        /\ \/ active' = Append(active, s) /\ Starts(Section(pc))
           \/ UNCHANGED <<active, reporter>>
    BY <1>4 DEF SectionStarted, At, NothingTold
  <2>2. /\ active \in Seq(Scoped) /\ unfinished = <<>> /\ l \in Nat
        /\ pc \in 1 .. Len(Code) /\ IsCode(Code) /\ InFunction(Code, ctx, active, pc)
    BY <1>4, AtIs DEF SectionStarted
  <2>3. /\ OpenAre(4 + l) /\ Deeper
        /\ \A i \in 1 .. l : reporter.open[4 + i] = Section(Last(active[i].tracker))
    <3>1. Len(unfinished) = 0 /\ 4 + l + 0 = 4 + l
      BY <2>2
    <3>2. OpenAre(4 + l + Len(unfinished))
      BY <2>1 DEF Reporting
    <3>3. QED
      BY <2>1, <3>1, <3>2 DEF Reporting
  <2>4. CASE active' = Append(active, s) /\ Starts(Section(pc))
    <3>1. t \in Path /\ Last(t) = pc /\ pc \in Nat
      <4>1. t \in Path /\ Len(t) = Len(ctx.current) + 1 /\ t[Len(ctx.current) + 1] = pc /\ pc \in Nat
        BY <2>2, AsksFor
      <4>2. QED
        BY <4>1 DEF Last
    <3>2. s \in Scoped /\ s.tracker = t
      BY <3>1, TypesAre DEF Scoped
    <3> HIDE DEF s, t
    <3>3. /\ Len(active') = l + 1 /\ active'[l + 1] = s /\ \A i \in 1 .. l : active'[i] = active[i]
      <4>1. PICK a : a = active' /\ a = Append(active, s)
        BY <2>4
      <4>2. Len(a) = l + 1 /\ a[l + 1] = s /\ \A i \in 1 .. l : a[i] = active[i]
        BY <2>2, <3>2, <4>1, AppendProperties
      <4>3. QED
        BY <4>1, <4>2
    <3>4. /\ reporter' \in [open : Seq(Element), asserts : BOOLEAN, ordered : BOOLEAN]
          /\ Len(reporter'.open) = 4 + l + 1 /\ reporter'.open[4 + l + 1] = Section(pc)
          /\ \A i \in 1 .. 4 + l : reporter'.open[i] = reporter.open[i]
          /\ reporter'.asserts = reporter.asserts /\ reporter'.ordered = reporter.ordered
      <4>1. Section(pc) \in Element
        BY <3>1, ElementsAre
      <4>2. Len(reporter.open) = 4 + l
        BY <2>3 DEF OpenAre
      <4>3. QED
        BY <1>1, <2>4, <4>1, <4>2, StartsIs
    <3>5. OpenAre(4 + Len(active) + Len(unfinished))'
      <4>1. 4 + l + 1 = 4 + (l + 1) + 0 /\ Len(unfinished') = 0
        BY <2>1, <2>2
      <4>2. \A i \in 1 .. 4 : reporter'.open[i] = reporter.open[i]
        BY <2>2, <3>4
      <4>3. /\ Len(reporter'.open) = 4 + Len(active') + Len(unfinished')
        BY <3>3, <3>4, <4>1
      <4>4. /\ reporter.open[1] = Run /\ reporter.open[2] = Group /\ reporter.open[3] = Test
            /\ reporter.open[4] = Section(Last(TestCase)) \/ ~ (4 + l > 3)
        BY <2>2, <2>3 DEF OpenAre
      <4>5. 4 + l > 3
        BY <2>2
      <4>6. QED
        BY <4>2, <4>3, <4>4, <4>5 DEF OpenAre
    <3>6. ASSUME NEW i \in 1 .. l + 1
          PROVE  reporter'.open[4 + i] = Section(Last(active'[i].tracker))
      <4>1. CASE i = l + 1
        <5>1. active'[i].tracker = t /\ 4 + i = 4 + l + 1
          BY <2>2, <3>2, <3>3, <4>1
        <5>2. QED
          BY <3>1, <3>4, <5>1
      <4>2. CASE i # l + 1
        <5>1. i \in 1 .. l /\ 4 + i \in 1 .. 4 + l
          BY <2>2, <4>2
        <5>2. QED
          BY <2>3, <3>3, <3>4, <5>1
      <4>3. QED
        BY <4>1, <4>2
    <3>7. Asserting'
      BY <1>1, <2>1, <3>4, AssertingStays
    <3>8. Deeper'
      <4>1. Len(reporter.open) = 4 + l /\ Len(reporter'.open) = 4 + l + 1
        BY <2>3, <3>4 DEF OpenAre
      <4>2. SUFFICES ASSUME NEW i \in 5 .. 4 + l + 1, NEW j \in 5 .. 4 + l + 1, i < j
                     PROVE  reporter'.open[i].at < reporter'.open[j].at
        BY <4>1 DEF Deeper
      <4>3. i \in 5 .. 4 + l /\ i - 4 \in 1 .. l /\ 4 + (i - 4) = i /\ i \in 1 .. 4 + l
        BY <2>2, <4>2
      <4>4. CASE j \in 5 .. 4 + l
        <5>1. j \in 1 .. 4 + l
          BY <4>4
        <5>2. reporter.open[i].at < reporter.open[j].at
          BY <2>3, <4>1, <4>2, <4>3, <4>4 DEF Deeper
        <5>3. QED
          BY <3>4, <4>3, <5>1, <5>2
      <4>5. CASE j = 4 + l + 1
        <5>1. reporter.open[i] = Section(Last(active[i - 4].tracker))
          BY <2>3, <4>3
        <5>2. Last(active[i - 4].tracker) < pc
          BY <2>2, <4>3, ActiveBefore
        <5>3. reporter'.open[i].at < pc
          BY <3>4, <4>3, <5>1, <5>2 DEF Section
        <5>4. QED
          BY <3>4, <4>5, <5>3 DEF Section
      <4>6. QED
        BY <2>2, <4>2, <4>4, <4>5
    <3>9. \A i \in 1 .. Len(unfinished') : FALSE
      BY <2>1, <2>2
    <3>10. QED
      BY <2>1, <2>3, <3>3, <3>4, <3>5, <3>6, <3>7, <3>8, <3>9 DEF Reporting
  <2>5. CASE UNCHANGED <<active, reporter>>
    BY <2>1, <2>5 DEF Reporting, OpenAre, Deeper, Asserting, InSection, Run, Group, Test, Section
  <2>6. QED
    BY <2>1, <2>4, <2>5
<1>5. QED
  BY <1>2, <1>3, <1>4

(* What the steps in a test function leave as it was told.                 *)
LEMMA NothingNewTold ==
  ASSUME Reporting, mode = "function", mode' \in {"function", "unwinding"},
         UNCHANGED <<reporter, active, unfinished>>
  PROVE  Reporting'
<1>1. /\ OpenAre(4 + Len(active) + Len(unfinished))
      /\ \A i \in 1 .. Len(active) :
           reporter.open[4 + i] = Section(Last(active[i].tracker))
      /\ \A i \in 1 .. Len(unfinished) :
           reporter.open[4 + Len(active) + Len(unfinished) + 1 - i]
             = Section(Last(unfinished[i].tracker))
      /\ Deeper
  BY DEF Reporting
<1>2. /\ OpenAre(4 + Len(active) + Len(unfinished))'
      /\ \A i \in 1 .. Len(active') :
           reporter'.open[4 + i] = Section(Last(active'[i].tracker))
      /\ \A i \in 1 .. Len(unfinished') :
           reporter'.open[4 + Len(active') + Len(unfinished') + 1 - i]
             = Section(Last(unfinished'[i].tracker))
      /\ Deeper'
  BY <1>1 DEF OpenAre, Deeper, Run, Group, Test, Section
<1>3. Asserting' /\ reporter' \in [open : Seq(Element), asserts : BOOLEAN, ordered : BOOLEAN]
  BY DEF Asserting, InSection, Reporting
<1>4. QED
  BY <1>2, <1>3 DEF Reporting

LEMMA FunctionTold ==
  ASSUME TypeOK, Tracking, Reporting
  PROVE  /\ Generate => Reporting'
         /\ \A counted \in BOOLEAN : AssertionPasses(counted) => Reporting'
         /\ \A required \in BOOLEAN : AssertionFails(required) => Reporting'
         /\ CodeThrows => Reporting'
<1>1. ASSUME Generate PROVE Reporting'
  <2>1. mode = "function" /\ UNCHANGED <<mode, reporter, active, unfinished>>
    BY <1>1 DEF Generate, At, NothingTold
  <2>2. QED
    BY <2>1, NothingNewTold
<1>2. ASSUME NEW counted \in BOOLEAN, AssertionPasses(counted) PROVE Reporting'
  <2>1. mode = "function" /\ UNCHANGED <<mode, reporter, active, unfinished>>
    BY <1>2 DEF AssertionPasses, At, NothingTold
  <2>2. QED
    BY <2>1, NothingNewTold
<1>3. ASSUME NEW required \in BOOLEAN, AssertionFails(required) PROVE Reporting'
  <2>1. /\ mode = "function" /\ mode' \in {"function", "unwinding"}
        /\ UNCHANGED <<reporter, active, unfinished>>
    BY <1>3 DEF AssertionFails, At, NothingTold, Throws
  <2>2. QED
    BY <2>1, NothingNewTold
<1>4. ASSUME CodeThrows PROVE Reporting'
  <2>1. /\ mode = "function" /\ mode' = "unwinding" /\ UNCHANGED <<reporter, active, unfinished>>
    BY <1>4 DEF CodeThrows, At, NothingTold, Throws
  <2>2. QED
    BY <2>1, NothingNewTold
<1>5. QED
  BY <1>1, <1>2, <1>3, <1>4

(* The last elements end: those of the kinds that are told, then those     *)
(* that are told.                                                          *)
LEMMA LastEnd ==
  ASSUME reporter \in [open : Seq(Element), asserts : BOOLEAN, ordered : BOOLEAN],
         NEW elements, Ends(elements),
         NEW n \in Nat, n = Len(reporter.open), NEW k \in Nat, k = Len(elements), k <= n,
         \A i \in 1 .. k : reporter.open[n + 1 - i].what = elements[i].what
  PROVE  /\ reporter' \in [open : Seq(Element), asserts : BOOLEAN, ordered : BOOLEAN]
         /\ Len(reporter'.open) = n - k
         /\ \A i \in 1 .. n - k : reporter'.open[i] = reporter.open[i]
         /\ reporter'.asserts = reporter.asserts
<1>1. Len(elements) \in Nat
  OBVIOUS
<1>2. reporter' \in [open : Seq(Element), asserts : BOOLEAN, ordered : BOOLEAN]
  BY <1>1, EndsIs
<1>3. Len(reporter'.open) = n - k
  BY <1>1, EndsIs
<1>4. \A i \in 1 .. n - k : reporter'.open[i] = reporter.open[i]
  BY <1>1, EndsIs
<1>5. reporter'.asserts = reporter.asserts
  BY <1>1, EndsIs
<1>6. QED
  BY <1>2, <1>3, <1>4, <1>5

LEMMA EndInOrder ==
  ASSUME reporter \in [open : Seq(Element), asserts : BOOLEAN, ordered : BOOLEAN],
         NEW elements, Ends(elements),
         NEW n \in Nat, n = Len(reporter.open), NEW k \in Nat, k = Len(elements), k <= n
  PROVE  reporter'.ordered <=> \A i \in 1 .. k : reporter.open[n + 1 - i] = elements[i]
<1>1. Len(elements) \in Nat
  OBVIOUS
<1>2. QED
  BY <1>1, EndsIs

LEMMA LastEnds ==
  ASSUME reporter \in [open : Seq(Element), asserts : BOOLEAN, ordered : BOOLEAN],
         NEW e, Ends(<<e>>), NEW n \in Nat, n > 0, n = Len(reporter.open), reporter.open[n] = e
  PROVE  /\ reporter' \in [open : Seq(Element), asserts : BOOLEAN, ordered : BOOLEAN]
         /\ Len(reporter'.open) = n - 1
         /\ \A i \in 1 .. n - 1 : reporter'.open[i] = reporter.open[i]
         /\ reporter'.asserts = reporter.asserts /\ reporter'.ordered
<1>1. PICK es : es = <<e>>
  OBVIOUS
<1>2. PICK k \in Nat : k = 1
  OBVIOUS
<1>3. k = Len(es) /\ es[1] = e /\ k <= n /\ n + 1 - 1 = n /\ \A i \in 1 .. k : i = 1
  BY <1>1, <1>2
<1>4. /\ \A i \in 1 .. k : reporter.open[n + 1 - i] = es[i]
      /\ \A i \in 1 .. k : reporter.open[n + 1 - i].what = es[i].what
  BY <1>3
<1>5. Ends(es)
  BY <1>1
<1>6. reporter' \in [open : Seq(Element), asserts : BOOLEAN, ordered : BOOLEAN]
  BY <1>3, <1>4, <1>5, LastEnd
<1>7. Len(reporter'.open) = n - k
  BY <1>3, <1>4, <1>5, LastEnd
<1>8. \A i \in 1 .. n - k : reporter'.open[i] = reporter.open[i]
  BY <1>3, <1>4, <1>5, LastEnd
<1>9. reporter'.asserts = reporter.asserts
  BY <1>3, <1>4, <1>5, LastEnd
<1>10. reporter'.ordered
  BY <1>3, <1>4, <1>5, EndInOrder
<1>11. QED
  BY <1>2, <1>6, <1>7, <1>8, <1>9, <1>10

(* A section that ends where its body does.                                *)
LEMMA SectionEndedTold ==
  ASSUME TypeOK, Tracking, Reporting, SectionEnded
  PROVE  Reporting' /\ reporter'.ordered
<1> DEFINE l == Len(active)
           e == Section(Last(Last(active).tracker))
<1>1. /\ mode = "function" /\ mode' = "function"
      /\ active' = Front(active) /\ unfinished' = unfinished /\ Ends(<<e>>)
  BY DEF SectionEnded, At
<1>2. active # <<>> /\ unfinished = <<>> /\ active \in Seq(Scoped)
  BY SectionEndedTracks DEF Tracking
<1>3. /\ l \in Nat /\ l > 0 /\ Last(active) = active[l]
      /\ Len(Front(active)) = l - 1 /\ \A i \in 1 .. l - 1 : Front(active)[i] = active[i]
  BY <1>2, LastAndFront
<1>4. Len(unfinished) = 0 /\ 4 + l + 0 = 4 + l
  BY <1>2, <1>3
<1>5. /\ OpenAre(4 + l) /\ Asserting /\ Deeper
      /\ \A i \in 1 .. l : reporter.open[4 + i] = Section(Last(active[i].tracker))
      /\ reporter \in [open : Seq(Element), asserts : BOOLEAN, ordered : BOOLEAN]
  BY <1>1, <1>4 DEF Reporting
<1>6. Len(reporter.open) = 4 + l /\ reporter.open[4 + l] = e
  <2>1. l \in 1 .. l
    BY <1>3
  <2>2. QED
    BY <1>3, <1>5, <2>1 DEF OpenAre
<1> HIDE DEF e
<1>7. /\ reporter' \in [open : Seq(Element), asserts : BOOLEAN, ordered : BOOLEAN]
      /\ Len(reporter'.open) = 4 + l - 1
      /\ \A i \in 1 .. 4 + l - 1 : reporter'.open[i] = reporter.open[i]
      /\ reporter'.asserts = reporter.asserts /\ reporter'.ordered
  <2>1. PICK n \in Nat : n = 4 + l
    BY <1>3
  <2>2. PICK f : f = e
    OBVIOUS
  <2>3. Ends(<<f>>) /\ n > 0 /\ n = Len(reporter.open) /\ reporter.open[n] = f
    BY <1>1, <1>3, <1>6, <2>1, <2>2
  <2>4. QED
    BY <1>5, <2>1, <2>3, LastEnds
<1>8. Len(active') = l - 1 /\ \A i \in 1 .. l - 1 : active'[i] = active[i]
  BY <1>1, <1>3
<1>9. OpenAre(4 + Len(active) + Len(unfinished))'
  <2>1. 4 + l - 1 = 4 + (l - 1) + 0 /\ Len(unfinished') = 0 /\ 4 + l > 3
    BY <1>1, <1>2, <1>3
  <2>2. \A i \in 1 .. 4 : i \in 1 .. 4 + l - 1
    BY <1>3
  <2>3. \A i \in 1 .. 4 : reporter'.open[i] = reporter.open[i]
    BY <1>7, <2>2
  <2>4. /\ reporter.open[1] = Run /\ reporter.open[2] = Group /\ reporter.open[3] = Test
        /\ reporter.open[4] = Section(Last(TestCase))
    BY <1>3, <1>5, <2>1 DEF OpenAre
  <2>5. Len(reporter'.open) = 4 + Len(active') + Len(unfinished')
    BY <1>7, <1>8, <2>1
  <2>6. QED
    BY <2>3, <2>4, <2>5 DEF OpenAre
<1>10. \A i \in 1 .. l - 1 : reporter'.open[4 + i] = Section(Last(active'[i].tracker))
  <2>1. \A i \in 1 .. l - 1 : i \in 1 .. l /\ 4 + i \in 1 .. 4 + l - 1
    BY <1>3
  <2>2. QED
    BY <1>5, <1>7, <1>8, <2>1
<1>11. Asserting'
  BY <1>1, <1>5, <1>7, AssertingStays
<1>12. Deeper'
  <2>1. \A i \in 5 .. 4 + l - 1 : i \in 5 .. 4 + l /\ i \in 1 .. 4 + l - 1
    BY <1>3
  <2>2. QED
    BY <1>5, <1>6, <1>7, <2>1 DEF Deeper
<1>13. \A i \in 1 .. Len(unfinished') : FALSE
  BY <1>1, <1>2
<1>14. QED
  BY <1>1, <1>5, <1>7, <1>8, <1>9, <1>10, <1>11, <1>12, <1>13 DEF Reporting

(* A section that an exception leaves goes to the end of those left.       *)
LEMMA SectionEndedEarlyTold ==
  ASSUME TypeOK, Tracking, Reporting, SectionEndedEarly
  PROVE  Reporting'
<1> DEFINE l == Len(active)
           u == Len(unfinished)
<1>1. /\ mode = "unwinding" /\ mode' = "unwinding" /\ active # <<>>
      /\ unfinished' = Append(unfinished, Last(active)) /\ active' = Front(active)
      /\ UNCHANGED reporter
  BY DEF SectionEndedEarly
<1>2. active \in Seq(Scoped) /\ unfinished \in Seq(Scoped)
  BY DEF Tracking
<1>3. /\ l \in Nat /\ l > 0 /\ Last(active) = active[l] /\ Last(active) \in Scoped
      /\ Len(active') = l - 1 /\ \A i \in 1 .. l - 1 : active'[i] = active[i]
  BY <1>1, <1>2, LastAndFront
<1>4. /\ u \in Nat /\ Len(unfinished') = u + 1 /\ unfinished'[u + 1] = active[l]
      /\ \A i \in 1 .. u : unfinished'[i] = unfinished[i]
  <2>1. PICK s : s = Append(unfinished, Last(active))
    OBVIOUS
  <2>2. /\ u \in Nat /\ Len(s) = u + 1 /\ s[u + 1] = Last(active)
        /\ \A i \in 1 .. u : s[i] = unfinished[i]
    BY <1>2, <1>3, <2>1, AppendProperties
  <2>3. QED
    BY <1>1, <1>3, <2>1, <2>2
<1>5. /\ OpenAre(4 + l + u) /\ Asserting /\ Deeper
      /\ \A i \in 1 .. l : reporter.open[4 + i] = Section(Last(active[i].tracker))
      /\ \A i \in 1 .. u : reporter.open[4 + l + u + 1 - i] = Section(Last(unfinished[i].tracker))
      /\ reporter \in [open : Seq(Element), asserts : BOOLEAN, ordered : BOOLEAN]
  BY <1>1 DEF Reporting
<1>6. 4 + Len(active') + Len(unfinished') = 4 + l + u
  BY <1>3, <1>4
<1>7. OpenAre(4 + Len(active) + Len(unfinished))'
  <2>1. reporter' = reporter
    BY <1>1
  <2>2. PICK n : n = 4 + l + u
    OBVIOUS
  <2>3. OpenAre(n) /\ 4 + Len(active') + Len(unfinished') = n
    BY <1>5, <1>6, <2>2
  <2>4. QED
    BY <2>1, <2>3 DEF OpenAre, Run, Group, Test, Section
<1>8. ASSUME NEW i \in 1 .. Len(active')
      PROVE  reporter'.open[4 + i] = Section(Last(active'[i].tracker))
  <2>1. i \in 1 .. l - 1 /\ i \in 1 .. l
    BY <1>3
  <2>2. QED
    BY <1>1, <1>3, <1>5, <2>1
<1>9. ASSUME NEW i \in 1 .. Len(unfinished')
      PROVE  reporter'.open[4 + Len(active') + Len(unfinished') + 1 - i]
               = Section(Last(unfinished'[i].tracker))
  <2>1. reporter'.open[4 + Len(active') + Len(unfinished') + 1 - i]
          = reporter.open[4 + l + u + 1 - i]
    BY <1>1, <1>6
  <2>2. CASE i = u + 1
    <3>1. 4 + l + u + 1 - i = 4 + l /\ l \in 1 .. l
      BY <1>3, <1>4, <2>2
    <3>2. QED
      BY <1>4, <1>5, <2>1, <2>2, <3>1
  <2>3. CASE i # u + 1
    <3>1. i \in 1 .. u
      BY <1>4, <2>3
    <3>2. QED
      BY <1>4, <1>5, <2>1, <3>1
  <2>4. QED
    BY <2>2, <2>3
<1>10. Asserting' /\ Deeper'
  BY <1>1, <1>5 DEF Asserting, InSection, Deeper
<1>11. QED
  BY <1>1, <1>5, <1>7, <1>8, <1>9, <1>10 DEF Reporting

(* What RunEnded tells to end: sections, the test case's own the last.     *)
LEMMA SectionsLeft ==
  ASSUME NEW s \in Seq(Scoped), NEW place
  PROVE  LET ended == Backwards(s)
             elements == [i \in DOMAIN ended |-> Section(Last(ended[i].tracker))]
                           \o <<Section(place)>>
         IN  /\ Len(elements) = Len(s) + 1 /\ Len(s) \in Nat
             /\ elements[Len(s) + 1] = Section(place)
             /\ \A i \in 1 .. Len(s) + 1 : elements[i].what = "section"
             /\ \A i \in 1 .. Len(s) : elements[i] = Section(Last(s[Len(s) + 1 - i].tracker))
<1> DEFINE ended == Backwards(s)
           f == [i \in DOMAIN ended |-> Section(Last(ended[i].tracker))]
           S == {f[i] : i \in DOMAIN ended} \cup {Section(place)}
           n == Len(s)
<1>1. n \in Nat /\ DOMAIN ended = 1 .. n /\ \A i \in 1 .. n : ended[i] = s[n + 1 - i]
  <2>1. n \in Nat /\ \A i \in 1 .. n : n - i + 1 = n + 1 - i
    OBVIOUS
  <2>2. QED
    BY <2>1 DEF Backwards, Reverse
<1>2. PICK g : g = f
  OBVIOUS
<1>3. g \in [1 .. n -> S] /\ <<Section(place)>> \in Seq(S)
  BY <1>1, <1>2
<1>4. \A i \in 1 .. n : g[i] = Section(Last(s[n + 1 - i].tracker))
  BY <1>1, <1>2
<1>5. \A e \in S : e.what = "section"
  BY DEF Section
<1> HIDE DEF S, f, ended, n
<1>6. g \in Seq(S) /\ Len(g) = n
  BY <1>1, <1>3
<1>7. PICK o : o = <<Section(place)>>
  OBVIOUS
<1>8. o \in Seq(S) /\ Len(o) = 1 /\ o[1] = Section(place)
  BY <1>3, <1>7
<1>9. /\ g \o o \in Seq(S) /\ Len(g \o o) = Len(g) + Len(o)
      /\ \A i \in 1 .. Len(g) + Len(o) :
           (g \o o)[i] = IF i <= Len(g) THEN g[i] ELSE o[i - Len(g)]
  BY <1>6, <1>8, ConcatProperties
<1>10. PICK all : all = g \o o
  OBVIOUS
<1>11. all \in Seq(S) /\ Len(all) = n + 1 /\ all[n + 1] = Section(place)
  <2>1. n + 1 \in 1 .. n + 1 /\ ~ (n + 1 <= n) /\ n + 1 - n = 1
    BY <1>1
  <2>2. QED
    BY <1>6, <1>8, <1>9, <1>10, <2>1
<1>12. \A i \in 1 .. n + 1 : all[i].what = "section"
  <2>1. \A i \in 1 .. n + 1 : all[i] \in S
    BY <1>1, <1>11
  <2>2. QED
    BY <1>5, <2>1
<1>13. \A i \in 1 .. n : all[i] = Section(Last(s[n + 1 - i].tracker))
  <2>1. \A i \in 1 .. n : i <= n /\ i \in 1 .. Len(g) + Len(o)
    BY <1>1, <1>6, <1>8
  <2>2. QED
    BY <1>6, <1>9, <1>10, <1>4, <2>1
<1>14. all = f \o <<Section(place)>>
  BY <1>2, <1>7, <1>10
<1>15. QED
  BY <1>1, <1>11, <1>12, <1>14, <1>13 DEF f, ended, n

(* The end of a cycle.                                                     *)
LEMMA RunEndedTold ==
  ASSUME TypeOK, Tracking, Reporting, RunEnded
  PROVE  Reporting' /\ (~ reporter'.ordered <=> Len(unfinished) > 1)
<1> DEFINE ended == Backwards(unfinished)
           sections == [i \in DOMAIN ended |-> Section(Last(ended[i].tracker))]
<1>1. /\ mode = "function" \/ mode = "unwinding"
      /\ mode' \in {"cycle", "test_over"}
      /\ Ends(sections \o <<Section(Last(TestCase))>>)
      /\ unfinished' = <<>>
  BY DEF RunEnded
<1>2. /\ active = <<>> /\ unfinished \in Seq(Scoped)
      /\ mode = "function" => unfinished = <<>>
  BY <1>1, EndsTrack DEF Tracking
<1>3. PICK u, place : u = Len(unfinished) /\ place = Last(TestCase)
  OBVIOUS
<1>4. PICK elements : elements = sections \o <<Section(place)>>
  OBVIOUS
<1>5. /\ Ends(elements)
      /\ u \in Nat /\ Len(elements) = u + 1 /\ elements[u + 1] = Section(place)
      /\ \A i \in 1 .. u + 1 : elements[i].what = "section"
      /\ \A i \in 1 .. u : elements[i] = Section(Last(unfinished[u + 1 - i].tracker))
  <2>1. Ends(elements)
    BY <1>1, <1>3, <1>4
  <2>2. /\ u \in Nat /\ Len(elements) = u + 1 /\ elements[u + 1] = Section(place)
        /\ \A i \in 1 .. u + 1 : elements[i].what = "section"
    BY <1>2, <1>3, <1>4, SectionsLeft
  <2>3. \A i \in 1 .. Len(unfinished) :
           elements[i] = Section(Last(unfinished[Len(unfinished) + 1 - i].tracker))
    BY <1>2, <1>4, SectionsLeft, Zenon
  <2>4. QED
    BY <1>3, <2>1, <2>2, <2>3, Zenon
<1> HIDE DEF sections, ended
<1>6. 4 + Len(active) + Len(unfinished) = 4 + u /\ 4 + u > 3 /\ 4 + u \in Nat
  BY <1>2, <1>3, <1>5
<1>7. /\ OpenAre(4 + u) /\ Asserting /\ Deeper
      /\ \A i \in 1 .. u : reporter.open[4 + u + 1 - i] = Section(Last(unfinished[i].tracker))
      /\ reporter \in [open : Seq(Element), asserts : BOOLEAN, ordered : BOOLEAN]
  <2>1. OpenAre(4 + Len(active) + Len(unfinished))
    BY <1>1 DEF Reporting
  <2>2. \A i \in 1 .. Len(unfinished) :
           reporter.open[4 + Len(active) + Len(unfinished) + 1 - i]
             = Section(Last(unfinished[i].tracker))
    BY <1>1 DEF Reporting
  <2>3. OpenAre(4 + u)
    BY <1>6, <2>1
  <2>4. \A i \in 1 .. u : reporter.open[4 + u + 1 - i] = Section(Last(unfinished[i].tracker))
    BY <1>3, <1>6, <2>2
  <2>5. QED
    BY <1>1, <2>3, <2>4 DEF Reporting
<1>8. /\ Len(reporter.open) = 4 + u /\ reporter.open[4] = Section(place)
      /\ reporter.open[1] = Run /\ reporter.open[2] = Group /\ reporter.open[3] = Test
  BY <1>3, <1>6, <1>7 DEF OpenAre
<1>9. \A i \in 1 .. u : elements[i] = reporter.open[4 + i]
  <2>1. \A i \in 1 .. u : u + 1 - i \in 1 .. u /\ 4 + u + 1 - (u + 1 - i) = 4 + i
    BY <1>5
  <2>2. QED
    BY <1>5, <1>7, <2>1
<1>10. PICK n, k \in Nat : n = 4 + u /\ k = u + 1
  BY <1>5
<1>11. ASSUME NEW i \in 1 .. k
       PROVE  /\ reporter.open[n + 1 - i].what = elements[i].what
              /\ u < 2 => reporter.open[n + 1 - i] = elements[i]
  <2>1. CASE i = u + 1
    <3>1. n + 1 - i = 4
      BY <1>5, <1>10, <2>1
    <3>2. QED
      BY <1>5, <1>8, <2>1, <3>1
  <2>2. CASE i # u + 1
    <3>1. i \in 1 .. u /\ i \in 1 .. u + 1 /\ (u < 2 => n + 1 - i = 4 + i)
      BY <1>5, <1>10, <2>2
    <3>2. reporter.open[n + 1 - i] = Section(Last(unfinished[i].tracker))
      BY <1>7, <1>10, <3>1
    <3>3. reporter.open[n + 1 - i].what = "section"
      BY <3>2 DEF Section
    <3>4. QED
      BY <1>5, <1>9, <3>1, <3>3
  <2>3. QED
    BY <2>1, <2>2
<1>12. n = Len(reporter.open) /\ k = Len(elements) /\ k <= n /\ n - k = 3
  BY <1>5, <1>8, <1>10
<1>13. reporter' \in [open : Seq(Element), asserts : BOOLEAN, ordered : BOOLEAN]
  BY <1>5, <1>7, <1>11, <1>12, LastEnd
<1>14. Len(reporter'.open) = n - k
  BY <1>5, <1>7, <1>11, <1>12, LastEnd
<1>15. \A i \in 1 .. n - k : reporter'.open[i] = reporter.open[i]
  BY <1>5, <1>7, <1>11, <1>12, LastEnd
<1>16. reporter'.asserts = reporter.asserts
  BY <1>5, <1>7, <1>11, <1>12, LastEnd
<1>17. ~ reporter'.ordered <=> u > 1
  <2>1. reporter'.ordered <=> \A i \in 1 .. k : reporter.open[n + 1 - i] = elements[i]
    <3>1. /\ reporter \in [open : Seq(Element), asserts : BOOLEAN, ordered : BOOLEAN]
          /\ Ends(elements) /\ n = Len(reporter.open) /\ k = Len(elements) /\ k <= n
      BY <1>5, <1>7, <1>12
    <3>2. QED
      BY <3>1, EndInOrder
  <2>2. ASSUME u > 1 PROVE ~ reporter'.ordered
    <3>1. 5 \in 5 .. 4 + u /\ 4 + u \in 5 .. 4 + u /\ 5 < 4 + u
      BY <1>5, <2>2
    <3>2. reporter.open[5].at < reporter.open[4 + u].at
      BY <1>7, <1>8, <3>1 DEF Deeper
    <3>3. reporter.open[5] \in Element
      BY <1>7, <1>8, <3>1
    <3>4. reporter.open[5] # reporter.open[4 + u]
      BY <3>2, <3>3 DEF Element
    <3>5. 1 \in 1 .. k /\ n + 1 - 1 = 4 + u /\ elements[1] = reporter.open[5]
      BY <1>5, <1>9, <1>10, <2>2
    <3>6. QED
      BY <2>1, <3>4, <3>5
  <2>3. CASE u > 1
    BY <2>2, <2>3
  <2>4. CASE ~ (u > 1)
    BY <1>5, <1>11, <2>1, <2>4
  <2>5. QED
    BY <2>3, <2>4
<1>18. OpenAre(3)'
  BY <1>8, <1>12, <1>14, <1>15 DEF OpenAre
<1>19. Asserting'
  BY <1>1, <1>7, <1>16, AssertingStays
<1>20. QED
  BY <1>1, <1>3, <1>13, <1>17, <1>18, <1>19 DEF Reporting

(* The ends of a test case and of the session.                             *)
LEMMA OthersEndTold ==
  ASSUME TypeOK, Tracking, Reporting
  PROVE  /\ TestCaseEnded => Reporting' /\ reporter'.ordered
         /\ SessionEnds => Reporting' /\ reporter'.ordered
         /\ FatalErrorCondition => Reporting' /\ (~ reporter'.ordered <=> active # <<>>)
         /\ SkipTests => Reporting'
         /\ UNCHANGED vars => Reporting'
<1>1. /\ reporter \in [open : Seq(Element), asserts : BOOLEAN, ordered : BOOLEAN]
      /\ reporter.asserts \in BOOLEAN /\ reporter.ordered \in BOOLEAN
      /\ Asserting
  BY DEF Reporting
<1>2. ASSUME TestCaseEnded PROVE Reporting' /\ reporter'.ordered
  <2>1. mode = "test_over" /\ mode' = "group" /\ Ends(<<Test>>)
    BY <1>2 DEF TestCaseEnded
  <2>2. OpenAre(3)
    BY <2>1 DEF Reporting
  <2>3. PICK e, n : e = Test /\ n = 3 /\ n \in Nat
    OBVIOUS
  <2>4. Ends(<<e>>) /\ n \in Nat /\ n > 0 /\ n = Len(reporter.open) /\ reporter.open[n] = e
    BY <2>1, <2>2, <2>3 DEF OpenAre
  <2>5. reporter' \in [open : Seq(Element), asserts : BOOLEAN, ordered : BOOLEAN]
    BY <1>1, <2>4, LastEnds
  <2>6. Len(reporter'.open) = n - 1
    BY <1>1, <2>4, LastEnds
  <2>7. \A i \in 1 .. n - 1 : reporter'.open[i] = reporter.open[i]
    BY <1>1, <2>4, LastEnds
  <2>8. reporter'.asserts = reporter.asserts
    BY <1>1, <2>4, LastEnds
  <2>9. reporter'.ordered
    BY <1>1, <2>4, LastEnds
  <2>10. OpenAre(2)'
    BY <2>2, <2>3, <2>6, <2>7 DEF OpenAre
  <2>11. Asserting'
    BY <1>1, <2>1, <2>8, AssertingStays
  <2>12. QED
    BY <2>1, <2>5, <2>9, <2>10, <2>11 DEF Reporting
<1>3. ASSUME SessionEnds PROVE Reporting' /\ reporter'.ordered
  <2>1. mode = "group" /\ mode' = "over" /\ Ends(<<Group, Run>>)
    BY <1>3 DEF SessionEnds
  <2>2. OpenAre(2)
    BY <2>1 DEF Reporting
  <2>3. PICK elements : elements = <<Group, Run>>
    OBVIOUS
  <2>4. PICK n, k \in Nat : n = 2 /\ k = 2
    OBVIOUS
  <2>5. /\ Ends(elements) /\ n = Len(reporter.open) /\ k = Len(elements) /\ k <= n
        /\ elements[1] = Group /\ elements[2] = Run
    BY <2>1, <2>2, <2>3, <2>4 DEF OpenAre
  <2>6. \A i \in 1 .. k : reporter.open[n + 1 - i] = elements[i]
    BY <2>2, <2>4, <2>5 DEF OpenAre
  <2>7. \A i \in 1 .. k : reporter.open[n + 1 - i].what = elements[i].what
    BY <2>6
  <2>8. reporter' \in [open : Seq(Element), asserts : BOOLEAN, ordered : BOOLEAN]
    BY <1>1, <2>5, <2>7, LastEnd
  <2>9. Len(reporter'.open) = n - k
    BY <1>1, <2>5, <2>7, LastEnd
  <2>10. reporter'.asserts = reporter.asserts
    BY <1>1, <2>5, <2>7, LastEnd
  <2>11. reporter'.ordered
    BY <1>1, <2>5, <2>6, EndInOrder
  <2>12. reporter'.open = <<>>
    <3>1. PICK s \in Seq(Element) : s = reporter'.open
      BY <2>8
    <3>2. Len(s) = 0
      BY <2>4, <2>9, <3>1
    <3>3. QED
      BY <3>1, <3>2
  <2>13. Asserting'
    BY <1>1, <2>1, <2>10, AssertingStays
  <2>14. QED
    BY <2>1, <2>8, <2>11, <2>12, <2>13 DEF Reporting
<1>4. ASSUME FatalErrorCondition PROVE Reporting' /\ (~ reporter'.ordered <=> active # <<>>)
  <2>1. /\ mode = "function" /\ mode' = "dead" /\ active' = active
        /\ Ends(<<Section(Last(TestCase)), Test, Group, Run>>)
    BY <1>4 DEF FatalErrorCondition
  <2>2. unfinished = <<>> /\ active \in Seq(Scoped)
    BY <2>1 DEF Tracking
  <2>3. PICK elements : elements = <<Section(Last(TestCase)), Test, Group, Run>>
    OBVIOUS
  <2>4. Ends(elements) /\ Len(elements) = 4 /\ Len(elements) \in Nat
    BY <2>1, <2>3
  <2>5. reporter' \in [open : Seq(Element), asserts : BOOLEAN, ordered : BOOLEAN]
    BY <1>1, <2>4, EndsIs
  <2>6. ASSUME active = <<>> PROVE reporter'.asserts = reporter.asserts /\ reporter'.ordered
    <3>1. 4 + Len(active) + Len(unfinished) = 4
      BY <2>2, <2>6
    <3>2. OpenAre(4)
      <4>1. OpenAre(4 + Len(active) + Len(unfinished))
        BY <2>1 DEF Reporting
      <4>2. QED
        BY <3>1, <4>1
    <3>3. PICK n, k \in Nat : n = 4 /\ k = 4
      OBVIOUS
    <3>4. n = Len(reporter.open) /\ k = Len(elements) /\ k <= n
      BY <2>4, <3>2, <3>3 DEF OpenAre
    <3>5. ASSUME NEW i \in 1 .. k PROVE reporter.open[n + 1 - i] = elements[i]
      <4>1. i \in {1, 2, 3, 4}
        BY <3>3
      <4>2. /\ elements[1] = Section(Last(TestCase)) /\ elements[2] = Test
            /\ elements[3] = Group /\ elements[4] = Run
        BY <2>3
      <4>3. /\ reporter.open[1] = Run /\ reporter.open[2] = Group /\ reporter.open[3] = Test
            /\ reporter.open[4] = Section(Last(TestCase))
        BY <3>2 DEF OpenAre
      <4>4. QED
        BY <3>3, <4>1, <4>2, <4>3
    <3>6. \A i \in 1 .. k : reporter.open[n + 1 - i].what = elements[i].what
      BY <3>5
    <3>7. QED
      BY <1>1, <2>4, <3>4, <3>5, <3>6, LastEnd, EndInOrder
  <2>7. ASSUME active # <<>> PROVE ~ reporter'.asserts /\ ~ reporter'.ordered
    <3> DEFINE l == Len(active)
    <3>1. l \in Nat /\ l > 0
      <4>1. PICK s \in Seq(Scoped) : s = active
        BY <2>2
      <4>2. Len(s) \in Nat /\ (Len(s) = 0 => s = <<>>)
        OBVIOUS
      <4>3. QED
        BY <2>7, <4>1, <4>2
    <3>2. Len(unfinished) = 0 /\ 4 + l + 0 = 4 + l
      BY <2>2
    <3>3. OpenAre(4 + l) /\ \A i \in 1 .. l : reporter.open[4 + i].what = "section"
      <4>1. /\ OpenAre(4 + l + Len(unfinished))
            /\ \A i \in 1 .. l : reporter.open[4 + i] = Section(Last(active[i].tracker))
        BY <2>1 DEF Reporting
      <4>2. \A at : Section(at).what = "section"
        BY DEF Section
      <4>3. OpenAre(4 + l)
        BY <3>2, <4>1
      <4>4. QED
        BY <4>1, <4>2, <4>3, Zenon
    <3>4. Len(reporter.open) = 4 + l /\ reporter.open[4].what = "section"
      BY <2>2, <3>3 DEF OpenAre, Section
    <3> HIDE DEF l
    <3>5. reporter.open[4 + l - 1].what = "section"
      <4>1. CASE l = 1
        BY <3>4, <4>1
      <4>2. CASE l # 1
        <5>1. l - 1 \in 1 .. l /\ 4 + (l - 1) = 4 + l - 1
          BY <3>1, <4>2
        <5>2. QED
          BY <3>3, <5>1
      <4>3. QED
        BY <4>1, <4>2
    <3>6. elements[2].what = "test_case" /\ 2 \in 1 .. Len(elements)
      BY <2>3, <2>4 DEF Test
    <3>7. Len(reporter.open) + 1 - 2 = 4 + l - 1
      BY <3>1, <3>4
    <3>8. reporter.open[Len(reporter.open) + 1 - 2].what # elements[2].what
      BY <3>5, <3>6, <3>7
    <3>9. /\ reporter'.asserts => \A i \in 1 .. Len(elements) :
               reporter.open[Len(reporter.open) + 1 - i].what = elements[i].what
          /\ reporter'.ordered => \A i \in 1 .. Len(elements) :
               reporter.open[Len(reporter.open) + 1 - i] = elements[i]
      BY <2>4 DEF Ends
    <3>10. QED
      BY <3>6, <3>8, <3>9
  <2>8. Asserting'
    BY <1>1, <2>1, <2>6, <2>7 DEF Asserting, InSection
  <2>9. QED
    BY <2>1, <2>5, <2>6, <2>7, <2>8 DEF Reporting
<1>5. ASSUME SkipTests PROVE Reporting'
  BY <1>5 DEF SkipTests, Reporting, OpenAre, Asserting, InSection, Run, Group, Test, Section
<1>6. ASSUME UNCHANGED vars PROVE Reporting'
  BY <1>6 DEF vars, Reporting, OpenAre, Deeper, Asserting, InSection, Run, Group, Test, Section
<1>7. QED
  BY <1>2, <1>3, <1>4, <1>5, <1>6

LEMMA ReportingStep ==
  ASSUME TypeOK, Tracking, Reporting, [Next]_vars
  PROVE  Reporting'
  BY BeginsTold, FunctionTold, SectionEndedTold, SectionEndedEarlyTold, RunEndedTold,
     OthersEndTold DEF Next, Goes

LEMMA InitReports ==
  ASSUME Init
  PROVE  Reporting
<1>1. /\ mode = "group"
      /\ reporter = [open |-> <<Run, Group>>, asserts |-> TRUE, ordered |-> TRUE]
  BY DEF Init
<1>2. PICK s : s = <<Run, Group>>
  OBVIOUS
<1>3. s \in Seq(Element) /\ Len(s) = 2 /\ s[1] = Run /\ s[2] = Group
  BY <1>2, ElementsAre
<1>4. /\ reporter \in [open : Seq(Element), asserts : BOOLEAN, ordered : BOOLEAN]
      /\ reporter.open = s /\ reporter.asserts /\ reporter.ordered
  BY <1>1, <1>2, <1>3
<1>5. QED
  BY <1>1, <1>3, <1>4 DEF Reporting, OpenAre, Asserting, InSection

(* Nothing ends but by these steps.                                        *)
LEMMA OnlyTheseEnd ==
  ASSUME TypeOK, Tracking, Reporting, [Next]_vars, Len(reporter'.open) < Len(reporter.open)
  PROVE  SectionEnded \/ RunEnded \/ TestCaseEnded \/ SessionEnds \/ FatalErrorCondition
<1>1. reporter \in [open : Seq(Element), asserts : BOOLEAN, ordered : BOOLEAN]
  BY DEF Reporting
<1>2. PICK n \in Nat : n = Len(reporter.open)
  BY <1>1
<1>3. ~ (n < n) /\ ~ (n + 1 < n)
  BY <1>2
<1>4. reporter' # reporter
  BY <1>2, <1>3
<1>5. \A e \in Element : ~ Starts(e)
  BY <1>1, <1>2, <1>3, StartsIs
<1>6. ~ RunTest /\ ~ StartCycle
  BY <1>5, ElementsAre DEF RunTest, StartCycle
<1>7. ~ SectionStarted
  <2>1. ASSUME SectionStarted PROVE FALSE
    <3>1. Starts(Section(pc)) \/ reporter' = reporter
      BY <2>1 DEF SectionStarted, NothingTold
    <3>2. pc \in Nat
      <4>1. pc \in 1 .. Len(Code) /\ IsCode(Code)
        BY <2>1, AtIs DEF SectionStarted
      <4>2. QED
        BY <4>1, SectionsNest
    <3>3. QED
      BY <1>4, <1>5, <3>1, <3>2, ElementsAre
  <2>2. QED
    BY <2>1
<1>8. QED
  BY <1>4, <1>6, <1>7 DEF Next, Goes, vars, SkipTests, Generate, AssertionPasses, AssertionFails,
                          CodeThrows, SectionEndedEarly, NothingTold

(* The inductive invariant.                                                *)
IInv == TypeOK /\ Counted /\ Tracking /\ Reporting

(***************************************************************************)
(* The invariant of a session, from which the rest follows.                *)
(***************************************************************************)
THEOREM Invariance == Spec => []IInv
<1>1. Init => IInv
  BY InitTyped, InitTracks, InitReports DEF IInv
<1>2. IInv /\ [Next]_vars => IInv'
  BY CountedStep, TrackingStep, ReportingStep DEF IInv
<1>3. QED
  BY <1>1, <1>2, PTL DEF Spec

(***************************************************************************)
(* A tracker is closed only where the code allows it, whatever the nesting *)
(* of sections and generators and wherever an exception leaves them:       *)
(* TrackerBase::close never comes to its "Illogical state".                *)
(***************************************************************************)
THEOREM NeverAnIllogicalState == Spec => []NeverIllogical
<1>1. IInv => NeverIllogical
  BY DEF IInv, Tracking, IsContext, NeverIllogical
<1>2. QED
  BY <1>1, Invariance, PTL

(***************************************************************************)
(* What the reporter is told to end is what began last, at every step of   *)
(* every session but two: the end of a cycle in which an exception has     *)
(* left several sections, and a signal in a section; and in these it never *)
(* is.  Only with the second do the reporters' assertions fail.            *)
(***************************************************************************)
THEOREM AlwaysWellTold == Spec => WellTold
<1>1. IInv => (mode = "over" => reporter.open = <<>>) /\ (~ reporter.asserts <=> InSection)
  BY DEF IInv, Reporting, Asserting
<1>2. ASSUME IInv, [Next]_vars, Len(reporter'.open) < Len(reporter.open)
      PROVE  ~ reporter'.ordered <=> Len(unfinished) > 1 \/ InSection'
  <2>1. TypeOK /\ Tracking /\ Reporting
    BY <1>2 DEF IInv
  <2>2. \/ SectionEnded \/ RunEnded \/ TestCaseEnded \/ SessionEnds \/ FatalErrorCondition
    BY <1>2, <2>1, OnlyTheseEnd
  <2>3. mode \in {"group", "test_over", "function"} => ~ (Len(unfinished) > 1)
    BY <2>1 DEF Tracking
  <2>4. CASE SectionEnded
    BY <2>1, <2>3, <2>4, SectionEndedTold DEF SectionEnded, At, InSection
  <2>5. CASE RunEnded
    BY <2>1, <2>5, RunEndedTold DEF RunEnded, InSection
  <2>6. CASE TestCaseEnded
    BY <2>1, <2>3, <2>6, OthersEndTold DEF TestCaseEnded, InSection
  <2>7. CASE SessionEnds
    BY <2>1, <2>3, <2>7, OthersEndTold DEF SessionEnds, InSection
  <2>8. CASE FatalErrorCondition
    BY <2>1, <2>3, <2>8, OthersEndTold DEF FatalErrorCondition, InSection
  <2>9. QED
    BY <2>2, <2>4, <2>5, <2>6, <2>7, <2>8
<1>3. IInv /\ [Next]_vars =>
        [Len(reporter'.open) < Len(reporter.open) =>
           (~ reporter'.ordered <=> Len(unfinished) > 1 \/ InSection')]_vars
  BY <1>2
<1>4. QED
  BY <1>1, <1>3, Invariance, PTL DEF Spec, WellTold

(***************************************************************************)
(* Once the session is aborting nothing begins: neither a test case nor a  *)
(* cycle, and no section, since a function that goes on after a failed     *)
(* CHECK does so in a cycle that is complete.                              *)
(***************************************************************************)
THEOREM NothingStartsAfterAbort == Spec => NoStartAfterAbort
<1>1. ASSUME IInv, [Next]_vars, aborting
      PROVE  Len(reporter'.open) <= Len(reporter.open)
  <2>1. TypeOK /\ Tracking /\ Reporting
    BY <1>1 DEF IInv
  <2>2. reporter \in [open : Seq(Element), asserts : BOOLEAN, ordered : BOOLEAN]
    BY <2>1 DEF Reporting
  <2>3. PICK s \in Seq(Element) : s = reporter.open
    BY <2>2
  <2>4. Len(reporter.open) \in Nat
    BY <2>3
  <2>5. ~ RunTest /\ ~ StartCycle
    BY <1>1, <2>1 DEF RunTest, StartCycle, Tracking
  <2>6. SectionStarted => reporter' = reporter
    BY <1>1, <2>1, SectionStartedTracks
  <2>7. CASE reporter' = reporter
    BY <2>4, <2>7
  <2>8. ASSUME NEW elements, Len(elements) \in Nat, Ends(elements)
        PROVE  Len(reporter'.open) <= Len(reporter.open)
    BY <2>2, <2>8, EndsIs
  <2>9. SectionEnded => Len(reporter'.open) <= Len(reporter.open)
    <3>1. PICK e : SectionEnded => Ends(<<e>>)
      BY DEF SectionEnded
    <3>2. PICK elements : elements = <<e>>
      OBVIOUS
    <3>3. Len(elements) \in Nat /\ (SectionEnded => Ends(elements))
      BY <3>1, <3>2
    <3>4. QED
      BY <2>8, <3>3
  <2>10. RunEnded => Len(reporter'.open) <= Len(reporter.open)
    <3>1. ASSUME RunEnded PROVE Len(reporter'.open) <= Len(reporter.open)
      <4>1. PICK elements : Len(elements) \in Nat /\ Ends(elements)
        <5> DEFINE ended == Backwards(unfinished)
                   all == [i \in DOMAIN ended |-> Section(Last(ended[i].tracker))]
                            \o <<Section(Last(TestCase))>>
        <5>1. Ends(all)
          BY <3>1 DEF RunEnded
        <5>2. unfinished \in Seq(Scoped)
          BY <2>1 DEF Tracking
        <5>3. Len(all) = Len(unfinished) + 1 /\ Len(unfinished) \in Nat
          BY <5>2, SectionsLeft
        <5> HIDE DEF all
        <5>4. QED
          BY <5>1, <5>3
      <4>2. QED
        BY <2>8, <4>1
    <3>2. QED
      BY <3>1
  <2>11. TestCaseEnded => Len(reporter'.open) <= Len(reporter.open)
    <3>1. PICK elements : elements = <<Test>>
      OBVIOUS
    <3>2. Len(elements) \in Nat /\ (TestCaseEnded => Ends(elements))
      BY <3>1 DEF TestCaseEnded
    <3>3. QED
      BY <2>8, <3>2
  <2>12. SessionEnds => Len(reporter'.open) <= Len(reporter.open)
    <3>1. PICK elements : elements = <<Group, Run>>
      OBVIOUS
    <3>2. Len(elements) \in Nat /\ (SessionEnds => Ends(elements))
      BY <3>1 DEF SessionEnds
    <3>3. QED
      BY <2>8, <3>2
  <2>13. FatalErrorCondition => Len(reporter'.open) <= Len(reporter.open)
    <3>1. PICK elements : elements = <<Section(Last(TestCase)), Test, Group, Run>>
      OBVIOUS
    <3>2. Len(elements) \in Nat /\ (FatalErrorCondition => Ends(elements))
      BY <3>1 DEF FatalErrorCondition
    <3>3. QED
      BY <2>8, <3>2
  <2>14. \/ reporter' = reporter \/ RunTest \/ StartCycle \/ SectionStarted \/ SectionEnded
         \/ RunEnded \/ TestCaseEnded \/ SessionEnds \/ FatalErrorCondition
    BY <1>1 DEF Next, Goes, vars, SkipTests, Generate, AssertionPasses, AssertionFails, CodeThrows,
                SectionEndedEarly, NothingTold
  <2>15. QED
    BY <2>5, <2>6, <2>7, <2>9, <2>10, <2>11, <2>12, <2>13, <2>14
<1>2. IInv /\ [Next]_vars => [aborting => Len(reporter'.open) <= Len(reporter.open)]_vars
  BY <1>1
<1>3. QED
  BY <1>2, Invariance, PTL DEF Spec, NoStartAfterAbort

(***************************************************************************)
(* The exit code is zero only if every test case was run and saw what its  *)
(* tags and the options ask for: the failures that make it are counted     *)
(* twice, by the run and by the group, and meet at the end of a test case. *)
(***************************************************************************)
THEOREM ExitAlwaysTells == Spec => []ExitTells
<1>1. IInv => TypeOK /\ Counted
  BY DEF IInv
<1>2. Spec => []IInv
  BY Invariance
<1>3. TypeOK /\ Counted => ExitTells
  <2>1. SUFFICES ASSUME TypeOK, Counted, mode = "over"
                 PROVE  exitCode = 0 <=> /\ \A i \in DOMAIN session.code : AsTagged(i)
                                         /\ ~ ("NoTests" \in session.warn /\ session.noMatch)
    BY DEF ExitTells
  <2>2. /\ group.assertions.failed = 0 <=> \A i \in 1 .. Len(session.code) : AsTagged(i)
        /\ exitCode = IF "NoTests" \in session.warn /\ session.noMatch THEN 2
                      ELSE Clamped(group.assertions.failed)
    BY <2>1 DEF Counted, GroupTells, Done
  <2>3. DOMAIN session.code = 1 .. Len(session.code)
    BY SessionIs DEF TypeOK
  <2>4. Clamped(group.assertions.failed) = 0 <=> group.assertions.failed = 0
    BY TypesAre, ExitAssumption DEF Clamped, Counts
  <2>5. CASE "NoTests" \in session.warn /\ session.noMatch
    BY <2>2, <2>5
  <2>6. CASE ~ ("NoTests" \in session.warn /\ session.noMatch)
    BY <2>2, <2>3, <2>4, <2>6, Zenon
  <2>7. QED
    BY <2>5, <2>6
<1>4. QED
  BY <1>1, <1>2, <1>3, PTL DEF Spec
=============================================================================
