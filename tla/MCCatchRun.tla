----------------------------- MODULE MCCatchRun -----------------------------
(***************************************************************************)
(* The sessions that TLC runs CatchRun on: every test function of up to    *)
(* MaxCode instructions, under every way to choose its options; and small  *)
(* test cases in a row, one after the other.                               *)
(***************************************************************************)
EXTENDS CatchRun

CONSTANT MaxCode

Instructions == {"section", "end", "generate", "check"}

(* A test function: its sections end, in this order, and there are at most *)
(* two generators and two assertions.                                      *)
WellFormed(code) ==
  /\ \A k \in DOMAIN code : Count(code, 1, k, "end") <= Count(code, 1, k, "section")
  /\ Count(code, 1, Len(code), "end") = Count(code, 1, Len(code), "section")
  /\ Count(code, 1, Len(code), "generate") <= 2
  /\ Count(code, 1, Len(code), "check") <= 2

Functions(n) == {code \in UNION {[1 .. k -> Instructions] : k \in 0 .. n} : WellFormed(code)}

Plain == [code |-> <<>>, tag |-> <<"none">>, values |-> 2, sections |-> <<>>,
          abortAfter |-> 100, warn |-> {}, noMatch |-> FALSE]

SectionsOf(code) == {k \in DOMAIN code : code[k] = "section"}

(* One test case, run whole; stopped at its first failure, and asked for   *)
(* assertions; or run for one section, or one section in another.          *)
Whole == {[Plain EXCEPT !.code = <<code>>] : code \in Functions(MaxCode)}

Strict == {[s EXCEPT !.abortAfter = 1, !.warn = {"NoAssertions"}] : s \in Whole}

ForSections(s) ==
  {[s EXCEPT !.sections = path] :
     path \in UNION {[1 .. n -> SectionsOf(s.code[1])] : n \in 1 .. 2}}

Chosen == UNION {ForSections(s) : s \in Whole}

(* Two test cases of every tag, after a test spec that may match nothing.  *)
Row == {[Plain EXCEPT !.code = <<c, d>>, !.tag = <<t, u>>, !.abortAfter = a, !.noMatch = n, !.warn = w] :
          c \in Functions(1), d \in Functions(1), t \in {"none", "mayfail", "shouldfail"},
          u \in {"none", "mayfail", "shouldfail"}, a \in {1, 100}, n \in BOOLEAN,
          w \in SUBSET {"NoAssertions", "NoTests"}}

(* Sections before a generator, as many as it has values or more, so that  *)
(* it is read when it has none left; and around another such generator.    *)
Before(n) == [i \in 1 .. 2 * n |-> IF i % 2 = 1 THEN "section" ELSE "end"]

Exhausting ==
  {[Plain EXCEPT !.code = <<Before(n) \o more>>, !.values = v] :
     n \in 2 .. 3, v \in 1 .. 2,
     more \in {<<"generate">>, <<"generate", "section", "end", "generate">>}}

(* A session in which a generator waits for ever has no assertions: their  *)
(* number would grow with every cycle.                                     *)
MCSessions ==
  Whole \cup Strict \cup {s \in Chosen : Stuck(s) => "check" \notin ToSet(s.code[1])}
        \cup Row \cup Exhausting
=============================================================================
