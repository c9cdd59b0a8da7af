---------------------------- MODULE MCCatchReports ----------------------------
(***************************************************************************)
(* The sessions that TLC tells the reporters of.                           *)
(***************************************************************************)
EXTENDS CatchReports

CONSTANT MaxSteps  \* what the test functions of a session do, at most

Plain == [tests |-> <<"none">>, all |-> TRUE, success |-> FALSE, warn |-> FALSE,
          abortAfter |-> 100, steps |-> MaxSteps, cycles |-> 2, earlier |-> Zero]

(* One test case, told to all; with -s, and to those that are told less.   *)
Single == {Plain} \cup {[Plain EXCEPT !.success = s, !.all = s, !.steps = MaxSteps - 1] : s \in BOOLEAN}

(* Two test cases with their tags, -w NoAssertions and -x 1.               *)
Pairs == {[Plain EXCEPT !.tests = <<t, u>>, !.warn = w, !.abortAfter = a, !.steps = MaxSteps - 2] :
            t \in {"none", "mayfail", "shouldfail"}, u \in {"none", "mayfail"},
            w \in BOOLEAN, a \in {1, 100}}

(* No test case more, after so many of each kind: the divider.             *)
Earlier == {[Plain EXCEPT !.tests = <<>>, !.earlier = [passed |-> p, failed |-> f, failedButOk |-> b]] :
            p \in 0 .. 3, f \in 0 .. 3, b \in 0 .. 3}

MCConfigs == Single \cup Pairs \cup Earlier
=============================================================================
