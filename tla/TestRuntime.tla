---------------------------- MODULE TestRuntime ----------------------------
(***************************************************************************)
(* The test runtime of libipd (lib/libipd/src/test_rt.c): checks are       *)
(* counted in static variables, RUN_TEST runs a test function and counts   *)
(* its verdict, and an exit handler prints a summary and turns failures    *)
(* into the exit status.  With LIBIPD_HAS_POSIX a test is run in a forked  *)
(* process, without it by a call.                                          *)
(*                                                                         *)
(* The allocation tracer (alloc_rt.c) lives in the same processes, with a  *)
(* file of its own and an exit handler of its own.                         *)
(*                                                                         *)
(* Processes step independently.  A parent waits for the one test it runs, *)
(* so two processes run at once only when a parent has died or given up.   *)
(* What a test function does between calls of the runtime is arbitrary: it *)
(* may print, crash, exit or run tests of its own.                         *)
(***************************************************************************)
EXTENDS Integers, Sequences, FiniteSets, SequencesExt

CONSTANTS
  MaxProcs,   \* bound: processes ever forked, or tests called inside one
              \* another, the program itself included
  MaxCount,   \* bound: checks and tests counted in each process
  StatusMod,  \* exit statuses the kernel tells apart (256)
  ExitCodes,  \* what the program passes to exit, and main returns
  Text        \* things the program prints or traces, each at most once

ASSUME TestAssumption ==
  /\ MaxProcs \in Nat \ {0}
  /\ MaxCount \in [1 .. MaxProcs -> Nat]
  /\ StatusMod \in Nat \ {0}
  /\ ExitCodes \subseteq Nat

VARIABLES
  posix,      \* whether the library was built with LIBIPD_HAS_POSIX
  run,        \* what each process is doing
  mem,        \* its memory: the statics, its handlers and its two buffers
  child,      \* the process it waits for, or None
  status,     \* what waitpid reports of it once it is over
  printed,    \* where each text was printed, and by which process
  shown,      \* how often each text has reached the file it was meant for
  left,       \* history: the way the process went over
  seen,       \* history: whether it has seen a failure, an error
  summaries   \* history: the summaries it has printed

vars == <<posix, run, mem, child, status, printed, shown, left, seen, summaries>>

Proc == 1 .. MaxProcs
Main == 1
None == 0

Fresh == [pass_count |-> 0, fail_count |-> 0, error_count |-> 0,
          tests_enabled |-> FALSE, trace_is_init |-> FALSE, handlers |-> <<>>,
          stdout |-> {}, trace_out |-> {}, tests |-> <<>>]

(* The handlers registered with atexit, in that order; atexit_installed is *)
(* whether the test runtime's is among them.                               *)
Installed(m, handler)  == handler \in ToSet(m.handlers)
Installs(m, handler) ==
  IF Installed(m, handler) THEN m ELSE [m EXCEPT !.handlers = Append(@, handler)]

(* The macros of <sys/wait.h>: exited with a code, or killed by a signal.  *)
Alive        == [how |-> "alive", code |-> 0]
Exited(code) == [how |-> "exited", code |-> code % StatusMod]
Signaled     == [how |-> "signaled", code |-> 0]

Unborn == {c \in Proc : run[c] = "unborn"}
FirstOf(S) == CHOOSE c \in S : \A d \in S : c <= d

Counts(m)   == <<m.pass_count, m.fail_count, m.error_count>>
Failures(m) == m.fail_count + m.error_count
Checks(m)   == m.pass_count + Failures(m)

-----------------------------------------------------------------------------
(* start_testing() where atexit succeeds: the memory afterwards.           *)
start_testing(m) == [Installs(m, "exit_hook_function") EXCEPT !.tests_enabled = TRUE]

log_check(m, condition) ==
  IF condition THEN [start_testing(m) EXCEPT !.pass_count = @ + 1]
               ELSE [start_testing(m) EXCEPT !.fail_count = @ + 1]

log_error(m) == [start_testing(m) EXCEPT !.error_count = @ + 1]

Flushed(ts) == [t \in Text |-> IF t \in ts THEN shown[t] + 1 ELSE shown[t]]

fflush(m) == [m EXCEPT !.stdout = {}]


Hooked(m) == Installed(m, "exit_hook_function") /\ m.tests_enabled

(* Faulty variant of the next definition: the hook returns, and the status *)
(* is what the program passed to exit.                                     *)
NeverCut(m) == FALSE

(* exit_hook_function, with a failure to report, calls _exit.              *)
Cut(m) == Hooked(m) /\ Failures(m) > 0


(* Exit handlers run last to first: g is run before h is.                  *)
RunsBefore(m, g, h) == Installed(m, g) /\ (Installed(m, h) => Last(m.handlers) = g)

(***************************************************************************)
(* exit(code) with memory m, after s summaries printed by the caller.  The *)
(* hook prints the summary if tests are enabled; its _exit skips the flush *)
(* of stdout, and close_trace_out if that was registered before it.        *)
(***************************************************************************)
Exit(p, m, code, way, s) ==
  /\ run' = [run EXCEPT ![p] = "over"]
  /\ mem' = [mem EXCEPT ![p] = [m EXCEPT !.stdout = {}, !.trace_out = {}]]
  /\ status' = [status EXCEPT ![p] = Exited(IF Cut(m) THEN Failures(m) ELSE code)]
  /\ summaries' = [summaries EXCEPT ![p] = @ + s + (IF Hooked(m) THEN 1 ELSE 0)]
  /\ shown' = Flushed(IF ~ Cut(m) THEN m.stdout \cup m.trace_out
                      ELSE IF RunsBefore(m, "close_trace_out", "exit_hook_function")
                      THEN m.trace_out ELSE {})
  /\ left' = [left EXCEPT ![p] = way]
  /\ child' = [child EXCEPT ![p] = None]
  /\ UNCHANGED <<posix, printed, seen>>

(* The process is killed by a signal: no handler, no flush.                *)
Dies(p, m, way) ==
  /\ run' = [run EXCEPT ![p] = "over"]
  /\ mem' = [mem EXCEPT ![p] = [m EXCEPT !.stdout = {}, !.trace_out = {}]]
  /\ status' = [status EXCEPT ![p] = Signaled]
  /\ left' = [left EXCEPT ![p] = way]
  /\ child' = [child EXCEPT ![p] = None]
  /\ UNCHANGED <<posix, printed, shown, summaries>>

(* The call returns with memory m, having seen the results of the set news. *)
GoesOn(p, m, news) ==
  /\ mem' = [mem EXCEPT ![p] = m]
  /\ seen' = [seen EXCEPT ![p] = @ \cup news]
  /\ UNCHANGED <<posix, run, child, status, printed, shown, left, summaries>>

Running(p) == run[p] = "running"

(* The bound on what one process counts.                                   *)
MayCount(p) == Checks(mem[p]) + Len(mem[p].tests) < MaxCount[p]

Nowhere == [file |-> "none", by |-> None]

-----------------------------------------------------------------------------
Init ==
  /\ posix \in BOOLEAN
  /\ run = [p \in Proc |-> IF p = Main THEN "running" ELSE "unborn"]
  /\ mem = [p \in Proc |-> Fresh]
  /\ child = [p \in Proc |-> None]
  /\ status = [p \in Proc |-> Alive]
  /\ printed = [t \in Text |-> Nowhere]
  /\ shown = [t \in Text |-> 0]
  /\ left = [p \in Proc |-> "not"]
  /\ seen = [p \in Proc |-> {}]
  /\ summaries = [p \in Proc |-> 0]

StartTesting(p) == Running(p) /\ GoesOn(p, start_testing(mem[p]), {})

(* Any caller of start_testing: atexit has no room for the handler.        *)
AtexitFails(p) ==
  /\ Running(p)
  /\ ~ Installed(mem[p], "exit_hook_function")
  /\ Exit(p, mem[p], 10, "setup", 0)

LogCheck(p, condition) ==
  /\ Running(p)
  /\ MayCount(p)
  /\ GoesOn(p, log_check(mem[p], condition), IF condition THEN {} ELSE {"fail"})

LogError(p) ==
  /\ Running(p)
  /\ MayCount(p)
  /\ GoesOn(p, log_error(mem[p]), {"error"})

(* CHECK_STRING(have, NULL): logged as a failure, then abort().            *)
CheckStringNull(p) ==
  /\ Running(p)
  /\ MayCount(p)
  /\ Dies(p, log_check(mem[p], FALSE), "abort")
  /\ seen' = [seen EXCEPT ![p] = @ \cup {"fail"}]

Prints(p, t, file) ==
  /\ Running(p)
  /\ printed[t] = Nowhere
  /\ printed' = [printed EXCEPT ![t] = [file |-> file, by |-> p]]
  /\ UNCHANGED <<posix, run, child, status, shown, left, seen, summaries>>

(* printf by the program, to a stdout that is a pipe or a file.            *)
PrintText(p, t) ==
  /\ Prints(p, t, "stdout")
  /\ mem' = [mem EXCEPT ![p].stdout = @ \cup {t}]

(* alloc_tracef by one of the wrappers, with RTIPD_TRACE set.  The first   *)
(* call installs the handler; that atexit has no room goes unnoticed.      *)
alloc_tracef(p, t) ==
  /\ Prints(p, t, "trace_out")
  /\ \E m \in IF mem[p].trace_is_init THEN {mem[p]}
              ELSE {mem[p], Installs(mem[p], "close_trace_out")} :
       mem' = [mem EXCEPT ![p] = [m EXCEPT !.trace_is_init = TRUE,
                                           !.trace_out = @ \cup {t}]]

(* Faulty variant of the next definition: stdout is not flushed.           *)
Unflushed(m) == m

BeforeFork(m) == fflush(m)

(* RUN_TEST(test_fn): the test's name is printed and stdout is flushed.    *)
(* With POSIX the process goes on to fork; without, it calls test_fn.      *)
RunTest(p) ==
  /\ Running(p)
  /\ MayCount(p)
  /\ run' = [run EXCEPT ![p] = IF posix THEN "forking" ELSE @]
  /\ LET m == start_testing(mem[p])
         f == [fails |-> m.fail_count, errors |-> m.error_count, before |-> seen[p]]
     IN  /\ shown' = Flushed(m.stdout \ BeforeFork(m).stdout)
         /\ IF posix
            THEN mem' = [mem EXCEPT ![p] = BeforeFork(m)] /\ UNCHANGED seen
            ELSE /\ Len(m.tests) < MaxProcs - 1
                 /\ mem' = [mem EXCEPT ![p] = [BeforeFork(m) EXCEPT !.tests = Append(@, f)]]
                 /\ seen' = [seen EXCEPT ![p] = {}]
  /\ UNCHANGED <<posix, child, status, printed, left, summaries>>

(* fork: the child starts from its parent's memory, the counters at zero.  *)
Forked(m) == [m EXCEPT !.pass_count = 0, !.fail_count = 0, !.error_count = 0]

Fork(p) ==
  /\ run[p] = "forking"
  /\ Unborn # {}
  /\ LET c == FirstOf(Unborn)
     IN  /\ mem' = [mem EXCEPT ![c] = Forked(mem[p])]
         /\ run' = [run EXCEPT ![p] = "waiting", ![c] = "running"]
         /\ child' = [child EXCEPT ![p] = c]
  /\ UNCHANGED <<posix, status, printed, shown, left, seen, summaries>>

(* No more processes: "unexpected error", and exit(11).                    *)
ForkFails(p) ==
  /\ run[p] = "forking"
  /\ Exit(p, mem[p], 11, "os error", 0)

(* Faulty variant of the next definition: the exit handler is left enabled. *)
StillEnabled(m) == m

Disabled(m) == [m EXCEPT !.tests_enabled = FALSE]

(* test_fn() returns in the forked process, which exits with its outcome.  *)
Outcome(m) == IF m.error_count > 0 THEN 2
              ELSE IF m.fail_count > 0 THEN 1 ELSE 0

TestReturns(p) ==
  /\ Running(p)
  /\ p # Main
  /\ Exit(p, Disabled(mem[p]), Outcome(mem[p]), "returned", 0)

(* The verdict that is read from a status, and a verdict counted.          *)
Verdict(s) ==
  CASE s.how = "exited" /\ s.code = 0 -> "pass"
    [] s.how = "exited" /\ s.code = 1 -> "fail"
    [] OTHER                          -> "error"

Count(m, verdict) ==
  CASE verdict = "pass"  -> [m EXCEPT !.pass_count = @ + 1]
    [] verdict = "fail"  -> [m EXCEPT !.fail_count = @ + 1]
    [] verdict = "error" -> [m EXCEPT !.error_count = @ + 1]

(* What a test that is over came to: if it returned to RUN_TEST, or if its *)
(* status has nothing to report, what it has seen; otherwise, its status.  *)
Worst(results) == CASE "error" \in results -> "error"
                    [] results = {"fail"}  -> "fail"
                    [] results = {}        -> "pass"

Truth(c) == IF left[c] = "returned" \/ Verdict(status[c]) = "pass"
            THEN Worst(seen[c]) ELSE Verdict(status[c])

(* Faulty variant of the next definition: only a test that exits is waited for. *)
HasExited(c) == run[c] = "over" /\ status[c].how = "exited"

IsOver(c) == run[c] = "over"

(* waitpid answers: the verdict is read from the status and counted.       *)
Reap(p) ==
  /\ run[p] = "waiting"
  /\ IsOver(child[p])
  /\ mem' = [mem EXCEPT ![p] = Count(@, Verdict(status[child[p]]))]
  /\ run' = [run EXCEPT ![p] = "running"]
  /\ child' = [child EXCEPT ![p] = None]
  /\ seen' = [seen EXCEPT ![p] = @ \cup ({Truth(child[p])} \ {"pass"})]
  /\ UNCHANGED <<posix, status, printed, shown, left, summaries>>

(* Faulty variant of the next definition: what the program has counted     *)
(* before the test is taken for the test's.                                *)
SinceStart(m) ==
  CASE m.error_count > 0 -> "error"
    [] m.error_count = 0 /\ m.fail_count > 0 -> "fail"
    [] OTHER -> "pass"

(* The verdict on a test called without fork: what it has added.           *)
Added(m) ==
  CASE m.error_count > Last(m.tests).errors -> "error"
    [] m.error_count = Last(m.tests).errors /\ m.fail_count > Last(m.tests).fails -> "fail"
    [] OTHER -> "pass"

(* test_fn() returns to a RUN_TEST that called it: the verdict is counted  *)
(* beside the test's own checks, and printed with a flush.                 *)
CallReturns(p) ==
  /\ Running(p)
  /\ mem[p].tests # <<>>
  /\ mem' = [mem EXCEPT ![p] = [Count(fflush(@), Added(@))
                                EXCEPT !.tests = Front(mem[p].tests)]]
  /\ shown' = Flushed(mem[p].stdout)
  /\ seen' = [seen EXCEPT ![p] = @ \cup Last(mem[p].tests).before]
  /\ UNCHANGED <<posix, run, child, status, printed, left, summaries>>

(* waitpid fails (a signal handler of the program's interrupts it, or      *)
(* SIGCHLD is ignored): exit(11), and the test is left to itself.          *)
WaitFails(p) ==
  /\ run[p] = "waiting"
  /\ Exit(p, mem[p], 11, "os error", 0)

MainReturns(code) ==
  /\ Running(Main)
  /\ mem[Main].tests = <<>>
  /\ Exit(Main, mem[Main], code, "returned", 0)

(* exit called where <ipd.h> does not replace it: read_line out of memory, *)
(* the limiter, a C library.                                               *)
RawExit(p, code) == Running(p) /\ Exit(p, mem[p], code, "exit", 0)

(* exit called where <ipd.h> does: libipd_exit_rt(result).                 *)
libipd_exit_rt(p, result) ==
  /\ Running(p)
  /\ IF mem[p].tests_enabled
     THEN Exit(p, [mem[p] EXCEPT !.tests_enabled = FALSE],
               IF result = 0 THEN mem[p].fail_count ELSE result,
               "libipd_exit", 1)
     ELSE Exit(p, mem[p], result, "libipd_exit", 0)

(* A signal, at any time.                                                  *)
Crash(p) ==
  /\ run[p] \in {"running", "forking", "waiting"}
  /\ Dies(p, mem[p], "crash")
  /\ UNCHANGED seen

Step(p) ==
  \/ StartTesting(p)
  \/ \E condition \in BOOLEAN : LogCheck(p, condition)
  \/ LogError(p)
  \/ CheckStringNull(p)
  \/ \E t \in Text : PrintText(p, t) \/ alloc_tracef(p, t)
  \/ RunTest(p)
  \/ Fork(p)
  \/ ForkFails(p)
  \/ TestReturns(p)
  \/ CallReturns(p)
  \/ Reap(p)
  \/ \E code \in ExitCodes : p = Main /\ MainReturns(code)
  \/ \E code \in ExitCodes : RawExit(p, code)
  \/ \E code \in ExitCodes : libipd_exit_rt(p, code)

(* What may go wrong at a call or, for a signal, at any time.              *)
Mishap(p) == AtexitFails(p) \/ WaitFails(p) \/ Crash(p)

Next == \E p \in Proc : Step(p) \/ Mishap(p)

(***************************************************************************)
(* The kernel runs every process that can run: fork answers, one way or    *)
(* the other, and waitpid answers when the child is over.  A test function *)
(* that is run ends: it makes finitely many calls, as the bounds have it.  *)
(* Nothing has to go wrong.                                                *)
(***************************************************************************)
Fairness == \A p \in Proc : WF_vars(Step(p))

Spec == Init /\ [][Next]_vars /\ Fairness

-----------------------------------------------------------------------------
ExitedWith(p, code) == status[p] = [how |-> "exited", code |-> code]

(***************************************************************************)
(* A program "must exit with status zero if all tests pass, or non-zero if *)
(* some test fails" (cmake/IPDcommands.cmake).  The code does so except    *)
(* when a process has counted a failure or an error and hides it: exactly  *)
(* if it goes through the exit hook, and what it has counted is a multiple *)
(* of the statuses there are, or, only if it calls exit(0) while testing,  *)
(* if its failures, the errors left out, are such a multiple, or none.  A  *)
(* process that exits with zero, and in which, or in a test it ran, a      *)
(* check or a test went wrong, is hiding that, or a fork later than it is. *)
(***************************************************************************)
Hides(p)       == ExitedWith(p, 0) /\ Failures(mem[p]) > 0
HidesSince(p)  == \E q \in p .. MaxProcs : Hides(q)
Unseen(number) == number % StatusMod = 0

StatusTells ==
  \A p \in Proc :
    /\ ExitedWith(p, 0) /\ seen[p] # {} => HidesSince(p)
    /\ CASE p # Main /\ left[p] = "returned" -> ~ Hides(p)
         [] left[p] = "libipd_exit" -> Hides(p) => Unseen(mem[p].fail_count)
         [] OTHER -> status[p].how = "exited" /\ Failures(mem[p]) > 0 =>
                       (Hides(p) <=> Unseen(Failures(mem[p])))

(***************************************************************************)
(* RUN_TEST counts one verdict, and the right one: of a test function that *)
(* returned, in a process of its own or to the RUN_TEST that called it,    *)
(* what its own checks say, the errors first; of one that was killed or    *)
(* that left early, what its status says, and a pass only if nothing went  *)
(* wrong in it.  Excepted is a test that hides a failure, as said above,   *)
(* or has run a test that did.                                             *)
(***************************************************************************)
Counted(m, n) ==
  CASE Counts(n) = Counts(Count(m, "pass"))  -> "pass"
    [] Counts(n) = Counts(Count(m, "fail"))  -> "fail"
    [] Counts(n) = Counts(Count(m, "error")) -> "error"
    [] OTHER                                 -> "neither"

VerdictIsRight ==
  [][ \A p \in Proc : run'[p] = "running" =>
        LET v == Counted(mem[p], mem'[p])
        IN  /\ run[p] = "waiting" =>
                 LET c == child[p]
                 IN  /\ v # "neither"
                     /\ v = Truth(c) \/ HidesSince(c)
                     /\ status[c] = Signaled => v = "error"
            /\ Len(mem'[p].tests) < Len(mem[p].tests) => v = Worst(seen[p]) ]_vars

(***************************************************************************)
(* Checks "register an exit handler, in order to print a summary of the    *)
(* test results on program exit": a process in which testing has started   *)
(* prints one summary when it exits, by exit's hook or by libipd_exit_rt   *)
(* and never by both, and a test that returns to RUN_TEST prints none.     *)
(***************************************************************************)
SummaryOnce ==
  \A p \in Proc :
    status[p].how = "exited" =>
      summaries[p] = IF \/ p # Main /\ left[p] = "returned"
                        \/ Checks(mem[p]) = 0 /\ ~ Installed(mem[p], "exit_hook_function")
                     THEN 0 ELSE 1

(***************************************************************************)
(* No fork duplicates what the program has printed: a text reaches stdout  *)
(* at most once, although a child exits with a copy of its parent's buffer.*)
(***************************************************************************)
OutputOnce == \A t \in Text : printed[t].file = "stdout" => shown[t] <= 1

(* What a process and its forks print on exit is printed once.             *)
PrintedOnce == SummaryOnce /\ OutputOnce

(***************************************************************************)
(* What a process that exits has printed or traced is in its file, except  *)
(* what the hook's _exit cuts off, and that is always cut off.  The hook   *)
(* cuts if the process has failures or errors to report and neither calls  *)
(* exit where <ipd.h> replaces it nor is a test that returned.  Then a     *)
(* line of the trace is lost exactly if it has not been written for it by  *)
(* a fork and the tracer's handler does not come before the hook: when the *)
(* first traced call came before the first check, or atexit had no room.   *)
(* What was printed to stdout is lost exactly if it still is in its        *)
(* buffer, and never when RUN_TEST gives up, for it has just flushed it.   *)
(***************************************************************************)
EndsInHook(p) ==
  /\ Failures(mem[p]) > 0
  /\ left[p] # "libipd_exit"
  /\ p = Main \/ left[p] # "returned"

Lost(p, t) ==
  IF printed[t].file = "stdout"
  THEN left[p] # "os error"
  ELSE mem[p].handlers # <<"exit_hook_function", "close_trace_out">>

OutputKept ==
  [][ \A p \in Proc, t \in Text :
        /\ run[p] # "over" /\ status'[p].how = "exited"
        /\ printed[t].by = p /\ shown[t] = 0
        => (shown'[t] = 0 <=> EndsInHook(p)' /\ Lost(p, t)') ]_vars

(***************************************************************************)
(* RUN_TEST comes to an end, whether its test returns, exits or is killed. *)
(***************************************************************************)
RunTestEnds == \A p \in Proc : run[p] = "waiting" ~> run[p] # "waiting"
=============================================================================
