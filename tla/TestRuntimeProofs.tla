------------------------- MODULE TestRuntimeProofs -------------------------
(***************************************************************************)
(* Proofs about TestRuntime: what processes print is printed once          *)
(* (AlwaysPrintedOnce), what is lost of it is what the exit hook cuts off  *)
(* (OutputAlwaysKept), an exit status tells of every failure but those     *)
(* that wrap to none or that exit(0) hides (StatusAlwaysTells), and        *)
(* RUN_TEST counts the right verdict (VerdictAlwaysRight).                 *)
(***************************************************************************)
EXTENDS TestRuntime, SequenceTheorems, TLAPS

Hook  == "exit_hook_function"
Close == "close_trace_out"

Handlers == {<<>>, <<Hook>>, <<Close>>, <<Hook, Close>>, <<Close, Hook>>}

Frame  == [fails : Nat, errors : Nat, before : SUBSET {"fail", "error"}]
Memory == [pass_count : Nat, fail_count : Nat, error_count : Nat,
           tests_enabled : BOOLEAN, trace_is_init : BOOLEAN,
           handlers : Handlers, stdout : SUBSET Text,
           trace_out : SUBSET Text, tests : Seq(Frame)]

TypeOK ==
  /\ posix \in BOOLEAN
  /\ run \in [Proc -> {"unborn", "running", "forking", "waiting", "over"}]
  /\ mem \in [Proc -> Memory]
  /\ child \in [Proc -> Proc \cup {None}]
  /\ status \in [Proc -> [how : {"alive", "exited", "signaled"}, code : Nat]]
  /\ printed \in [Text -> [file : {"none", "stdout", "trace_out"}, by : Proc \cup {None}]]
  /\ shown \in [Text -> Nat]
  /\ left \in [Proc -> {"not", "setup", "abort", "os error", "returned", "exit",
                        "libipd_exit", "crash"}]
  /\ seen \in [Proc -> SUBSET {"fail", "error"}]
  /\ summaries \in [Proc -> Nat]

-----------------------------------------------------------------------------
(***************************************************************************)
(* A process.  While it lives, the exit handler is registered exactly when *)
(* tests are enabled, as they are once anything has been counted or a test *)
(* has begun; nothing is printed of it yet; and the test that it runs has  *)
(* room to be counted.                                                     *)
(***************************************************************************)
InTest(p) == run[p] \in {"forking", "waiting"} \/ mem[p].tests # <<>>

Living(p) ==
  run[p] # "over" =>
    /\ status[p] = Alive /\ left[p] = "not" /\ summaries[p] = 0
    /\ Installed(mem[p], Hook) <=> mem[p].tests_enabled
    /\ Checks(mem[p]) > 0 \/ InTest(p) => mem[p].tests_enabled

Forks(p) ==
  /\ posix => mem[p].tests = <<>>
  /\ ~ posix /\ p # Main => run[p] = "unborn"
  /\ run[p] \in {"forking", "waiting"} => posix /\ mem[p].stdout = {}
  /\ run[p] = "waiting" => child[p] \in Proc \ {Main} /\ child[p] > p /\ run[child[p]] # "unborn"

Bounded(p) ==
  Checks(mem[p]) + Len(mem[p].tests)
    + (IF run[p] \in {"forking", "waiting"} THEN 1 ELSE 0) <= MaxCount[p]

Over(p) ==
  run[p] = "over" =>
    /\ status[p].how # "alive"
    /\ mem[p].stdout = {} /\ mem[p].trace_out = {}

NotYet(p) ==
  run[p] = "unborn" => p # Main /\ mem[p] = Fresh /\ seen[p] = {} /\ child[p] = None

(* Processes are born in the order of their numbers.                       *)
BornInOrder == \E n \in Proc : \A p \in Proc : run[p] = "unborn" <=> p > n

Processes ==
  /\ BornInOrder
  /\ SummaryOnce
  /\ \A p \in Proc : Living(p) /\ Forks(p) /\ Bounded(p) /\ Over(p) /\ NotYet(p)

-----------------------------------------------------------------------------
(***************************************************************************)
(* A text.  One that was printed to stdout is in one buffer, and was not   *)
(* shown, or in none; one that was traced stays in the buffer of the       *)
(* process that traced it, and its forks may have copies.  Neither leaves  *)
(* that process's buffer before it is shown or the process ends.           *)
(***************************************************************************)
Buffered(t) ==
  \A p \in Proc :
    /\ t \in mem[p].stdout => printed[t].file = "stdout" /\ shown[t] = 0
    /\ t \in mem[p].trace_out => printed[t].file = "trace_out"
    /\ \A q \in Proc : t \in mem[p].stdout /\ t \in mem[q].stdout => p = q

Pending(t) ==
  printed[t].file # "none" =>
    /\ printed[t].by \in Proc
    /\ run[printed[t].by] # "unborn"
    /\ run[printed[t].by] # "over" =>
         /\ printed[t].file = "trace_out" => t \in mem[printed[t].by].trace_out
         /\ printed[t].file = "stdout" /\ shown[t] = 0 => t \in mem[printed[t].by].stdout

Unshown(t) == IF printed[t] = Nowhere THEN shown[t] = 0 ELSE printed[t].file # "none"

TextsInPlace ==
  /\ \A t \in Text : Buffered(t) /\ Pending(t) /\ Unshown(t)
  /\ OutputOnce

IInv == TypeOK /\ Processes /\ TextsInPlace

-----------------------------------------------------------------------------
(***************************************************************************)
(* The counters and what was seen.  The failures counted since the last    *)
(* test began, or since the process did, and those seen are the same, and  *)
(* so at each test that has not returned yet.                              *)
(***************************************************************************)
FailsAt(m, k)  == IF k = 0 THEN 0 ELSE m.tests[k].fails
ErrorsAt(m, k) == IF k = 0 THEN 0 ELSE m.tests[k].errors

Matches(results, fails, fails0, errors, errors0) ==
  /\ fails0 <= fails /\ errors0 <= errors
  /\ "fail" \in results <=> fails0 < fails
  /\ "error" \in results <=> errors0 < errors

SeenIsCounted(p) ==
  LET m == mem[p]
      n == Len(m.tests)
  IN  /\ Matches(seen[p], m.fail_count, FailsAt(m, n), m.error_count, ErrorsAt(m, n))
      /\ \A k \in 1 .. n :
           Matches(m.tests[k].before, m.tests[k].fails, FailsAt(m, k - 1),
                   m.tests[k].errors, ErrorsAt(m, k - 1))

(* The status of a process that is over.                                   *)
Reported(p) ==
  CASE p # Main /\ left[p] = "returned" -> ~ Hides(p)
    [] left[p] = "libipd_exit" -> Hides(p) => Unseen(mem[p].fail_count)
    [] OTHER -> status[p].how = "exited" /\ Failures(mem[p]) > 0 =>
                  (Hides(p) <=> Unseen(Failures(mem[p])))

StatusOf(p) ==
  run[p] = "over" =>
    /\ ExitedWith(p, 0) /\ seen[p] # {} => HidesSince(p)
    /\ Reported(p)
    /\ left[p] = "returned" /\ p # Main => ExitedWith(p, Outcome(mem[p]))

Told == \A p \in Proc : StatusOf(p) /\ (HidesSince(p) \/ SeenIsCounted(p))

-----------------------------------------------------------------------------
(* The operators on a process's memory, field by field.                    *)
SameCounts(m, n) ==
  /\ n.pass_count = m.pass_count
  /\ n.fail_count = m.fail_count
  /\ n.error_count = m.error_count

SameTexts(m, n) == n.stdout = m.stdout /\ n.trace_out = m.trace_out

LEMMA FieldTypes ==
  ASSUME NEW m \in Memory
  PROVE  /\ m.pass_count \in Nat /\ m.fail_count \in Nat /\ m.error_count \in Nat
         /\ m.tests_enabled \in BOOLEAN /\ m.trace_is_init \in BOOLEAN
         /\ m.handlers \in Seq({Hook, Close})
         /\ m.stdout \in SUBSET Text /\ m.trace_out \in SUBSET Text
         /\ m.tests \in Seq(Frame) /\ Len(m.tests) \in Nat
         /\ Checks(m) \in Nat /\ Failures(m) \in Nat
<1> DEFINE S == {Hook, Close}
<1>1. Hook \in S /\ Close \in S
  OBVIOUS
<1> HIDE DEF S
<1>2. /\ <<>> \in Seq(S) /\ <<Hook>> \in Seq(S) /\ <<Close>> \in Seq(S)
      /\ <<Hook, Close>> \in Seq(S) /\ <<Close, Hook>> \in Seq(S)
  BY <1>1 DEF Hook, Close
<1>3. \A hs \in Handlers : hs \in Seq(S)
  BY <1>2 DEF Handlers
<1>4. m.handlers \in Seq({Hook, Close})
  BY <1>3 DEF S, Memory
<1>5. QED
  BY <1>4 DEF Memory, Checks, Failures

LEMMA BoundTold ==
  ASSUME NEW p \in Proc
  PROVE  MaxCount[p] \in Nat /\ Proc \subseteq Nat \ {0}
BY TestAssumption DEF Proc

LEMMA AppendTold ==
  ASSUME NEW S, NEW s \in Seq(S), NEW h \in S, NEW g
  PROVE  g \in ToSet(Append(s, h)) <=> (g \in ToSet(s) \/ g = h)
<1>1. Append(s, h) \in Seq(S) /\ Len(Append(s, h)) = Len(s) + 1 /\ Len(s) \in Nat
  OBVIOUS
<1>2. /\ \A i \in 1 .. Len(s) : Append(s, h)[i] = s[i]
      /\ Append(s, h)[Len(s) + 1] = h
  OBVIOUS
<1>3. \A t \in Seq(S) : g \in ToSet(t) <=> \E i \in 1 .. Len(t) : t[i] = g
  BY DEF ToSet
<1> DEFINE t == Append(s, h)
<1>4. g \in ToSet(t) <=> \E i \in 1 .. Len(s) + 1 : t[i] = g
  BY <1>1, <1>3
<1>5. g \in ToSet(s) <=> \E i \in 1 .. Len(s) : s[i] = g
  BY <1>3
<1> HIDE DEF t
<1>6. \A i \in 1 .. Len(s) + 1 : i = Len(s) + 1 \/ i \in 1 .. Len(s)
  BY <1>1
<1>7. \A i \in 1 .. Len(s) : i \in 1 .. Len(s) + 1
  BY <1>1
<1>8. Len(s) + 1 \in 1 .. Len(s) + 1
  BY <1>1
<1>9. (\A i \in 1 .. Len(s) : t[i] = s[i]) /\ t[Len(s) + 1] = h
  BY <1>2 DEF t
<1>10. g \in ToSet(t) <=> (g \in ToSet(s) \/ g = h)
  BY <1>4, <1>5, <1>6, <1>7, <1>8, <1>9, Zenon
<1>11. QED
  BY <1>10 DEF t

LEMMA PairTold ==
  ASSUME NEW S, NEW a \in S, NEW b \in S
  PROVE  Append(<<a>>, b) = <<a, b>>
<1>1. <<a>> \in Seq(S) /\ Len(<<a>>) = 1 /\ <<a>>[1] = a
  OBVIOUS
<1>2. /\ Append(<<a>>, b) \in Seq(S) /\ Len(Append(<<a>>, b)) = 2
      /\ Append(<<a>>, b)[1] = a /\ Append(<<a>>, b)[2] = b
  BY <1>1
<1>3. /\ <<a, b>> \in Seq(S) /\ Len(<<a, b>>) = 2 /\ <<a, b>>[1] = a /\ <<a, b>>[2] = b
  OBVIOUS
<1>4. \A i \in 1 .. 2 : i = 1 \/ i = 2
  OBVIOUS
<1>5. \A i \in 1 .. 2 : Append(<<a>>, b)[i] = <<a, b>>[i]
  BY <1>2, <1>3, <1>4, Zenon
<1>6. QED
  BY <1>2, <1>3, <1>5, SeqEqual

LEMMA InstallsTold ==
  ASSUME NEW m \in Memory, NEW h \in {Hook, Close}
  PROVE  /\ Installs(m, h) \in Memory
         /\ \A g : Installed(Installs(m, h), g) <=> (Installed(m, g) \/ g = h)
         /\ SameCounts(m, Installs(m, h)) /\ SameTexts(m, Installs(m, h))
         /\ Installs(m, h).tests = m.tests
         /\ Installs(m, h).tests_enabled = m.tests_enabled
<1> DEFINE hs == Append(m.handlers, h)
<1>1. ASSUME ~ Installed(m, h)
      PROVE  hs \in Handlers
  <2>1. m.handlers \in Handlers
    BY DEF Memory
  <2>2. h \notin ToSet(m.handlers)
    BY <1>1 DEF Installed
  <2>3. CASE m.handlers = <<>>
    BY <2>3 DEF Handlers
  <2>4. CASE m.handlers \in {<<Hook>>, <<Close>>}
    <3>1. PICK g \in {Hook, Close} : m.handlers = <<g>>
      BY <2>4
    <3>2. g \in ToSet(<<g>>)
      BY DEF ToSet
    <3>3. h # g
      BY <2>2, <3>1, <3>2
    <3>4. hs = <<g, h>>
      BY <3>1, PairTold, Zenon
    <3>5. QED
      BY <3>3, <3>4 DEF Handlers
  <2>5. CASE m.handlers \in {<<Hook, Close>>, <<Close, Hook>>}
    BY <2>2, <2>5 DEF ToSet
  <2>6. QED
    BY <2>1, <2>3, <2>4, <2>5 DEF Handlers
<1>2. \A g : g \in ToSet(hs) <=> (g \in ToSet(m.handlers) \/ g = h)
  BY FieldTypes, AppendTold
<1> HIDE DEF hs
<1>3. CASE Installed(m, h)
  BY <1>3 DEF Installs, SameCounts, SameTexts
<1>4. CASE ~ Installed(m, h)
  <2>1. Installs(m, h) = [m EXCEPT !.handlers = hs]
    BY <1>4 DEF Installs, hs
  <2>2. [m EXCEPT !.handlers = hs] \in Memory /\ [m EXCEPT !.handlers = hs].handlers = hs
    BY <1>1, <1>4 DEF Memory
  <2>3. QED
    BY <1>2, <2>1, <2>2 DEF Installed, Memory, SameCounts, SameTexts
<1>5. QED
  BY <1>3, <1>4

LEMMA StartTold ==
  ASSUME NEW m \in Memory
  PROVE  /\ start_testing(m) \in Memory
         /\ \A g : Installed(start_testing(m), g) <=> (Installed(m, g) \/ g = Hook)
         /\ SameCounts(m, start_testing(m)) /\ SameTexts(m, start_testing(m))
         /\ start_testing(m).tests = m.tests
         /\ start_testing(m).tests_enabled
<1> DEFINE n == Installs(m, Hook)
<1>1. /\ n \in Memory
      /\ \A g : Installed(n, g) <=> (Installed(m, g) \/ g = Hook)
      /\ SameCounts(m, n) /\ SameTexts(m, n) /\ n.tests = m.tests
  BY InstallsTold
<1>2. start_testing(m) = [n EXCEPT !.tests_enabled = TRUE]
  BY DEF start_testing, Hook
<1> HIDE DEF n
<1>3. QED
  BY <1>1, <1>2 DEF Memory, Installed, SameCounts, SameTexts

(* Memory n is m with so many more passes, failures and errors.            *)
Adds(m, n, passes, fails, errors) ==
  /\ n \in Memory
  /\ n.handlers = m.handlers /\ n.tests_enabled = m.tests_enabled
  /\ SameTexts(m, n) /\ n.tests = m.tests
  /\ n.pass_count = m.pass_count + passes
  /\ n.fail_count = m.fail_count + fails
  /\ n.error_count = m.error_count + errors

LEMMA AddsTold ==
  ASSUME NEW m \in Memory
  PROVE  /\ Adds(m, [m EXCEPT !.pass_count = @ + 1], 1, 0, 0)
         /\ Adds(m, [m EXCEPT !.fail_count = @ + 1], 0, 1, 0)
         /\ Adds(m, [m EXCEPT !.error_count = @ + 1], 0, 0, 1)
<1>1. Adds(m, [m EXCEPT !.pass_count = @ + 1], 1, 0, 0)
  BY DEF Memory, Adds, SameTexts
<1>2. Adds(m, [m EXCEPT !.fail_count = @ + 1], 0, 1, 0)
  BY DEF Memory, Adds, SameTexts
<1>3. Adds(m, [m EXCEPT !.error_count = @ + 1], 0, 0, 1)
  BY DEF Memory, Adds, SameTexts
<1>4. QED
  BY <1>1, <1>2, <1>3

LEMMA CountTold ==
  ASSUME NEW m \in Memory, NEW verdict \in {"pass", "fail", "error"}
  PROVE  Adds(m, Count(m, verdict), IF verdict = "pass" THEN 1 ELSE 0,
              IF verdict = "fail" THEN 1 ELSE 0, IF verdict = "error" THEN 1 ELSE 0)
  BY AddsTold DEF Count

(* What log_check and log_error do: they start the tests and count.        *)
LEMMA LogTold ==
  ASSUME NEW m \in Memory
  PROVE  /\ Adds(start_testing(m), log_check(m, TRUE), 1, 0, 0)
         /\ Adds(start_testing(m), log_check(m, FALSE), 0, 1, 0)
         /\ Adds(start_testing(m), log_error(m), 0, 0, 1)
  BY StartTold, AddsTold DEF log_check, log_error

(* A process that is over has empty buffers.                               *)
Emptied(m) == [m EXCEPT !.stdout = {}, !.trace_out = {}]

LEMMA EmptiedTold ==
  ASSUME NEW m \in Memory
  PROVE  /\ Emptied(m) \in Memory
         /\ Emptied(m).stdout = {} /\ Emptied(m).trace_out = {}
         /\ SameCounts(m, Emptied(m)) /\ Emptied(m).tests = m.tests
         /\ Emptied(m).handlers = m.handlers
  BY DEF Emptied, Memory, SameCounts

LEMMA FlushTold ==
  ASSUME NEW m \in Memory
  PROVE  /\ fflush(m) \in Memory
         /\ fflush(m).stdout = {} /\ fflush(m).trace_out = m.trace_out
         /\ SameCounts(m, fflush(m)) /\ fflush(m).tests = m.tests
         /\ fflush(m).handlers = m.handlers
         /\ fflush(m).tests_enabled = m.tests_enabled
  BY DEF fflush, Memory, SameCounts

-----------------------------------------------------------------------------
(* What a step leaves alone: a process that it is not about.               *)
Same(q) == UNCHANGED <<run[q], mem[q], child[q], status[q], left[q], seen[q], summaries[q]>>

Live == {"running", "forking", "waiting"}

SummaryOf(p) ==
  status[p].how = "exited" =>
    summaries[p] = IF \/ p # Main /\ left[p] = "returned"
                      \/ Checks(mem[p]) = 0 /\ ~ Installed(mem[p], Hook)
                   THEN 0 ELSE 1

LEMMA SummaryOfEach == SummaryOnce <=> \A p \in Proc : SummaryOf(p)
  BY DEF SummaryOnce, SummaryOf, Hook

LEMMA SameProcess ==
  ASSUME NEW q \in Proc, Same(q), UNCHANGED posix,
         \A c \in Proc : run[c] # "unborn" => run'[c] # "unborn",
         Living(q), Forks(q), Bounded(q), Over(q), NotYet(q), SummaryOf(q)
  PROVE  Living(q)' /\ Forks(q)' /\ Bounded(q)' /\ Over(q)' /\ NotYet(q)' /\ SummaryOf(q)'
<1>1. Living(q)'
  BY DEF Same, Living, InTest
<1>2. Forks(q)'
  BY DEF Same, Forks
<1>3. Bounded(q)' /\ Over(q)'
  BY DEF Same, Bounded, Over
<1>4. NotYet(q)' /\ SummaryOf(q)'
  BY DEF Same, NotYet, SummaryOf
<1>5. QED
  BY <1>1, <1>2, <1>3, <1>4

(* A step of one process, that stays as it has to be.                      *)
LEMMA ProcessStep ==
  ASSUME TypeOK, TypeOK', Processes, UNCHANGED posix, NEW p \in Proc,
         run[p] # "unborn", run'[p] # "unborn",
         \A q \in Proc \ {p} : Same(q),
         Living(p)', Forks(p)', Bounded(p)', Over(p)', SummaryOf(p)'
  PROVE  Processes'
<1>1. \A c \in Proc : run[c] = "unborn" <=> run'[c] = "unborn"
  BY DEF Same
<1>2. BornInOrder'
  BY <1>1 DEF Processes, BornInOrder
<1>3. \A q \in Proc : Living(q) /\ Forks(q) /\ Bounded(q) /\ Over(q) /\ NotYet(q) /\ SummaryOf(q)
  BY SummaryOfEach DEF Processes
<1>4. NotYet(p)'
  BY DEF NotYet
<1>5. \A q \in Proc : (Living(q) /\ Forks(q) /\ Bounded(q) /\ Over(q) /\ NotYet(q) /\ SummaryOf(q))'
  BY <1>1, <1>3, <1>4, SameProcess
<1>6. SummaryOnce'
  BY <1>5 DEF SummaryOnce, SummaryOf, Hook
<1>7. QED
  BY <1>2, <1>5, <1>6 DEF Processes

LEMMA FlushedTold ==
  ASSUME TypeOK, NEW F, NEW t \in Text
  PROVE  /\ Flushed(F) \in [Text -> Nat]
         /\ t \in F => Flushed(F)[t] = shown[t] + 1
         /\ t \notin F => Flushed(F)[t] = shown[t]
<1>1. shown \in [Text -> Nat]
  BY DEF TypeOK
<1>2. \A u \in Text : (IF u \in F THEN shown[u] + 1 ELSE shown[u]) \in Nat
  BY <1>1
<1>3. Flushed(F) \in [Text -> Nat]
  BY <1>2 DEF Flushed
<1>4. Flushed(F)[t] = IF t \in F THEN shown[t] + 1 ELSE shown[t]
  BY DEF Flushed
<1>5. QED
  BY <1>3, <1>4

(* A process goes on, having flushed the texts F of its stdout.            *)
LEMMA TextsGoOn ==
  ASSUME IInv, TypeOK', NEW p \in Proc, NEW F \in SUBSET mem[p].stdout,
         \A q \in Proc \ {p} : Same(q),
         run[p] \in Live, run'[p] \in Live, status'[p] = status[p],
         mem'[p].stdout = mem[p].stdout \ F, mem'[p].trace_out = mem[p].trace_out,
         UNCHANGED printed, shown' = Flushed(F)
  PROVE  TextsInPlace'
<1>1. TypeOK /\ TextsInPlace
  BY DEF IInv
<1>2. ASSUME NEW t \in Text
      PROVE  Buffered(t)' /\ Pending(t)' /\ Unshown(t)'
             /\ (printed'[t].file = "stdout" => shown'[t] <= 1)
  <2>1. /\ t \in F => shown'[t] = shown[t] + 1
        /\ t \notin F => shown'[t] = shown[t]
        /\ shown[t] \in Nat
    BY <1>1, FlushedTold DEF TypeOK
  <2>2. Buffered(t) /\ Pending(t) /\ Unshown(t)
        /\ (printed[t].file = "stdout" => shown[t] <= 1)
    BY <1>1 DEF TextsInPlace, OutputOnce
  <2>3. Buffered(t)'
    BY <2>1, <2>2 DEF Buffered, Same
  <2>4. Pending(t)'
    BY <2>1, <2>2 DEF Pending, Same, Live
  <2>5. Unshown(t)'
    BY <2>1, <2>2 DEF Unshown, Buffered, Nowhere
  <2>6. printed'[t].file = "stdout" => shown'[t] <= 1
    BY <2>1, <2>2 DEF Buffered
  <2>7. QED
    BY <2>3, <2>4, <2>5, <2>6
<1>3. OutputOnce'
  BY <1>2 DEF OutputOnce
<1>4. QED
  BY <1>2, <1>3 DEF TextsInPlace

(* A process ends, having flushed the texts F of its buffers.              *)
LEMMA TextsEnd ==
  ASSUME IInv, TypeOK', NEW p \in Proc, NEW F \in SUBSET (mem[p].stdout \cup mem[p].trace_out),
         \A q \in Proc \ {p} : Same(q),
         run[p] \in Live, run'[p] = "over",
         mem'[p].stdout = {}, mem'[p].trace_out = {},
         UNCHANGED printed, shown' = Flushed(F)
  PROVE  TextsInPlace'
<1>1. TypeOK /\ TextsInPlace
  BY DEF IInv
<1>2. ASSUME NEW t \in Text
      PROVE  Buffered(t)' /\ Pending(t)' /\ Unshown(t)'
             /\ (printed'[t].file = "stdout" => shown'[t] <= 1)
  <2>1. /\ t \in F => shown'[t] = shown[t] + 1
        /\ t \notin F => shown'[t] = shown[t]
        /\ shown[t] \in Nat
    BY <1>1, FlushedTold DEF TypeOK
  <2>2. Buffered(t) /\ Pending(t) /\ Unshown(t)
        /\ (printed[t].file = "stdout" => shown[t] <= 1)
    BY <1>1 DEF TextsInPlace, OutputOnce
  <2>3. Buffered(t)'
    BY <2>1, <2>2 DEF Buffered, Same
  <2>4. Pending(t)'
    BY <2>1, <2>2 DEF Pending, Same, Live
  <2>5. Unshown(t)'
    BY <2>1, <2>2 DEF Unshown, Buffered, Nowhere
  <2>6. printed'[t].file = "stdout" => shown'[t] <= 1
    BY <2>1, <2>2 DEF Buffered
  <2>7. QED
    BY <2>3, <2>4, <2>5, <2>6
<1>3. OutputOnce'
  BY <1>2 DEF OutputOnce
<1>4. QED
  BY <1>2, <1>3 DEF TextsInPlace

-----------------------------------------------------------------------------
(***************************************************************************)
(* The ways a call of the runtime ends: it returns, the process exits, or  *)
(* it dies.                                                                *)
(***************************************************************************)
LEMMA GoesOnKeeps ==
  ASSUME IInv, NEW p \in Proc, run[p] = "running", NEW m \in Memory,
         NEW news \in SUBSET {"fail", "error"}, GoesOn(p, m, news),
         SameTexts(mem[p], m), m.tests = mem[p].tests,
         Installed(m, Hook), m.tests_enabled,
         Checks(m) + Len(m.tests) <= MaxCount[p]
  PROVE  IInv'
<1>1. /\ TypeOK /\ Processes
      /\ mem' = [mem EXCEPT ![p] = m] /\ mem'[p] = m
      /\ seen' = [seen EXCEPT ![p] = @ \cup news]
      /\ UNCHANGED <<posix, run, child, status, printed, shown, left, summaries>>
  BY DEF IInv, TypeOK, GoesOn
<1>2. TypeOK'
  BY <1>1 DEF TypeOK
<1>3. \A q \in Proc \ {p} : Same(q)
  BY <1>1 DEF Same, TypeOK
<1>4. Living(p) /\ Forks(p) /\ Over(p) /\ Bounded(p)
  BY <1>1 DEF Processes
<1>5. Living(p)' /\ Forks(p)' /\ Over(p)' /\ SummaryOf(p)'
  BY <1>1, <1>4 DEF Living, Forks, Over, SummaryOf, InTest, Alive
<1>6. Bounded(p)'
  BY <1>1, FieldTypes, TestAssumption DEF Bounded
<1>7. Processes'
  BY <1>1, <1>2, <1>3, <1>5, <1>6, ProcessStep
<1>8. shown' = Flushed({})
  BY <1>1 DEF Flushed, TypeOK
<1>9. TextsInPlace'
  BY <1>1, <1>2, <1>3, <1>8, TextsGoOn DEF SameTexts, Live
<1>10. QED
  BY <1>2, <1>7, <1>9 DEF IInv

Ways == {"setup", "abort", "os error", "returned", "exit", "libipd_exit", "crash"}

LEMMA ExitKeeps ==
  ASSUME IInv, NEW p \in Proc, run[p] \in Live, NEW m \in Memory, NEW code \in Nat,
         NEW way \in Ways, NEW s \in Nat, Exit(p, m, code, way, s),
         SameTexts(mem[p], m), m.tests = mem[p].tests, SameCounts(mem[p], m),
         m.handlers = mem[p].handlers,
         s + (IF Hooked(m) THEN 1 ELSE 0) =
           IF (p # Main /\ way = "returned") \/ (Checks(m) = 0 /\ ~ Installed(m, Hook)) THEN 0 ELSE 1
  PROVE  IInv'
<1> DEFINE F == IF ~ Cut(m) THEN m.stdout \cup m.trace_out
                ELSE IF RunsBefore(m, Close, Hook) THEN m.trace_out ELSE {}
<1> DEFINE n == Emptied(m)
<1> DEFINE report == Exited(IF Cut(m) THEN Failures(m) ELSE code)
<1> DEFINE told == summaries[p] + s + (IF Hooked(m) THEN 1 ELSE 0)
<1>1. /\ TypeOK /\ Processes
      /\ run' = [run EXCEPT ![p] = "over"]
      /\ mem' = [mem EXCEPT ![p] = n]
      /\ status' = [status EXCEPT ![p] = report]
      /\ summaries' = [summaries EXCEPT ![p] = told]
      /\ shown' = Flushed(F)
      /\ left' = [left EXCEPT ![p] = way]
      /\ child' = [child EXCEPT ![p] = None]
      /\ UNCHANGED <<posix, printed, seen>>
  BY DEF IInv, Exit, Emptied, Hook, Close
<1>2. /\ n \in Memory /\ n.stdout = {} /\ n.trace_out = {}
      /\ SameCounts(mem[p], n) /\ n.tests = mem[p].tests /\ n.handlers = mem[p].handlers
  BY EmptiedTold DEF SameCounts
<1>3. F \in SUBSET (mem[p].stdout \cup mem[p].trace_out) /\ F \in SUBSET Text
  BY FieldTypes DEF SameTexts
<1>4. report \in [how : {"alive", "exited", "signaled"}, code : Nat] /\ report.how = "exited"
  BY FieldTypes, TestAssumption DEF Exited
<1>5. Failures(n) = Failures(m) /\ Checks(n) = Checks(m) /\ \A g : Installed(n, g) <=> Installed(m, g)
  BY <1>2 DEF SameCounts, Failures, Checks, Installed
<1>6. told \in Nat /\ told = s + (IF Hooked(m) THEN 1 ELSE 0)
  <2>1. Living(p)
    BY <1>1 DEF Processes
  <2>2. summaries[p] = 0
    BY <2>1 DEF Living, Live
  <2>3. QED
    BY <2>2
<1> HIDE DEF F, n, report, told
<1>7. /\ run'[p] = "over" /\ mem'[p] = n /\ status'[p] = report /\ summaries'[p] = told
      /\ left'[p] = way /\ child'[p] = None
      /\ \A q \in Proc \ {p} : Same(q)
  BY <1>1 DEF TypeOK, Same
<1>8. TypeOK'
  <2>1. shown' \in [Text -> Nat]
    BY <1>1, FlushedTold DEF TypeOK, Flushed
  <2>2. QED
    BY <1>1, <1>2, <1>4, <1>6, <2>1 DEF TypeOK, Ways
<1>9. Living(p)' /\ Forks(p)' /\ Over(p)' /\ SummaryOf(p)' /\ Bounded(p)'
  <2>1. Forks(p) /\ Bounded(p)
    BY <1>1 DEF Processes
  <2>2. Living(p)' /\ Over(p)'
    BY <1>2, <1>4, <1>7 DEF Living, Over
  <2>3. Forks(p)'
    BY <1>1, <1>2, <1>7, <2>1 DEF Forks, Live
  <2>4. SummaryOf(p)'
    BY <1>5, <1>6, <1>7 DEF SummaryOf
  <2>5. Bounded(p)'
    <3>1. Checks(n) + Len(n.tests) <= MaxCount[p]
      <4>1. mem[p] \in Memory
        BY <1>1 DEF TypeOK
      <4>2. Checks(mem[p]) = Checks(m)
        BY DEF SameCounts, Checks, Failures
      <4>3. QED
        BY <1>2, <1>5, <2>1, <4>1, <4>2, FieldTypes, BoundTold DEF Bounded
    <3>2. QED
      BY <1>2, <1>7, <3>1, FieldTypes DEF Bounded
  <2>6. QED
    BY <2>2, <2>3, <2>4, <2>5
<1>10. Processes'
  BY <1>1, <1>7, <1>8, <1>9, ProcessStep DEF Live
<1>11. TextsInPlace'
  BY <1>1, <1>2, <1>3, <1>7, <1>8, TextsEnd
<1>12. QED
  BY <1>8, <1>10, <1>11 DEF IInv

LEMMA DiesKeeps ==
  ASSUME IInv, NEW p \in Proc, run[p] \in Live, NEW m \in Memory,
         NEW way \in Ways, Dies(p, m, way),
         SameTexts(mem[p], m), m.tests = mem[p].tests,
         Checks(m) + Len(m.tests) <= MaxCount[p],
         seen' \in [Proc -> SUBSET {"fail", "error"}],
         \A q \in Proc \ {p} : seen'[q] = seen[q]
  PROVE  IInv'
<1> DEFINE n == Emptied(m)
<1>1. /\ TypeOK /\ Processes
      /\ run' = [run EXCEPT ![p] = "over"]
      /\ mem' = [mem EXCEPT ![p] = n]
      /\ status' = [status EXCEPT ![p] = Signaled]
      /\ left' = [left EXCEPT ![p] = way]
      /\ child' = [child EXCEPT ![p] = None]
      /\ UNCHANGED <<posix, printed, shown, summaries>>
  BY DEF IInv, Dies, Emptied
<1>2. /\ n \in Memory /\ n.stdout = {} /\ n.trace_out = {}
      /\ SameCounts(m, n) /\ n.tests = m.tests /\ n.handlers = m.handlers
  BY EmptiedTold
<1>3. Checks(n) + Len(n.tests) <= MaxCount[p]
  BY <1>2 DEF SameCounts, Checks, Failures
<1> HIDE DEF n
<1>4. /\ run'[p] = "over" /\ mem'[p] = n /\ status'[p] = Signaled
      /\ \A q \in Proc \ {p} : Same(q)
  BY <1>1 DEF TypeOK, Same
<1>5. TypeOK'
  BY <1>1, <1>2 DEF TypeOK, Signaled, Ways
<1>6. Living(p)' /\ Forks(p)' /\ Over(p)' /\ SummaryOf(p)' /\ Bounded(p)'
  <2>1. Forks(p)
    BY <1>1 DEF Processes
  <2>2. Living(p)' /\ Over(p)' /\ SummaryOf(p)'
    BY <1>2, <1>4 DEF Living, Over, SummaryOf, Signaled
  <2>3. Forks(p)'
    BY <1>1, <1>2, <1>4, <2>1 DEF Forks, Live
  <2>4. Bounded(p)'
    BY <1>2, <1>3, <1>4, FieldTypes DEF Bounded
  <2>5. QED
    BY <2>2, <2>3, <2>4
<1>7. Processes'
  BY <1>1, <1>4, <1>5, <1>6, ProcessStep DEF Live
<1>8. shown' = Flushed({})
  BY <1>1 DEF Flushed, TypeOK
<1>9. TextsInPlace'
  BY <1>1, <1>2, <1>4, <1>5, <1>8, TextsEnd DEF Signaled
<1>10. QED
  BY <1>5, <1>7, <1>9 DEF IInv

-----------------------------------------------------------------------------
(* A process that lives, and its memory.                                   *)
LEMMA LivingTold ==
  ASSUME IInv, NEW p \in Proc, run[p] \in Live
  PROVE  /\ mem[p] \in Memory /\ p \in Proc
         /\ Installed(mem[p], Hook) <=> mem[p].tests_enabled
         /\ Hooked(mem[p]) <=> Installed(mem[p], Hook)
         /\ Checks(mem[p]) > 0 \/ InTest(p) => mem[p].tests_enabled
         /\ Checks(mem[p]) + Len(mem[p].tests) <= MaxCount[p]
         /\ SameTexts(mem[p], mem[p]) /\ SameCounts(mem[p], mem[p])
<1>1. mem[p] \in Memory
  BY DEF IInv, TypeOK
<1>2. Living(p) /\ Bounded(p)
  BY DEF IInv, Processes
<1>3. /\ Installed(mem[p], Hook) <=> mem[p].tests_enabled
      /\ Checks(mem[p]) > 0 \/ InTest(p) => mem[p].tests_enabled
  BY <1>2 DEF Living, Live
<1>4. Hooked(mem[p]) <=> Installed(mem[p], Hook)
  BY <1>3 DEF Hooked, Hook
<1>5. Checks(mem[p]) + Len(mem[p].tests) <= MaxCount[p]
  BY <1>1, <1>2, FieldTypes, BoundTold DEF Bounded
<1>6. QED
  BY <1>1, <1>3, <1>4, <1>5 DEF SameTexts, SameCounts

(* What is printed of a process that exits as it is.                       *)
LEMMA HookedOnce ==
  ASSUME IInv, NEW p \in Proc, run[p] \in Live, NEW way \in Ways,
         p = Main \/ way # "returned"
  PROVE  0 + (IF Hooked(mem[p]) THEN 1 ELSE 0) =
           IF (p # Main /\ way = "returned")
              \/ (Checks(mem[p]) = 0 /\ ~ Installed(mem[p], Hook)) THEN 0 ELSE 1
<1>1. Checks(mem[p]) \in Nat
  BY LivingTold, FieldTypes
<1>2. ~ Installed(mem[p], Hook) => Checks(mem[p]) = 0
  BY <1>1, LivingTold
<1>3. QED
  BY <1>2, LivingTold

LEMMA ExitAsIs ==
  ASSUME IInv, NEW p \in Proc, run[p] \in Live, NEW code \in Nat, NEW way \in Ways,
         Exit(p, mem[p], code, way, 0), p = Main \/ way # "returned"
  PROVE  IInv'
  BY LivingTold, HookedOnce, ExitKeeps

LEMMA InitHolds == Init => IInv
<1> SUFFICES ASSUME Init PROVE IInv
  OBVIOUS
<1>1. Fresh \in Memory
  BY DEF Fresh, Memory, Handlers
<1>2. Main \in Proc
  BY TestAssumption DEF Proc, Main
<1>3. TypeOK
  BY <1>1, <1>2, TestAssumption DEF Init, TypeOK, None, Main, Alive, Nowhere
<1>4. ~ Installed(Fresh, Hook) /\ Checks(Fresh) = 0 /\ Len(Fresh.tests) = 0
  BY DEF Fresh, Installed, ToSet, Checks, Failures
<1>5. Processes
  <2>1. BornInOrder
    BY <1>2 DEF Init, BornInOrder, Proc, Main
  <2>2. SummaryOnce
    BY DEF Init, SummaryOnce, Alive
  <2>3. ASSUME NEW p \in Proc
        PROVE  Living(p) /\ Forks(p) /\ Bounded(p) /\ Over(p) /\ NotYet(p)
    <3>1. /\ mem[p] = Fresh /\ status[p] = Alive /\ left[p] = "not" /\ summaries[p] = 0
          /\ child[p] = None /\ seen[p] = {}
          /\ run[p] = IF p = Main THEN "running" ELSE "unborn"
      BY DEF Init
    <3>2. Living(p)
      BY <1>4, <3>1 DEF Living, InTest, Fresh
    <3>3. Forks(p) /\ Over(p) /\ NotYet(p)
      BY <3>1 DEF Forks, Over, NotYet, Fresh
    <3>4. Bounded(p)
      BY <1>4, <3>1, BoundTold DEF Bounded
    <3>5. QED
      BY <3>2, <3>3, <3>4
  <2>4. QED
    BY <2>1, <2>2, <2>3 DEF Processes
<1>6. TextsInPlace
  <2>1. \A p \in Proc : mem[p].stdout = {} /\ mem[p].trace_out = {}
    BY DEF Init, Fresh
  <2>2. \A t \in Text : printed[t] = Nowhere /\ printed[t].file = "none" /\ shown[t] = 0
    BY DEF Init, Nowhere
  <2>3. \A t \in Text : Buffered(t) /\ Pending(t) /\ Unshown(t)
    BY <2>1, <2>2 DEF Buffered, Pending, Unshown
  <2>4. QED
    BY <2>2, <2>3 DEF TextsInPlace, OutputOnce
<1>7. QED
  BY <1>3, <1>5, <1>6 DEF IInv

-----------------------------------------------------------------------------
LEMMA StartTestingKeeps ==
  ASSUME IInv, NEW p \in Proc, StartTesting(p)
  PROVE  IInv'
<1> DEFINE m == start_testing(mem[p])
<1>1. run[p] = "running" /\ GoesOn(p, m, {})
  BY DEF StartTesting, Running
<1>2. /\ mem[p] \in Memory
      /\ Checks(mem[p]) + Len(mem[p].tests) <= MaxCount[p]
  BY <1>1, LivingTold DEF Live
<1>3. /\ m \in Memory /\ SameTexts(mem[p], m) /\ m.tests = mem[p].tests
      /\ Installed(m, Hook) /\ m.tests_enabled /\ SameCounts(mem[p], m)
  BY <1>2, StartTold
<1> HIDE DEF m
<1>4. Checks(m) + Len(m.tests) <= MaxCount[p]
  BY <1>2, <1>3 DEF SameCounts, Checks, Failures
<1>5. QED
  BY <1>1, <1>3, <1>4, GoesOnKeeps

(* The memory after a check or an error is logged, within the bound.       *)
LEMMA LoggedTold ==
  ASSUME IInv, NEW p \in Proc, run[p] = "running", MayCount(p), NEW m \in Memory,
         NEW a \in Nat, NEW b \in Nat, NEW c \in Nat, a + b + c = 1,
         Adds(start_testing(mem[p]), m, a, b, c)
  PROVE  /\ SameTexts(mem[p], m) /\ m.tests = mem[p].tests
         /\ Installed(m, Hook) /\ m.tests_enabled
         /\ Checks(m) + Len(m.tests) <= MaxCount[p]
<1>1. mem[p] \in Memory
  BY LivingTold DEF Live
<1>2. /\ start_testing(mem[p]) \in Memory
      /\ Installed(start_testing(mem[p]), Hook)
      /\ SameCounts(mem[p], start_testing(mem[p])) /\ SameTexts(mem[p], start_testing(mem[p]))
      /\ start_testing(mem[p]).tests = mem[p].tests
      /\ start_testing(mem[p]).tests_enabled
  BY <1>1, StartTold
<1>3. /\ SameTexts(mem[p], m) /\ m.tests = mem[p].tests
      /\ Installed(m, Hook) /\ m.tests_enabled
  BY <1>2 DEF Adds, SameTexts, Installed
<1>4. Checks(m) = Checks(mem[p]) + 1
  <2> DEFINE n == start_testing(mem[p])
  <2>1. /\ n.pass_count = mem[p].pass_count /\ n.fail_count = mem[p].fail_count
        /\ n.error_count = mem[p].error_count
    BY <1>2 DEF SameCounts
  <2>2. /\ m.pass_count = n.pass_count + a /\ m.fail_count = n.fail_count + b
        /\ m.error_count = n.error_count + c
    BY DEF Adds
  <2>3. /\ mem[p].pass_count \in Nat /\ mem[p].fail_count \in Nat
        /\ mem[p].error_count \in Nat
    BY <1>1, FieldTypes
  <2> HIDE DEF n
  <2>4. QED
    BY <2>1, <2>2, <2>3 DEF Checks, Failures
<1>5. QED
  BY <1>1, <1>3, <1>4, FieldTypes, BoundTold DEF MayCount

LEMMA LogCheckKeeps ==
  ASSUME IInv, NEW p \in Proc, NEW condition \in BOOLEAN, LogCheck(p, condition)
  PROVE  IInv'
<1> DEFINE m == log_check(mem[p], condition)
<1>1. /\ run[p] = "running" /\ MayCount(p)
      /\ GoesOn(p, m, IF condition THEN {} ELSE {"fail"})
  BY DEF LogCheck, Running
<1>2. mem[p] \in Memory
  BY <1>1, LivingTold DEF Live
<1>3. \/ Adds(start_testing(mem[p]), m, 1, 0, 0)
      \/ Adds(start_testing(mem[p]), m, 0, 1, 0)
  BY <1>2, LogTold
<1> HIDE DEF m
<1>4. m \in Memory
  BY <1>3 DEF Adds
<1>5. /\ SameTexts(mem[p], m) /\ m.tests = mem[p].tests
      /\ Installed(m, Hook) /\ m.tests_enabled
      /\ Checks(m) + Len(m.tests) <= MaxCount[p]
  BY <1>1, <1>3, <1>4, LoggedTold
<1>6. (IF condition THEN {} ELSE {"fail"}) \in SUBSET {"fail", "error"}
  OBVIOUS
<1>7. QED
  BY <1>1, <1>4, <1>5, <1>6, GoesOnKeeps

LEMMA LogErrorKeeps ==
  ASSUME IInv, NEW p \in Proc, LogError(p)
  PROVE  IInv'
<1> DEFINE m == log_error(mem[p])
<1>1. run[p] = "running" /\ MayCount(p) /\ GoesOn(p, m, {"error"})
  BY DEF LogError, Running
<1>2. Adds(start_testing(mem[p]), m, 0, 0, 1)
  BY <1>1, LivingTold, LogTold DEF Live
<1> HIDE DEF m
<1>3. m \in Memory
  BY <1>2 DEF Adds
<1>4. QED
  BY <1>1, <1>2, <1>3, LoggedTold, GoesOnKeeps

LEMMA CheckStringNullKeeps ==
  ASSUME IInv, NEW p \in Proc, CheckStringNull(p)
  PROVE  IInv'
<1> DEFINE m == log_check(mem[p], FALSE)
<1>1. /\ run[p] = "running" /\ MayCount(p) /\ Dies(p, m, "abort")
      /\ seen' = [seen EXCEPT ![p] = @ \cup {"fail"}]
  BY DEF CheckStringNull, Running
<1>2. Adds(start_testing(mem[p]), m, 0, 1, 0)
  BY <1>1, LivingTold, LogTold DEF Live
<1> HIDE DEF m
<1>3. m \in Memory
  BY <1>2 DEF Adds
<1>4. /\ seen' \in [Proc -> SUBSET {"fail", "error"}]
      /\ \A q \in Proc \ {p} : seen'[q] = seen[q]
  BY <1>1 DEF IInv, TypeOK
<1>5. /\ SameTexts(mem[p], m) /\ m.tests = mem[p].tests
      /\ Checks(m) + Len(m.tests) <= MaxCount[p]
  BY <1>1, <1>2, <1>3, LoggedTold
<1>6. run[p] \in Live /\ "abort" \in Ways
  BY <1>1 DEF Live, Ways
<1>7. QED
  BY <1>1, <1>3, <1>4, <1>5, <1>6, DiesKeeps

LEMMA CrashKeeps ==
  ASSUME IInv, NEW p \in Proc, Crash(p)
  PROVE  IInv'
<1>1. run[p] \in Live /\ "crash" \in Ways /\ Dies(p, mem[p], "crash")
  BY DEF Crash, Live, Ways
<1>2. /\ seen' \in [Proc -> SUBSET {"fail", "error"}]
      /\ \A q \in Proc \ {p} : seen'[q] = seen[q]
  BY DEF IInv, TypeOK, Crash
<1>3. QED
  BY <1>1, <1>2, LivingTold, DiesKeeps

LEMMA ExitsKeep ==
  ASSUME IInv, NEW p \in Proc,
         \/ AtexitFails(p) \/ ForkFails(p) \/ WaitFails(p)
         \/ \E code \in ExitCodes : RawExit(p, code)
         \/ \E code \in ExitCodes : p = Main /\ MainReturns(code)
  PROVE  IInv'
<1>1. \A code \in ExitCodes : code \in Nat
  BY TestAssumption
<1>2. CASE AtexitFails(p)
  BY <1>2, ExitAsIs DEF AtexitFails, Running, Live, Ways
<1>3. CASE ForkFails(p)
  BY <1>3, ExitAsIs DEF ForkFails, Live, Ways
<1>4. CASE WaitFails(p)
  BY <1>4, ExitAsIs DEF WaitFails, Live, Ways
<1>5. CASE \E code \in ExitCodes : RawExit(p, code)
  BY <1>1, <1>5, ExitAsIs DEF RawExit, Running, Live, Ways
<1>6. CASE \E code \in ExitCodes : p = Main /\ MainReturns(code)
  BY <1>1, <1>6, ExitAsIs DEF MainReturns, Running, Live, Ways
<1>7. QED
  BY <1>2, <1>3, <1>4, <1>5, <1>6

(* Tests are disabled where a summary is not to be printed again.          *)
LEMMA DisabledTold ==
  ASSUME NEW m \in Memory
  PROVE  /\ Disabled(m) \in Memory /\ SameTexts(m, Disabled(m))
         /\ SameCounts(m, Disabled(m)) /\ Disabled(m).tests = m.tests
         /\ Disabled(m).handlers = m.handlers /\ ~ Hooked(Disabled(m))
  BY DEF Disabled, Memory, SameTexts, SameCounts, Hooked

LEMMA TestReturnsKeeps ==
  ASSUME IInv, NEW p \in Proc, TestReturns(p)
  PROVE  IInv'
<1> DEFINE m == Disabled(mem[p])
<1> DEFINE code == Outcome(mem[p])
<1>1. /\ run[p] = "running" /\ p # Main /\ Exit(p, m, code, "returned", 0)
  BY DEF TestReturns, Running
<1>2. run[p] \in Live /\ "returned" \in Ways /\ code \in Nat
  BY <1>1 DEF Live, Ways, Outcome
<1>3. /\ m \in Memory /\ SameTexts(mem[p], m)
      /\ SameCounts(mem[p], m) /\ m.tests = mem[p].tests
      /\ m.handlers = mem[p].handlers /\ ~ Hooked(m)
  BY <1>2, LivingTold, DisabledTold
<1> HIDE DEF m, code
<1>4. QED
  BY <1>1, <1>2, <1>3, ExitKeeps

LEMMA LibipdExitKeeps ==
  ASSUME IInv, NEW p \in Proc, NEW result \in ExitCodes, libipd_exit_rt(p, result)
  PROVE  IInv'
<1>1. run[p] \in Live /\ "libipd_exit" \in Ways /\ result \in Nat
  BY TestAssumption DEF libipd_exit_rt, Running, Live, Ways
<1>2. CASE ~ mem[p].tests_enabled
  BY <1>1, <1>2, ExitAsIs DEF libipd_exit_rt
<1>3. CASE mem[p].tests_enabled
  <2> DEFINE m == Disabled(mem[p])
  <2> DEFINE code == IF result = 0 THEN mem[p].fail_count ELSE result
  <2>1. Exit(p, m, code, "libipd_exit", 1)
    BY <1>3 DEF libipd_exit_rt, Disabled
  <2>2. /\ m \in Memory /\ SameTexts(mem[p], m)
        /\ SameCounts(mem[p], m) /\ m.tests = mem[p].tests
        /\ m.handlers = mem[p].handlers /\ ~ Hooked(m)
    BY <1>1, LivingTold, DisabledTold
  <2>3. Installed(m, Hook)
    BY <1>1, <1>3, <2>2, LivingTold DEF Installed
  <2>4. code \in Nat
    BY <1>1, LivingTold, FieldTypes
  <2> HIDE DEF m, code
  <2>5. 1 + (IF Hooked(m) THEN 1 ELSE 0) = 1
    BY <2>2
  <2>6. QED
    BY <1>1, <2>1, <2>2, <2>3, <2>4, <2>5, ExitKeeps
<1>4. QED
  BY <1>2, <1>3

-----------------------------------------------------------------------------
(* A text t, printed nowhere yet, goes into a buffer of p.                 *)
LEMMA PrintsKeeps ==
  ASSUME IInv, NEW p \in Proc, NEW t \in Text, NEW file \in {"stdout", "trace_out"},
         Prints(p, t, file), NEW m \in Memory, mem' = [mem EXCEPT ![p] = m],
         SameCounts(mem[p], m), m.tests = mem[p].tests, m.tests_enabled = mem[p].tests_enabled,
         Installed(m, Hook) <=> Installed(mem[p], Hook),
         m.stdout = mem[p].stdout \cup (IF file = "stdout" THEN {t} ELSE {}),
         m.trace_out = mem[p].trace_out \cup (IF file = "trace_out" THEN {t} ELSE {})
  PROVE  IInv'
<1>1. /\ TypeOK /\ Processes /\ TextsInPlace
      /\ run[p] = "running" /\ printed[t] = Nowhere /\ mem'[p] = m
      /\ printed' = [printed EXCEPT ![t] = [file |-> file, by |-> p]]
      /\ UNCHANGED <<posix, run, child, status, shown, left, seen, summaries>>
  BY DEF IInv, Prints, Running, TypeOK
<1>2. TypeOK'
  BY <1>1 DEF TypeOK
<1>3. \A q \in Proc \ {p} : Same(q)
  BY <1>1 DEF TypeOK, Same
<1>4. Processes'
  <2>1. Living(p) /\ Forks(p) /\ Over(p) /\ Bounded(p)
    BY <1>1 DEF Processes
  <2>2. Checks(m) = Checks(mem[p])
    BY DEF SameCounts, Checks, Failures
  <2>3. Living(p)' /\ Over(p)' /\ Forks(p)'
    BY <1>1, <2>1, <2>2 DEF Living, Over, Forks, InTest
  <2>4. Bounded(p)'
    BY <1>1, <2>1, <2>2 DEF Bounded
  <2>5. SummaryOf(p)'
    BY <1>1, <2>1 DEF SummaryOf, Living, Alive
  <2>6. QED
    BY <1>1, <1>2, <1>3, <2>3, <2>4, <2>5, ProcessStep
<1>5. /\ printed'[t] = [file |-> file, by |-> p]
      /\ \A u \in Text \ {t} : printed'[u] = printed[u]
  BY <1>1 DEF TypeOK
<1>6. status[p].how # "exited"
  BY <1>1 DEF Processes, Living, Alive
<1>7. Buffered(t) /\ Unshown(t)
  BY <1>1 DEF TextsInPlace
<1>8. shown[t] = 0 /\ \A q \in Proc : t \notin mem[q].stdout /\ t \notin mem[q].trace_out
  BY <1>1, <1>7 DEF Buffered, Unshown, Nowhere
<1>9. Buffered(t)' /\ Pending(t)' /\ Unshown(t)'
      /\ (printed'[t].file = "stdout" => shown'[t] <= 1)
  <2>1. Buffered(t)'
    BY <1>1, <1>3, <1>5, <1>8 DEF Buffered, Same
  <2>2. Pending(t)'
    BY <1>1, <1>5 DEF Pending
  <2>3. Unshown(t)'
    BY <1>1, <1>5, <1>8 DEF Unshown
  <2>4. printed'[t].file = "stdout" => shown'[t] <= 1
    BY <1>1, <1>8
  <2>5. QED
    BY <2>1, <2>2, <2>3, <2>4
<1>10. ASSUME NEW u \in Text \ {t}
       PROVE  Buffered(u)' /\ Pending(u)' /\ Unshown(u)'
              /\ (printed'[u].file = "stdout" => shown'[u] <= 1)
  <2>1. Buffered(u) /\ Pending(u) /\ Unshown(u)
        /\ (printed[u].file = "stdout" => shown[u] <= 1)
    BY <1>1 DEF TextsInPlace, OutputOnce
  <2>2. \A q \in Proc : /\ u \in mem'[q].stdout <=> u \in mem[q].stdout
                        /\ u \in mem'[q].trace_out <=> u \in mem[q].trace_out
    BY <1>1, <1>3 DEF Same
  <2>3. Buffered(u)'
    BY <1>1, <1>5, <2>1, <2>2 DEF Buffered
  <2>4. Pending(u)' /\ Unshown(u)'
    BY <1>1, <1>5, <2>1, <2>2 DEF Pending, Unshown
  <2>5. QED
    BY <1>1, <1>5, <2>1, <2>3, <2>4
<1>11. OutputOnce' /\ \A u \in Text : (Buffered(u) /\ Pending(u) /\ Unshown(u))'
  BY <1>9, <1>10 DEF OutputOnce
<1>12. QED
  BY <1>2, <1>4, <1>11 DEF IInv, TextsInPlace

LEMMA PrintTextKeeps ==
  ASSUME IInv, NEW p \in Proc, NEW t \in Text, PrintText(p, t)
  PROVE  IInv'
<1> DEFINE m == [mem[p] EXCEPT !.stdout = @ \cup {t}]
<1>1. Prints(p, t, "stdout") /\ mem[p] \in Memory
  BY DEF PrintText, IInv, TypeOK
<1>2. mem' = [mem EXCEPT ![p] = m]
  BY DEF PrintText, IInv, TypeOK
<1>3. /\ m \in Memory /\ SameCounts(mem[p], m) /\ m.tests = mem[p].tests
      /\ m.tests_enabled = mem[p].tests_enabled /\ m.handlers = mem[p].handlers
      /\ m.stdout = mem[p].stdout \cup {t} /\ m.trace_out = mem[p].trace_out
  BY <1>1 DEF Memory, SameCounts
<1> HIDE DEF m
<1>4. Installed(m, Hook) <=> Installed(mem[p], Hook)
  BY <1>3 DEF Installed
<1>5. QED
  BY <1>1, <1>2, <1>3, <1>4, PrintsKeeps

LEMMA TraceKeeps ==
  ASSUME IInv, NEW p \in Proc, NEW t \in Text, alloc_tracef(p, t)
  PROVE  IInv'
<1>1. Prints(p, t, "trace_out") /\ mem[p] \in Memory
  BY DEF alloc_tracef, IInv, TypeOK
<1>2. PICK n \in {mem[p], Installs(mem[p], Close)} :
        mem' = [mem EXCEPT ![p] = [n EXCEPT !.trace_is_init = TRUE, !.trace_out = @ \cup {t}]]
  BY DEF alloc_tracef, Close
<1>3. /\ n \in Memory /\ SameCounts(mem[p], n) /\ n.tests = mem[p].tests
      /\ n.tests_enabled = mem[p].tests_enabled /\ SameTexts(mem[p], n)
      /\ Installed(n, Hook) <=> Installed(mem[p], Hook)
  <2>1. CASE n = mem[p]
    BY <1>1, <2>1 DEF SameCounts, SameTexts
  <2>2. CASE n = Installs(mem[p], Close)
    BY <1>1, <2>2, InstallsTold DEF Hook, Close
  <2>3. QED
    BY <2>1, <2>2
<1> DEFINE m == [n EXCEPT !.trace_is_init = TRUE, !.trace_out = @ \cup {t}]
<1>4. /\ m \in Memory /\ SameCounts(n, m) /\ m.tests = n.tests
      /\ m.tests_enabled = n.tests_enabled /\ m.handlers = n.handlers
      /\ m.stdout = n.stdout /\ m.trace_out = n.trace_out \cup {t}
  BY <1>3 DEF Memory, SameCounts
<1>5. mem' = [mem EXCEPT ![p] = m]
  BY <1>2
<1> HIDE DEF m
<1>6. /\ SameCounts(mem[p], m)
      /\ Installed(m, Hook) <=> Installed(mem[p], Hook)
      /\ m.stdout = mem[p].stdout /\ m.trace_out = mem[p].trace_out \cup {t}
  BY <1>3, <1>4 DEF Installed, SameCounts, SameTexts
<1>7. QED
  <2>1. /\ SameCounts(mem[p], m) /\ m.tests = mem[p].tests
        /\ m.tests_enabled = mem[p].tests_enabled
        /\ Installed(m, Hook) <=> Installed(mem[p], Hook)
    BY <1>3, <1>4, <1>6
  <2>2. /\ m.stdout = mem[p].stdout \cup (IF "trace_out" = "stdout" THEN {t} ELSE {})
        /\ m.trace_out = mem[p].trace_out \cup (IF "trace_out" = "trace_out" THEN {t} ELSE {})
    BY <1>6
  <2>3. QED
    BY <1>1, <1>4, <1>5, <2>1, <2>2, PrintsKeeps

-----------------------------------------------------------------------------
(* The next process to be forked.                                          *)
LEMMA FirstTold ==
  ASSUME TypeOK, BornInOrder, Unborn # {}
  PROVE  /\ FirstOf(Unborn) \in Proc /\ run[FirstOf(Unborn)] = "unborn"
         /\ \A q \in Proc : run[q] = "unborn" /\ q # FirstOf(Unborn) <=> q > FirstOf(Unborn)
<1>1. PICK n \in Proc : \A p \in Proc : run[p] = "unborn" <=> p > n
  BY DEF BornInOrder
<1>2. PICK d \in Proc : d > n
  BY <1>1 DEF Unborn
<1>3. n + 1 \in Proc /\ n + 1 > n
  BY <1>2, TestAssumption DEF Proc
<1>4. n + 1 \in Unborn /\ \A e \in Unborn : n + 1 <= e
  BY <1>1, <1>3 DEF Unborn, Proc
<1>5. FirstOf(Unborn) \in Unborn /\ \A e \in Unborn : FirstOf(Unborn) <= e
  BY <1>4, Zenon DEF FirstOf
<1>6. FirstOf(Unborn) = n + 1
  BY <1>3, <1>4, <1>5 DEF Unborn, Proc
<1>7. QED
  BY <1>1, <1>3, <1>6 DEF Proc

LEMMA ForkedTold ==
  ASSUME NEW m \in Memory
  PROVE  /\ Forked(m) \in Memory /\ SameTexts(m, Forked(m)) /\ Checks(Forked(m)) = 0
         /\ Forked(m).fail_count = 0 /\ Forked(m).error_count = 0
         /\ Forked(m).tests = m.tests /\ Forked(m).handlers = m.handlers
         /\ Forked(m).tests_enabled = m.tests_enabled
<1>1. /\ Forked(m) \in Memory /\ SameTexts(m, Forked(m))
      /\ Forked(m).tests = m.tests /\ Forked(m).handlers = m.handlers
      /\ Forked(m).tests_enabled = m.tests_enabled
  BY DEF Forked, Memory, SameTexts
<1>2. Forked(m).pass_count = 0 /\ Forked(m).fail_count = 0 /\ Forked(m).error_count = 0
  BY DEF Forked, Memory
<1>3. QED
  BY <1>1, <1>2 DEF Checks, Failures

LEMMA ForkKeeps ==
  ASSUME IInv, NEW p \in Proc, Fork(p)
  PROVE  IInv'
<1> DEFINE m == Forked(mem[p])
<1>1. PICK c \in Proc : /\ c = FirstOf(Unborn) /\ run[c] = "unborn"
                        /\ \A q \in Proc : run[q] = "unborn" /\ q # c <=> q > c
  BY FirstTold DEF Fork, IInv, Processes
<1>2. /\ TypeOK /\ Processes /\ TextsInPlace /\ run[p] = "forking"
      /\ mem' = [mem EXCEPT ![c] = m]
      /\ run' = [run EXCEPT ![p] = "waiting", ![c] = "running"]
      /\ child' = [child EXCEPT ![p] = c]
      /\ UNCHANGED <<posix, status, printed, shown, left, seen, summaries>>
  BY <1>1 DEF Fork, IInv
<1>3. /\ c \in Proc /\ run[c] = "unborn"
      /\ \A q \in Proc : run[q] = "unborn" /\ q # c <=> q > c
  BY <1>1
<1>4. /\ mem[p] \in Memory /\ m \in Memory /\ SameTexts(mem[p], m) /\ Checks(m) = 0
      /\ m.tests = mem[p].tests /\ m.handlers = mem[p].handlers
      /\ m.tests_enabled = mem[p].tests_enabled
  BY <1>2, ForkedTold DEF TypeOK
<1> HIDE DEF m
<1>5. /\ Living(p) /\ Forks(p) /\ Bounded(p) /\ Over(p)
      /\ Living(c) /\ Bounded(c) /\ NotYet(c) /\ Forks(c)
  BY <1>2, <1>3 DEF Processes
<1>6. c # p /\ c # Main /\ posix /\ mem[p].tests = <<>> /\ mem[p].stdout = {}
  BY <1>2, <1>3, <1>5 DEF NotYet, Forks
<1>7. TypeOK'
  BY <1>2, <1>3, <1>4 DEF TypeOK
<1>8. /\ mem'[c] = m /\ run'[c] = "running" /\ run'[p] = "waiting" /\ child'[p] = c
      /\ mem'[p] = mem[p]
      /\ \A q \in Proc \ {p} : q # c => Same(q)
      /\ \A q \in Proc : run[q] # "unborn" => run'[q] # "unborn"
  BY <1>2, <1>3, <1>6 DEF TypeOK, Same
<1>9. Processes'
  <2>1. BornInOrder'
    <3>1. \A q \in Proc : run'[q] = "unborn" <=> run[q] = "unborn" /\ q # c
      BY <1>2, <1>3, <1>8 DEF Same
    <3>2. \A q \in Proc : run'[q] = "unborn" <=> q > c
      BY <1>3, <3>1
    <3>3. QED
      BY <1>3, <3>2 DEF BornInOrder
  <2>2. ASSUME NEW q \in Proc, q # p, q # c
        PROVE  (Living(q) /\ Forks(q) /\ Bounded(q) /\ Over(q) /\ NotYet(q) /\ SummaryOf(q))'
    BY <1>2, <1>8, <2>2, SameProcess, SummaryOfEach DEF Processes
  <2>3. (Living(p) /\ Forks(p) /\ Bounded(p) /\ Over(p) /\ NotYet(p) /\ SummaryOf(p))'
    <3>1. Living(p)'
      BY <1>2, <1>5, <1>8 DEF Living, InTest
    <3>2. Forks(p)'
      <4>1. c > p
        BY <1>2, <1>3, <1>6, BoundTold
      <4>2. QED
        BY <1>2, <1>3, <1>5, <1>6, <1>8, <4>1 DEF Forks
    <3>3. Bounded(p)'
      BY <1>2, <1>5, <1>8 DEF Bounded
    <3>4. Over(p)' /\ NotYet(p)'
      BY <1>8 DEF Over, NotYet
    <3>5. SummaryOf(p)'
      BY <1>2, <1>5 DEF SummaryOf, Living, Alive
    <3>6. QED
      BY <3>1, <3>2, <3>3, <3>4, <3>5
  <2>4. (Living(c) /\ Forks(c) /\ Bounded(c) /\ Over(c) /\ NotYet(c) /\ SummaryOf(c))'
    <3>1. mem[p].tests_enabled /\ Installed(mem[p], Hook)
      BY <1>2, <1>5 DEF Living, InTest
    <3>2. Living(c)'
      BY <1>2, <1>3, <1>4, <1>5, <1>8, <3>1 DEF Living, Installed
    <3>3. Forks(c)'
      BY <1>2, <1>4, <1>6, <1>8 DEF Forks
    <3>4. Bounded(c)'
      BY <1>4, <1>6, <1>8, BoundTold DEF Bounded
    <3>5. Over(c)' /\ NotYet(c)'
      BY <1>8 DEF Over, NotYet
    <3>6. SummaryOf(c)'
      BY <1>2, <1>3, <1>5 DEF SummaryOf, Living, Alive
    <3>7. QED
      BY <3>2, <3>3, <3>4, <3>5, <3>6
  <2>5. \A q \in Proc : (Living(q) /\ Forks(q) /\ Bounded(q) /\ Over(q) /\ NotYet(q) /\ SummaryOf(q))'
    BY <2>2, <2>3, <2>4
  <2>6. SummaryOnce'
    BY <2>5 DEF SummaryOnce, SummaryOf, Hook
  <2>7. QED
    BY <2>1, <2>5, <2>6 DEF Processes
<1>10. TextsInPlace'
  <2>1. ASSUME NEW t \in Text
        PROVE  Buffered(t)' /\ Pending(t)' /\ Unshown(t)'
    <3>1. Buffered(t) /\ Pending(t) /\ Unshown(t)
      BY <1>2 DEF TextsInPlace
    <3>2. mem'[c].stdout = {} /\ mem'[c].trace_out = mem[p].trace_out
      BY <1>4, <1>6, <1>8 DEF SameTexts
    <3>3. Buffered(t)'
      BY <1>2, <1>8, <3>1, <3>2 DEF Buffered, Same
    <3>4. printed[t].file # "none" => printed[t].by # c
      BY <1>3, <3>1 DEF Pending
    <3>5. Pending(t)'
      <4>1. CASE printed[t].file # "none" /\ printed[t].by = p
        BY <1>2, <1>8, <3>1, <4>1 DEF Pending
      <4>2. CASE printed[t].file # "none" /\ printed[t].by # p
        <5>1. Same(printed[t].by)
          BY <1>8, <3>1, <3>4, <4>2 DEF Pending
        <5>2. QED
          BY <1>2, <3>1, <4>2, <5>1 DEF Pending, Same
      <4>3. QED
        BY <1>2, <4>1, <4>2 DEF Pending
    <3>6. Unshown(t)'
      BY <1>2, <3>1 DEF Unshown
    <3>7. QED
      BY <3>3, <3>5, <3>6
  <2>2. OutputOnce'
    BY <1>2 DEF TextsInPlace, OutputOnce
  <2>3. QED
    BY <2>1, <2>2 DEF TextsInPlace
<1>11. QED
  BY <1>7, <1>9, <1>10 DEF IInv

-----------------------------------------------------------------------------
LEMMA ForkCallKeeps ==
  ASSUME IInv, NEW p \in Proc, RunTest(p), posix
  PROVE  IInv'
<1> DEFINE n == start_testing(mem[p])
<1> DEFINE m == BeforeFork(n)
<1> DEFINE F == n.stdout \ m.stdout
<1>1. /\ TypeOK /\ Processes /\ run[p] = "running" /\ MayCount(p)
      /\ run' = [run EXCEPT ![p] = "forking"]
      /\ mem' = [mem EXCEPT ![p] = m]
      /\ shown' = Flushed(F)
      /\ UNCHANGED <<posix, child, status, printed, left, seen, summaries>>
  BY DEF IInv, RunTest, Running
<1>2. /\ mem[p] \in Memory /\ Checks(mem[p]) + Len(mem[p].tests) < MaxCount[p]
  BY <1>1 DEF TypeOK, MayCount
<1>3. /\ n \in Memory /\ Installed(n, Hook) /\ n.tests_enabled
      /\ SameCounts(mem[p], n) /\ SameTexts(mem[p], n) /\ n.tests = mem[p].tests
  BY <1>2, StartTold
<1> HIDE DEF n
<1>4. /\ m \in Memory /\ m.stdout = {} /\ m.trace_out = mem[p].trace_out
      /\ SameCounts(mem[p], m) /\ m.tests = mem[p].tests
      /\ m.handlers = n.handlers /\ m.tests_enabled
  BY <1>3, FlushTold DEF BeforeFork, SameTexts, SameCounts
<1>5. F = mem[p].stdout
  BY <1>3, <1>4 DEF SameTexts
<1> HIDE DEF m, F
<1>6. /\ run'[p] = "forking" /\ mem'[p] = m
      /\ \A q \in Proc \ {p} : Same(q)
  BY <1>1 DEF TypeOK, Same
<1>7. TypeOK'
  <2>1. shown' \in [Text -> Nat]
    BY <1>1, FlushedTold DEF TypeOK, Flushed
  <2>2. QED
    BY <1>1, <1>4, <2>1 DEF TypeOK
<1>8. Processes'
  <2>1. Living(p) /\ Forks(p) /\ Over(p)
    BY <1>1 DEF Processes
  <2>2. Checks(m) = Checks(mem[p]) /\ Installed(m, Hook)
    BY <1>3, <1>4 DEF SameCounts, Checks, Failures, Installed
  <2>3. Living(p)'
    BY <1>1, <1>4, <1>6, <2>1, <2>2 DEF Living
  <2>4. Forks(p)' /\ Over(p)'
    BY <1>1, <1>4, <1>6, <2>1 DEF Forks, Over
  <2>5. SummaryOf(p)'
    BY <1>1, <2>1 DEF SummaryOf, Living, Alive
  <2>6. Bounded(p)'
    BY <1>2, <1>4, <1>6, <2>2, FieldTypes, BoundTold DEF Bounded
  <2>7. QED
    BY <1>1, <1>6, <1>7, <2>3, <2>4, <2>5, <2>6, ProcessStep
<1>9. TextsInPlace'
  BY <1>1, <1>4, <1>5, <1>6, <1>7, TextsGoOn DEF Live
<1>10. QED
  BY <1>7, <1>8, <1>9 DEF IInv

(* The tests that have not returned, with one more.                        *)
LEMMA CalledTold ==
  ASSUME NEW m \in Memory, NEW f \in Frame
  PROVE  LET n == [m EXCEPT !.tests = Append(@, f)]
         IN  /\ n \in Memory /\ SameTexts(m, n) /\ SameCounts(m, n)
             /\ n.handlers = m.handlers /\ n.tests_enabled = m.tests_enabled
             /\ n.tests = Append(m.tests, f) /\ Len(n.tests) = Len(m.tests) + 1
<1> DEFINE fs == Append(m.tests, f)
<1> DEFINE n == [m EXCEPT !.tests = fs]
<1>1. fs \in Seq(Frame) /\ Len(fs) = Len(m.tests) + 1
  BY FieldTypes
<1> HIDE DEF fs
<1>2. n \in Memory /\ n.tests = fs
  BY <1>1 DEF Memory
<1>3. /\ SameTexts(m, n) /\ SameCounts(m, n)
      /\ n.handlers = m.handlers /\ n.tests_enabled = m.tests_enabled
  BY DEF SameTexts, SameCounts, Memory
<1>4. QED
  BY <1>1, <1>2, <1>3 DEF fs

LEMMA CallKeeps ==
  ASSUME IInv, NEW p \in Proc, RunTest(p), ~ posix
  PROVE  IInv'
<1> DEFINE n == start_testing(mem[p])
<1> DEFINE f == [fails |-> n.fail_count, errors |-> n.error_count, before |-> seen[p]]
<1> DEFINE e == BeforeFork(n)
<1> DEFINE m == [e EXCEPT !.tests = Append(@, f)]
<1> DEFINE F == n.stdout \ e.stdout
<1>1. /\ TypeOK /\ Processes /\ run[p] = "running" /\ MayCount(p)
      /\ UNCHANGED run
      /\ mem' = [mem EXCEPT ![p] = m]
      /\ shown' = Flushed(F)
      /\ seen' = [seen EXCEPT ![p] = {}]
      /\ UNCHANGED <<posix, child, status, printed, left, summaries>>
  <2>1. run' = [run EXCEPT ![p] = run[p]]
    BY DEF RunTest
  <2>2. UNCHANGED run
    BY <2>1 DEF IInv, TypeOK
  <2>3. QED
    BY <2>2 DEF IInv, RunTest, Running
<1>2. /\ mem[p] \in Memory /\ Checks(mem[p]) + Len(mem[p].tests) < MaxCount[p]
  BY <1>1 DEF TypeOK, MayCount
<1>3. /\ n \in Memory /\ Installed(n, Hook) /\ n.tests_enabled
      /\ SameCounts(mem[p], n) /\ SameTexts(mem[p], n) /\ n.tests = mem[p].tests
  BY <1>2, StartTold
<1> HIDE DEF n
<1>4. f \in Frame
  BY <1>1, <1>3, FieldTypes DEF Frame, TypeOK
<1> HIDE DEF f
<1>5. /\ e \in Memory /\ e.stdout = {} /\ e.trace_out = mem[p].trace_out
      /\ SameCounts(mem[p], e) /\ e.tests = mem[p].tests
      /\ e.handlers = n.handlers /\ e.tests_enabled
  BY <1>3, FlushTold DEF BeforeFork, SameTexts, SameCounts
<1>6. F = mem[p].stdout
  BY <1>3, <1>5 DEF SameTexts
<1> HIDE DEF e
<1>7. /\ m \in Memory /\ SameTexts(e, m) /\ SameCounts(e, m)
      /\ m.handlers = e.handlers /\ m.tests_enabled = e.tests_enabled
      /\ Len(m.tests) = Len(e.tests) + 1
  BY <1>4, <1>5, CalledTold
<1> HIDE DEF m, F
<1>8. /\ m.stdout = {} /\ m.trace_out = mem[p].trace_out /\ m.tests_enabled
      /\ Len(m.tests) = Len(mem[p].tests) + 1
      /\ Checks(m) = Checks(mem[p]) /\ Installed(m, Hook)
  BY <1>3, <1>5, <1>7 DEF SameTexts, SameCounts, Checks, Failures, Installed
<1>9. /\ mem'[p] = m
      /\ \A q \in Proc \ {p} : Same(q)
  BY <1>1 DEF TypeOK, Same
<1>10. TypeOK'
  <2>1. shown' \in [Text -> Nat]
    BY <1>1, FlushedTold DEF TypeOK, Flushed
  <2>2. QED
    BY <1>1, <1>7, <2>1 DEF TypeOK
<1>11. Processes'
  <2>1. Living(p) /\ Forks(p) /\ Over(p)
    BY <1>1 DEF Processes
  <2>2. Living(p)'
    BY <1>1, <1>8, <1>9, <2>1 DEF Living
  <2>3. Forks(p)' /\ Over(p)'
    BY <1>1, <1>9, <2>1 DEF Forks, Over
  <2>4. SummaryOf(p)'
    BY <1>1, <2>1 DEF SummaryOf, Living, Alive
  <2>5. Bounded(p)'
    BY <1>1, <1>2, <1>8, <1>9, FieldTypes, BoundTold DEF Bounded
  <2>6. QED
    BY <1>1, <1>9, <1>10, <2>2, <2>3, <2>4, <2>5, ProcessStep
<1>12. TextsInPlace'
  BY <1>1, <1>6, <1>8, <1>9, <1>10, TextsGoOn DEF Live
<1>13. QED
  BY <1>10, <1>11, <1>12 DEF IInv

LEMMA VerdictTold ==
  ASSUME NEW s
  PROVE  Verdict(s) \in {"pass", "fail", "error"}
  BY DEF Verdict

LEMMA CountsOneMore ==
  ASSUME NEW m \in Memory, NEW verdict \in {"pass", "fail", "error"}
  PROVE  /\ Count(m, verdict) \in Memory /\ SameTexts(m, Count(m, verdict))
         /\ Count(m, verdict).tests = m.tests /\ Count(m, verdict).handlers = m.handlers
         /\ Count(m, verdict).tests_enabled = m.tests_enabled
         /\ Checks(Count(m, verdict)) = Checks(m) + 1
<1> DEFINE n == Count(m, verdict)
<1>1. Adds(m, n, IF verdict = "pass" THEN 1 ELSE 0,
           IF verdict = "fail" THEN 1 ELSE 0, IF verdict = "error" THEN 1 ELSE 0)
  BY CountTold
<1> HIDE DEF n
<1>2. /\ n \in Memory /\ SameTexts(m, n) /\ n.tests = m.tests /\ n.handlers = m.handlers
      /\ n.tests_enabled = m.tests_enabled
  BY <1>1 DEF Adds
<1>3. /\ m.pass_count \in Nat /\ m.fail_count \in Nat /\ m.error_count \in Nat
  BY FieldTypes
<1>4. Checks(n) = Checks(m) + 1
  BY <1>1, <1>3 DEF Adds, Checks, Failures
<1>5. QED
  BY <1>2, <1>4 DEF n

LEMMA ReapKeeps ==
  ASSUME IInv, NEW p \in Proc, Reap(p)
  PROVE  IInv'
<1> DEFINE verdict == Verdict(status[child[p]])
<1> DEFINE m == Count(mem[p], verdict)
<1> DEFINE news == {Truth(child[p])} \ {"pass"}
<1>1. /\ TypeOK /\ Processes /\ run[p] = "waiting"
      /\ run' = [run EXCEPT ![p] = "running"]
      /\ mem' = [mem EXCEPT ![p] = m]
      /\ child' = [child EXCEPT ![p] = None]
      /\ seen' = [seen EXCEPT ![p] = @ \cup news]
      /\ UNCHANGED <<posix, status, printed, shown, left, summaries>>
  BY DEF IInv, Reap, TypeOK
<1>2. mem[p] \in Memory /\ verdict \in {"pass", "fail", "error"}
  BY <1>1, VerdictTold DEF TypeOK
<1>3. news \in SUBSET {"fail", "error"}
  <2>1. Forks(p)
    BY <1>1 DEF Processes
  <2>2. child[p] \in Proc
    BY <1>1, <2>1 DEF Forks
  <2>3. seen[child[p]] \in SUBSET {"fail", "error"}
    BY <1>1, <2>2 DEF TypeOK
  <2>4. Worst(seen[child[p]]) \in {"pass", "fail", "error"}
    <3>1. "error" \in seen[child[p]] \/ seen[child[p]] = {"fail"} \/ seen[child[p]] = {}
      BY <2>3
    <3>2. QED
      BY <3>1 DEF Worst
  <2>5. QED
    BY <1>2, <2>4 DEF Truth
<1> HIDE DEF verdict, news
<1>4. /\ m \in Memory /\ SameTexts(mem[p], m) /\ m.tests = mem[p].tests
      /\ m.handlers = mem[p].handlers /\ m.tests_enabled = mem[p].tests_enabled
      /\ Checks(m) = Checks(mem[p]) + 1
  BY <1>2, CountsOneMore
<1> HIDE DEF m
<1>5. /\ run'[p] = "running" /\ mem'[p] = m
      /\ \A q \in Proc \ {p} : Same(q)
  BY <1>1 DEF TypeOK, Same
<1>6. TypeOK'
  BY <1>1, <1>3, <1>4 DEF TypeOK
<1>7. Processes'
  <2>1. Living(p) /\ Forks(p) /\ Over(p) /\ Bounded(p)
    BY <1>1 DEF Processes
  <2>2. Installed(m, Hook) /\ m.tests_enabled
    <3>1. mem[p].tests_enabled /\ Installed(mem[p], Hook)
      BY <1>1, <2>1 DEF Living, InTest
    <3>2. QED
      BY <1>4, <3>1 DEF Installed
  <2>3. Living(p)'
    BY <1>1, <1>5, <2>1, <2>2 DEF Living
  <2>4. Forks(p)' /\ Over(p)'
    BY <1>1, <1>4, <1>5, <2>1 DEF Forks, Over
  <2>5. SummaryOf(p)'
    BY <1>1, <2>1 DEF SummaryOf, Living, Alive
  <2>6. Bounded(p)'
    BY <1>1, <1>2, <1>4, <1>5, <2>1, FieldTypes, BoundTold DEF Bounded
  <2>7. QED
    BY <1>1, <1>5, <1>6, <2>3, <2>4, <2>5, <2>6, ProcessStep
<1>8. shown' = Flushed({})
  BY <1>1 DEF Flushed, TypeOK
<1>9. TextsInPlace'
  BY <1>1, <1>4, <1>5, <1>6, <1>8, TextsGoOn DEF SameTexts, Live
<1>10. QED
  BY <1>6, <1>7, <1>9 DEF IInv

LEMMA PrefixTold ==
  ASSUME NEW S, NEW s \in Seq(S), NEW n \in Nat, n <= Len(s)
  PROVE  /\ SubSeq(s, 1, n) \in Seq(S) /\ Len(SubSeq(s, 1, n)) = n
         /\ \A k \in 1 .. n : SubSeq(s, 1, n)[k] = s[k]
<1>1. \A i \in 1 .. n : s[i] \in S
  OBVIOUS
<1>2. n \in Int /\ 1 \in Int
  OBVIOUS
<1> DEFINE t == SubSeq(s, 1, n)
<1>3. /\ t \in Seq(S) /\ Len(t) = IF 1 <= n THEN n - 1 + 1 ELSE 0
      /\ \A i \in 1 .. n - 1 + 1 : t[i] = s[1 + i - 1]
  BY <1>1, <1>2, SubSeqProperties
<1> HIDE DEF t
<1>4. t \in Seq(S) /\ Len(t) = n /\ \A k \in 1 .. n : t[k] = s[k]
  BY <1>3
<1>5. QED
  BY <1>4 DEF t

(* The tests that have not returned, when the last of them does.           *)
LEMMA FrontTold ==
  ASSUME NEW S, NEW s \in Seq(S), s # <<>>
  PROVE  /\ Front(s) \in Seq(S) /\ Len(Front(s)) = Len(s) - 1 /\ Len(s) \in Nat \ {0}
         /\ Last(s) = s[Len(s)] /\ Last(s) \in S
         /\ \A k \in 1 .. Len(s) - 1 : Front(s)[k] = s[k]
<1>1. Len(s) \in Nat \ {0} /\ Last(s) = s[Len(s)] /\ Last(s) \in S
  BY DEF Last
<1>2. PICK n \in Nat : n = Len(s) - 1 /\ n <= Len(s)
  BY <1>1
<1>3. Front(s) = SubSeq(s, 1, n)
  BY <1>2 DEF Front
<1>4. /\ Front(s) \in Seq(S) /\ Len(Front(s)) = n
      /\ \A k \in 1 .. n : Front(s)[k] = s[k]
  BY <1>2, <1>3, PrefixTold
<1>5. QED
  BY <1>1, <1>2, <1>4

LEMMA ReturnedTold ==
  ASSUME NEW m \in Memory, NEW fs \in Seq(Frame)
  PROVE  LET n == [m EXCEPT !.tests = fs]
         IN  /\ n \in Memory /\ SameTexts(m, n) /\ SameCounts(m, n)
             /\ n.handlers = m.handlers /\ n.tests_enabled = m.tests_enabled
             /\ n.tests = fs
<1> DEFINE n == [m EXCEPT !.tests = fs]
<1>1. n \in Memory /\ n.tests = fs
  BY DEF Memory
<1>2. /\ SameTexts(m, n) /\ SameCounts(m, n)
      /\ n.handlers = m.handlers /\ n.tests_enabled = m.tests_enabled
  BY DEF SameTexts, SameCounts, Memory
<1>3. QED
  BY <1>1, <1>2

LEMMA CallReturnsKeeps ==
  ASSUME IInv, NEW p \in Proc, CallReturns(p)
  PROVE  IInv'
<1> DEFINE verdict == Added(mem[p])
<1> DEFINE e == fflush(mem[p])
<1> DEFINE n == Count(e, verdict)
<1> DEFINE fs == Front(mem[p].tests)
<1> DEFINE m == [n EXCEPT !.tests = fs]
<1> DEFINE F == mem[p].stdout
<1>1. /\ TypeOK /\ Processes /\ run[p] = "running" /\ mem[p].tests # <<>>
      /\ mem' = [mem EXCEPT ![p] = m]
      /\ shown' = Flushed(F)
      /\ seen' = [seen EXCEPT ![p] = @ \cup Last(mem[p].tests).before]
      /\ UNCHANGED <<posix, run, child, status, printed, left, summaries>>
  BY DEF IInv, TypeOK, CallReturns, Running
<1>2. mem[p] \in Memory /\ verdict \in {"pass", "fail", "error"}
  BY <1>1 DEF TypeOK, Added
<1>3. fs \in Seq(Frame) /\ Len(fs) = Len(mem[p].tests) - 1
  BY <1>1, <1>2, FieldTypes, FrontTold
<1> HIDE DEF fs
<1>4. Last(mem[p].tests).before \in SUBSET {"fail", "error"}
  <2>1. Last(mem[p].tests) \in Frame
    BY <1>1, <1>2, FieldTypes, FrontTold
  <2>2. QED
    BY <2>1 DEF Frame
<1> HIDE DEF verdict
<1>5. /\ e \in Memory /\ e.stdout = {} /\ e.trace_out = mem[p].trace_out
      /\ SameCounts(mem[p], e) /\ e.tests = mem[p].tests
      /\ e.handlers = mem[p].handlers /\ e.tests_enabled = mem[p].tests_enabled
  BY <1>2, FlushTold
<1> HIDE DEF e
<1>6. /\ n \in Memory /\ SameTexts(e, n) /\ n.tests = e.tests /\ n.handlers = e.handlers
      /\ n.tests_enabled = e.tests_enabled /\ Checks(n) = Checks(e) + 1
  BY <1>2, <1>5, CountsOneMore
<1> HIDE DEF n
<1>7. /\ m \in Memory /\ SameTexts(n, m) /\ SameCounts(n, m)
      /\ m.handlers = n.handlers /\ m.tests_enabled = n.tests_enabled
      /\ m.tests = fs
  BY <1>3, <1>6, ReturnedTold
<1> HIDE DEF m
<1>8. /\ m.stdout = {} /\ m.trace_out = mem[p].trace_out
      /\ m.tests_enabled = mem[p].tests_enabled /\ m.handlers = mem[p].handlers
      /\ Len(m.tests) = Len(mem[p].tests) - 1
  BY <1>3, <1>5, <1>6, <1>7 DEF SameTexts
<1>9. Checks(m) = Checks(mem[p]) + 1
  <2>1. Checks(m) = Checks(n) /\ Checks(e) = Checks(mem[p])
    BY <1>5, <1>7 DEF SameCounts, Checks, Failures
  <2>2. QED
    BY <1>6, <2>1
<1>10. /\ mem'[p] = m
      /\ \A q \in Proc \ {p} : Same(q)
  BY <1>1 DEF TypeOK, Same
<1>11. TypeOK'
  <2>1. shown' \in [Text -> Nat]
    BY <1>1, FlushedTold DEF TypeOK, Flushed
  <2>2. QED
    BY <1>1, <1>4, <1>7, <2>1 DEF TypeOK
<1>12. Processes'
  <2>1. Living(p) /\ Forks(p) /\ Over(p) /\ Bounded(p)
    BY <1>1 DEF Processes
  <2>2. Installed(m, Hook) /\ m.tests_enabled
    <3>1. mem[p].tests_enabled /\ Installed(mem[p], Hook)
      BY <1>1, <2>1 DEF Living, InTest
    <3>2. QED
      BY <1>8, <3>1 DEF Installed
  <2>3. Living(p)'
    BY <1>1, <1>10, <2>1, <2>2 DEF Living
  <2>4. ~ posix
    BY <1>1, <2>1 DEF Forks
  <2>5. Forks(p)' /\ Over(p)'
    BY <1>1, <1>10, <2>1, <2>4 DEF Forks, Over
  <2>6. SummaryOf(p)'
    BY <1>1, <2>1 DEF SummaryOf, Living, Alive
  <2>7. Bounded(p)'
    BY <1>1, <1>2, <1>8, <1>9, <1>10, <2>1, FieldTypes, BoundTold DEF Bounded
  <2>8. QED
    BY <1>1, <1>10, <1>11, <2>3, <2>5, <2>6, <2>7, ProcessStep
<1>13. m.stdout = mem[p].stdout \ F
  BY <1>8
<1> HIDE DEF F
<1>14. F \in SUBSET mem[p].stdout
  BY DEF F
<1>15. TextsInPlace'
  BY <1>1, <1>8, <1>10, <1>11, <1>13, <1>14, TextsGoOn DEF Live
<1>16. QED
  BY <1>11, <1>12, <1>15 DEF IInv

LEMMA StutterKeeps ==
  ASSUME IInv, UNCHANGED vars
  PROVE  IInv'
<1>1. UNCHANGED <<posix, run, mem, child, status, printed, shown, left, seen, summaries>>
  BY DEF vars
<1>2. TypeOK'
  BY <1>1 DEF IInv, TypeOK
<1>3. Processes'
  BY <1>1 DEF IInv, Processes, BornInOrder, SummaryOnce, Living, Forks, Bounded, Over,
              NotYet, InTest
<1>4. TextsInPlace'
  BY <1>1 DEF IInv, TextsInPlace, Buffered, Pending, Unshown, OutputOnce
<1>5. QED
  BY <1>2, <1>3, <1>4 DEF IInv

LEMMA StepKeeps == IInv /\ [Next]_vars => IInv'
<1> SUFFICES ASSUME IInv, [Next]_vars PROVE IInv'
  OBVIOUS
<1>1. CASE UNCHANGED vars
  BY <1>1, StutterKeeps
<1>2. ASSUME NEW p \in Proc, Step(p) PROVE IInv'
  <2>1. CASE StartTesting(p)
    BY <2>1, StartTestingKeeps
  <2>2. CASE \E condition \in BOOLEAN : LogCheck(p, condition)
    BY <2>2, LogCheckKeeps
  <2>3. CASE LogError(p)
    BY <2>3, LogErrorKeeps
  <2>4. CASE CheckStringNull(p)
    BY <2>4, CheckStringNullKeeps
  <2>5. CASE \E t \in Text : PrintText(p, t) \/ alloc_tracef(p, t)
    BY <2>5, PrintTextKeeps, TraceKeeps
  <2>6. CASE RunTest(p)
    BY <2>6, ForkCallKeeps, CallKeeps
  <2>7. CASE Fork(p)
    BY <2>7, ForkKeeps
  <2>8. CASE TestReturns(p)
    BY <2>8, TestReturnsKeeps
  <2>9. CASE CallReturns(p)
    BY <2>9, CallReturnsKeeps
  <2>10. CASE Reap(p)
    BY <2>10, ReapKeeps
  <2>11. CASE \/ ForkFails(p)
              \/ \E code \in ExitCodes : RawExit(p, code)
              \/ \E code \in ExitCodes : p = Main /\ MainReturns(code)
    BY <2>11, ExitsKeep
  <2>12. CASE \E code \in ExitCodes : libipd_exit_rt(p, code)
    BY <2>12, LibipdExitKeeps
  <2>13. QED
    BY <1>2, <2>1, <2>2, <2>3, <2>4, <2>5, <2>6, <2>7, <2>8, <2>9, <2>10, <2>11, <2>12
       DEF Step
<1>3. ASSUME NEW p \in Proc, Mishap(p) PROVE IInv'
  BY <1>3, ExitsKeep, CrashKeeps DEF Mishap
<1>4. QED
  BY <1>1, <1>2, <1>3 DEF Next

(* What a process is, and what becomes of what it prints, by any steps.    *)
THEOREM Invariance == Spec => []IInv
  BY InitHolds, StepKeeps, PTL DEF Spec

(***************************************************************************)
(* Whoever prints the summary, exit's hook or libipd_exit_rt, it is        *)
(* printed once in a process that exits and has something to tell, and not *)
(* in a test that returns; and no fork duplicates a text printed before.   *)
(***************************************************************************)
THEOREM AlwaysPrintedOnce == Spec => []PrintedOnce
<1>1. IInv => PrintedOnce
  BY DEF IInv, Processes, TextsInPlace, PrintedOnce
<1>2. QED
  BY <1>1, Invariance, PTL

(* Which of two handlers is run first, when the hook is one of them.       *)
LEMMA OrderTold ==
  ASSUME NEW m \in Memory, Installed(m, Hook)
  PROVE  RunsBefore(m, Close, Hook) <=> m.handlers = <<Hook, Close>>
<1>1. m.handlers \in Handlers
  BY DEF Memory
<1>2. CASE m.handlers \in {<<>>, <<Hook>>, <<Close>>}
  BY <1>2 DEF RunsBefore, Installed, ToSet, Hook, Close
<1>3. CASE m.handlers \in {<<Hook, Close>>, <<Close, Hook>>}
  BY <1>3 DEF RunsBefore, Installed, ToSet, Last, Hook, Close
<1>4. QED
  BY <1>1, <1>2, <1>3 DEF Handlers

LEMMA FlushedShows ==
  ASSUME TypeOK, NEW ts, NEW t \in Text, shown[t] = 0
  PROVE  Flushed(ts)[t] = 0 <=> t \notin ts
BY DEF Flushed

LEMMA FailuresAreChecks ==
  ASSUME NEW m \in Memory
  PROVE  Failures(m) > 0 => Checks(m) > 0
BY FieldTypes DEF Checks

(* What of a process's text is lost as it exits.                           *)
LEMMA ExitLoses ==
  ASSUME IInv, NEW p \in Proc, run[p] \in Live, NEW m \in Memory, NEW code, NEW way \in Ways,
         NEW s, Exit(p, m, code, way, s),
         SameTexts(mem[p], m), SameCounts(mem[p], m), m.handlers = mem[p].handlers,
         Cut(m) <=> Failures(m) > 0 /\ way # "libipd_exit" /\ (p = Main \/ way # "returned"),
         way = "os error" => mem[p].stdout = {},
         NEW t \in Text, printed[t].by = p, shown[t] = 0
  PROVE  shown'[t] = 0 <=> EndsInHook(p)' /\ Lost(p, t)'
<1> DEFINE F == IF ~ Cut(m) THEN m.stdout \cup m.trace_out
                ELSE IF RunsBefore(m, Close, Hook) THEN m.trace_out ELSE {}
<1> DEFINE n == Emptied(m)
<1>1. TypeOK /\ Buffered(t) /\ Pending(t) /\ Unshown(t)
  BY DEF IInv, TextsInPlace
<1>2. /\ mem'[p] = n /\ left'[p] = way /\ printed' = printed /\ shown' = Flushed(F)
  BY <1>1 DEF Exit, Emptied, Hook, Close, TypeOK
<1>3. /\ SameCounts(m, n) /\ n.handlers = m.handlers /\ Failures(n) = Failures(m)
  BY EmptiedTold DEF SameCounts, Failures
<1>4. /\ printed[t].file \in {"stdout", "trace_out"}
      /\ printed[t].file = "stdout" => t \in m.stdout /\ t \notin m.trace_out
      /\ printed[t].file = "trace_out" => t \in m.trace_out /\ t \notin m.stdout
  <2>1. printed[t].by # Nowhere.by
    BY BoundTold DEF Nowhere, None
  <2>2. printed[t].file \in {"stdout", "trace_out"}
    BY <1>1, <2>1 DEF Unshown, TypeOK
  <2>3. run[p] # "over"
    BY DEF Live
  <2>4. /\ printed[t].file = "trace_out" => t \in mem[p].trace_out
        /\ printed[t].file = "stdout" => t \in mem[p].stdout
    BY <1>1, <2>2, <2>3 DEF Pending
  <2>5. /\ t \in mem[p].stdout => printed[t].file = "stdout"
        /\ t \in mem[p].trace_out => printed[t].file = "trace_out"
    BY <1>1 DEF Buffered
  <2>6. QED
    BY <2>2, <2>4, <2>5 DEF SameTexts
<1>5. shown'[t] = 0 <=> t \notin F
  <2>1. Flushed(F)[t] = 0 <=> t \notin F
    BY <1>1, FlushedShows
  <2>2. QED
    BY <1>2, <2>1
<1>6. EndsInHook(p)' <=> Cut(m)
  BY <1>2, <1>3 DEF EndsInHook
<1>7. Cut(m) => (RunsBefore(m, Close, Hook) <=> m.handlers = <<Hook, Close>>)
  BY OrderTold DEF Cut, Hooked, Hook
<1>8. Lost(p, t)' <=> IF printed[t].file = "stdout" THEN way # "os error"
                                                    ELSE m.handlers # <<Hook, Close>>
  BY <1>2, <1>3 DEF Lost, Hook, Close
<1>9. printed[t].file = "stdout" => way # "os error"
  BY <1>4 DEF SameTexts
<1>10. t \notin F <=> Cut(m) /\ (printed[t].file = "stdout" \/ m.handlers # <<Hook, Close>>)
  BY <1>4, <1>7
<1>11. QED
  BY <1>5, <1>6, <1>8, <1>9, <1>10

(* The process exits as it is: it is cut if it has something to report.    *)
LEMMA ExitAsIsLoses ==
  ASSUME IInv, NEW p \in Proc, run[p] \in Live, NEW code, NEW way \in Ways,
         Exit(p, mem[p], code, way, 0), p = Main \/ way # "returned",
         way # "libipd_exit" \/ Failures(mem[p]) = 0,
         way = "os error" => run[p] # "running",
         NEW t \in Text, printed[t].by = p, shown[t] = 0
  PROVE  shown'[t] = 0 <=> EndsInHook(p)' /\ Lost(p, t)'
<1>1. /\ mem[p] \in Memory /\ SameTexts(mem[p], mem[p]) /\ SameCounts(mem[p], mem[p])
      /\ Hooked(mem[p]) <=> mem[p].tests_enabled
      /\ Checks(mem[p]) > 0 => mem[p].tests_enabled
  BY LivingTold
<1>2. Failures(mem[p]) > 0 => Checks(mem[p]) > 0
  BY <1>1, FailuresAreChecks
<1>3. Cut(mem[p]) <=> Failures(mem[p]) > 0
  BY <1>1, <1>2 DEF Cut
<1>4. way = "os error" => mem[p].stdout = {}
  BY DEF IInv, Processes, Forks, Live
<1>5. way = "libipd_exit" => ~ Failures(mem[p]) > 0
  BY <1>1, FieldTypes
<1>6. QED
  BY <1>1, <1>3, <1>4, <1>5, ExitLoses

(* The step by which a process exits.                                      *)
Exits(p) ==
  \/ AtexitFails(p) \/ ForkFails(p) \/ WaitFails(p) \/ TestReturns(p)
  \/ \E code \in ExitCodes : RawExit(p, code)
  \/ \E code \in ExitCodes : p = Main /\ MainReturns(code)
  \/ \E code \in ExitCodes : libipd_exit_rt(p, code)

LEMMA ExitsLose ==
  ASSUME IInv, NEW p \in Proc, Exits(p), NEW t \in Text, printed[t].by = p, shown[t] = 0
  PROVE  shown'[t] = 0 <=> EndsInHook(p)' /\ Lost(p, t)'
<1>1. CASE AtexitFails(p) \/ \E code \in ExitCodes : RawExit(p, code)
  <2>1. run[p] \in Live
    BY <1>1 DEF AtexitFails, RawExit, Running, Live
  <2>2. CASE AtexitFails(p)
    <3>1. Exit(p, mem[p], 10, "setup", 0)
      BY <2>2 DEF AtexitFails
    <3>2. QED
      BY <2>1, <3>1, ExitAsIsLoses DEF Ways
  <2>3. CASE \E code \in ExitCodes : RawExit(p, code)
    <3>1. PICK code \in ExitCodes : Exit(p, mem[p], code, "exit", 0)
      BY <2>3 DEF RawExit
    <3>2. QED
      BY <2>1, <3>1, ExitAsIsLoses DEF Ways
  <2>4. QED
    BY <1>1, <2>2, <2>3
<1>2. CASE ForkFails(p) \/ WaitFails(p)
  <2>1. run[p] \in {"forking", "waiting"} /\ Exit(p, mem[p], 11, "os error", 0)
    BY <1>2 DEF ForkFails, WaitFails
  <2>2. run[p] \in Live /\ run[p] # "running"
    BY <2>1 DEF Live
  <2>3. QED
    BY <2>1, <2>2, ExitAsIsLoses DEF Ways
<1>3. CASE \E code \in ExitCodes : p = Main /\ MainReturns(code)
  BY <1>3, ExitAsIsLoses DEF MainReturns, Running, Live, Ways
<1>4. CASE TestReturns(p)
  <2> DEFINE m == Disabled(mem[p])
  <2>1. run[p] \in Live /\ p # Main /\ Exit(p, m, Outcome(mem[p]), "returned", 0)
    BY <1>4 DEF TestReturns, Running, Live
  <2>2. /\ m \in Memory /\ SameTexts(mem[p], m) /\ SameCounts(mem[p], m)
        /\ m.handlers = mem[p].handlers /\ ~ Cut(m)
    BY <2>1, LivingTold, DisabledTold DEF Cut
  <2> HIDE DEF m
  <2>3. QED
    BY <2>1, <2>2, ExitLoses DEF Ways
<1>5. CASE \E code \in ExitCodes : libipd_exit_rt(p, code)
  <2>1. PICK code \in ExitCodes : libipd_exit_rt(p, code)
    BY <1>5
  <2>2. run[p] \in Live
    BY <2>1 DEF libipd_exit_rt, Running, Live
  <2>3. CASE mem[p].tests_enabled
    <3> DEFINE m == Disabled(mem[p])
    <3> DEFINE c == IF code = 0 THEN mem[p].fail_count ELSE code
    <3>1. Exit(p, m, c, "libipd_exit", 1)
      BY <2>1, <2>3 DEF libipd_exit_rt, Disabled
    <3>2. /\ m \in Memory /\ SameTexts(mem[p], m) /\ SameCounts(mem[p], m)
          /\ m.handlers = mem[p].handlers /\ ~ Cut(m)
      BY <2>2, LivingTold, DisabledTold DEF Cut
    <3> HIDE DEF m, c
    <3>3. QED
      BY <2>2, <3>1, <3>2, ExitLoses DEF Ways
  <2>4. CASE ~ mem[p].tests_enabled
    <3>1. Exit(p, mem[p], code, "libipd_exit", 0)
      BY <2>1, <2>4 DEF libipd_exit_rt
    <3>2. Failures(mem[p]) = 0
      BY <2>2, <2>4, LivingTold, FieldTypes DEF Checks
    <3>3. QED
      BY <2>2, <3>1, <3>2, ExitAsIsLoses DEF Ways
  <2>5. QED
    BY <2>3, <2>4
<1>6. QED
  BY <1>1, <1>2, <1>3, <1>4, <1>5 DEF Exits

(* No other step makes a process exit, and none another one's.             *)
LEMMA OnlyExits ==
  ASSUME IInv, [Next]_vars, NEW p \in Proc, run[p] # "over", status'[p].how = "exited"
  PROVE  Exits(p)
<1>1. status \in [Proc -> [how : {"alive", "exited", "signaled"}, code : Nat]]
      /\ status[p].how = "alive"
  <2>1. TypeOK /\ Living(p)
    BY DEF IInv, Processes
  <2>2. status[p] = Alive
    BY <2>1 DEF Living
  <2>3. status[p].how = "alive"
    BY <2>2 DEF Alive
  <2>4. QED
    BY <2>1, <2>3 DEF TypeOK
<1>2. status' # status
  BY <1>1
<1>3. PICK q \in Proc : Step(q) \/ Mishap(q)
  BY <1>2 DEF Next, vars
<1>4. ASSUME Exits(q)
      PROVE  \A r \in Proc \ {q} : status'[r] = status[r]
  <2>1. \E m, code, way, s : Exit(q, m, code, way, s)
    BY <1>4, Zenon DEF Exits, AtexitFails, ForkFails, WaitFails, TestReturns, RawExit,
                       MainReturns, libipd_exit_rt
  <2>2. \E s : status' = [status EXCEPT ![q] = s]
    BY <2>1, Zenon DEF Exit
  <2>3. QED
    BY <1>1, <2>2
<1>5. ASSUME CheckStringNull(q) \/ Crash(q)
      PROVE  FALSE
  <2>1. status' = [status EXCEPT ![q] = Signaled]
    BY <1>5 DEF CheckStringNull, Crash, Dies
  <2>2. QED
    BY <1>1, <2>1 DEF Signaled
<1>6. CASE Exits(q)
  BY <1>1, <1>4, <1>6
<1>7. CASE ~ Exits(q)
  <2>1. \/ StartTesting(q) \/ (\E condition \in BOOLEAN : LogCheck(q, condition)) \/ LogError(q)
        \/ (\E t \in Text : PrintText(q, t) \/ alloc_tracef(q, t))
        \/ RunTest(q) \/ Fork(q) \/ CallReturns(q) \/ Reap(q)
    BY <1>3, <1>5, <1>7 DEF Step, Mishap, Exits
  <2>2. UNCHANGED status
    BY <2>1 DEF StartTesting, LogCheck, LogError, GoesOn, PrintText, alloc_tracef, Prints,
                RunTest, Fork, CallReturns, Reap
  <2>3. QED
    BY <1>2, <2>2
<1>8. QED
  BY <1>6, <1>7

(***************************************************************************)
(* What is lost of what a process has printed or traced when it exits: it  *)
(* is what the hook's _exit cuts off, and nothing else.                    *)
(***************************************************************************)
THEOREM OutputAlwaysKept == Spec => OutputKept
<1> DEFINE Keeps == \A p \in Proc, t \in Text :
                      /\ run[p] # "over" /\ status'[p].how = "exited"
                      /\ printed[t].by = p /\ shown[t] = 0
                      => (shown'[t] = 0 <=> EndsInHook(p)' /\ Lost(p, t)')
<1>1. IInv /\ [Next]_vars => Keeps
  BY OnlyExits, ExitsLose
<1>2. QED
  BY <1>1, Invariance, PTL DEF Spec, OutputKept

-----------------------------------------------------------------------------
(***************************************************************************)
(* What the statuses need to tell: what the program passes to exit is one, *)
(* and 0, 1 and 2, a forked test's outcomes, differ.  What is counted may  *)
(* be more than there are statuses.                                        *)
(***************************************************************************)
StatusesApart ==
  /\ ExitCodes \subseteq 0 .. StatusMod - 1
  /\ 2 < StatusMod

LEMMA FramesTold ==
  ASSUME NEW m \in Memory, NEW k \in 0 .. Len(m.tests)
  PROVE  FailsAt(m, k) \in Nat /\ ErrorsAt(m, k) \in Nat
<1>1. CASE k = 0
  BY <1>1 DEF FailsAt, ErrorsAt
<1>2. CASE k # 0
  <2>1. k \in 1 .. Len(m.tests) /\ m.tests \in Seq(Frame)
    BY <1>2, FieldTypes
  <2>2. m.tests[k] \in Frame
    BY <2>1
  <2>3. QED
    BY <1>2, <2>2 DEF FailsAt, ErrorsAt, Frame
<1>3. QED
  BY <1>1, <1>2

(* More is counted, and as much is seen.                                   *)
LEMMA SeenGrows ==
  ASSUME TypeOK, NEW p \in Proc, SeenIsCounted(p), NEW b \in Nat, NEW e \in Nat,
         NEW news \in SUBSET {"fail", "error"},
         "fail" \in news <=> b > 0, "error" \in news <=> e > 0,
         mem'[p].tests = mem[p].tests,
         mem'[p].fail_count = mem[p].fail_count + b,
         mem'[p].error_count = mem[p].error_count + e,
         seen'[p] = seen[p] \cup news
  PROVE  SeenIsCounted(p)'
<1> DEFINE m == mem[p]
<1> DEFINE n == Len(m.tests)
<1>1. m \in Memory
  BY DEF TypeOK
<1>2. n \in Nat /\ m.fail_count \in Nat /\ m.error_count \in Nat
  BY <1>1, FieldTypes
<1>3. FailsAt(m, n) \in Nat /\ ErrorsAt(m, n) \in Nat
  BY <1>1, <1>2, FramesTold
<1>4. Len(mem'[p].tests) = n
  OBVIOUS
<1>5. \A k : FailsAt(mem'[p], k) = FailsAt(m, k) /\ ErrorsAt(mem'[p], k) = ErrorsAt(m, k)
  BY DEF FailsAt, ErrorsAt
<1>6. Matches(seen[p], m.fail_count, FailsAt(m, n), m.error_count, ErrorsAt(m, n))
  BY DEF SeenIsCounted
<1>7. Matches(seen'[p], m.fail_count + b, FailsAt(m, n), m.error_count + e, ErrorsAt(m, n))
  BY <1>2, <1>3, <1>6 DEF Matches
<1>8. \A k \in 1 .. n : Matches(m.tests[k].before, m.tests[k].fails, FailsAt(m, k - 1),
                               m.tests[k].errors, ErrorsAt(m, k - 1))
  BY DEF SeenIsCounted
<1>9. QED
  BY <1>4, <1>5, <1>7, <1>8 DEF SeenIsCounted

(* Where nothing was counted as a failure or an error, nothing was seen.   *)
LEMMA SeenNothing ==
  ASSUME TypeOK, NEW p \in Proc, SeenIsCounted(p), Failures(mem[p]) = 0
  PROVE  seen[p] = {}
<1> DEFINE m == mem[p]
<1> DEFINE n == Len(m.tests)
<1>1. m \in Memory /\ seen[p] \in SUBSET {"fail", "error"}
  BY DEF TypeOK
<1>2. n \in Nat /\ m.fail_count \in Nat /\ m.error_count \in Nat
  BY <1>1, FieldTypes
<1>3. FailsAt(m, n) \in Nat /\ ErrorsAt(m, n) \in Nat
  BY <1>1, <1>2, FramesTold
<1>4. m.fail_count = 0 /\ m.error_count = 0
  BY <1>2 DEF Failures
<1>5. Matches(seen[p], m.fail_count, FailsAt(m, n), m.error_count, ErrorsAt(m, n))
  BY DEF SeenIsCounted
<1>6. "fail" \notin seen[p] /\ "error" \notin seen[p]
  BY <1>3, <1>4, <1>5 DEF Matches
<1>7. QED
  BY <1>1, <1>6

(* Who hides something goes on hiding it.                                  *)
LEMMA HidesBefore ==
  ASSUME IInv, NEW p \in Proc, run[p] \in Live, \A q \in Proc \ {p} : Same(q)
  PROVE  /\ \A q \in Proc : HidesSince(q) => HidesSince(q)'
         /\ \A q \in Proc \ {p} : Hides(q)' <=> Hides(q)
<1>1. ~ Hides(p)
  BY DEF IInv, Processes, Living, Live, Hides, ExitedWith, Alive
<1>2. \A q \in Proc \ {p} : Hides(q)' <=> Hides(q)
  BY DEF Same, Hides, ExitedWith
<1>3. ASSUME NEW q \in Proc, HidesSince(q)
      PROVE  HidesSince(q)'
  <2>1. PICK r \in q .. MaxProcs : Hides(r)
    BY <1>3 DEF HidesSince
  <2>2. r \in Proc \ {p}
    BY <1>1, <2>1, TestAssumption DEF Proc
  <2>3. Hides(r)'
    BY <1>2, <2>1, <2>2
  <2>4. QED
    BY <2>1, <2>3 DEF HidesSince
<1>4. QED
  BY <1>2, <1>3

LEMMA ToldStep ==
  ASSUME IInv, Told, NEW p \in Proc, run[p] \in Live, \A q \in Proc \ {p} : Same(q),
         ~ HidesSince(p)' /\ ~ HidesSince(p) => SeenIsCounted(p)', StatusOf(p)'
  PROVE  Told'
<1>1. /\ \A q \in Proc : HidesSince(q) => HidesSince(q)'
      /\ \A q \in Proc \ {p} : Hides(q)' <=> Hides(q)
  BY HidesBefore
<1>2. ASSUME NEW q \in Proc, ~ HidesSince(q)'
      PROVE  SeenIsCounted(q)'
  <2>1. CASE q = p
    BY <1>1, <1>2, <2>1
  <2>2. CASE q # p
    <3>1. Same(q) /\ SeenIsCounted(q)
      BY <1>1, <1>2, <2>2 DEF Told
    <3>2. QED
      BY <3>1 DEF Same, SeenIsCounted
  <2>3. QED
    BY <2>1, <2>2
<1>3. ASSUME NEW q \in Proc \ {p}
      PROVE  StatusOf(q)'
  <2>1. Same(q) /\ StatusOf(q) /\ (HidesSince(q) => HidesSince(q)') /\ (Hides(q)' <=> Hides(q))
    BY <1>1 DEF Told
  <2>2. Reported(q) => Reported(q)'
    BY <2>1 DEF Same, Reported
  <2>3. QED
    BY <2>1, <2>2 DEF Same, StatusOf, ExitedWith
<1>4. QED
  BY <1>2, <1>3 DEF Told

LEMMA GoesOnTells ==
  ASSUME IInv, Told, NEW p \in Proc, run[p] = "running", NEW m, NEW b \in Nat, NEW e \in Nat,
         NEW news \in SUBSET {"fail", "error"},
         "fail" \in news <=> b > 0, "error" \in news <=> e > 0,
         m.tests = mem[p].tests,
         m.fail_count = mem[p].fail_count + b, m.error_count = mem[p].error_count + e,
         GoesOn(p, m, news)
  PROVE  Told'
<1>1. /\ mem' = [mem EXCEPT ![p] = m] /\ mem'[p] = m
      /\ seen' = [seen EXCEPT ![p] = @ \cup news] /\ seen'[p] = seen[p] \cup news
      /\ UNCHANGED <<posix, run, child, status, printed, shown, left, summaries>>
  BY DEF IInv, TypeOK, GoesOn
<1>2. \A q \in Proc \ {p} : Same(q)
  BY <1>1 DEF Same, IInv, TypeOK
<1>3. ~ HidesSince(p) => SeenIsCounted(p)'
  BY <1>1, SeenGrows DEF Told, IInv
<1>4. StatusOf(p)'
  BY <1>1 DEF StatusOf
<1>5. QED
  BY <1>2, <1>3, <1>4, ToldStep DEF Live

LEMMA StatusKept ==
  ASSUME StatusesApart, NEW a \in Nat, a < StatusMod
  PROVE  a % StatusMod = a
<1>1. StatusMod \in Nat /\ StatusMod > 0
  BY TestAssumption
<1>2. QED
  BY <1>1

(* The process exits, and its status is what it should be.                 *)
LEMMA ExitTold ==
  ASSUME IInv, IInv', Told, StatusesApart, NEW p \in Proc, run[p] \in Live, NEW m \in Memory,
         NEW code \in Nat, NEW way \in Ways, NEW s, Exit(p, m, code, way, s),
         m.tests = mem[p].tests, SameCounts(mem[p], m),
         IF way = "returned" /\ p # Main THEN ~ Hooked(m) /\ code = Outcome(m)
         ELSE IF way = "libipd_exit"
         THEN ~ Cut(m) /\ (code % StatusMod = 0 => Unseen(m.fail_count))
         ELSE Hooked(m) \/ Failures(m) = 0
  PROVE  Told'
<1> DEFINE n == Emptied(m)
<1> DEFINE report == Exited(IF Cut(m) THEN Failures(m) ELSE code)
<1>1. /\ TypeOK
      /\ run' = [run EXCEPT ![p] = "over"]
      /\ mem' = [mem EXCEPT ![p] = n]
      /\ status' = [status EXCEPT ![p] = report]
      /\ summaries' = [summaries EXCEPT ![p] = @ + s + (IF Hooked(m) THEN 1 ELSE 0)]
      /\ left' = [left EXCEPT ![p] = way]
      /\ child' = [child EXCEPT ![p] = None]
      /\ UNCHANGED <<posix, printed, seen>>
  BY DEF IInv, Exit, Emptied
<1>2. n \in Memory /\ SameCounts(m, n) /\ n.tests = m.tests
  BY EmptiedTold
<1> HIDE DEF n, report
<1>3. /\ run'[p] = "over" /\ mem'[p] = n /\ status'[p] = report /\ left'[p] = way
      /\ seen'[p] = seen[p]
      /\ \A q \in Proc \ {p} : Same(q)
  BY <1>1 DEF TypeOK, Same
<1>4. ~ HidesSince(p) => SeenIsCounted(p)'
  <2>1. /\ mem'[p].tests = mem[p].tests
        /\ mem'[p].fail_count = mem[p].fail_count
        /\ mem'[p].error_count = mem[p].error_count
    BY <1>2, <1>3 DEF SameCounts
  <2>2. mem[p].fail_count \in Nat /\ mem[p].error_count \in Nat
    BY <1>1, FieldTypes DEF TypeOK
  <2>3. /\ mem'[p].fail_count = mem[p].fail_count + 0
        /\ mem'[p].error_count = mem[p].error_count + 0
        /\ seen'[p] = seen[p] \cup {}
    BY <1>3, <2>1, <2>2
  <2>4. "fail" \notin {} /\ "error" \notin {} /\ ~ (0 > 0) /\ 0 \in Nat
        /\ {} \in SUBSET {"fail", "error"}
    OBVIOUS
  <2>5. SeenIsCounted(p) => SeenIsCounted(p)'
    BY <1>1, <2>1, <2>3, <2>4, SeenGrows
  <2>6. QED
    BY <2>5 DEF Told
<1>5. /\ Failures(m) \in Nat /\ Failures(m) = Failures(mem[p]) /\ Failures(m) = Failures(mem'[p])
      /\ mem'[p].fail_count = m.fail_count
  BY <1>2, <1>3, FieldTypes DEF SameCounts, Failures
<1>6. /\ status'[p].how = "exited"
      /\ ExitedWith(p, 0)' <=> (IF Cut(m) THEN Failures(m) ELSE code) % StatusMod = 0
      /\ Hides(p)' <=> ExitedWith(p, 0)' /\ Failures(m) > 0
  BY <1>3, <1>5 DEF ExitedWith, report, Exited, Hides
<1>7. StatusOf(p)'
  <2>1. Reported(p)'
    <3>1. CASE way = "returned" /\ p # Main
      <4>1. ~ Cut(m) /\ code = Outcome(m)
        BY <3>1 DEF Cut
      <4>2. code < StatusMod
        BY <4>1, TestAssumption DEF Outcome, StatusesApart
      <4>3. code % StatusMod = code
        BY <4>2, StatusKept
      <4>4. m.fail_count \in Nat /\ m.error_count \in Nat
        BY FieldTypes
      <4>5. code = 0 => ~ (Failures(m) > 0)
        BY <4>1, <4>4 DEF Outcome, Failures
      <4>6. ~ Hides(p)'
        BY <1>6, <4>1, <4>3, <4>5
      <4>7. QED
        BY <1>3, <3>1, <4>6 DEF Reported
    <3>2. CASE way = "libipd_exit"
      <4>1. ~ Cut(m) /\ (code % StatusMod = 0 => Unseen(m.fail_count))
        BY <3>2
      <4>2. Hides(p)' => Unseen(mem'[p].fail_count)
        BY <1>5, <1>6, <4>1
      <4>3. QED
        BY <1>3, <3>2, <4>2 DEF Reported
    <3>3. CASE ~ (way = "returned" /\ p # Main) /\ way # "libipd_exit"
      <4>1. Failures(m) > 0 => Cut(m)
        BY <1>5, <3>3 DEF Cut
      <4>2. Failures(mem'[p]) > 0 => (Hides(p)' <=> Unseen(Failures(mem'[p])))
        BY <1>5, <1>6, <4>1 DEF Unseen
      <4>3. QED
        BY <1>3, <3>3, <4>2 DEF Reported
    <3>4. QED
      BY <3>1, <3>2, <3>3
  <2>2. ExitedWith(p, 0)' /\ seen'[p] # {} => HidesSince(p)'
    <3> SUFFICES ASSUME ~ HidesSince(p)', ExitedWith(p, 0)'
                 PROVE  seen'[p] = {}
      OBVIOUS
    <3>1. ~ Hides(p)'
      <4>1. p \in p .. MaxProcs
        BY TestAssumption DEF Proc
      <4>2. QED
        BY <4>1 DEF HidesSince
    <3>2. Failures(mem[p]) = 0
      BY <1>5, <1>6, <3>1
    <3>3. SeenIsCounted(p)
      BY <1>3, HidesBefore DEF Told
    <3>4. QED
      BY <1>1, <1>3, <3>2, <3>3, SeenNothing
  <2>3. left'[p] = "returned" /\ p # Main => ExitedWith(p, Outcome(mem[p]))'
    <3> SUFFICES ASSUME way = "returned", p # Main
                 PROVE  ExitedWith(p, Outcome(mem[p]))'
      BY <1>3
    <3>1. ~ Cut(m) /\ code = Outcome(m) /\ Outcome(mem'[p]) = Outcome(m)
      BY <1>2, <1>3 DEF Cut, Outcome, SameCounts
    <3>2. code < StatusMod
      BY <3>1, TestAssumption DEF Outcome, StatusesApart
    <3>3. code % StatusMod = code
      BY <3>2, StatusKept
    <3>4. QED
      BY <1>3, <3>1, <3>3 DEF ExitedWith, report, Exited
  <2>4. QED
    BY <2>1, <2>2, <2>3 DEF StatusOf
<1>8. QED
  BY <1>3, <1>4, <1>7, ToldStep

(* Without a hook to run, there is nothing that it could have told.        *)
LEMMA UnhookedTold ==
  ASSUME IInv, NEW p \in Proc, run[p] \in Live, ~ Installed(mem[p], Hook)
  PROVE  mem[p].fail_count = 0 /\ Failures(mem[p]) = 0
<1>1. mem[p] \in Memory /\ ~ (Checks(mem[p]) > 0)
  BY LivingTold
<1>2. QED
  BY <1>1, FieldTypes DEF Checks, Failures

LEMMA ExitAsIsTells ==
  ASSUME IInv, IInv', Told, StatusesApart, NEW p \in Proc, run[p] \in Live, NEW code \in Nat,
         NEW way \in Ways \ {"libipd_exit"}, Exit(p, mem[p], code, way, 0),
         p = Main \/ way # "returned"
  PROVE  Told'
<1>1. ~ Hooked(mem[p]) => mem[p].fail_count = 0 /\ Failures(mem[p]) = 0
  BY LivingTold, UnhookedTold
<1>2. Hooked(mem[p]) \/ Failures(mem[p]) = 0
  BY <1>1
<1>3. QED
  BY <1>2, LivingTold, ExitTold

LEMMA ExitsTell ==
  ASSUME IInv, IInv', Told, StatusesApart, NEW p \in Proc,
         \/ AtexitFails(p) \/ ForkFails(p) \/ WaitFails(p)
         \/ \E code \in ExitCodes : RawExit(p, code)
         \/ \E code \in ExitCodes : p = Main /\ MainReturns(code)
  PROVE  Told'
<1>1. \A code \in ExitCodes : code \in Nat
  BY TestAssumption
<1>2. CASE AtexitFails(p)
  <2>1. run[p] \in Live /\ Exit(p, mem[p], 10, "setup", 0)
    BY <1>2 DEF AtexitFails, Running, Live
  <2>2. "setup" \in Ways \ {"libipd_exit"} /\ 10 \in Nat /\ "setup" # "returned"
    BY DEF Ways
  <2>3. QED
    BY <2>1, <2>2, ExitAsIsTells
<1>3. CASE ForkFails(p) \/ WaitFails(p)
  <2>1. run[p] \in Live /\ Exit(p, mem[p], 11, "os error", 0)
    BY <1>3 DEF ForkFails, WaitFails, Live
  <2>2. "os error" \in Ways \ {"libipd_exit"} /\ 11 \in Nat /\ "os error" # "returned"
    BY DEF Ways
  <2>3. QED
    BY <2>1, <2>2, ExitAsIsTells
<1>4. CASE \E code \in ExitCodes : RawExit(p, code)
  BY <1>1, <1>4, ExitAsIsTells DEF RawExit, Running, Live, Ways
<1>5. CASE \E code \in ExitCodes : p = Main /\ MainReturns(code)
  BY <1>1, <1>5, ExitAsIsTells DEF MainReturns, Running, Live, Ways
<1>6. QED
  BY <1>2, <1>3, <1>4, <1>5

LEMMA TestReturnsTells ==
  ASSUME IInv, IInv', Told, StatusesApart, NEW p \in Proc, TestReturns(p)
  PROVE  Told'
<1> DEFINE m == Disabled(mem[p])
<1> DEFINE code == Outcome(mem[p])
<1>1. /\ run[p] = "running" /\ p # Main /\ Exit(p, m, code, "returned", 0)
  BY DEF TestReturns, Running
<1>2. run[p] \in Live /\ "returned" \in Ways /\ mem[p] \in Memory
  BY <1>1, LivingTold DEF Live, Ways
<1>3. /\ m \in Memory /\ SameCounts(mem[p], m) /\ m.tests = mem[p].tests /\ ~ Hooked(m)
  BY <1>2, DisabledTold
<1> HIDE DEF m
<1>4. mem[p].fail_count \in Nat /\ mem[p].error_count \in Nat
  BY <1>2, FieldTypes
<1>5. code = Outcome(m) /\ code \in 0 .. 2
  BY <1>3 DEF Outcome, SameCounts
<1> HIDE DEF code
<1>6. code \in Nat
  BY <1>5
<1>7. QED
  BY <1>1, <1>2, <1>3, <1>5, <1>6, ExitTold

LEMMA LibipdExitTells ==
  ASSUME IInv, IInv', Told, StatusesApart, NEW p \in Proc, NEW result \in ExitCodes,
         libipd_exit_rt(p, result)
  PROVE  Told'
<1>1. run[p] \in Live /\ "libipd_exit" \in Ways /\ result \in Nat
  BY TestAssumption DEF libipd_exit_rt, Running, Live, Ways
<1>2. CASE ~ mem[p].tests_enabled
  <2>1. Exit(p, mem[p], result, "libipd_exit", 0)
    BY <1>2 DEF libipd_exit_rt
  <2>2. mem[p].fail_count = 0 /\ Failures(mem[p]) = 0
    BY <1>1, <1>2, LivingTold, UnhookedTold
  <2>3. ~ Cut(mem[p]) /\ Unseen(mem[p].fail_count)
    BY <2>2, TestAssumption DEF Cut, Unseen
  <2>4. QED
    BY <1>1, <2>1, <2>3, LivingTold, ExitTold
<1>3. CASE mem[p].tests_enabled
  <2> DEFINE m == Disabled(mem[p])
  <2> DEFINE code == IF result = 0 THEN mem[p].fail_count ELSE result
  <2>1. Exit(p, m, code, "libipd_exit", 1) /\ mem[p] \in Memory
    BY <1>1, <1>3, LivingTold DEF libipd_exit_rt, Disabled
  <2>2. /\ m \in Memory /\ SameCounts(mem[p], m) /\ m.tests = mem[p].tests /\ ~ Hooked(m)
    BY <2>1, DisabledTold
  <2> HIDE DEF m
  <2>3. code \in Nat
    BY <1>1, <2>1, FieldTypes
  <2>4. code % StatusMod = 0 => Unseen(m.fail_count)
    <3>1. CASE result = 0
      BY <2>2, <3>1 DEF SameCounts, Unseen
    <3>2. CASE result # 0
      <4>1. result < StatusMod
        BY TestAssumption DEF StatusesApart
      <4>2. code % StatusMod = result
        BY <1>1, <3>2, <4>1, StatusKept
      <4>3. QED
        BY <3>2, <4>2
    <3>3. QED
      BY <3>1, <3>2
  <2> HIDE DEF code
  <2>5. ~ Cut(m)
    BY <2>2 DEF Cut
  <2>6. "libipd_exit" # "returned"
    OBVIOUS
  <2>7. QED
    BY <1>1, <2>1, <2>2, <2>3, <2>4, <2>5, <2>6, ExitTold
<1>4. QED
  BY <1>2, <1>3

(* The process dies: its status tells of a signal.                         *)
LEMMA DiesTells ==
  ASSUME IInv, Told, NEW p \in Proc, run[p] \in Live, NEW m \in Memory,
         NEW b \in Nat, NEW news \in SUBSET {"fail", "error"}, NEW way \in {"abort", "crash"},
         "fail" \in news <=> b > 0, "error" \notin news, Dies(p, m, way),
         m.tests = mem[p].tests,
         m.fail_count = mem[p].fail_count + b, m.error_count = mem[p].error_count,
         seen' = [seen EXCEPT ![p] = @ \cup news]
  PROVE  Told'
<1> DEFINE n == Emptied(m)
<1>1. /\ TypeOK
      /\ run' = [run EXCEPT ![p] = "over"]
      /\ mem' = [mem EXCEPT ![p] = n]
      /\ status' = [status EXCEPT ![p] = Signaled]
      /\ left' = [left EXCEPT ![p] = way]
      /\ child' = [child EXCEPT ![p] = None]
      /\ UNCHANGED <<posix, printed, shown, summaries>>
  BY DEF IInv, Dies, Emptied
<1>2. n \in Memory /\ SameCounts(m, n) /\ n.tests = m.tests
  BY EmptiedTold
<1> HIDE DEF n
<1>3. /\ mem'[p] = n /\ status'[p] = Signaled /\ seen'[p] = seen[p] \cup news
      /\ left'[p] = way
      /\ \A q \in Proc \ {p} : Same(q)
  BY <1>1 DEF TypeOK, Same
<1>4. SeenIsCounted(p) => SeenIsCounted(p)'
  <2>1. mem[p].error_count \in Nat
    BY <1>1, FieldTypes DEF TypeOK
  <2>2. /\ mem'[p].tests = mem[p].tests
        /\ mem'[p].fail_count = mem[p].fail_count + b
        /\ mem'[p].error_count = mem[p].error_count + 0
    BY <1>2, <1>3, <2>1 DEF SameCounts
  <2>3. "error" \in news <=> 0 > 0
    OBVIOUS
  <2>4. QED
    BY <1>1, <1>3, <2>2, <2>3, SeenGrows
<1>5. StatusOf(p)'
  <2>1. left'[p] # "returned"
    BY <1>3
  <2>2. ~ ExitedWith(p, 0)' /\ status'[p].how # "exited"
    BY <1>3 DEF ExitedWith, Signaled
  <2>3. Reported(p)'
    BY <2>1, <2>2 DEF Reported, Hides
  <2>4. QED
    BY <2>1, <2>2, <2>3 DEF StatusOf
<1>6. QED
  BY <1>3, <1>4, <1>5, ToldStep DEF Told

(* Steps that go on or die: nothing is seen that is not counted.           *)
LEMMA LogsTell ==
  ASSUME IInv, Told, NEW p \in Proc,
         \/ StartTesting(p) \/ LogError(p) \/ CheckStringNull(p)
         \/ \E condition \in BOOLEAN : LogCheck(p, condition)
  PROVE  Told'
<1> DEFINE n == start_testing(mem[p])
<1>1. run[p] = "running" /\ run[p] \in Live
  BY DEF StartTesting, LogError, CheckStringNull, LogCheck, Running, Live
<1>2. mem[p] \in Memory /\ mem[p].fail_count \in Nat /\ mem[p].error_count \in Nat
  BY <1>1, LivingTold, FieldTypes
<1>3. SameCounts(mem[p], n) /\ n.tests = mem[p].tests
  BY <1>2, StartTold
<1>4. /\ Adds(n, log_check(mem[p], TRUE), 1, 0, 0)
      /\ Adds(n, log_check(mem[p], FALSE), 0, 1, 0)
      /\ Adds(n, log_error(mem[p]), 0, 0, 1)
  BY <1>2, LogTold
<1> HIDE DEF n
<1>5. /\ n.fail_count = mem[p].fail_count + 0
      /\ n.error_count = mem[p].error_count + 0
  BY <1>2, <1>3 DEF SameCounts
<1>6. "fail" \notin {} /\ "error" \notin {} /\ ~ (0 > 0) /\ 1 > 0 /\ 0 \in Nat /\ 1 \in Nat
      /\ {} \in SUBSET {"fail", "error"} /\ {"fail"} \in SUBSET {"fail", "error"}
      /\ {"error"} \in SUBSET {"fail", "error"}
      /\ "fail" \in {"fail"} /\ "fail" \notin {"error"}
      /\ "error" \in {"error"} /\ "error" \notin {"fail"}
  OBVIOUS
<1>7. CASE StartTesting(p)
  <2>1. GoesOn(p, n, {})
    BY <1>7 DEF StartTesting, n
  <2>2. QED
    BY <1>1, <1>3, <1>5, <1>6, <2>1, GoesOnTells
<1>8. CASE LogError(p)
  <2> DEFINE m == log_error(mem[p])
  <2>1. GoesOn(p, m, {"error"})
    BY <1>8 DEF LogError
  <2>2. /\ m.tests = mem[p].tests
        /\ m.fail_count = mem[p].fail_count + 0 /\ m.error_count = mem[p].error_count + 1
    BY <1>2, <1>3, <1>4 DEF Adds, SameCounts
  <2> HIDE DEF m
  <2>3. QED
    BY <1>1, <1>6, <2>1, <2>2, GoesOnTells
<1>9. ASSUME NEW condition \in BOOLEAN, LogCheck(p, condition) PROVE Told'
  <2> DEFINE m == log_check(mem[p], condition)
  <2>1. GoesOn(p, m, IF condition THEN {} ELSE {"fail"})
    BY <1>9 DEF LogCheck
  <2>2. CASE condition
    <3>1. /\ m.tests = mem[p].tests
          /\ m.fail_count = mem[p].fail_count + 0 /\ m.error_count = mem[p].error_count + 0
      BY <1>2, <1>3, <1>4, <2>2 DEF Adds, SameCounts
    <3>2. GoesOn(p, m, {})
      BY <2>1, <2>2
    <3> HIDE DEF m
    <3>3. QED
      BY <1>1, <1>6, <3>1, <3>2, GoesOnTells
  <2>3. CASE ~ condition
    <3>1. /\ m.tests = mem[p].tests
          /\ m.fail_count = mem[p].fail_count + 1 /\ m.error_count = mem[p].error_count + 0
      BY <1>2, <1>3, <1>4, <2>3 DEF Adds, SameCounts
    <3>2. GoesOn(p, m, {"fail"})
      BY <2>1, <2>3
    <3> HIDE DEF m
    <3>3. QED
      BY <1>1, <1>6, <3>1, <3>2, GoesOnTells
  <2>4. QED
    BY <2>2, <2>3
<1>10. CASE CheckStringNull(p)
  <2> DEFINE m == log_check(mem[p], FALSE)
  <2>1. Dies(p, m, "abort") /\ seen' = [seen EXCEPT ![p] = @ \cup {"fail"}]
    BY <1>10 DEF CheckStringNull
  <2>2. /\ m \in Memory /\ m.tests = mem[p].tests
        /\ m.fail_count = mem[p].fail_count + 1 /\ m.error_count = mem[p].error_count
    <3>1. /\ m \in Memory /\ m.tests = n.tests
          /\ m.fail_count = n.fail_count + 1 /\ m.error_count = n.error_count + 0
      BY <1>4 DEF Adds
    <3> HIDE DEF m
    <3>2. m.tests = mem[p].tests /\ m.fail_count = mem[p].fail_count + 1
      BY <1>2, <1>3, <1>5, <3>1
    <3>3. m.error_count = mem[p].error_count
      BY <1>2, <1>5, <3>1
    <3>4. QED
      BY <3>1, <3>2, <3>3
  <2> HIDE DEF m
  <2>3. QED
    BY <1>1, <1>6, <2>1, <2>2, DiesTells
<1>11. QED
  BY <1>7, <1>8, <1>9, <1>10

LEMMA CrashTells ==
  ASSUME IInv, Told, NEW p \in Proc, Crash(p)
  PROVE  Told'
<1>1. run[p] \in Live /\ Dies(p, mem[p], "crash")
  BY DEF Crash, Live
<1>2. mem[p] \in Memory /\ mem[p].fail_count = mem[p].fail_count + 0
  BY <1>1, LivingTold, FieldTypes
<1>3. seen' = [seen EXCEPT ![p] = @ \cup {}]
  BY DEF Crash, IInv, TypeOK
<1>4. "fail" \notin {} /\ "error" \notin {} /\ ~ (0 > 0) /\ {} \in SUBSET {"fail", "error"}
  OBVIOUS
<1>5. QED
  BY <1>1, <1>2, <1>3, <1>4, DiesTells

(* Steps that change no count and see nothing.                             *)
LEMMA QuietTells ==
  ASSUME IInv, Told, NEW p \in Proc, run[p] \in Live, NEW m, mem' = [mem EXCEPT ![p] = m],
         m.tests = mem[p].tests, SameCounts(mem[p], m),
         run' = [run EXCEPT ![p] = run'[p]], run'[p] # "over",
         UNCHANGED <<child, status, left, seen, summaries>>
  PROVE  Told'
<1>1. /\ mem'[p] = m /\ seen'[p] = seen[p]
      /\ \A q \in Proc \ {p} : Same(q)
  BY DEF IInv, TypeOK, Same
<1>2. SeenIsCounted(p) => SeenIsCounted(p)'
  BY <1>1 DEF SeenIsCounted, SameCounts, FailsAt, ErrorsAt
<1>3. StatusOf(p)'
  BY DEF StatusOf
<1>4. QED
  BY <1>1, <1>2, <1>3, ToldStep DEF Told

LEMMA PrintsTell ==
  ASSUME IInv, Told, NEW p \in Proc, NEW t \in Text, PrintText(p, t) \/ alloc_tracef(p, t)
  PROVE  Told'
<1>1. /\ run[p] = "running" /\ run[p] \in Live /\ mem[p] \in Memory
      /\ UNCHANGED <<run, child, status, left, seen, summaries>>
  BY DEF PrintText, alloc_tracef, Prints, Running, Live, IInv, TypeOK
<1>2. run' = [run EXCEPT ![p] = run'[p]] /\ run'[p] # "over"
  BY <1>1 DEF IInv, TypeOK
<1>3. CASE PrintText(p, t)
  <2> DEFINE m == [mem[p] EXCEPT !.stdout = @ \cup {t}]
  <2>1. mem' = [mem EXCEPT ![p] = m]
    BY <1>3 DEF PrintText, IInv, TypeOK
  <2>2. m.tests = mem[p].tests /\ SameCounts(mem[p], m)
    BY <1>1 DEF Memory, SameCounts
  <2> HIDE DEF m
  <2>3. QED
    BY <1>1, <1>2, <2>1, <2>2, QuietTells
<1>4. CASE alloc_tracef(p, t)
  <2>1. PICK n \in {mem[p], Installs(mem[p], Close)} :
          mem' = [mem EXCEPT ![p] = [n EXCEPT !.trace_is_init = TRUE, !.trace_out = @ \cup {t}]]
    BY <1>4 DEF alloc_tracef, Close
  <2>2. n \in Memory /\ SameCounts(mem[p], n) /\ n.tests = mem[p].tests
    <3>1. CASE n = mem[p]
      BY <1>1, <3>1 DEF SameCounts
    <3>2. CASE n = Installs(mem[p], Close)
      BY <1>1, <3>2, InstallsTold
    <3>3. QED
      BY <3>1, <3>2
  <2> DEFINE m == [n EXCEPT !.trace_is_init = TRUE, !.trace_out = @ \cup {t}]
  <2>3. mem' = [mem EXCEPT ![p] = m]
    BY <2>1
  <2>4. SameCounts(mem[p], m) /\ m.tests = mem[p].tests
    BY <2>2 DEF Memory, SameCounts
  <2> HIDE DEF m
  <2>5. QED
    BY <1>1, <1>2, <2>3, <2>4, QuietTells
<1>5. QED
  BY <1>3, <1>4

LEMMA ForkCallTells ==
  ASSUME IInv, Told, NEW p \in Proc, RunTest(p), posix
  PROVE  Told'
<1> DEFINE n == start_testing(mem[p])
<1> DEFINE m == BeforeFork(n)
<1>1. /\ run[p] = "running" /\ run[p] \in Live /\ mem[p] \in Memory
      /\ run' = [run EXCEPT ![p] = "forking"]
      /\ mem' = [mem EXCEPT ![p] = m]
      /\ UNCHANGED <<child, status, left, seen, summaries>>
  BY DEF IInv, TypeOK, RunTest, Running, Live
<1>2. n \in Memory /\ SameCounts(mem[p], n) /\ n.tests = mem[p].tests
  BY <1>1, StartTold
<1> HIDE DEF n
<1>3. SameCounts(mem[p], m) /\ m.tests = mem[p].tests
  BY <1>2, FlushTold DEF BeforeFork, SameCounts
<1> HIDE DEF m
<1>4. run' = [run EXCEPT ![p] = run'[p]] /\ run'[p] # "over"
  BY <1>1 DEF IInv, TypeOK
<1>5. QED
  BY <1>1, <1>3, <1>4, QuietTells

(* A test is called: what was seen and counted before it is put away.      *)
LEMMA CallTells ==
  ASSUME IInv, Told, NEW p \in Proc, RunTest(p), ~ posix
  PROVE  Told'
<1> DEFINE n == start_testing(mem[p])
<1> DEFINE f == [fails |-> n.fail_count, errors |-> n.error_count, before |-> seen[p]]
<1> DEFINE e == BeforeFork(n)
<1> DEFINE fs == Append(e.tests, f)
<1> DEFINE m == [e EXCEPT !.tests = fs]
<1>1. /\ TypeOK /\ run[p] = "running" /\ run'[p] = "running"
      /\ mem' = [mem EXCEPT ![p] = m]
      /\ seen' = [seen EXCEPT ![p] = {}]
      /\ run' = [run EXCEPT ![p] = run[p]]
      /\ UNCHANGED <<posix, child, status, printed, left, summaries>>
  BY DEF IInv, TypeOK, RunTest, Running
<1>2. mem[p] \in Memory /\ mem[p].fail_count \in Nat /\ mem[p].error_count \in Nat
  BY <1>1, FieldTypes DEF TypeOK
<1>3. n \in Memory /\ SameCounts(mem[p], n) /\ n.tests = mem[p].tests
  BY <1>2, StartTold
<1> HIDE DEF n
<1>4. /\ f.fails = mem[p].fail_count /\ f.errors = mem[p].error_count
      /\ f.before = seen[p] /\ f \in Frame
  BY <1>1, <1>2, <1>3 DEF SameCounts, TypeOK, Frame
<1> HIDE DEF f
<1>5. e \in Memory /\ SameCounts(mem[p], e) /\ e.tests = mem[p].tests
  BY <1>3, FlushTold DEF BeforeFork, SameCounts
<1> HIDE DEF e
<1> DEFINE k0 == Len(mem[p].tests)
<1>6. /\ fs \in Seq(Frame) /\ Len(fs) = k0 + 1 /\ k0 \in Nat /\ fs[k0 + 1] = f
      /\ \A k \in 1 .. k0 : fs[k] = mem[p].tests[k]
  BY <1>2, <1>4, <1>5, FieldTypes
<1> HIDE DEF fs
<1>7. SameCounts(e, m) /\ m.tests = fs
  BY <1>5, <1>6, ReturnedTold
<1> HIDE DEF m
<1>8. /\ mem'[p] = m /\ seen'[p] = {}
      /\ \A q \in Proc \ {p} : Same(q)
  BY <1>1 DEF TypeOK, Same
<1>9. ASSUME SeenIsCounted(p)
      PROVE  SeenIsCounted(p)'
  <2>1. m.fail_count = mem[p].fail_count /\ m.error_count = mem[p].error_count
    BY <1>5, <1>7 DEF SameCounts
  <2>2. /\ FailsAt(m, k0 + 1) = mem[p].fail_count
        /\ ErrorsAt(m, k0 + 1) = mem[p].error_count
    BY <1>4, <1>6, <1>7 DEF FailsAt, ErrorsAt
  <2>3. \A k \in 0 .. k0 : /\ FailsAt(m, k) = FailsAt(mem[p], k)
                          /\ ErrorsAt(m, k) = ErrorsAt(mem[p], k)
    BY <1>6, <1>7 DEF FailsAt, ErrorsAt
  <2>4. Matches({}, m.fail_count, FailsAt(m, k0 + 1), m.error_count, ErrorsAt(m, k0 + 1))
    BY <1>2, <2>1, <2>2 DEF Matches
  <2>5. ASSUME NEW k \in 1 .. k0 + 1
        PROVE  Matches(m.tests[k].before, m.tests[k].fails, FailsAt(m, k - 1),
                       m.tests[k].errors, ErrorsAt(m, k - 1))
    <3>1. k - 1 \in 0 .. k0 /\ (k = k0 + 1 \/ k \in 1 .. k0)
      BY <1>6
    <3>2. CASE k = k0 + 1
      <4>1. k - 1 = k0
        BY <1>6, <3>2
      <4>2. Matches(seen[p], mem[p].fail_count, FailsAt(mem[p], k0),
                    mem[p].error_count, ErrorsAt(mem[p], k0))
        BY <1>9 DEF SeenIsCounted
      <4>3. m.tests[k] = f
        BY <1>6, <1>7, <3>2
      <4>4. FailsAt(m, k0) = FailsAt(mem[p], k0) /\ ErrorsAt(m, k0) = ErrorsAt(mem[p], k0)
        BY <1>6, <2>3
      <4>5. QED
        BY <1>4, <4>1, <4>2, <4>3, <4>4
    <3>3. CASE k \in 1 .. k0
      <4>1. Matches(mem[p].tests[k].before, mem[p].tests[k].fails, FailsAt(mem[p], k - 1),
                    mem[p].tests[k].errors, ErrorsAt(mem[p], k - 1))
        BY <1>9, <3>3 DEF SeenIsCounted
      <4>2. m.tests[k] = mem[p].tests[k]
        BY <1>6, <1>7, <3>3
      <4>3. QED
        BY <2>3, <3>1, <4>1, <4>2
    <3>4. QED
      BY <3>1, <3>2, <3>3
  <2>6. Len(m.tests) = k0 + 1
    BY <1>6, <1>7
  <2> HIDE DEF k0
  <2>7. QED
    BY <1>8, <2>4, <2>5, <2>6 DEF SeenIsCounted
<1>10. StatusOf(p)'
  BY <1>1 DEF StatusOf
<1>11. QED
  BY <1>1, <1>8, <1>9, <1>10, ToldStep DEF Told, Live

LEMMA ForkTells ==
  ASSUME IInv, Told, NEW p \in Proc, Fork(p)
  PROVE  Told'
<1> DEFINE m == Forked(mem[p])
<1>1. PICK c \in Proc : c = FirstOf(Unborn) /\ run[c] = "unborn"
  BY FirstTold DEF Fork, IInv, Processes
<1>2. /\ TypeOK /\ run[p] = "forking"
      /\ mem' = [mem EXCEPT ![c] = m]
      /\ run' = [run EXCEPT ![p] = "waiting", ![c] = "running"]
      /\ child' = [child EXCEPT ![p] = c]
      /\ UNCHANGED <<posix, status, printed, shown, left, seen, summaries>>
  BY <1>1 DEF Fork, IInv
<1>3. /\ m.fail_count = 0 /\ m.error_count = 0 /\ m.tests = <<>>
  <2>1. mem[p] \in Memory /\ mem[p].tests = <<>>
    BY <1>2 DEF TypeOK, IInv, Processes, Forks
  <2>2. QED
    BY <2>1, ForkedTold
<1> HIDE DEF m
<1>4. c # p /\ seen[c] = {}
  BY <1>1, <1>2 DEF IInv, Processes, NotYet
<1>5. /\ mem'[c] = m /\ run'[c] = "running" /\ seen'[c] = {} /\ run'[p] = "waiting"
      /\ \A q \in Proc \ {c} : mem'[q] = mem[q] /\ seen'[q] = seen[q]
      /\ \A q \in Proc \ {c, p} : run'[q] = run[q]
  BY <1>1, <1>2, <1>4 DEF TypeOK
<1>6. \A q \in Proc : (Hides(q)' <=> Hides(q)) /\ (HidesSince(q)' <=> HidesSince(q))
  <2>1. \A q \in Proc \ {c} : Hides(q)' <=> Hides(q)
    BY <1>2, <1>5 DEF Hides, ExitedWith
  <2>2. ~ Hides(c) /\ ~ Hides(c)'
    BY <1>1, <1>2 DEF Hides, ExitedWith, IInv, Processes, Living, Alive
  <2>3. \A q \in Proc : Hides(q)' <=> Hides(q)
    BY <2>1, <2>2
  <2>4. \A q \in Proc : \A r \in q .. MaxProcs : r \in Proc
    BY TestAssumption DEF Proc
  <2>5. QED
    BY <2>3, <2>4 DEF HidesSince
<1>7. ASSUME NEW q \in Proc, ~ HidesSince(q)'
      PROVE  SeenIsCounted(q)'
  <2>1. CASE q # c
    BY <1>5, <1>6, <1>7, <2>1 DEF Told, SeenIsCounted
  <2>2. CASE q = c
    <3>1. /\ Len(mem'[c].tests) = 0 /\ mem'[c].fail_count = 0 /\ mem'[c].error_count = 0
      BY <1>3, <1>5
    <3>2. FailsAt(mem'[c], 0) = 0 /\ ErrorsAt(mem'[c], 0) = 0
      BY DEF FailsAt, ErrorsAt
    <3>3. Matches({}, 0, 0, 0, 0)
      BY DEF Matches
    <3>4. Matches(seen'[c], mem'[c].fail_count, FailsAt(mem'[c], Len(mem'[c].tests)),
                  mem'[c].error_count, ErrorsAt(mem'[c], Len(mem'[c].tests)))
      BY <1>5, <3>1, <3>2, <3>3
    <3>5. 1 .. Len(mem'[c].tests) = {}
      BY <3>1
    <3>6. SeenIsCounted(c)'
      BY <3>4, <3>5 DEF SeenIsCounted
    <3>7. QED
      BY <2>2, <3>6
  <2>3. QED
    BY <2>1, <2>2
<1>8. ASSUME NEW q \in Proc
      PROVE  StatusOf(q)'
  <2>1. CASE q = c \/ q = p
    BY <1>5, <2>1 DEF StatusOf
  <2>2. CASE q # c /\ q # p
    <3>1. Reported(q) => Reported(q)'
      BY <1>2, <1>5, <1>6, <2>2 DEF Reported
    <3>2. QED
      BY <1>2, <1>5, <1>6, <2>2, <3>1 DEF Told, StatusOf, ExitedWith
  <2>3. QED
    BY <2>1, <2>2
<1>9. QED
  BY <1>7, <1>8 DEF Told

(***************************************************************************)
(* Unless it, or a later fork, hides something, what waitpid reports of a  *)
(* forked test is what has become of it.                                   *)
(***************************************************************************)
LEMMA StatusIsTrue ==
  ASSUME IInv, Told, posix, NEW c \in Proc \ {Main}, run[c] = "over", ~ HidesSince(c)
  PROVE  Verdict(status[c]) = Truth(c)
<1>1. /\ mem[c] \in Memory /\ seen[c] \in SUBSET {"fail", "error"}
      /\ status[c] \in [how : {"alive", "exited", "signaled"}, code : Nat]
  BY DEF IInv, TypeOK
<1>2. SeenIsCounted(c) /\ StatusOf(c) /\ mem[c].tests = <<>>
  BY DEF Told, IInv, Processes, Forks
<1>3. mem[c].fail_count \in Nat /\ mem[c].error_count \in Nat
  BY <1>1, FieldTypes
<1>4. "fail" \in seen[c] <=> mem[c].fail_count > 0
  BY <1>2, <1>3 DEF SeenIsCounted, Matches, FailsAt, ErrorsAt
<1>5. "error" \in seen[c] <=> mem[c].error_count > 0
  BY <1>2, <1>3 DEF SeenIsCounted, Matches, FailsAt, ErrorsAt
<1>6. CASE left[c] = "returned"
  <2>1. status[c] = [how |-> "exited", code |-> Outcome(mem[c])]
    BY <1>2, <1>6 DEF StatusOf, ExitedWith
  <2>2. Truth(c) = Worst(seen[c])
    BY <1>6 DEF Truth
  <2>3. CASE mem[c].error_count > 0
    BY <1>5, <2>1, <2>2, <2>3 DEF Verdict, Outcome, Worst
  <2>4. CASE ~ (mem[c].error_count > 0) /\ mem[c].fail_count > 0
    <3>1. seen[c] = {"fail"}
      BY <1>1, <1>4, <1>5, <2>4
    <3>2. QED
      BY <2>1, <2>2, <2>4, <3>1 DEF Verdict, Outcome, Worst
  <2>5. CASE ~ (mem[c].error_count > 0) /\ ~ (mem[c].fail_count > 0)
    <3>1. seen[c] = {}
      BY <1>1, <1>4, <1>5, <2>5
    <3>2. QED
      BY <2>1, <2>2, <2>5, <3>1 DEF Verdict, Outcome, Worst
  <2>6. QED
    BY <2>3, <2>4, <2>5
<1>7. CASE left[c] # "returned" /\ Verdict(status[c]) = "pass"
  <2>1. status[c].how = "exited" /\ status[c].code = 0
    BY <1>7 DEF Verdict
  <2>2. ExitedWith(c, 0)
    BY <1>1, <2>1 DEF ExitedWith
  <2>3. seen[c] = {}
    BY <1>2, <2>2 DEF StatusOf
  <2>4. QED
    BY <1>7, <2>3 DEF Truth, Worst
<1>8. CASE left[c] # "returned" /\ Verdict(status[c]) # "pass"
  BY <1>8 DEF Truth
<1>9. QED
  BY <1>6, <1>7, <1>8

LEMMA ReapTells ==
  ASSUME IInv, Told, NEW p \in Proc, Reap(p)
  PROVE  Told'
<1> DEFINE verdict == Verdict(status[child[p]])
<1> DEFINE truth == Truth(child[p])
<1> DEFINE m == Count(mem[p], verdict)
<1> DEFINE b == IF verdict = "fail" THEN 1 ELSE 0
<1> DEFINE e == IF verdict = "error" THEN 1 ELSE 0
<1> DEFINE news == {truth} \ {"pass"}
<1>1. /\ TypeOK /\ run[p] = "waiting" /\ run[child[p]] = "over"
      /\ run' = [run EXCEPT ![p] = "running"]
      /\ mem' = [mem EXCEPT ![p] = m]
      /\ child' = [child EXCEPT ![p] = None]
      /\ seen' = [seen EXCEPT ![p] = @ \cup news]
      /\ UNCHANGED <<posix, status, printed, shown, left, summaries>>
  BY DEF IInv, Reap, TypeOK, IsOver
<1>2. posix /\ child[p] \in Proc \ {Main} /\ child[p] > p
  BY <1>1 DEF IInv, Processes, Forks
<1>3. ~ HidesSince(p) => truth = verdict
  <2>1. HidesSince(child[p]) => HidesSince(p)
    BY <1>2, TestAssumption DEF HidesSince, Proc
  <2>2. QED
    BY <1>1, <1>2, <2>1, StatusIsTrue
<1>4. mem[p] \in Memory /\ verdict \in {"pass", "fail", "error"}
  BY <1>1, VerdictTold DEF TypeOK
<1> HIDE DEF verdict, truth
<1>5. Adds(mem[p], m, IF verdict = "pass" THEN 1 ELSE 0, b, e)
  BY <1>4, CountTold
<1> HIDE DEF m
<1>6. /\ mem'[p] = m /\ run'[p] = "running" /\ seen'[p] = seen[p] \cup news
      /\ \A q \in Proc \ {p} : Same(q)
  BY <1>1 DEF TypeOK, Same
<1>7. ASSUME ~ HidesSince(p) PROVE SeenIsCounted(p)'
  <2>1. SeenIsCounted(p)
    BY <1>7 DEF Told
  <2>2. /\ mem'[p].tests = mem[p].tests
        /\ mem'[p].fail_count = mem[p].fail_count + b
        /\ mem'[p].error_count = mem[p].error_count + e
    BY <1>5, <1>6 DEF Adds
  <2>3. /\ b \in Nat /\ e \in Nat /\ news \in SUBSET {"fail", "error"}
        /\ "fail" \in news <=> b > 0
        /\ "error" \in news <=> e > 0
    BY <1>3, <1>4, <1>7
  <2> HIDE DEF b, e, news
  <2>4. QED
    BY <1>1, <1>6, <2>1, <2>2, <2>3, SeenGrows
<1>8. StatusOf(p)'
  BY <1>6 DEF StatusOf
<1>9. QED
  BY <1>1, <1>6, <1>7, <1>8, ToldStep DEF Live

(* A test that was called returns: its verdict is what it has seen.        *)
LEMMA AddedIsTrue ==
  ASSUME TypeOK, NEW p \in Proc, SeenIsCounted(p), mem[p].tests # <<>>
  PROVE  Added(mem[p]) = Worst(seen[p])
<1> DEFINE m == mem[p]
<1> DEFINE f == Last(m.tests)
<1>1. m \in Memory /\ seen[p] \in SUBSET {"fail", "error"}
  BY DEF TypeOK
<1>2. /\ m.fail_count \in Nat /\ m.error_count \in Nat
      /\ Len(m.tests) \in Nat \ {0} /\ f = m.tests[Len(m.tests)] /\ f \in Frame
  BY <1>1, FieldTypes, FrontTold
<1>3. Matches(seen[p], m.fail_count, f.fails, m.error_count, f.errors)
  BY <1>2 DEF SeenIsCounted, FailsAt, ErrorsAt
<1>4. f.fails \in Nat /\ f.errors \in Nat
  BY <1>2 DEF Frame
<1>5. /\ f.fails <= m.fail_count /\ f.errors <= m.error_count
      /\ "fail" \in seen[p] <=> m.fail_count > f.fails
      /\ "error" \in seen[p] <=> m.error_count > f.errors
  BY <1>2, <1>3, <1>4 DEF Matches
<1> HIDE DEF f
<1>6. CASE m.error_count > f.errors
  BY <1>2, <1>4, <1>5, <1>6 DEF Added, Worst, f
<1>7. CASE m.error_count = f.errors /\ m.fail_count > f.fails
  <2>1. seen[p] = {"fail"}
    BY <1>1, <1>2, <1>4, <1>5, <1>7
  <2>2. ~ (m.error_count > f.errors)
    BY <1>2, <1>4, <1>7
  <2>3. QED
    BY <1>7, <2>1, <2>2 DEF Added, Worst, f
<1>8. CASE ~ (m.error_count > f.errors) /\ ~ (m.fail_count > f.fails)
  <2>1. seen[p] = {}
    BY <1>1, <1>5, <1>8
  <2>2. QED
    BY <1>8, <2>1 DEF Added, Worst, f
<1>9. QED
  BY <1>2, <1>4, <1>5, <1>6, <1>7, <1>8

(* The memory after a test that was called has returned.                   *)
LEMMA CallReturnsTold ==
  ASSUME IInv, NEW p \in Proc, CallReturns(p)
  PROVE  /\ mem[p].tests # <<>> /\ mem[p] \in Memory /\ mem'[p] \in Memory
         /\ mem'[p].tests = Front(mem[p].tests)
         /\ LET verdict == Added(mem[p])
            IN  /\ verdict \in {"pass", "fail", "error"}
                /\ mem'[p].pass_count = mem[p].pass_count + (IF verdict = "pass" THEN 1 ELSE 0)
                /\ mem'[p].fail_count = mem[p].fail_count + (IF verdict = "fail" THEN 1 ELSE 0)
                /\ mem'[p].error_count = mem[p].error_count + (IF verdict = "error" THEN 1 ELSE 0)
<1> DEFINE verdict == Added(mem[p])
<1> DEFINE e == fflush(mem[p])
<1> DEFINE n == Count(e, verdict)
<1> DEFINE fs == Front(mem[p].tests)
<1> DEFINE m == [n EXCEPT !.tests = fs]
<1>1. /\ TypeOK /\ mem[p].tests # <<>> /\ mem' = [mem EXCEPT ![p] = m]
      /\ mem[p] \in Memory /\ verdict \in {"pass", "fail", "error"}
  BY DEF IInv, TypeOK, CallReturns, Added
<1> HIDE DEF verdict
<1>2. fs \in Seq(Frame)
  BY <1>1, FieldTypes, FrontTold
<1> HIDE DEF fs
<1>3. e \in Memory /\ SameCounts(mem[p], e)
  BY <1>1, FlushTold
<1> HIDE DEF e
<1>4. Adds(e, n, IF verdict = "pass" THEN 1 ELSE 0, IF verdict = "fail" THEN 1 ELSE 0,
           IF verdict = "error" THEN 1 ELSE 0) /\ n \in Memory
  BY <1>1, <1>3, CountTold DEF Adds
<1> HIDE DEF n
<1>5. m \in Memory /\ SameCounts(n, m) /\ m.tests = fs
  BY <1>2, <1>4, ReturnedTold
<1> HIDE DEF m
<1>6. mem'[p] = m
  BY <1>1 DEF TypeOK
<1>7. /\ m.pass_count = mem[p].pass_count + (IF verdict = "pass" THEN 1 ELSE 0)
      /\ m.fail_count = mem[p].fail_count + (IF verdict = "fail" THEN 1 ELSE 0)
      /\ m.error_count = mem[p].error_count + (IF verdict = "error" THEN 1 ELSE 0)
  BY <1>3, <1>4, <1>5 DEF SameCounts, Adds
<1>8. QED
  BY <1>1, <1>5, <1>6, <1>7 DEF verdict, fs

LEMMA CallReturnsTells ==
  ASSUME IInv, Told, NEW p \in Proc, CallReturns(p)
  PROVE  Told'
<1> DEFINE verdict == Added(mem[p])
<1> DEFINE n == Len(mem[p].tests) - 1
<1> DEFINE f == Last(mem[p].tests)
<1>1. /\ TypeOK /\ run[p] = "running"
      /\ mem' = [mem EXCEPT ![p] = mem'[p]]
      /\ seen' = [seen EXCEPT ![p] = @ \cup f.before] /\ seen'[p] = seen[p] \cup f.before
      /\ UNCHANGED <<posix, run, child, status, printed, left, summaries>>
  BY DEF IInv, TypeOK, CallReturns, Running
<1>2. /\ mem[p].tests # <<>> /\ mem[p] \in Memory
      /\ mem'[p].tests = Front(mem[p].tests)
      /\ mem'[p].fail_count = mem[p].fail_count + (IF verdict = "fail" THEN 1 ELSE 0)
      /\ mem'[p].error_count = mem[p].error_count + (IF verdict = "error" THEN 1 ELSE 0)
  BY CallReturnsTold
<1>3. /\ n \in Nat /\ n + 1 = Len(mem[p].tests) /\ f = mem[p].tests[n + 1] /\ f \in Frame
      /\ Len(mem'[p].tests) = n
      /\ \A k \in 1 .. n : mem'[p].tests[k] = mem[p].tests[k]
  <2> DEFINE ts == mem[p].tests
  <2>1. ts \in Seq(Frame) /\ ts # <<>>
    BY <1>2, FieldTypes
  <2>2. /\ Len(ts) \in Nat \ {0} /\ Len(Front(ts)) = Len(ts) - 1
        /\ Last(ts) = ts[Len(ts)] /\ Last(ts) \in Frame
        /\ \A k \in 1 .. Len(ts) - 1 : Front(ts)[k] = ts[k]
    BY <2>1, FrontTold
  <2> HIDE DEF ts
  <2>3. n = Len(ts) - 1 /\ f = Last(ts) /\ mem'[p].tests = Front(ts)
    BY <1>2 DEF ts
  <2> HIDE DEF n, f
  <2>4. n \in Nat /\ n + 1 = Len(ts)
    BY <2>2, <2>3
  <2>5. QED
    BY <2>2, <2>3, <2>4 DEF ts
<1>4. /\ verdict = "fail" => mem[p].fail_count > f.fails
      /\ verdict = "error" => mem[p].error_count > f.errors
  BY DEF Added
<1> HIDE DEF verdict, f, n
<1>5. \A q \in Proc \ {p} : Same(q)
  BY <1>1 DEF TypeOK, Same
<1>6. ASSUME SeenIsCounted(p) PROVE SeenIsCounted(p)'
  <2>1. Matches(seen[p], mem[p].fail_count, f.fails, mem[p].error_count, f.errors)
    BY <1>3, <1>6 DEF SeenIsCounted, FailsAt, ErrorsAt
  <2>2. Matches(f.before, f.fails, FailsAt(mem[p], n), f.errors, ErrorsAt(mem[p], n))
    <3>1. n + 1 \in 1 .. Len(mem[p].tests) /\ n + 1 - 1 = n
      BY <1>3
    <3>2. QED
      BY <1>3, <1>6, <3>1 DEF SeenIsCounted
  <2>3. \A k \in 0 .. n : /\ FailsAt(mem'[p], k) = FailsAt(mem[p], k)
                          /\ ErrorsAt(mem'[p], k) = ErrorsAt(mem[p], k)
    BY <1>3 DEF FailsAt, ErrorsAt
  <2>4. /\ FailsAt(mem[p], n) \in Nat /\ ErrorsAt(mem[p], n) \in Nat
        /\ f.fails \in Nat /\ f.errors \in Nat
        /\ mem[p].fail_count \in Nat /\ mem[p].error_count \in Nat
    <3>1. n \in 0 .. Len(mem[p].tests)
      BY <1>3
    <3>2. QED
      BY <1>2, <1>3, <3>1, FieldTypes, FramesTold DEF Frame
  <2>5. Matches(seen'[p], mem'[p].fail_count, FailsAt(mem[p], n),
                mem'[p].error_count, ErrorsAt(mem[p], n))
    BY <1>1, <1>2, <1>4, <2>1, <2>2, <2>4 DEF Matches
  <2>6. ASSUME NEW k \in 1 .. n
        PROVE  Matches(mem'[p].tests[k].before, mem'[p].tests[k].fails, FailsAt(mem'[p], k - 1),
                       mem'[p].tests[k].errors, ErrorsAt(mem'[p], k - 1))
    <3>1. k - 1 \in 0 .. n /\ k \in 1 .. Len(mem[p].tests)
      BY <1>3
    <3>2. Matches(mem[p].tests[k].before, mem[p].tests[k].fails, FailsAt(mem[p], k - 1),
                  mem[p].tests[k].errors, ErrorsAt(mem[p], k - 1))
      BY <1>6, <3>1 DEF SeenIsCounted
    <3>3. QED
      BY <1>3, <2>3, <3>1, <3>2
  <2>7. FailsAt(mem'[p], n) = FailsAt(mem[p], n) /\ ErrorsAt(mem'[p], n) = ErrorsAt(mem[p], n)
    BY <1>3, <2>3
  <2>8. QED
    BY <1>3, <2>5, <2>6, <2>7 DEF SeenIsCounted
<1>7. StatusOf(p)'
  BY <1>1 DEF StatusOf
<1>8. QED
  BY <1>1, <1>5, <1>6, <1>7, ToldStep DEF Told, Live

LEMMA InitTells == Init => Told
<1> SUFFICES ASSUME Init, NEW p \in Proc PROVE SeenIsCounted(p) /\ StatusOf(p)
  BY DEF Told
<1>1. mem[p] = Fresh /\ seen[p] = {} /\ run[p] # "over"
  BY DEF Init
<1>2. /\ Len(Fresh.tests) = 0 /\ Fresh.fail_count = 0 /\ Fresh.error_count = 0
      /\ FailsAt(Fresh, 0) = 0 /\ ErrorsAt(Fresh, 0) = 0
  BY DEF Fresh, FailsAt, ErrorsAt
<1>3. Matches({}, 0, 0, 0, 0) /\ 1 .. 0 = {}
  BY DEF Matches
<1>4. SeenIsCounted(p)
  <2>1. Matches(seen[p], mem[p].fail_count, FailsAt(mem[p], Len(mem[p].tests)),
                mem[p].error_count, ErrorsAt(mem[p], Len(mem[p].tests)))
    BY <1>1, <1>2, <1>3
  <2>2. 1 .. Len(mem[p].tests) = {}
    BY <1>1, <1>2, <1>3
  <2>3. QED
    BY <2>1, <2>2 DEF SeenIsCounted
<1>5. QED
  BY <1>1, <1>4 DEF StatusOf

LEMMA StepTells ==
  ASSUME IInv, IInv', Told, StatusesApart, [Next]_vars
  PROVE  Told'
<1>1. CASE UNCHANGED vars
  <2>1. UNCHANGED <<posix, run, mem, child, status, printed, shown, left, seen, summaries>>
    BY <1>1 DEF vars
  <2>2. QED
    BY <2>1 DEF Told, SeenIsCounted, FailsAt, ErrorsAt, StatusOf, ExitedWith, Reported, Hides,
                HidesSince
<1>2. ASSUME NEW p \in Proc, Step(p) PROVE Told'
  <2>1. CASE \/ StartTesting(p) \/ LogError(p) \/ CheckStringNull(p)
             \/ \E condition \in BOOLEAN : LogCheck(p, condition)
    BY <2>1, LogsTell
  <2>2. CASE \E t \in Text : PrintText(p, t) \/ alloc_tracef(p, t)
    BY <2>2, PrintsTell
  <2>3. CASE RunTest(p)
    BY <2>3, ForkCallTells, CallTells
  <2>4. CASE Fork(p)
    BY <2>4, ForkTells
  <2>5. CASE TestReturns(p)
    BY <2>5, TestReturnsTells
  <2>6. CASE CallReturns(p)
    BY <2>6, CallReturnsTells
  <2>7. CASE Reap(p)
    BY <2>7, ReapTells
  <2>8. CASE \/ ForkFails(p)
             \/ \E code \in ExitCodes : RawExit(p, code)
             \/ \E code \in ExitCodes : p = Main /\ MainReturns(code)
    BY <2>8, ExitsTell
  <2>9. CASE \E code \in ExitCodes : libipd_exit_rt(p, code)
    BY <2>9, LibipdExitTells
  <2>10. QED
    BY <1>2, <2>1, <2>2, <2>3, <2>4, <2>5, <2>6, <2>7, <2>8, <2>9 DEF Step
<1>3. ASSUME NEW p \in Proc, Mishap(p) PROVE Told'
  BY <1>3, ExitsTell, CrashTells DEF Mishap
<1>4. QED
  BY <1>1, <1>2, <1>3 DEF Next

(* What was seen and not counted, or counted and not told, is hidden.      *)
THEOREM ToldInvariance ==
  ASSUME StatusesApart
  PROVE  Spec => []Told
<1>1. IInv /\ IInv' /\ Told /\ [Next]_vars => Told'
  BY StepTells
<1>2. QED
  BY <1>1, InitTells, Invariance, PTL DEF Spec

(***************************************************************************)
(* By whatever way a process ends, a zero status means that nothing went   *)
(* wrong in it and in its tests, unless somebody hides a failure; and who  *)
(* hides one has counted a multiple of the statuses there are, or exits    *)
(* with 0 while testing, having seen nothing but errors or such a multiple *)
(* of failures.                                                            *)
(***************************************************************************)
THEOREM StatusAlwaysTells ==
  ASSUME StatusesApart
  PROVE  Spec => []StatusTells
<1>1. IInv /\ Told => StatusTells
  <2> SUFFICES ASSUME IInv, Told, NEW p \in Proc
               PROVE  /\ ExitedWith(p, 0) /\ seen[p] # {} => HidesSince(p)
                      /\ Reported(p)
    BY DEF StatusTells, Reported
  <2>1. CASE run[p] = "over"
    BY <2>1 DEF Told, StatusOf
  <2>2. CASE run[p] # "over"
    <3>1. status[p] = Alive /\ left[p] = "not"
      BY <2>2 DEF IInv, Processes, Living
    <3>2. QED
      BY <3>1 DEF Reported, ExitedWith, Alive
  <2>3. QED
    BY <2>1, <2>2
<1>2. QED
  BY <1>1, Invariance, ToldInvariance, PTL

-----------------------------------------------------------------------------
LEMMA CountedTold ==
  ASSUME NEW m \in Memory, NEW n \in Memory, NEW verdict \in {"pass", "fail", "error"},
         n.pass_count = m.pass_count + (IF verdict = "pass" THEN 1 ELSE 0),
         n.fail_count = m.fail_count + (IF verdict = "fail" THEN 1 ELSE 0),
         n.error_count = m.error_count + (IF verdict = "error" THEN 1 ELSE 0)
  PROVE  Counted(m, n) = verdict
<1>1. m.pass_count \in Nat /\ m.fail_count \in Nat /\ m.error_count \in Nat
  BY FieldTypes
<1>2. /\ Counts(Count(m, "pass")) = <<m.pass_count + 1, m.fail_count, m.error_count>>
      /\ Counts(Count(m, "fail")) = <<m.pass_count, m.fail_count + 1, m.error_count>>
      /\ Counts(Count(m, "error")) = <<m.pass_count, m.fail_count, m.error_count + 1>>
  BY <1>1 DEF Count, Counts, Memory
<1>3. CASE verdict = "pass"
  BY <1>1, <1>2, <1>3 DEF Counted, Counts
<1>4. CASE verdict = "fail"
  BY <1>1, <1>2, <1>4 DEF Counted, Counts
<1>5. CASE verdict = "error"
  BY <1>1, <1>2, <1>5 DEF Counted, Counts
<1>6. QED
  BY <1>3, <1>4, <1>5

(* A test that p runs comes to its end, with a verdict.                    *)
Ends(p) == \/ run[p] = "waiting" /\ run'[p] = "running"
           \/ Len(mem'[p].tests) < Len(mem[p].tests)

LEMMA EndsNothing ==
  ASSUME TypeOK, NEW q \in Proc, NEW m, mem' = [mem EXCEPT ![q] = m], m.tests = mem[q].tests,
         UNCHANGED run \/ run' = [run EXCEPT ![q] = "over"] \/ run' = [run EXCEPT ![q] = "forking"]
  PROVE  \A p \in Proc : ~ Ends(p)
<1> SUFFICES ASSUME NEW p \in Proc PROVE ~ Ends(p)
  OBVIOUS
<1>1. mem'[p].tests = mem[p].tests
  BY DEF TypeOK
<1>2. Len(mem[p].tests) \in Nat
  BY FieldTypes DEF TypeOK
<1>3. ~ (run[p] = "waiting" /\ run'[p] = "running")
  BY DEF TypeOK
<1>4. QED
  BY <1>1, <1>2, <1>3 DEF Ends

LEMMA QuietEnds ==
  ASSUME IInv, NEW q \in Proc,
         \/ StartTesting(q) \/ LogError(q) \/ CheckStringNull(q) \/ TestReturns(q)
         \/ \E condition \in BOOLEAN : LogCheck(q, condition)
         \/ \E t \in Text : PrintText(q, t) \/ alloc_tracef(q, t)
         \/ \E code \in ExitCodes : libipd_exit_rt(q, code)
  PROVE  \A p \in Proc : ~ Ends(p)
<1>1. TypeOK /\ mem[q] \in Memory
  BY DEF IInv, TypeOK
<1>2. CASE \/ StartTesting(q) \/ LogError(q)
           \/ \E condition \in BOOLEAN : LogCheck(q, condition)
  <2>1. start_testing(mem[q]).tests = mem[q].tests
    BY <1>1, StartTold
  <2>2. /\ log_error(mem[q]).tests = mem[q].tests
        /\ log_check(mem[q], TRUE).tests = mem[q].tests
        /\ log_check(mem[q], FALSE).tests = mem[q].tests
    BY <1>1, <2>1, LogTold DEF Adds
  <2>3. PICK m \in {start_testing(mem[q]), log_error(mem[q]),
                    log_check(mem[q], TRUE), log_check(mem[q], FALSE)} :
          mem' = [mem EXCEPT ![q] = m] /\ UNCHANGED run
    BY <1>2 DEF StartTesting, LogError, LogCheck, GoesOn
  <2>4. m.tests = mem[q].tests
    BY <2>1, <2>2
  <2>5. QED
    BY <1>1, <2>3, <2>4, EndsNothing
<1>3. CASE CheckStringNull(q)
  <2> DEFINE n == log_check(mem[q], FALSE)
  <2>1. n \in Memory /\ n.tests = mem[q].tests
    BY <1>1, StartTold, LogTold DEF Adds
  <2>2. mem' = [mem EXCEPT ![q] = Emptied(n)] /\ run' = [run EXCEPT ![q] = "over"]
    BY <1>3 DEF CheckStringNull, Dies, Emptied
  <2> HIDE DEF n
  <2>3. Emptied(n).tests = mem[q].tests
    BY <2>1, EmptiedTold
  <2>4. QED
    BY <1>1, <2>2, <2>3, EndsNothing
<1>4. CASE TestReturns(q) \/ \E code \in ExitCodes : libipd_exit_rt(q, code)
  <2>1. PICK n \in {mem[q], Disabled(mem[q])} :
          mem' = [mem EXCEPT ![q] = Emptied(n)] /\ run' = [run EXCEPT ![q] = "over"]
    BY <1>4 DEF TestReturns, libipd_exit_rt, Exit, Emptied, Disabled
  <2>2. n \in Memory /\ n.tests = mem[q].tests
    BY <1>1, DisabledTold
  <2>3. Emptied(n).tests = mem[q].tests
    BY <2>2, EmptiedTold
  <2>4. QED
    BY <1>1, <2>1, <2>3, EndsNothing
<1>5. ASSUME NEW t \in Text, PrintText(q, t) \/ alloc_tracef(q, t)
      PROVE  \A p \in Proc : ~ Ends(p)
  <2>1. CASE PrintText(q, t)
    <3> DEFINE m == [mem[q] EXCEPT !.stdout = @ \cup {t}]
    <3>1. mem' = [mem EXCEPT ![q] = m] /\ UNCHANGED run
      BY <1>1, <2>1 DEF PrintText, Prints, TypeOK
    <3>2. m.tests = mem[q].tests
      BY <1>1 DEF Memory
    <3> HIDE DEF m
    <3>3. QED
      BY <1>1, <3>1, <3>2, EndsNothing
  <2>2. CASE alloc_tracef(q, t)
    <3>1. PICK n \in {mem[q], Installs(mem[q], Close)} :
            mem' = [mem EXCEPT ![q] = [n EXCEPT !.trace_is_init = TRUE, !.trace_out = @ \cup {t}]]
      BY <2>2 DEF alloc_tracef, Close
    <3>2. n \in Memory /\ n.tests = mem[q].tests
      BY <1>1, InstallsTold
    <3> DEFINE m == [n EXCEPT !.trace_is_init = TRUE, !.trace_out = @ \cup {t}]
    <3>3. mem' = [mem EXCEPT ![q] = m] /\ UNCHANGED run
      BY <2>2, <3>1 DEF alloc_tracef, Prints
    <3>4. m.tests = mem[q].tests
      BY <3>2 DEF Memory
    <3> HIDE DEF m
    <3>5. QED
      BY <1>1, <3>3, <3>4, EndsNothing
  <2>3. QED
    BY <1>5, <2>1, <2>2
<1>6. QED
  BY <1>2, <1>3, <1>4, <1>5

LEMMA LeavesEnd ==
  ASSUME IInv, NEW q \in Proc,
         \/ AtexitFails(q) \/ ForkFails(q) \/ WaitFails(q) \/ Crash(q)
         \/ \E code \in ExitCodes : RawExit(q, code)
         \/ \E code \in ExitCodes : q = Main /\ MainReturns(code)
  PROVE  \A p \in Proc : ~ Ends(p)
<1>1. TypeOK /\ mem[q] \in Memory
  BY DEF IInv, TypeOK
<1>2. mem' = [mem EXCEPT ![q] = Emptied(mem[q])] /\ run' = [run EXCEPT ![q] = "over"]
  BY DEF AtexitFails, ForkFails, WaitFails, Crash, RawExit, MainReturns, Exit, Dies, Emptied
<1>3. Emptied(mem[q]).tests = mem[q].tests
  BY <1>1, EmptiedTold
<1>4. QED
  BY <1>1, <1>2, <1>3, EndsNothing

LEMMA ForksEnd ==
  ASSUME IInv, NEW q \in Proc, RunTest(q) \/ Fork(q)
  PROVE  \A p \in Proc : ~ Ends(p)
<1>1. TypeOK /\ mem[q] \in Memory
  BY DEF IInv, TypeOK
<1>2. CASE RunTest(q) /\ posix
  <2> DEFINE n == start_testing(mem[q])
  <2>1. mem' = [mem EXCEPT ![q] = BeforeFork(n)] /\ run' = [run EXCEPT ![q] = "forking"]
    BY <1>2 DEF RunTest
  <2>2. n \in Memory /\ n.tests = mem[q].tests
    BY <1>1, StartTold
  <2> HIDE DEF n
  <2>3. BeforeFork(n).tests = mem[q].tests
    BY <2>2, FlushTold DEF BeforeFork
  <2>4. QED
    BY <1>1, <2>1, <2>3, EndsNothing
<1>3. CASE RunTest(q) /\ ~ posix
  <2> DEFINE n == start_testing(mem[q])
  <2> DEFINE f == [fails |-> n.fail_count, errors |-> n.error_count, before |-> seen[q]]
  <2> DEFINE e == BeforeFork(n)
  <2> DEFINE fs == Append(e.tests, f)
  <2> DEFINE m == [e EXCEPT !.tests = fs]
  <2>1. mem' = [mem EXCEPT ![q] = m] /\ run' = [run EXCEPT ![q] = run[q]]
    BY <1>3 DEF RunTest
  <2>2. n \in Memory /\ n.tests = mem[q].tests
    BY <1>1, StartTold
  <2>3. f \in Frame
    BY <1>1, <2>2, FieldTypes DEF TypeOK, Frame
  <2> HIDE DEF f, n
  <2>4. e \in Memory /\ e.tests = mem[q].tests
    BY <2>2, FlushTold DEF BeforeFork
  <2> HIDE DEF e
  <2>5. fs \in Seq(Frame) /\ Len(fs) = Len(mem[q].tests) + 1 /\ Len(mem[q].tests) \in Nat
    BY <1>1, <2>3, <2>4, FieldTypes
  <2> HIDE DEF fs
  <2>6. m.tests = fs
    BY <2>4, <2>5, ReturnedTold
  <2> HIDE DEF m
  <2>7. UNCHANGED run /\ mem'[q] = m /\ \A p \in Proc \ {q} : mem'[p] = mem[p]
    BY <1>1, <2>1 DEF TypeOK
  <2>8. \A p \in Proc : Len(mem[p].tests) \in Nat
    BY <1>1, FieldTypes DEF TypeOK
  <2>9. QED
    BY <2>5, <2>6, <2>7, <2>8 DEF Ends
<1>4. CASE Fork(q)
  <2> DEFINE m == Forked(mem[q])
  <2>1. PICK c \in Proc : c = FirstOf(Unborn) /\ run[c] = "unborn"
    BY <1>4, FirstTold DEF Fork, IInv, Processes
  <2>2. /\ mem' = [mem EXCEPT ![c] = m]
        /\ run' = [run EXCEPT ![q] = "waiting", ![c] = "running"]
    BY <1>4, <2>1 DEF Fork
  <2>3. m.tests = mem[q].tests
    BY <1>1, ForkedTold
  <2>4. mem[q].tests = <<>> /\ mem[c].tests = <<>>
    BY <1>4, <2>1 DEF Fork, IInv, Processes, Forks, NotYet, Fresh
  <2> HIDE DEF m
  <2>5. \A p \in Proc : mem'[p].tests = mem[p].tests /\ Len(mem[p].tests) \in Nat
    BY <1>1, <2>2, <2>3, <2>4, FieldTypes DEF TypeOK
  <2>6. \A p \in Proc : run[p] = "waiting" => run'[p] # "running"
    BY <1>1, <2>1, <2>2 DEF TypeOK
  <2>7. QED
    BY <2>5, <2>6 DEF Ends
<1>5. QED
  BY <1>2, <1>3, <1>4

(* Only an answer of waitpid, or a return, ends a test.                    *)
LEMMA OnlyThese ==
  ASSUME IInv, NEW q \in Proc, Step(q) \/ Mishap(q), NEW p \in Proc, Ends(p)
  PROVE  Reap(p) \/ CallReturns(p)
<1>1. Reap(q) \/ CallReturns(q)
  <2>1. CASE Step(q)
    BY <2>1, QuietEnds, LeavesEnd, ForksEnd DEF Step
  <2>2. CASE Mishap(q)
    BY <2>2, LeavesEnd DEF Mishap
  <2>3. QED
    BY <2>1, <2>2
<1>2. CASE p = q
  BY <1>1, <1>2
<1>3. CASE p # q
  <2>1. /\ mem'[p] = mem[p] /\ run'[p] = run[p] /\ Len(mem[p].tests) \in Nat
    BY <1>1, <1>3, FieldTypes DEF IInv, TypeOK, Reap, CallReturns
  <2>2. QED
    BY <2>1 DEF Ends
<1>4. QED
  BY <1>2, <1>3

LEMMA ReapIsRight ==
  ASSUME IInv, Told, NEW p \in Proc, Reap(p)
  PROVE  LET v == Counted(mem[p], mem'[p])
             c == child[p]
         IN  /\ v # "neither" /\ (v = Truth(c) \/ HidesSince(c))
             /\ status[c] = Signaled => v = "error"
             /\ ~ (Len(mem'[p].tests) < Len(mem[p].tests))
<1> DEFINE c == child[p]
<1> DEFINE verdict == Verdict(status[c])
<1> DEFINE m == Count(mem[p], verdict)
<1>1. /\ TypeOK /\ run[p] = "waiting" /\ run[c] = "over" /\ mem'[p] = m /\ mem[p] \in Memory
  BY DEF IInv, Reap, TypeOK, IsOver
<1>2. posix /\ c \in Proc \ {Main}
  BY <1>1 DEF IInv, Processes, Forks
<1>3. ~ HidesSince(c) => verdict = Truth(c)
  BY <1>1, <1>2, StatusIsTrue
<1>4. status[c] = Signaled => verdict = "error"
  BY DEF Signaled, Verdict
<1>5. verdict \in {"pass", "fail", "error"}
  BY VerdictTold
<1> HIDE DEF verdict, c
<1>6. Adds(mem[p], m, IF verdict = "pass" THEN 1 ELSE 0, IF verdict = "fail" THEN 1 ELSE 0,
           IF verdict = "error" THEN 1 ELSE 0)
  BY <1>1, <1>5, CountTold
<1> HIDE DEF m
<1>7. Counted(mem[p], mem'[p]) = verdict
  BY <1>1, <1>5, <1>6, CountedTold DEF Adds
<1>8. Len(mem'[p].tests) = Len(mem[p].tests) /\ Len(mem[p].tests) \in Nat
  BY <1>1, <1>6, FieldTypes DEF Adds
<1>9. QED
  BY <1>3, <1>4, <1>5, <1>7, <1>8 DEF c

LEMMA ReturnIsRight ==
  ASSUME IInv, Told, NEW p \in Proc, CallReturns(p)
  PROVE  run[p] # "waiting" /\ Counted(mem[p], mem'[p]) = Worst(seen[p])
<1>1. TypeOK /\ run[p] = "running" /\ mem[p].tests # <<>>
  BY DEF IInv, CallReturns, Running
<1>2. ~ posix
  BY <1>1 DEF IInv, Processes, Forks
<1>3. \A q \in Proc : run[q] # "over"
  BY <1>1, <1>2 DEF IInv, Processes, Forks
<1>4. ~ HidesSince(p)
  <2>1. \A q \in Proc : ~ Hides(q)
    BY <1>3 DEF IInv, Processes, Living, Hides, ExitedWith, Alive
  <2>2. \A q \in p .. MaxProcs : q \in Proc
    BY TestAssumption DEF Proc
  <2>3. QED
    BY <2>1, <2>2 DEF HidesSince
<1>5. Added(mem[p]) = Worst(seen[p])
  BY <1>1, <1>4, AddedIsTrue DEF Told
<1>6. Counted(mem[p], mem'[p]) = Added(mem[p])
  BY CallReturnsTold, CountedTold
<1>7. QED
  BY <1>1, <1>5, <1>6

(***************************************************************************)
(* RUN_TEST counts one verdict on a test that is over, and the right one,  *)
(* in a process of its own or called, unless the test hides a failure or   *)
(* has run one that did.                                                   *)
(***************************************************************************)
THEOREM VerdictAlwaysRight ==
  ASSUME StatusesApart
  PROVE  Spec => VerdictIsRight
<1> DEFINE Right(p) ==
      LET v == Counted(mem[p], mem'[p])
      IN  /\ run[p] = "waiting" =>
               LET c == child[p]
               IN  /\ v # "neither"
                   /\ v = Truth(c) \/ HidesSince(c)
                   /\ status[c] = Signaled => v = "error"
          /\ Len(mem'[p].tests) < Len(mem[p].tests) => v = Worst(seen[p])
<1>1. IInv /\ Told /\ [Next]_vars => [\A p \in Proc : run'[p] = "running" => Right(p)]_vars
  <2> SUFFICES ASSUME IInv, Told, Next, NEW p \in Proc, run'[p] = "running"
               PROVE  Right(p)
    OBVIOUS
  <2>1. CASE ~ Ends(p)
    BY <2>1 DEF Ends
  <2>2. CASE Ends(p)
    <3>1. Reap(p) \/ CallReturns(p)
      BY <2>2, OnlyThese DEF Next
    <3>2. CASE Reap(p)
      BY <3>2, ReapIsRight
    <3>3. CASE CallReturns(p)
      BY <3>3, ReturnIsRight
    <3>4. QED
      BY <3>1, <3>2, <3>3
  <2>3. QED
    BY <2>1, <2>2
<1>2. QED
  BY <1>1, Invariance, ToldInvariance, PTL DEF Spec, VerdictIsRight
=============================================================================
