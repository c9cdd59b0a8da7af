---------------------------- MODULE ProgramTest ----------------------------
(***************************************************************************)
(* CHECK_COMMAND and CHECK_EXEC of libipd (do_check_exec in                *)
(* program_test_rt.c): a program is run in a child process whose standard  *)
(* streams are unlinked temporary files, and what it leaves in them, and   *)
(* its exit code, are compared with what was expected.                     *)
(*                                                                         *)
(* One action per step of the parent between system calls that may fail,   *)
(* and one per descriptor that the child moves.  The two processes share   *)
(* files, not descriptors: each has a table of its own.  A text stands for *)
(* the contents of a file: Empty, or a member of Texts.                    *)
(***************************************************************************)
EXTENDS Integers, FiniteSets

CONSTANTS
  MaxFd,      \* bound: descriptors in a table, enough for a check
  MaxChecks,  \* bound: checks made
  Texts,      \* non-empty inputs and outputs
  Codes,      \* the codes the program exits with
  Faults      \* what else may go wrong: "mkstemp" finds no room for a file
              \* or descriptor, "fclose" cannot write out its buffer

ASSUME ProgramAssumption ==
  /\ MaxFd \in Nat /\ MaxFd >= 8
  /\ MaxChecks \in Nat
  /\ Codes \subseteq 0 .. 255
  /\ Faults \subseteq {"mkstemp", "fclose"}

VARIABLES
  checks,   \* the number of the current check, or of the last one
  args,     \* its arguments
  step,     \* where the parent is in do_check_exec
  fd,       \* its local of that name, the four temporary files
  made,     \* how many mkstemp has been asked for
  table,    \* the parent's descriptor table
  stored,   \* what the first temporary file holds, from its offset on
  child,    \* what the child is doing
  moved,    \* how many descriptors it has moved
  streams,  \* its descriptor table
  did,      \* what the program did: what it wrote and how it ended
  passed,   \* the local of that name
  logged,   \* results reported to the test runtime by the check
  trouble,  \* history: a system call of the check has failed, fclose apart
  faulted   \* history: the faults there have been, in any check

vars == <<checks, args, step, fd, made, table, stored, child, moved, streams,
          did, passed, logged, trouble, faulted>>

parentOnly == <<checks, args, fd, made, table, stored, passed, logged>>
childOnly  == <<child, moved, streams, did, faulted>>

Index == 0 .. 3
Fd    == 0 .. MaxFd - 1

(* The files behind descriptors: the caller's own, check n's temporary     *)
(* file i, or none.                                                        *)
Closed     == <<-1, 0>>
Own(k)     == <<0, k>>
Temp(n, i) == <<n, i>>
Files      == {Closed} \cup {Own(k) : k \in 0 .. 2}
              \cup {Temp(n, i) : n \in 1 .. MaxChecks, i \in Index}

Caller == [k \in Fd |-> IF k <= 2 THEN Own(k) ELSE Closed]

Lowest(t)      == CHOOSE k \in Fd : t[k] = Closed /\ \A j \in 0 .. k - 1 : t[j] # Closed
Without(t, ks) == [k \in Fd |-> IF k \in ks THEN Closed ELSE t[k]]

Empty      == "empty"
ANY_OUTPUT == "any"
Contents   == {Empty} \cup Texts

ANY_EXIT       == -2
ANY_EXIT_ERROR == -1

COULD_NOT_DUP2  == 250
COULD_NOT_CLOSE == 251
COULD_NOT_EXEC  == 252
Reserved        == {COULD_NOT_DUP2, COULD_NOT_CLOSE, COULD_NOT_EXEC}

Arguments == [in : Contents, out : Contents \cup {ANY_OUTPUT},
              err : Contents \cup {ANY_OUTPUT},
              code : Codes \cup {ANY_EXIT, ANY_EXIT_ERROR}]

NotRun(how, code) ==
  [ran |-> FALSE, out |-> Empty, err |-> Empty, how |-> how, code |-> code]
Ran(out, err, how, code) ==
  [ran |-> TRUE, out |-> out, err |-> err, how |-> how, code |-> code]

Nothing == NotRun("exited", 0)

Results == {"pass", "fail", "error"}
Clean   == [r \in Results |-> 0]
Log(r)  == logged' = [logged EXCEPT ![r] = @ + 1]

-----------------------------------------------------------------------------
Init ==
  /\ checks = 0
  /\ args = [in |-> Empty, out |-> ANY_OUTPUT, err |-> ANY_OUTPUT, code |-> ANY_EXIT]
  /\ step = "idle"
  /\ fd = [i \in Index |-> -1]
  /\ made = 0
  /\ table = Caller
  /\ stored = Empty
  /\ child = "none"
  /\ moved = 0
  /\ streams = Caller
  /\ did = Nothing
  /\ passed = FALSE
  /\ logged = Clean
  /\ trouble = FALSE
  /\ faulted = {}

(* The initialiser {{-1}} sets the first descriptor to -1, the rest to 0.  *)
NoFiles == [i \in Index |-> IF i = 0 THEN -1 ELSE 0]

Begin ==
  /\ step = "idle"
  /\ checks < MaxChecks
  /\ checks' = checks + 1
  /\ args' \in Arguments
  /\ step' = "mkstemp"
  /\ fd' = NoFiles
  /\ made' = 0
  /\ stored' = Empty
  /\ child' = "none"
  /\ did' = Nothing
  /\ passed' = FALSE
  /\ logged' = Clean
  /\ trouble' = FALSE
  /\ UNCHANGED <<table, moved, streams, faulted>>

(* sys_error: an error is logged, then on to finish.                       *)
SysError ==
  /\ Log("error")
  /\ trouble' = TRUE
  /\ step' = "finish"

MakeFile ==
  /\ step = "mkstemp"
  /\ fd' = [fd EXCEPT ![made] = Lowest(table)]
  /\ table' = [table EXCEPT ![Lowest(table)] = Temp(checks, made)]
  /\ made' = made + 1
  /\ step' = IF made = 3 THEN "input" ELSE "mkstemp"
  /\ UNCHANGED <<checks, args, stored, passed, logged, trouble, childOnly>>

(* Faulty variant of the next definition: the offset stays at the end.     *)
WriteInputOnly ==
  /\ step = "input"
  /\ stored' = Empty
  /\ step' = "fork"
  /\ UNCHANGED <<checks, args, fd, made, table, passed, logged, childOnly, trouble>>

(***************************************************************************)
(* The input is written through a duplicate of the descriptor, which       *)
(* fclose closes, and the shared offset goes back to the start.  When      *)
(* fclose cannot write, there is a warning and nothing else.               *)
(***************************************************************************)
WriteInput ==
  /\ step = "input"
  /\ \/ /\ stored' = args.in
        /\ UNCHANGED faulted
     \/ /\ "fclose" \in Faults
        /\ args.in # Empty
        /\ stored' = Empty
        /\ faulted' = faulted \cup {"fclose"}
  /\ step' = "fork"
  /\ UNCHANGED <<checks, args, fd, made, table, passed, logged, child, moved,
                 streams, did, trouble>>

Fork ==
  /\ step = "fork"
  /\ step' = "wait"
  /\ child' = "moving"
  /\ moved' = 0
  /\ streams' = table
  /\ UNCHANGED <<parentOnly, did, trouble, faulted>>

(* mkstemp fails, or dup, fdopen, fwrite or lseek while the input is       *)
(* written (the duplicate is closed), or fork.                             *)
SystemCallFails ==
  /\ \/ /\ step = "mkstemp"
        /\ "mkstemp" \in Faults
        /\ fd' = [fd EXCEPT ![made] = -1]
        /\ faulted' = faulted \cup {"mkstemp"}
     \/ step = "input" /\ args.in # Empty /\ UNCHANGED <<fd, faulted>>
     \/ step = "fork" /\ UNCHANGED <<fd, faulted>>
  /\ SysError
  /\ UNCHANGED <<checks, args, made, table, stored, passed, child, moved,
                 streams, did>>

-----------------------------------------------------------------------------
(* The child.  child_exec puts each file at its place and closes it where  *)
(* it was: the same place, when mkstemp gave it that number.               *)
MoveStream ==
  /\ child = "moving"
  /\ moved < 4
  /\ streams' = [streams EXCEPT ![moved] = streams[fd[moved]], ![fd[moved]] = Closed]
  /\ moved' = moved + 1
  /\ UNCHANGED <<parentOnly, step, child, did, trouble, faulted>>

Ends(d) ==
  /\ child' = "over"
  /\ did' = d
  /\ UNCHANGED <<parentOnly, step, moved, streams, faulted>>

(* child_exec returns: the child ends with _Exit, no handler run.          *)
ChildExecFails ==
  /\ child = "moving"
  /\ \E code \in IF moved < 4 THEN {COULD_NOT_DUP2, COULD_NOT_CLOSE}
                              ELSE {COULD_NOT_EXEC} :
       Ends(NotRun("exited", code))
  /\ trouble' = TRUE

Exec ==
  /\ child = "moving"
  /\ moved = 4
  /\ child' = "program"
  /\ UNCHANGED <<parentOnly, step, moved, streams, did, trouble, faulted>>

ProgramExits ==
  /\ child = "program"
  /\ \E out, err \in Contents, code \in Codes : Ends(Ran(out, err, "exited", code))
  /\ UNCHANGED trouble

(* A signal kills the child, at any time.                                  *)
Killed ==
  /\ \/ child = "moving" /\ Ends(NotRun("signaled", 0))
     \/ /\ child = "program"
        /\ \E out, err \in Contents : Ends(Ran(out, err, "signaled", 0))
  /\ UNCHANGED trouble

-----------------------------------------------------------------------------
(***************************************************************************)
(* The parent after waitpid.  fdread_all closes the file it reads and sets *)
(* its descriptor to -1, whether it succeeds or not.                       *)
(***************************************************************************)
Closing(i) ==
  /\ table' = Without(table, {fd[i]})
  /\ fd' = [fd EXCEPT ![i] = -1]

(* Faulty variant of the next definition: a child that a signal has killed *)
(* is not waited for.                                                      *)
WaitExited ==
  /\ step = "wait"
  /\ child = "over"
  /\ did.how = "exited"
  /\ IF did.code \in Reserved
     THEN Closing(3) /\ Log("error") /\ step' = "finish"
     ELSE step' = "stdout" /\ UNCHANGED <<logged, fd, table>>
  /\ UNCHANGED <<checks, args, made, stored, passed, childOnly, trouble>>

(* A reserved code: the child's message is read, an error logged.          *)
Wait ==
  /\ step = "wait"
  /\ child = "over"
  /\ \/ /\ did.how = "exited" /\ did.code \in Reserved
        /\ Closing(3)
        /\ Log("error")
        /\ step' = "finish"
     \/ /\ did.how = "exited" /\ did.code \notin Reserved
        /\ step' = "stdout"
        /\ UNCHANGED <<logged, fd, table>>
     \/ /\ did.how = "signaled"
        /\ Log("error")
        /\ step' = "stdout"
        /\ UNCHANGED <<fd, table>>
  /\ UNCHANGED <<checks, args, made, stored, passed, childOnly, trouble>>

(* waitpid is interrupted: the child is left to itself, with its own       *)
(* descriptors, and is not looked at again.                                *)
WaitFails ==
  /\ step = "wait"
  /\ child' = "none"
  /\ SysError
  /\ UNCHANGED <<checks, args, fd, made, table, stored, passed, moved, streams, did,
                 faulted>>

(* What the program has left in temporary file i.                          *)
Left(i) ==
  IF streams[i] # Temp(checks, i) THEN Empty ELSE IF i = 1 THEN did.out ELSE did.err

Wanted(i) == IF i = 1 THEN args.out ELSE args.err

Reading(i) == step = IF i = 1 THEN "stdout" ELSE "stderr"

AfterReading(i) == step' = IF i = 1 THEN "stderr" ELSE "code"

(* check_output_string.                                                    *)
CheckOutput(i) ==
  /\ Reading(i)
  /\ AfterReading(i)
  /\ IF Wanted(i) = ANY_OUTPUT THEN UNCHANGED <<fd, table>> ELSE Closing(i)
  /\ IF Wanted(i) \in {ANY_OUTPUT, Left(i)}
     THEN UNCHANGED <<passed, logged>>
     ELSE passed' = FALSE /\ Log("fail")
  /\ UNCHANGED <<checks, args, made, stored, childOnly, trouble>>

(* Faulty variant of the next definition: the file is left open.           *)
ReadFailsOpen(i) ==
  /\ Reading(i)
  /\ AfterReading(i)
  /\ Wanted(i) # ANY_OUTPUT
  /\ fd' = [fd EXCEPT ![i] = -1]
  /\ passed' = FALSE
  /\ Log("error")
  /\ trouble' = TRUE
  /\ UNCHANGED <<checks, args, made, table, stored, childOnly>>

(* lseek, malloc, fdopen or fread fails in fdread_all.                     *)
ReadFails(i) ==
  /\ Reading(i)
  /\ AfterReading(i)
  /\ Wanted(i) # ANY_OUTPUT
  /\ Closing(i)
  /\ passed' = FALSE
  /\ Log("error")
  /\ trouble' = TRUE
  /\ UNCHANGED <<checks, args, made, stored, childOnly>>

(* Faulty variant of the next definition: "any error" is any code.         *)
CodeMismatchesAnyway == args.code >= 0 /\ did.code # args.code

(* The code of a killed child reads as 0.                                  *)
CodeMismatches ==
  \/ args.code >= 0 /\ did.code # args.code
  \/ args.code = ANY_EXIT_ERROR /\ did.code = 0

CheckCode ==
  /\ step = "code"
  /\ step' = "finish"
  /\ CASE CodeMismatches            -> passed' = FALSE /\ Log("fail")
       [] ~ CodeMismatches /\ passed -> Log("pass") /\ UNCHANGED passed
       [] OTHER                     -> UNCHANGED <<passed, logged>>
  /\ UNCHANGED <<checks, args, fd, made, table, stored, childOnly, trouble>>

Finish ==
  /\ step = "finish"
  /\ step' = "idle"
  /\ table' = Without(table, {fd[i] : i \in Index})
  /\ UNCHANGED <<checks, args, fd, made, stored, passed, logged, childOnly, trouble>>

-----------------------------------------------------------------------------
Parent ==
  \/ Begin
  \/ MakeFile
  \/ WriteInput
  \/ Fork
  \/ Wait
  \/ \E i \in 1 .. 2 : CheckOutput(i)
  \/ CheckCode
  \/ Finish

Child == MoveStream \/ Exec \/ ProgramExits

(* System calls that fail, and signals.                                    *)
Mishap ==
  \/ SystemCallFails
  \/ WaitFails
  \/ \E i \in 1 .. 2 : ReadFails(i)
  \/ ChildExecFails
  \/ Killed

Next == Parent \/ Child \/ Mishap

(* The kernel runs both processes, and the program that is checked ends.   *)
Spec == Init /\ [][Next]_vars /\ WF_vars(Parent) /\ WF_vars(Child)

-----------------------------------------------------------------------------
(***************************************************************************)
(* Whatever fails in a check, the process has the same files open after it *)
(* as before: do_check_exec closes its four files, each once, and nothing  *)
(* of the caller's.  Only when mkstemp has failed may the standard input   *)
(* be missing, which the zeros of the initialiser (line 191) have closed.  *)
(***************************************************************************)
DescriptorsKept ==
  step = "idle" =>
    table \in {Caller} \cup IF "mkstemp" \in faulted THEN {Without(Caller, {0})} ELSE {}

(***************************************************************************)
(* A check "runs the command and sends it the contents of actual_input on  *)
(* its standard input", and reads its standard output and standard error:  *)
(* a program that runs has the files of this check as its three streams,   *)
(* and the input in the first.  But it has no standard input, in every     *)
(* later check, once a failed mkstemp has cost the caller its own: the     *)
(* input's file is descriptor 0 then, dup2 leaves it there, and the close  *)
(* after it (line 172) closes it.  And a failed fclose may leave it empty. *)
(***************************************************************************)
StreamsReachProgram ==
  child = "program" =>
    /\ streams[0] = IF table[0] = Own(0) THEN Temp(checks, 0) ELSE Closed
    /\ \A i \in 1 .. 2 : streams[i] = Temp(checks, i)
    /\ "fclose" \notin faulted => stored = args.in

(* The program did what the arguments say, and nothing failed around it.   *)
(* A failure of fclose is not counted: of it there is a warning only, and  *)
(* the program is held to what it did with no input.                       *)
AsExpected ==
  /\ ~ trouble
  /\ did.ran
  /\ did.how = "exited"
  /\ args.out \in {ANY_OUTPUT, did.out}
  /\ args.err \in {ANY_OUTPUT, did.err}
  /\ CASE args.code = ANY_EXIT       -> TRUE
       [] args.code = ANY_EXIT_ERROR -> did.code # 0
       [] OTHER                      -> did.code = args.code

Finished == step = "idle" /\ checks > 0
Bad      == logged["fail"] + logged["error"] > 0

(***************************************************************************)
(* A check reports a failure or an error exactly when the program did not  *)
(* do what was expected of it or could not be run, or ends with a code the *)
(* runtime keeps for its own child (250 to 252), though that be the code   *)
(* expected.  A check that succeeds reports nothing: "the test passes if"  *)
(* its outputs and code match, says the header, but no pass is ever        *)
(* reported, the local passed being false from the start (line 190) and    *)
(* only and-ed after that.                                                 *)
(***************************************************************************)
ResultIsTold ==
  Finished =>
    /\ Bad <=> ~ AsExpected \/ did.code \in Reserved
    /\ logged["pass"] = 0

(***************************************************************************)
(* A check of a program that ends comes to an end, whatever fails.         *)
(***************************************************************************)
CheckEnds == step # "idle" ~> step = "idle"
=============================================================================
