------------------------- MODULE ProgramTestProofs -------------------------
(***************************************************************************)
(* Proofs about ProgramTest: whatever fails in a check, the process is     *)
(* left with the files it had (DescriptorsAlwaysKept), the program gets    *)
(* the streams of its check (StreamsAlwaysReach), and what the check       *)
(* reports is what happened (ResultAlwaysTold).                            *)
(***************************************************************************)
EXTENDS ProgramTest, TLAPS

Steps == {"idle", "mkstemp", "input", "fork", "wait", "stdout", "stderr",
          "code", "finish"}

Deeds == [ran : BOOLEAN, out : Contents, err : Contents,
          how : {"exited", "signaled"}, code : 0 .. 255]

(* Each variable has its type, and a check that is made has a number.      *)
TypeOK ==
  /\ checks \in 0 .. MaxChecks
  /\ step # "idle" => checks > 0
  /\ args \in Arguments
  /\ step \in Steps
  /\ fd \in [Index -> -1 .. MaxFd - 1]
  /\ made \in 0 .. 4
  /\ table \in [Fd -> Files]
  /\ stored \in Contents
  /\ child \in {"none", "moving", "program", "over"}
  /\ moved \in 0 .. 4
  /\ streams \in [Fd -> Files]
  /\ did \in Deeds
  /\ passed \in BOOLEAN
  /\ logged \in [Results -> Nat]
  /\ trouble \in BOOLEAN

-----------------------------------------------------------------------------
(***************************************************************************)
(* The descriptors.  The caller's standard input is open, or a failed      *)
(* mkstemp has had it closed (Kept is false), and then the first temporary *)
(* file of each later check takes its number.                              *)
(***************************************************************************)
Kept == table[0] = Own(0)

Slot(i) == IF Kept THEN 3 + i ELSE IF i = 0 THEN 0 ELSE 2 + i

(* The temporary files that the parent has open.                           *)
Held(i) == i \in Index /\ step # "idle" /\ i < made /\ fd[i] # -1

FilesInPlace ==
  /\ Kept \/ "mkstemp" \in faulted
  /\ Kept \/ Held(0) \/ table[0] = Closed
  /\ table[1] = Own(1) /\ table[2] = Own(2)
  /\ \A i \in Index : Held(i) => fd[i] = Slot(i) /\ table[Slot(i)] = Temp(checks, i)
  /\ \A k \in Fd : k > 2 /\ (\A i \in Index : Held(i) => Slot(i) # k) => table[k] = Closed

(* Which of them are open where the parent is.                             *)
FilesOfStep ==
  /\ step = "mkstemp" => made < 4
  /\ step \in {"input", "fork", "wait", "stdout", "stderr", "code"} => made = 4
  /\ step \in {"mkstemp", "input", "fork", "wait", "stdout"} =>
       \A i \in Index : i < made => fd[i] # -1
  /\ step = "stderr" => fd[2] # -1
  /\ step = "mkstemp" => \A i \in Index : i >= made => fd[i] \in {-1, 0}
  /\ step = "finish" /\ made < 4 =>
       /\ "mkstemp" \in faulted
       /\ \A i \in Index : i >= made => fd[i] \in {-1, 0}

(* The child's files, those it has moved and those it has not; standard    *)
(* input is lost to a child whose parent had none.                         *)
StreamsInPlace ==
  /\ child \in {"moving", "program"} => step = "wait" /\ did = Nothing
  /\ child = "moving" => \A i \in Index : i >= moved => streams[fd[i]] = Temp(checks, i)
  /\ child = "program" => moved = 4
  /\ child \in {"moving", "program"} \/ did.ran =>
       \A i \in Index : i < moved /\ (i = 0 => Kept) => streams[i] = Temp(checks, i)
  /\ child \in {"moving", "program"} /\ moved > 0 /\ ~ Kept => streams[0] = Closed
  /\ did.ran => moved = 4
  /\ step \in {"fork", "wait"} => "fclose" \in faulted \/ stored = args.in

-----------------------------------------------------------------------------
(***************************************************************************)
(* The results.  Until waitpid answers, nothing is reported and nothing    *)
(* has failed but the child's setup, which its code says.  After that the  *)
(* check is Bad when something failed around the program or when, of what  *)
(* the parent has compared so far, something was not as wanted.            *)
(***************************************************************************)
Before == {"mkstemp", "input", "fork", "wait"}

ReservedSays == did.how = "exited" /\ did.code \in Reserved

OutputDiffers == args.out \notin {ANY_OUTPUT, did.out}
ErrorDiffers  == args.err \notin {ANY_OUTPUT, did.err}

Differs ==
  \/ step # "stdout" /\ OutputDiffers
  \/ step \notin {"stdout", "stderr"} /\ ErrorDiffers
  \/ step \notin {"stdout", "stderr", "code"} /\ CodeMismatches

NothingYet ==
  /\ ~ Bad
  /\ trouble => /\ step = "wait" /\ child = "over" /\ ReservedSays

SoFar ==
  /\ trouble \/ ~ did.ran \/ did.how = "signaled" => Bad
  /\ ~ trouble /\ did.ran /\ did.how = "exited" /\ did.code \notin Reserved =>
       (Bad <=> Differs)
  /\ did.how = "exited" /\ did.code \in Reserved => Bad

ResultSoFar ==
  /\ ~ passed
  /\ logged["pass"] = 0
  /\ step \in Before \ {"wait"} => child = "none"
  /\ child = "none" /\ step \in Before => did = Nothing
  /\ child = "over" => did.ran \/ did.how = "signaled" \/ ReservedSays
  /\ step \in {"stdout", "stderr", "code"} => child = "over" /\ ~ ReservedSays
  /\ step \in Before => NothingYet
  /\ checks > 0 /\ step \notin Before => SoFar

IInv == TypeOK /\ FilesInPlace /\ FilesOfStep /\ StreamsInPlace /\ ResultSoFar

-----------------------------------------------------------------------------
(* The lowest closed descriptor is the one that open answers.              *)
LEMMA LowestIs ==
  ASSUME NEW t, NEW k \in Fd, t[k] = Closed,
         \A j \in 0 .. k - 1 : t[j] # Closed
  PROVE  Lowest(t) = k
<1> DEFINE IsLowest(l) == l \in Fd /\ t[l] = Closed /\ \A j \in 0 .. l - 1 : t[j] # Closed
<1>1. IsLowest(k)
  OBVIOUS
<1>2. Lowest(t) = CHOOSE l \in Fd : t[l] = Closed /\ \A j \in 0 .. l - 1 : t[j] # Closed
  BY DEF Lowest
<1>3. IsLowest(Lowest(t))
  BY <1>1, <1>2, Zenon
<1>4. k \in Nat /\ Lowest(t) \in Nat
  BY <1>3, ProgramAssumption DEF Fd
<1>5. ~ (k < Lowest(t)) /\ ~ (Lowest(t) < k)
  BY <1>1, <1>3, <1>4
<1>6. QED
  BY <1>4, <1>5

(* A file of a check is neither the caller's nor another of the check's.   *)
LEMMA FilesDiffer ==
  ASSUME NEW n \in Nat \ {0}, NEW i \in Index
  PROVE  /\ Temp(n, i) # Closed
         /\ \A k \in 0 .. 2 : Temp(n, i) # Own(k) /\ Own(k) # Closed
         /\ \A j \in Index : Temp(n, i) = Temp(n, j) => i = j
  BY DEF Temp, Own, Closed, Index

(* The descriptors of a check's files are different, and fit in the table. *)
LEMMA SlotsDiffer ==
  /\ \A i \in Index : Slot(i) \in Fd /\ Slot(i) \notin {1, 2} /\ (i > 0 => Slot(i) > 2)
                      /\ (Slot(i) = 0 <=> i = 0 /\ ~ Kept)
                      /\ (Slot(i) > i \/ Slot(i) = 0)
  /\ \A i, j \in Index : Slot(i) = Slot(j) => i = j
  BY ProgramAssumption DEF Slot, Index, Fd

(* What a check begins with has its type.                                  *)
LEMMA NothingTyped == Nothing \in Deeds /\ Clean \in [Results -> Nat]
  BY DEF Nothing, NotRun, Deeds, Contents, Clean

(* A failure or an error that is logged makes the check a bad one.         *)
LEMMA LoggedIsBad ==
  ASSUME logged \in [Results -> Nat], Log("error") \/ Log("fail")
  PROVE  Bad' /\ logged' \in [Results -> Nat] /\ logged'["pass"] = logged["pass"]
  BY DEF Log, Bad, Results

(* A step that touches no descriptor of the parent leaves its files alone. *)
LEMMA TableKept ==
  ASSUME TypeOK, FilesInPlace, UNCHANGED <<checks, fd, made, table>>,
         faulted \subseteq faulted', step # "idle", step' # "idle"
  PROVE  FilesInPlace' /\ (Kept' <=> Kept)
<1>1. (Kept' <=> Kept) /\ \A i \in Index : Slot(i)' = Slot(i) /\ (Held(i)' <=> Held(i))
  BY DEF Kept, Slot, Held
<1>2. QED
  BY <1>1 DEF FilesInPlace, Index, Fd

(* The file that fdread_all closes is one that the parent has open.        *)
LEMMA ClosingKeeps ==
  ASSUME TypeOK, FilesInPlace, NEW i \in Index, Closing(i), Held(i), made = 4,
         UNCHANGED <<checks, made>>, faulted \subseteq faulted', step # "idle", step' # "idle"
  PROVE  /\ FilesInPlace'
         /\ Kept' <=> Kept
         /\ table' \in [Fd -> Files]
         /\ fd' \in [Index -> -1 .. MaxFd - 1]
         /\ \A j \in Index : j # i => fd'[j] = fd[j]
<1>1. fd[i] = Slot(i) /\ table[Slot(i)] = Temp(checks, i)
  BY DEF FilesInPlace
<1>2. /\ table' = [k \in Fd |-> IF k = Slot(i) THEN Closed ELSE table[k]]
      /\ fd' = [fd EXCEPT ![i] = -1]
  BY <1>1 DEF Closing, Without
<1>3. 0 \in Fd /\ 1 \in Fd /\ 2 \in Fd
  BY ProgramAssumption DEF Fd
<1>4. Kept' <=> Kept
  <2>1. Closed # Own(0)
    BY DEF Closed, Own
  <2>2. QED
    BY <1>2, <1>3, <2>1, SlotsDiffer DEF Kept
<1>5. /\ \A j \in Index : Slot(j)' = Slot(j)
      /\ \A j \in Index : Held(j)' <=> Held(j) /\ j # i
  BY <1>2, <1>4 DEF Slot, Held, TypeOK
<1>6. table' \in [Fd -> Files] /\ fd' \in [Index -> -1 .. MaxFd - 1]
  BY <1>2, ProgramAssumption DEF TypeOK, Files
<1>7. FilesInPlace'
  <2>1. (Kept \/ Held(0) \/ table[0] = Closed)'
    BY <1>2, <1>3, <1>4, <1>5, SlotsDiffer DEF FilesInPlace, Index
  <2>2. (table[1] = Own(1) /\ table[2] = Own(2))'
    BY <1>2, <1>3, SlotsDiffer DEF FilesInPlace, Own
  <2>3. ASSUME NEW j \in Index, Held(j)'
        PROVE  fd'[j] = Slot(j)' /\ table'[Slot(j)'] = Temp(checks', j)
    BY <1>2, <1>5, <2>3, SlotsDiffer DEF FilesInPlace, TypeOK
  <2>4. ASSUME NEW k \in Fd, k > 2, \A j \in Index : Held(j)' => Slot(j)' # k
        PROVE  table'[k] = Closed
    BY <1>2, <1>5, <2>4 DEF FilesInPlace
  <2>5. QED
    BY <1>4, <2>1, <2>2, <2>3, <2>4 DEF FilesInPlace, Fd
<1>8. QED
  BY <1>2, <1>4, <1>6, <1>7 DEF TypeOK

LEMMA InitHolds == Init => IInv
<1> SUFFICES ASSUME Init PROVE IInv
  OBVIOUS
<1>1. Caller \in [Fd -> Files]
  BY ProgramAssumption DEF Caller, Files, Fd
<1>2. TypeOK
  <2>1. args \in Arguments
    BY DEF Init, Arguments, Contents
  <2>2. fd \in [Index -> -1 .. MaxFd - 1]
    BY ProgramAssumption DEF Init
  <2>3. checks \in 0 .. MaxChecks /\ step \in Steps /\ stored \in Contents
    BY ProgramAssumption DEF Init, Steps, Contents
  <2>4. passed \in BOOLEAN /\ trouble \in BOOLEAN
    BY Zenon DEF Init
  <2>5. QED
    BY <1>1, <2>1, <2>2, <2>3, <2>4, NothingTyped DEF Init, TypeOK
<1>3. FilesInPlace
  BY ProgramAssumption DEF Init, FilesInPlace, Held, Kept, Caller, Fd
<1>4. FilesOfStep
  BY DEF Init, FilesOfStep
<1>5. StreamsInPlace
  BY DEF Init, StreamsInPlace, Nothing, NotRun
<1>6. ResultSoFar
  BY DEF Init, ResultSoFar, Clean, Results, Before
<1>7. QED
  BY <1>2, <1>3, <1>4, <1>5, <1>6 DEF IInv

LEMMA BeginKeeps ==
  ASSUME IInv, Begin
  PROVE  IInv'
<1>1. TypeOK /\ step = "idle" /\ step' = "mkstemp" /\ checks' = checks + 1 /\ made' = 0
  BY DEF IInv, Begin
<1>2. TypeOK'
  <2>1. fd' \in [Index -> -1 .. MaxFd - 1]
    BY ProgramAssumption DEF Begin, NoFiles
  <2>2. checks' \in 0 .. MaxChecks /\ checks' > 0 /\ step' \in Steps /\ stored' \in Contents
    BY <1>1, ProgramAssumption DEF Begin, TypeOK, Steps, Contents
  <2>3. passed' \in BOOLEAN /\ trouble' \in BOOLEAN
    BY Zenon DEF Begin
  <2>4. QED
    BY <1>1, <2>1, <2>2, <2>3, NothingTyped DEF TypeOK, Begin
<1>3. FilesInPlace'
  <2>1. (Kept' <=> Kept) /\ \A i \in Index : ~ Held(i) /\ ~ Held(i)'
    BY <1>1 DEF Begin, Kept, Held, Index
  <2>2. QED
    BY <2>1 DEF IInv, Begin, FilesInPlace, Index
<1>4. FilesOfStep'
  BY DEF Begin, FilesOfStep, NoFiles, Index
<1>5. StreamsInPlace'
  BY DEF Begin, StreamsInPlace, Nothing, NotRun
<1>6. ResultSoFar'
  BY DEF Begin, ResultSoFar, Nothing, NotRun, NothingYet, Clean, Results, Before, Bad
<1>7. QED
  BY <1>2, <1>3, <1>4, <1>5, <1>6 DEF IInv

LEMMA MakeFileKeeps ==
  ASSUME IInv, MakeFile
  PROVE  IInv'
<1>1. TypeOK /\ step = "mkstemp" /\ made \in Index /\ made' = made + 1
  BY DEF IInv, MakeFile, FilesOfStep, TypeOK, Index
<1>2. \A i \in Index : Held(i) <=> i < made
  BY <1>1 DEF IInv, FilesOfStep, Held
<1>3. Lowest(table) = Slot(made)
  <2>1. Slot(made) \in Fd /\ table[Slot(made)] = Closed
    <3>1. Slot(made) > 2 => table[Slot(made)] = Closed
      BY <1>1, <1>2, SlotsDiffer DEF IInv, FilesInPlace, Index
    <3>2. Slot(made) = 0 => table[Slot(made)] = Closed
      BY <1>1, <1>2, SlotsDiffer DEF IInv, FilesInPlace, Index
    <3>3. QED
      BY <1>1, <3>1, <3>2, SlotsDiffer, ProgramAssumption DEF Fd
  <2>2. ASSUME NEW j \in 0 .. Slot(made) - 1
        PROVE  table[j] # Closed
    <3>1. \A i \in Index : i < made => table[Slot(i)] # Closed
      BY <1>1, <1>2, FilesDiffer DEF IInv, FilesInPlace, TypeOK, Index
    <3>2. Own(0) # Closed /\ Own(1) # Closed /\ Own(2) # Closed
      BY DEF Own, Closed
    <3>3. CASE j \in {1, 2}
      BY <3>2, <3>3 DEF IInv, FilesInPlace
    <3>4. CASE j = 0 /\ Kept
      BY <3>2, <3>4 DEF Kept
    <3>5. CASE ~ Kept /\ (j = 0 \/ j > 2)
      <4>1. PICK i \in Index : i < made /\ j = Slot(i)
        BY <1>1, <3>5 DEF Slot, Index
      <4>2. QED
        BY <3>1, <4>1
    <3>6. CASE Kept /\ j > 2
      <4>1. PICK i \in Index : i < made /\ j = Slot(i)
        BY <1>1, <3>6 DEF Slot, Index
      <4>2. QED
        BY <3>1, <4>1
    <3>7. QED
      BY <1>1, <3>3, <3>4, <3>5, <3>6, SlotsDiffer DEF Fd
  <2>3. QED
    BY <2>1, <2>2, LowestIs
<1>4. /\ fd' = [fd EXCEPT ![made] = Slot(made)]
      /\ table' = [table EXCEPT ![Slot(made)] = Temp(checks, made)]
      /\ step' \in {"mkstemp", "input"}
      /\ step' = "input" <=> made' = 4
      /\ Slot(made) \in 0 .. MaxFd - 1
  BY <1>1, <1>3, SlotsDiffer DEF MakeFile, Fd, Index
<1>5. TypeOK'
  <2>1. Temp(checks, made) \in Files
    BY <1>1 DEF TypeOK, Files
  <2>2. table' \in [Fd -> Files]
    BY <1>1, <1>4, <2>1 DEF TypeOK
  <2>3. fd' \in [Index -> -1 .. MaxFd - 1]
    BY <1>1, <1>4, ProgramAssumption DEF TypeOK
  <2>4. QED
    BY <1>1, <1>4, <2>2, <2>3 DEF TypeOK, MakeFile, childOnly, Steps, Index
<1>6. Kept' <=> Kept
  BY <1>1, <1>4, SlotsDiffer, FilesDiffer DEF Kept, TypeOK, Fd
<1>7. /\ \A i \in Index : Slot(i)' = Slot(i)
      /\ \A i \in Index : Held(i)' <=> Held(i) \/ i = made
  BY <1>1, <1>2, <1>4, <1>6 DEF Slot, Held, TypeOK, Index
<1>8. FilesInPlace'
  <2>1. (Kept \/ Held(0) \/ table[0] = Closed)'
    BY <1>1, <1>4, <1>6, <1>7, SlotsDiffer DEF IInv, FilesInPlace, TypeOK, Index, Fd
  <2>2. (table[1] = Own(1) /\ table[2] = Own(2))'
    BY <1>1, <1>4, SlotsDiffer DEF IInv, FilesInPlace, TypeOK
  <2>3. ASSUME NEW j \in Index, Held(j)'
        PROVE  fd'[j] = Slot(j)' /\ table'[Slot(j)'] = Temp(checks', j)
    BY <1>1, <1>4, <1>7, <2>3, SlotsDiffer DEF IInv, FilesInPlace, TypeOK, MakeFile
  <2>4. ASSUME NEW k \in Fd, k > 2, \A j \in Index : Held(j)' => Slot(j)' # k
        PROVE  table'[k] = Closed
    BY <1>1, <1>4, <1>7, <2>4 DEF IInv, FilesInPlace, TypeOK
  <2>5. QED
    BY <1>6, <2>1, <2>2, <2>3, <2>4 DEF IInv, FilesInPlace, MakeFile, childOnly, Fd
<1>9. FilesOfStep'
  <2>1. \A i \in Index : fd'[i] = IF i = made THEN Slot(made) ELSE fd[i]
    BY <1>1, <1>4 DEF TypeOK
  <2>2. Slot(made) # -1
    BY <1>4, ProgramAssumption
  <2>3. QED
    BY <1>1, <1>4, <2>1, <2>2 DEF IInv, FilesOfStep, TypeOK, Index
<1>10. StreamsInPlace'
  BY <1>1, <1>4, <1>6 DEF IInv, StreamsInPlace, MakeFile, childOnly
<1>11. ResultSoFar'
  BY <1>1, <1>4 DEF IInv, ResultSoFar, NothingYet, MakeFile, childOnly, Before, Bad,
     ReservedSays
<1>12. QED
  BY <1>5, <1>8, <1>9, <1>10, <1>11 DEF IInv

LEMMA WriteInputKeeps ==
  ASSUME IInv, WriteInput
  PROVE  IInv'
<1>1. /\ TypeOK /\ FilesInPlace
      /\ step = "input" /\ step' = "fork"
      /\ UNCHANGED <<checks, fd, made, table, did>>
      /\ faulted \subseteq faulted'
  BY DEF IInv, WriteInput
<1>2. FilesInPlace' /\ (Kept' <=> Kept)
  BY <1>1, TableKept
<1>3. TypeOK'
  <2>1. stored' \in Contents
    BY <1>1 DEF WriteInput, TypeOK, Arguments, Contents
  <2>2. trouble' \in BOOLEAN
    BY <1>1, Zenon DEF WriteInput, TypeOK
  <2>3. QED
    BY <1>1, <2>1, <2>2 DEF WriteInput, TypeOK, Steps
<1>4. FilesOfStep'
  BY <1>1 DEF IInv, FilesOfStep
<1>5. StreamsInPlace'
  BY <1>1, <1>2 DEF IInv, StreamsInPlace, WriteInput
<1>6. ResultSoFar'
  BY <1>1 DEF IInv, ResultSoFar, NothingYet, WriteInput, Before, Bad, ReservedSays
<1>7. QED
  BY <1>2, <1>3, <1>4, <1>5, <1>6 DEF IInv

LEMMA ForkKeeps ==
  ASSUME IInv, Fork
  PROVE  IInv'
<1>1. /\ TypeOK /\ FilesInPlace
      /\ step = "fork" /\ step' = "wait"
      /\ UNCHANGED <<checks, args, fd, made, table, stored, passed, logged, did, trouble, faulted>>
      /\ child' = "moving" /\ moved' = 0 /\ streams' = table
  BY DEF IInv, Fork, parentOnly
<1>2. FilesInPlace' /\ (Kept' <=> Kept)
  BY <1>1, TableKept
<1>3. TypeOK'
  BY <1>1 DEF TypeOK, Steps
<1>4. FilesOfStep'
  BY <1>1 DEF IInv, FilesOfStep
<1>5. StreamsInPlace'
  <2>1. did = Nothing /\ ~ did.ran
    BY <1>1 DEF IInv, ResultSoFar, Before, Nothing, NotRun
  <2>2. \A i \in Index : Held(i)
    BY <1>1 DEF IInv, FilesOfStep, Held, Index
  <2>3. \A i \in Index : streams'[fd'[i]] = Temp(checks', i)
    BY <1>1, <2>2 DEF FilesInPlace
  <2>4. QED
    BY <1>1, <1>2, <2>1, <2>3 DEF IInv, StreamsInPlace, Index
<1>6. ResultSoFar'
  <2>1. child = "none"
    BY <1>1 DEF IInv, ResultSoFar, Before
  <2>2. QED
    BY <1>1, <2>1 DEF IInv, ResultSoFar, NothingYet, Before, Bad, ReservedSays
<1>7. QED
  BY <1>2, <1>3, <1>4, <1>5, <1>6 DEF IInv

LEMMA SystemCallFailsKeeps ==
  ASSUME IInv, SystemCallFails
  PROVE  IInv'
<1>1. /\ TypeOK /\ FilesInPlace
      /\ step \in {"mkstemp", "input", "fork"} /\ step' = "finish"
      /\ UNCHANGED <<checks, args, made, table, stored, passed, child, moved, streams, did>>
      /\ Log("error") /\ trouble' = TRUE
      /\ faulted \subseteq faulted'
  BY DEF IInv, SystemCallFails, SysError
<1>2. Bad' /\ logged' \in [Results -> Nat] /\ logged'["pass"] = logged["pass"]
  BY <1>1, LoggedIsBad DEF TypeOK
<1>3. /\ fd' \in [Index -> -1 .. MaxFd - 1]
      /\ \A i \in Index : i < made => fd'[i] = fd[i]
      /\ \A i \in Index : step = "mkstemp" /\ i >= made => fd'[i] \in {-1, 0}
  BY <1>1, ProgramAssumption DEF IInv, FilesOfStep, SystemCallFails, TypeOK, Index
<1>4. TypeOK'
  <2>1. trouble' \in BOOLEAN
    BY <1>1, Zenon
  <2>2. QED
    BY <1>1, <1>2, <1>3, <2>1 DEF TypeOK, Steps
<1>5. (Kept' <=> Kept) /\ \A i \in Index : Slot(i)' = Slot(i) /\ (Held(i)' <=> Held(i))
  BY <1>1, <1>3 DEF Kept, Slot, Held
<1>6. FilesInPlace'
  <2>1. ASSUME NEW j \in Index, Held(j)
        PROVE  fd'[j] = fd[j]
    BY <1>3, <2>1 DEF Held
  <2>2. QED
    BY <1>1, <1>5, <2>1 DEF FilesInPlace, Index, Fd
<1>7. FilesOfStep'
  BY <1>1, <1>3 DEF IInv, FilesOfStep, SystemCallFails, TypeOK
<1>8. StreamsInPlace'
  BY <1>1, <1>5 DEF IInv, StreamsInPlace
<1>9. ResultSoFar'
  BY <1>1, <1>2 DEF IInv, ResultSoFar, Before, ReservedSays, SoFar
<1>10. QED
  BY <1>4, <1>6, <1>7, <1>8, <1>9 DEF IInv

LEMMA MoveStreamKeeps ==
  ASSUME IInv, MoveStream
  PROVE  IInv'
<1>1. /\ TypeOK /\ FilesInPlace
      /\ step = "wait" /\ step' = "wait"
      /\ UNCHANGED <<checks, args, fd, made, table, stored, passed, logged, child, did,
                     trouble, faulted>>
      /\ child = "moving" /\ moved \in Index /\ moved' = moved + 1 /\ ~ did.ran
      /\ streams' = [streams EXCEPT ![moved] = streams[fd[moved]], ![fd[moved]] = Closed]
  BY DEF IInv, MoveStream, parentOnly, StreamsInPlace, TypeOK, Index, Nothing, NotRun
<1>2. FilesInPlace' /\ (Kept' <=> Kept)
  BY <1>1, TableKept
<1>3. made = 4 /\ \A i \in Index : Held(i) /\ fd[i] = Slot(i)
  BY <1>1 DEF IInv, FilesOfStep, Held, Index, FilesInPlace
<1>4. moved \in Fd /\ fd[moved] \in Fd
  BY <1>1, <1>3, SlotsDiffer, ProgramAssumption DEF Index, Fd
<1>5. streams' = [k \in Fd |-> IF k = fd[moved] THEN Closed
                               ELSE IF k = moved THEN streams[fd[moved]] ELSE streams[k]]
  BY <1>1, <1>4 DEF TypeOK
<1>6. TypeOK'
  <2>1. streams' \in [Fd -> Files]
    BY <1>1, <1>4, <1>5 DEF TypeOK, Files
  <2>2. QED
    BY <1>1, <2>1 DEF TypeOK, Index
<1>7. FilesOfStep'
  BY <1>1 DEF IInv, FilesOfStep
<1>8. StreamsInPlace'
  <2>1. ASSUME NEW i \in Index, i >= moved'
        PROVE  streams'[fd'[i]] = Temp(checks', i)
    <3>1. streams[fd[i]] = Temp(checks, i)
      BY <1>1, <2>1 DEF IInv, StreamsInPlace, Index
    <3>2. fd[i] # moved /\ fd[i] # fd[moved] /\ fd[i] \in Fd
      BY <1>1, <1>3, <2>1, SlotsDiffer DEF Index
    <3>3. QED
      BY <1>1, <1>5, <3>1, <3>2
  <2>2. ASSUME NEW i \in Index, i < moved', i = 0 => Kept
        PROVE  streams'[i] = Temp(checks', i)
    <3>1. i # fd[moved] /\ i \in Fd
      BY <1>1, <1>3, <2>2, SlotsDiffer, ProgramAssumption DEF Index, Fd
    <3>2. CASE i = moved
      BY <1>1, <1>5, <3>1, <3>2 DEF IInv, StreamsInPlace, Index
    <3>3. CASE i # moved
      BY <1>1, <1>5, <2>2, <3>1, <3>3 DEF IInv, StreamsInPlace, Index
    <3>4. QED
      BY <3>2, <3>3
  <2>3. ASSUME ~ Kept
        PROVE  streams'[0] = Closed
    <3>1. CASE moved = 0
      BY <1>1, <1>3, <1>4, <1>5, <2>3, <3>1 DEF Slot
    <3>2. CASE moved # 0
      <4>1. streams[0] = Closed /\ 0 \in Fd
        BY <1>1, <2>3, <3>2, ProgramAssumption DEF IInv, StreamsInPlace, Index, Fd
      <4>2. QED
        BY <1>5, <3>2, <4>1
    <3>3. QED
      BY <3>1, <3>2
  <2>4. QED
    BY <1>1, <1>2, <2>1, <2>2, <2>3 DEF IInv, StreamsInPlace, Index
<1>9. ResultSoFar'
  BY <1>1 DEF IInv, ResultSoFar, NothingYet, Before, Bad, ReservedSays
<1>10. QED
  BY <1>2, <1>6, <1>7, <1>8, <1>9 DEF IInv

LEMMA ExecKeeps ==
  ASSUME IInv, Exec
  PROVE  IInv'
<1>1. /\ TypeOK /\ FilesInPlace
      /\ step = "wait" /\ step' = "wait"
      /\ UNCHANGED <<checks, args, fd, made, table, stored, passed, logged, moved, streams, did,
                     trouble, faulted>>
      /\ child = "moving" /\ child' = "program" /\ moved = 4
  BY DEF IInv, Exec, parentOnly, StreamsInPlace
<1>2. FilesInPlace' /\ (Kept' <=> Kept)
  BY <1>1, TableKept
<1>3. TypeOK'
  BY <1>1 DEF TypeOK
<1>4. FilesOfStep'
  BY <1>1 DEF IInv, FilesOfStep
<1>5. StreamsInPlace'
  BY <1>1, <1>2 DEF IInv, StreamsInPlace
<1>6. ResultSoFar'
  BY <1>1 DEF IInv, ResultSoFar, NothingYet, Before, Bad, ReservedSays
<1>7. QED
  BY <1>2, <1>3, <1>4, <1>5, <1>6 DEF IInv

(* The ways a child ends: the program has run, or its code says why not,   *)
(* or a signal has killed it.                                              *)
LEMMA EndsKeeps ==
  ASSUME IInv, NEW d \in Deeds, Ends(d), child \in {"moving", "program"},
         d.ran => child = "program",
         d.ran \/ d.how = "signaled" \/ (d.how = "exited" /\ d.code \in Reserved),
         trouble' \in BOOLEAN,
         trouble' => trouble \/ (d.how = "exited" /\ d.code \in Reserved)
  PROVE  IInv'
<1>1. /\ TypeOK /\ FilesInPlace
      /\ step = "wait" /\ step' = "wait"
      /\ UNCHANGED <<checks, args, fd, made, table, stored, passed, logged, moved, streams, faulted>>
      /\ child' = "over" /\ did' = d
  BY DEF IInv, Ends, parentOnly, StreamsInPlace
<1>2. FilesInPlace' /\ (Kept' <=> Kept)
  BY <1>1, TableKept
<1>3. TypeOK'
  BY <1>1 DEF TypeOK
<1>4. FilesOfStep'
  BY <1>1 DEF IInv, FilesOfStep
<1>5. StreamsInPlace'
  BY <1>1, <1>2 DEF IInv, StreamsInPlace
<1>6. ResultSoFar'
  BY <1>1 DEF IInv, ResultSoFar, NothingYet, Before, Bad, ReservedSays
<1>7. QED
  BY <1>2, <1>3, <1>4, <1>5, <1>6 DEF IInv

LEMMA ChildExecFailsKeeps ==
  ASSUME IInv, ChildExecFails
  PROVE  IInv'
<1>1. PICK code \in Reserved : Ends(NotRun("exited", code))
  BY DEF ChildExecFails, Reserved
<1> DEFINE d == NotRun("exited", code)
<1>2. code \in 0 .. 255
  BY DEF Reserved, COULD_NOT_DUP2, COULD_NOT_CLOSE, COULD_NOT_EXEC
<1>3. d \in Deeds /\ ~ d.ran /\ d.how = "exited" /\ d.code \in Reserved
  BY <1>2 DEF NotRun, Deeds, Contents
<1>4. child \in {"moving", "program"} /\ trouble' \in BOOLEAN
  BY Zenon DEF ChildExecFails
<1> HIDE DEF d
<1>5. Ends(d)
  BY <1>1 DEF d
<1>6. QED
  BY <1>3, <1>4, <1>5, EndsKeeps

LEMMA ProgramExitsKeeps ==
  ASSUME IInv, ProgramExits
  PROVE  IInv'
<1>1. PICK out \in Contents, err \in Contents, code \in Codes : Ends(Ran(out, err, "exited", code))
  BY DEF ProgramExits
<1> DEFINE d == Ran(out, err, "exited", code)
<1>2. d \in Deeds /\ d.ran
  BY ProgramAssumption DEF Ran, Deeds
<1>3. child = "program" /\ trouble' = trouble /\ trouble \in BOOLEAN
  BY DEF ProgramExits, IInv, TypeOK
<1> HIDE DEF d
<1>4. Ends(d)
  BY <1>1 DEF d
<1>5. QED
  BY <1>2, <1>3, <1>4, EndsKeeps

LEMMA KilledKeeps ==
  ASSUME IInv, Killed
  PROVE  IInv'
<1>1. trouble' = trouble /\ trouble \in BOOLEAN
  BY DEF Killed, IInv, TypeOK
<1>2. CASE child = "moving" /\ Ends(NotRun("signaled", 0))
  <2> DEFINE d == NotRun("signaled", 0)
  <2>1. d \in Deeds /\ ~ d.ran /\ d.how = "signaled"
    BY DEF NotRun, Deeds, Contents
  <2> HIDE DEF d
  <2>2. Ends(d)
    BY <1>2 DEF d
  <2>3. QED
    BY <1>1, <1>2, <2>1, <2>2, EndsKeeps
<1>3. CASE child = "program" /\ \E out, err \in Contents : Ends(Ran(out, err, "signaled", 0))
  <2>1. PICK out \in Contents, err \in Contents : Ends(Ran(out, err, "signaled", 0))
    BY <1>3
  <2> DEFINE d == Ran(out, err, "signaled", 0)
  <2>2. d \in Deeds /\ d.ran /\ d.how = "signaled"
    BY DEF Ran, Deeds
  <2> HIDE DEF d
  <2>3. Ends(d)
    BY <2>1 DEF d
  <2>4. QED
    BY <1>1, <1>3, <2>2, <2>3, EndsKeeps
<1>4. QED
  BY <1>2, <1>3 DEF Killed

LEMMA WaitKeeps ==
  ASSUME IInv, Wait
  PROVE  IInv'
<1>1. /\ TypeOK /\ FilesInPlace
      /\ step = "wait" /\ child = "over" /\ did \in Deeds
      /\ UNCHANGED <<checks, args, made, stored, passed, child, moved, streams, did, trouble, faulted>>
      /\ made = 4 /\ Held(3)
  BY DEF IInv, Wait, childOnly, FilesOfStep, Held, TypeOK, Index
<1>2. CASE ReservedSays
  <2>1. Closing(3) /\ Log("error") /\ step' = "finish"
    BY <1>2 DEF Wait, ReservedSays
  <2>2. Bad' /\ logged' \in [Results -> Nat] /\ logged'["pass"] = logged["pass"]
    BY <1>1, <2>1, LoggedIsBad DEF TypeOK
  <2>3. /\ FilesInPlace' /\ (Kept' <=> Kept)
        /\ table' \in [Fd -> Files] /\ fd' \in [Index -> -1 .. MaxFd - 1]
    BY <1>1, <2>1, ClosingKeeps DEF Index
  <2>4. TypeOK'
    BY <1>1, <2>1, <2>2, <2>3 DEF TypeOK, Steps
  <2>5. FilesOfStep'
    BY <1>1, <2>1 DEF FilesOfStep
  <2>6. StreamsInPlace'
    BY <1>1, <2>1, <2>3 DEF IInv, StreamsInPlace
  <2>7. ResultSoFar'
    BY <1>1, <1>2, <2>1, <2>2 DEF IInv, ResultSoFar, SoFar, Before, ReservedSays
  <2>8. QED
    BY <2>3, <2>4, <2>5, <2>6, <2>7 DEF IInv
<1>3. CASE ~ ReservedSays
  <2>1. /\ step' = "stdout" /\ UNCHANGED <<fd, table>>
        /\ \/ did.how = "exited" /\ UNCHANGED logged
           \/ did.how = "signaled" /\ Log("error")
    BY <1>3 DEF Wait, ReservedSays
  <2>2. FilesInPlace' /\ (Kept' <=> Kept)
    BY <1>1, <2>1, TableKept
  <2>3. logged' \in [Results -> Nat] /\ logged'["pass"] = logged["pass"]
    BY <1>1, <2>1, LoggedIsBad DEF TypeOK
  <2>4. TypeOK'
    BY <1>1, <2>1, <2>3 DEF TypeOK, Steps
  <2>5. FilesOfStep'
    BY <1>1, <2>1 DEF IInv, FilesOfStep
  <2>6. StreamsInPlace'
    BY <1>1, <2>1, <2>2 DEF IInv, StreamsInPlace
  <2>7. SoFar'
    <3>1. CASE did.how = "exited" /\ UNCHANGED logged
      <4>1. did.ran
        BY <1>1, <1>3, <3>1 DEF IInv, ResultSoFar
      <4>2. ~ trouble /\ ~ Bad
        BY <1>1, <1>3 DEF IInv, ResultSoFar, NothingYet, Before
      <4>3. ~ Differs'
        BY <2>1 DEF Differs
      <4>4. (Bad' <=> Bad) /\ (did.ran' <=> did.ran) /\ did.how' = did.how
        BY <1>1, <3>1 DEF Bad
      <4>5. QED
        BY <1>1, <1>3, <3>1, <4>1, <4>2, <4>3, <4>4 DEF SoFar, ReservedSays
    <3>2. CASE did.how = "signaled" /\ Log("error")
      <4>1. Bad'
        BY <1>1, <3>2, LoggedIsBad DEF TypeOK
      <4>2. QED
        BY <1>1, <3>2, <4>1 DEF SoFar
    <3>3. QED
      BY <2>1, <3>1, <3>2
  <2>8. ResultSoFar'
    BY <1>1, <1>3, <2>1, <2>3, <2>7 DEF IInv, ResultSoFar, Before, ReservedSays
  <2>9. QED
    BY <2>2, <2>4, <2>5, <2>6, <2>8 DEF IInv
<1>4. QED
  BY <1>2, <1>3

LEMMA WaitFailsKeeps ==
  ASSUME IInv, WaitFails
  PROVE  IInv'
<1>1. /\ TypeOK /\ FilesInPlace
      /\ step = "wait" /\ step' = "finish" /\ child' = "none"
      /\ UNCHANGED <<checks, args, fd, made, table, stored, passed, moved, streams, did, faulted>>
      /\ Log("error") /\ trouble' = TRUE
  BY DEF IInv, WaitFails, SysError
<1>2. Bad' /\ logged' \in [Results -> Nat] /\ logged'["pass"] = logged["pass"]
  BY <1>1, LoggedIsBad DEF TypeOK
<1>3. FilesInPlace' /\ (Kept' <=> Kept)
  BY <1>1, TableKept
<1>4. TypeOK'
  <2>1. trouble' \in BOOLEAN
    BY <1>1, Zenon
  <2>2. QED
    BY <1>1, <1>2, <2>1 DEF TypeOK, Steps
<1>5. FilesOfStep'
  BY <1>1 DEF IInv, FilesOfStep
<1>6. StreamsInPlace'
  BY <1>1, <1>3 DEF IInv, StreamsInPlace
<1>7. ResultSoFar'
  BY <1>1, <1>2 DEF IInv, ResultSoFar, Before, ReservedSays, SoFar
<1>8. QED
  BY <1>3, <1>4, <1>5, <1>6, <1>7 DEF IInv

(* What is left in a file that a program has had is what it has written.   *)
Written(i) == IF i = 1 THEN did.out ELSE did.err

LEMMA LeftIsWritten ==
  ASSUME IInv, NEW i \in 1 .. 2, did.ran
  PROVE  Left(i) = Written(i)
  BY DEF IInv, StreamsInPlace, Index, Left, Written

(* What every comparison of an output does to the descriptors.             *)
LEMMA OutputFiles ==
  ASSUME IInv, NEW i \in 1 .. 2, Reading(i), AfterReading(i),
         UNCHANGED <<fd, table>> \/ Closing(i),
         UNCHANGED <<checks, args, made, stored, childOnly>>,
         logged' \in [Results -> Nat], passed' \in BOOLEAN, trouble' \in BOOLEAN
  PROVE  TypeOK' /\ FilesInPlace' /\ FilesOfStep' /\ StreamsInPlace'
<1>1. /\ TypeOK /\ FilesInPlace /\ FilesOfStep
      /\ i = 1 => step = "stdout" /\ step' = "stderr"
      /\ i = 2 => step = "stderr" /\ step' = "code"
      /\ UNCHANGED <<child, moved, streams, did, faulted>>
  BY DEF IInv, Reading, AfterReading, childOnly
<1>2. made = 4 /\ Held(i) /\ step # "idle" /\ step' # "idle"
  BY <1>1 DEF FilesOfStep, Held, Index
<1>3. /\ FilesInPlace' /\ (Kept' <=> Kept)
      /\ table' \in [Fd -> Files] /\ fd' \in [Index -> -1 .. MaxFd - 1]
      /\ \A j \in Index : j # i => fd'[j] = fd[j]
  <2>1. CASE UNCHANGED <<fd, table>>
    BY <1>1, <1>2, <2>1, TableKept DEF TypeOK
  <2>2. CASE Closing(i)
    BY <1>1, <1>2, <2>2, ClosingKeeps DEF Index
  <2>3. QED
    BY <2>1, <2>2
<1>4. TypeOK'
  BY <1>1, <1>3 DEF TypeOK, Steps
<1>5. FilesOfStep'
  BY <1>1, <1>2, <1>3 DEF FilesOfStep, Index
<1>6. StreamsInPlace'
  BY <1>1, <1>3 DEF IInv, StreamsInPlace
<1>7. QED
  BY <1>3, <1>4, <1>5, <1>6

LEMMA CheckOutputKeeps ==
  ASSUME IInv, NEW i \in 1 .. 2, CheckOutput(i)
  PROVE  IInv'
<1>1. /\ TypeOK /\ ResultSoFar
      /\ i = 1 => step = "stdout" /\ step' = "stderr"
      /\ i = 2 => step = "stderr" /\ step' = "code"
      /\ Reading(i) /\ AfterReading(i)
      /\ UNCHANGED <<fd, table>> \/ Closing(i)
      /\ UNCHANGED <<checks, args, made, stored, childOnly>>
      /\ UNCHANGED <<child, did, faulted>>
      /\ trouble' = trouble
  BY DEF IInv, CheckOutput, Reading, AfterReading, childOnly
<1>2. \/ Wanted(i) \in {ANY_OUTPUT, Left(i)} /\ UNCHANGED <<passed, logged>>
      \/ Wanted(i) \notin {ANY_OUTPUT, Left(i)} /\ passed' = FALSE /\ Log("fail")
  BY DEF CheckOutput
<1>3. logged' \in [Results -> Nat] /\ logged'["pass"] = logged["pass"]
  BY <1>1, <1>2, LoggedIsBad DEF TypeOK
<1>4. ~ passed' /\ passed' \in BOOLEAN /\ trouble' \in BOOLEAN
  <2>1. ~ passed'
    BY <1>1, <1>2 DEF ResultSoFar
  <2>2. passed' \in BOOLEAN
    BY <1>1, <1>2, Zenon DEF TypeOK
  <2>3. QED
    BY <1>1, <2>1, <2>2 DEF TypeOK
<1>5. TypeOK' /\ FilesInPlace' /\ FilesOfStep' /\ StreamsInPlace'
  BY <1>1, <1>3, <1>4, OutputFiles
<1>6. Differs' <=> Differs \/ Wanted(i) \notin {ANY_OUTPUT, Written(i)}
  BY <1>1 DEF Differs, OutputDiffers, ErrorDiffers, Wanted, Written
<1>7. SoFar'
  <2>1. SoFar /\ ~ ReservedSays
    BY <1>1 DEF ResultSoFar, TypeOK, Before
  <2>2. CASE Wanted(i) \in {ANY_OUTPUT, Left(i)} /\ UNCHANGED <<passed, logged>>
    <3>1. Bad' <=> Bad
      BY <2>2 DEF Bad
    <3>2. did.ran => (Differs' <=> Differs)
      BY <1>6, <2>2, LeftIsWritten
    <3>3. QED
      BY <1>1, <2>1, <3>1, <3>2 DEF SoFar, ReservedSays
  <2>3. CASE Wanted(i) \notin {ANY_OUTPUT, Left(i)} /\ passed' = FALSE /\ Log("fail")
    <3>1. Bad'
      BY <1>1, <2>3, LoggedIsBad DEF TypeOK
    <3>2. did.ran => Differs'
      BY <1>6, <2>3, LeftIsWritten
    <3>3. QED
      BY <1>1, <2>1, <3>1, <3>2 DEF SoFar, ReservedSays
  <2>4. QED
    BY <1>2, <2>2, <2>3
<1>8. ResultSoFar'
  BY <1>1, <1>3, <1>4, <1>7 DEF ResultSoFar, Before, ReservedSays
<1>9. QED
  BY <1>5, <1>8 DEF IInv

LEMMA ReadFailsKeeps ==
  ASSUME IInv, NEW i \in 1 .. 2, ReadFails(i)
  PROVE  IInv'
<1>1. /\ TypeOK /\ ResultSoFar
      /\ i = 1 => step = "stdout" /\ step' = "stderr"
      /\ i = 2 => step = "stderr" /\ step' = "code"
      /\ Reading(i) /\ AfterReading(i) /\ Closing(i)
      /\ UNCHANGED <<checks, args, made, stored, childOnly>>
      /\ UNCHANGED <<child, did, faulted>>
      /\ passed' = FALSE /\ trouble' = TRUE /\ Log("error")
  BY DEF IInv, ReadFails, Reading, AfterReading, childOnly
<1>2. Bad' /\ logged' \in [Results -> Nat] /\ logged'["pass"] = logged["pass"]
  BY <1>1, LoggedIsBad DEF TypeOK
<1>3. passed' \in BOOLEAN /\ trouble' \in BOOLEAN
  BY <1>1, Zenon
<1>4. TypeOK' /\ FilesInPlace' /\ FilesOfStep' /\ StreamsInPlace'
  BY <1>1, <1>2, <1>3, OutputFiles
<1>5. ResultSoFar'
  BY <1>1, <1>2 DEF ResultSoFar, SoFar, Before, ReservedSays
<1>6. QED
  BY <1>4, <1>5 DEF IInv

LEMMA CheckCodeKeeps ==
  ASSUME IInv, CheckCode
  PROVE  IInv'
<1>1. /\ TypeOK /\ FilesInPlace /\ FilesOfStep /\ ResultSoFar /\ ~ passed
      /\ step = "code" /\ step' = "finish"
      /\ UNCHANGED <<checks, args, fd, made, table, stored, child, moved, streams, did,
                     trouble, faulted>>
  BY DEF IInv, CheckCode, childOnly, ResultSoFar
<1>2. \/ CodeMismatches /\ passed' = FALSE /\ Log("fail")
      \/ ~ CodeMismatches /\ UNCHANGED <<passed, logged>>
  BY <1>1 DEF CheckCode
<1>3. logged' \in [Results -> Nat] /\ logged'["pass"] = logged["pass"]
  BY <1>1, <1>2, LoggedIsBad DEF TypeOK
<1>4. FilesInPlace' /\ (Kept' <=> Kept)
  BY <1>1, TableKept
<1>5. TypeOK'
  <2>1. passed' \in BOOLEAN
    BY <1>1, <1>2 DEF TypeOK
  <2>2. QED
    BY <1>1, <1>3, <2>1 DEF TypeOK, Steps
<1>6. FilesOfStep'
  BY <1>1 DEF FilesOfStep
<1>7. StreamsInPlace'
  BY <1>1, <1>4 DEF IInv, StreamsInPlace
<1>8. Differs' <=> Differs \/ CodeMismatches
  BY <1>1 DEF Differs, OutputDiffers, ErrorDiffers, CodeMismatches
<1>9. SoFar'
  <2>1. SoFar /\ ~ ReservedSays
    BY <1>1 DEF ResultSoFar, TypeOK, Before
  <2>2. CASE CodeMismatches /\ passed' = FALSE /\ Log("fail")
    <3>1. Bad'
      BY <1>1, <2>2, LoggedIsBad DEF TypeOK
    <3>2. QED
      BY <1>1, <1>8, <2>1, <2>2, <3>1 DEF SoFar, ReservedSays
  <2>3. CASE ~ CodeMismatches /\ UNCHANGED <<passed, logged>>
    <3>1. Bad' <=> Bad
      BY <2>3 DEF Bad
    <3>2. QED
      BY <1>1, <1>8, <2>1, <2>3, <3>1 DEF SoFar, ReservedSays
  <2>4. QED
    BY <1>2, <2>2, <2>3
<1>10. ResultSoFar'
  BY <1>1, <1>2, <1>3, <1>9 DEF ResultSoFar, Before, ReservedSays
<1>11. QED
  BY <1>4, <1>5, <1>6, <1>7, <1>10 DEF IInv

(***************************************************************************)
(* Finish closes every file of the check.  A mkstemp that failed before    *)
(* the last one has left zeros in fd, and with them goes standard input.   *)
(***************************************************************************)
LEMMA FinishKeeps ==
  ASSUME IInv, Finish
  PROVE  IInv'
<1>1. /\ TypeOK /\ FilesInPlace /\ FilesOfStep
      /\ step = "finish" /\ step' = "idle"
      /\ UNCHANGED <<checks, args, fd, made, stored, passed, logged, child, moved, streams, did,
                     trouble, faulted>>
      /\ table' = [k \in Fd |-> IF k \in {fd[i] : i \in Index} THEN Closed ELSE table[k]]
  BY DEF IInv, Finish, childOnly, Without
<1>2. 0 \in Fd /\ 1 \in Fd /\ 2 \in Fd
  BY ProgramAssumption DEF Fd
<1>3. \A i \in Index : ~ Held(i)'
  BY <1>1 DEF Held
<1>4. \A i \in Index : \/ Held(i) /\ fd[i] = Slot(i)
                       \/ fd[i] = -1
                       \/ fd[i] = 0 /\ "mkstemp" \in faulted
  BY <1>1 DEF FilesInPlace, FilesOfStep, Held, Index, TypeOK
<1>5. TypeOK'
  <2>1. table' \in [Fd -> Files]
    BY <1>1 DEF TypeOK, Files
  <2>2. QED
    BY <1>1, <2>1 DEF TypeOK, Steps
<1>6. FilesInPlace'
  <2>1. Kept' \/ "mkstemp" \in faulted'
    <3>1. ASSUME "mkstemp" \notin faulted PROVE Kept'
      <4>1. Kept
        BY <1>1, <3>1 DEF FilesInPlace
      <4>2. \A i \in Index : fd[i] # 0
        BY <1>4, <3>1, <4>1, SlotsDiffer
      <4>3. QED
        BY <1>1, <1>2, <4>1, <4>2 DEF Kept
    <3>2. QED
      BY <1>1, <3>1
  <2>2. Kept' \/ table'[0] = Closed
    <3>1. CASE 0 \in {fd[i] : i \in Index}
      BY <1>1, <1>2, <3>1
    <3>2. CASE 0 \notin {fd[i] : i \in Index}
      <4>1. table'[0] = table[0]
        BY <1>1, <1>2, <3>2
      <4>2. ~ Kept => ~ Held(0)
        BY <1>1, <3>2, SlotsDiffer DEF FilesInPlace, Index
      <4>3. QED
        BY <1>1, <4>1, <4>2 DEF FilesInPlace, Kept
    <3>3. QED
      BY <3>1, <3>2
  <2>3. table'[1] = Own(1) /\ table'[2] = Own(2)
    <3>1. \A i \in Index : fd[i] \notin {1, 2}
      BY <1>4, SlotsDiffer
    <3>2. QED
      BY <1>1, <1>2, <3>1 DEF FilesInPlace
  <2>4. ASSUME NEW k \in Fd, k > 2
        PROVE  table'[k] = Closed
    <3>1. CASE \E i \in Index : Held(i) /\ Slot(i) = k
      BY <1>1, <3>1 DEF FilesInPlace
    <3>2. CASE \A i \in Index : Held(i) => Slot(i) # k
      BY <1>1, <2>4, <3>2 DEF FilesInPlace
    <3>3. QED
      BY <3>1, <3>2
  <2>5. QED
    BY <1>3, <2>1, <2>2, <2>3, <2>4 DEF FilesInPlace
<1>7. FilesOfStep'
  BY <1>1 DEF FilesOfStep
<1>8. StreamsInPlace'
  <2>1. Kept' => Kept
    BY <1>1, <1>2 DEF Kept, Closed, Own
  <2>2. QED
    BY <1>1, <2>1 DEF IInv, StreamsInPlace
<1>9. ResultSoFar'
  BY <1>1 DEF IInv, ResultSoFar, SoFar, Before, ReservedSays, Bad, Differs, OutputDiffers, ErrorDiffers,
     CodeMismatches
<1>10. QED
  BY <1>5, <1>6, <1>7, <1>8, <1>9 DEF IInv

LEMMA StutterKeeps ==
  ASSUME IInv, UNCHANGED vars
  PROVE  IInv'
  BY DEF vars, IInv, TypeOK, FilesInPlace, FilesOfStep, StreamsInPlace, ResultSoFar, NothingYet,
     SoFar, Bad, Differs, OutputDiffers, ErrorDiffers, CodeMismatches, ReservedSays, Kept, Slot, Held

LEMMA StepKeeps == IInv /\ [Next]_vars => IInv'
<1> SUFFICES ASSUME IInv, [Next]_vars PROVE IInv'
  OBVIOUS
<1>1. CASE Parent
  BY <1>1, BeginKeeps, MakeFileKeeps, WriteInputKeeps, ForkKeeps, WaitKeeps, CheckOutputKeeps,
     CheckCodeKeeps, FinishKeeps DEF Parent
<1>2. CASE Child
  BY <1>2, MoveStreamKeeps, ExecKeeps, ProgramExitsKeeps DEF Child
<1>3. CASE Mishap
  BY <1>3, SystemCallFailsKeeps, WaitFailsKeeps, ReadFailsKeeps, ChildExecFailsKeeps, KilledKeeps
     DEF Mishap
<1>4. CASE UNCHANGED vars
  BY <1>4, StutterKeeps
<1>5. QED
  BY <1>1, <1>2, <1>3, <1>4 DEF Next

-----------------------------------------------------------------------------
(* The files, the streams and the results are in order at every step of    *)
(* every sequence of checks, for every set of faults, inputs and codes.    *)
THEOREM Invariance == Spec => []IInv
<1>1. Init => IInv
  BY InitHolds
<1>2. IInv /\ [Next]_vars => IInv'
  BY StepKeeps
<1>3. QED
  BY <1>1, <1>2, PTL DEF Spec

(***************************************************************************)
(* What do_check_exec leaves open: the files of before, or, once a mkstemp *)
(* has failed, all of these but the standard input, which the zeros that   *)
(* the initialiser leaves in fd may have had closed.                       *)
(***************************************************************************)
THEOREM DescriptorsAlwaysKept == Spec => []DescriptorsKept
<1>1. IInv => DescriptorsKept
  <2> SUFFICES ASSUME IInv, step = "idle"
               PROVE  /\ table \in {Caller, Without(Caller, {0})}
                      /\ "mkstemp" \notin faulted => table = Caller
    BY DEF DescriptorsKept
  <2>1. \A i \in Index : ~ Held(i)
    BY DEF Held
  <2>2. \A k \in Fd : k # 0 => table[k] = Caller[k]
    BY <2>1, ProgramAssumption DEF IInv, FilesInPlace, Caller, Fd
  <2>3. /\ table[0] \in {Caller[0], Closed}
        /\ "mkstemp" \notin faulted => table[0] = Caller[0]
    BY <2>1, ProgramAssumption DEF IInv, FilesInPlace, Kept, Caller, Fd, Index
  <2>4. /\ table \in [Fd -> Files] /\ Caller = [k \in Fd |-> Caller[k]]
        /\ Without(Caller, {0}) = [k \in Fd |-> IF k = 0 THEN Closed ELSE Caller[k]]
    BY DEF IInv, TypeOK, Caller, Without
  <2>5. QED
    BY <2>2, <2>3, <2>4
<1>2. QED
  BY <1>1, Invariance, PTL

(***************************************************************************)
(* A program that a check runs has the files of this check as its streams, *)
(* but no standard input exactly if its caller has lost its own, and the   *)
(* check's input in the first unless fclose has failed (child_exec and     *)
(* fdwrite_string).                                                        *)
(***************************************************************************)
THEOREM StreamsAlwaysReach == Spec => []StreamsReachProgram
<1>1. IInv => StreamsReachProgram
  <2> SUFFICES ASSUME IInv, child = "program"
               PROVE  /\ streams[0] = IF Kept THEN Temp(checks, 0) ELSE Closed
                      /\ \A i \in 1 .. 2 : streams[i] = Temp(checks, i)
                      /\ "fclose" \notin faulted => stored = args.in
    BY DEF StreamsReachProgram, Kept
  <2>1. step = "wait" /\ moved = 4
    BY DEF IInv, StreamsInPlace
  <2>2. \A i \in Index : (i = 0 => Kept) => streams[i] = Temp(checks, i)
    BY <2>1 DEF IInv, StreamsInPlace, Index
  <2>3. ~ Kept => streams[0] = Closed
    BY <2>1 DEF IInv, StreamsInPlace
  <2>4. QED
    BY <2>1, <2>2, <2>3 DEF IInv, StreamsInPlace, Index
<1>2. QED
  BY <1>1, Invariance, PTL

(***************************************************************************)
(* A check tells what happened: a failure or an error exactly when the     *)
(* program did not do what was expected of it, could not be run or ended   *)
(* with a reserved code, and otherwise nothing, a pass neither             *)
(* (do_check_exec).                                                        *)
(***************************************************************************)
THEOREM ResultAlwaysTold == Spec => []ResultIsTold
<1>1. IInv => ResultIsTold
  <2> SUFFICES ASSUME IInv, Finished
               PROVE  /\ Bad <=> ~ AsExpected \/ did.code \in Reserved
                      /\ logged["pass"] = 0
    BY DEF ResultIsTold
  <2>1. SoFar /\ logged["pass"] = 0 /\ step = "idle"
    BY DEF IInv, ResultSoFar, TypeOK, Finished, Before
  <2>2. /\ args.code \in Codes \cup {ANY_EXIT, ANY_EXIT_ERROR}
        /\ did.how \in {"exited", "signaled"}
    BY DEF IInv, TypeOK, Arguments, Deeds
  <2>3. AsExpected <=> ~ trouble /\ did.ran /\ did.how = "exited" /\ ~ Differs
    BY <2>1, <2>2, ProgramAssumption
       DEF AsExpected, Differs, OutputDiffers, ErrorDiffers, CodeMismatches, ANY_EXIT, ANY_EXIT_ERROR
  <2>4. did.how = "signaled" => Bad
    BY <2>1 DEF SoFar
  <2>5. QED
    BY <2>1, <2>2, <2>3, <2>4 DEF SoFar
<1>2. QED
  BY <1>1, Invariance, PTL
=============================================================================
