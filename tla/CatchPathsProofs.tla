--------------------------- MODULE CatchPathsProofs ---------------------------
(***************************************************************************)
(* Theorems about what a test case runs, for any functions, options and    *)
(* numbers of values: nothing is run twice (NoneTwice), and nothing is     *)
(* forgotten (NoneForgotten).                                              *)
(*                                                                         *)
(* A choice is a path of places with the values of its generators.  It is  *)
(* begun when its section has started, or when a generator around it is    *)
(* past its value; it is behind when a section around it is complete, or a *)
(* generator around it is past its value.  What was run stays begun, so    *)
(* that it is not run again; and what is behind has been run, so that it   *)
(* has been when the test case is complete.  Both have to be shown where a *)
(* tracker is closed, for each of the ways in which it may be left.        *)
(***************************************************************************)
EXTENDS CatchRunProofs, FiniteSetTheorems

Choice == Seq(Nat \X Nat)

PathOf(p) == [i \in 1 .. Len(p) |-> p[i][1]]

Upto(p, i) == SubSeq(PathOf(p), 1, i)

Value(c, u) == IF isGeneratorTracker(c, u) THEN c.generator[u].at ELSE 0

(* The first k places of p have the values that the context's trackers do. *)
Agrees(c, p, k) == \A j \in 1 .. k : p[j][2] = Value(c, Upto(p, j))

LEMMA ChoiceIs ==
  ASSUME NEW p \in Choice
  PROVE  /\ Len(p) \in Nat /\ PathOf(p) \in Path /\ Len(PathOf(p)) = Len(p)
         /\ \A i \in 1 .. Len(p) : /\ PathOf(p)[i] = p[i][1]
                                   /\ p[i][1] \in Nat /\ p[i][2] \in Nat /\ p[i] = <<p[i][1], p[i][2]>>
         /\ \A i \in 0 .. Len(p) : /\ Upto(p, i) \in Path /\ Len(Upto(p, i)) = i
                                   /\ \A j \in 0 .. i : SubSeq(Upto(p, i), 1, j) = Upto(p, j)
                                   /\ \A j \in 1 .. i : Upto(p, i)[j] = p[j][1]
         /\ Upto(p, Len(p)) = PathOf(p)
<1>1. Len(p) \in Nat /\ p \in [1 .. Len(p) -> Nat \X Nat]
  BY DEF Choice
<1>2. \A i \in 1 .. Len(p) : p[i][1] \in Nat /\ p[i][2] \in Nat /\ p[i] = <<p[i][1], p[i][2]>>
  BY <1>1
<1>3. PathOf(p) \in [1 .. Len(p) -> Nat]
  BY <1>2 DEF PathOf
<1>4. PathOf(p) \in Path /\ Len(PathOf(p)) = Len(p)
  BY <1>1, <1>3 DEF Path
<1>5. \A i \in 1 .. Len(p) : PathOf(p)[i] = p[i][1]
  BY DEF PathOf
<1>6. ASSUME NEW i \in 0 .. Len(p)
      PROVE  /\ Upto(p, i) \in Path /\ Len(Upto(p, i)) = i
             /\ \A j \in 0 .. i : SubSeq(Upto(p, i), 1, j) = Upto(p, j)
             /\ \A j \in 1 .. i : Upto(p, i)[j] = p[j][1]
  <2>1. i \in 0 .. Len(PathOf(p))
    BY <1>4
  <2>2. /\ Upto(p, i) \in Path /\ Len(Upto(p, i)) = i
        /\ \A j \in 0 .. i : SubSeq(Upto(p, i), 1, j) = Upto(p, j)
    BY <1>4, <2>1, PathParts DEF Upto
  <2>3. \A j \in 1 .. i : Upto(p, i)[j] = PathOf(p)[j]
    BY <1>4, <2>1, PathAt DEF Upto
  <2>4. \A j \in 1 .. i : j \in 1 .. Len(p)
    BY <1>1
  <2>5. QED
    BY <1>5, <2>2, <2>3, <2>4
<1>7. Upto(p, Len(p)) = PathOf(p)
  <2>1. Len(PathOf(p)) \in 0 .. Len(PathOf(p))
    BY <1>1, <1>4
  <2>2. QED
    BY <1>4, <2>1, PathParts DEF Upto
<1>8. QED
  BY <1>1, <1>2, <1>4, <1>5, <1>6, <1>7

LEMMA ChoiceStep ==
  ASSUME NEW p \in Choice, NEW i \in 1 .. Len(p)
  PROVE  /\ Parent(Upto(p, i)) = Upto(p, i - 1) /\ Upto(p, i) # Root
         /\ Append(Upto(p, i - 1), p[i][1]) = Upto(p, i)
         /\ Last(Upto(p, i)) = p[i][1]
<1>1. /\ Len(p) \in Nat /\ PathOf(p) \in Path /\ Len(PathOf(p)) = Len(p)
      /\ PathOf(p)[i] = p[i][1]
      /\ Upto(p, i) \in Path /\ Len(Upto(p, i)) = i /\ Upto(p, i)[i] = p[i][1]
  <2>1. i \in 0 .. Len(p) /\ i \in 1 .. i /\ Len(p) \in Nat
    BY ChoiceIs
  <2>2. QED
    BY <2>1, ChoiceIs
<1>2. Parent(Upto(p, i)) = Upto(p, i - 1)
  <2>1. i \in 0 .. Len(PathOf(p)) /\ i > 0
    BY <1>1
  <2>2. QED
    BY <1>1, <2>1, PathParts DEF Upto
<1>3. Append(Upto(p, i - 1), p[i][1]) = Upto(p, i)
  <2>1. i - 1 \in Nat /\ i - 1 < Len(PathOf(p)) /\ (i - 1) + 1 = i
    BY <1>1
  <2>2. Append(SubSeq(PathOf(p), 1, i - 1), PathOf(p)[(i - 1) + 1]) = SubSeq(PathOf(p), 1, (i - 1) + 1)
    BY <1>1, <2>1, PathStep
  <2>3. QED
    BY <1>1, <2>1, <2>2 DEF Upto
<1>4. Upto(p, i) # Root
  BY <1>1, RootIs
<1>5. Last(Upto(p, i)) = p[i][1]
  BY <1>1, <1>4, LastAndFront DEF Path, Root
<1>6. QED
  BY <1>2, <1>3, <1>4, <1>5

LEMMA FrontPart ==
  ASSUME NEW S, NEW s \in Seq(S), NEW k \in 0 .. Len(s)
  PROVE  /\ SubSeq(s, 1, k) \in Seq(S) /\ Len(SubSeq(s, 1, k)) = k
         /\ \A i \in 1 .. k : SubSeq(s, 1, k)[i] = s[i]
         /\ k = Len(s) => SubSeq(s, 1, k) = s
         /\ IsPrefix(SubSeq(s, 1, k), s)
<1>1. SubSeq(s, 1, k) \in Seq(S) /\ Len(SubSeq(s, 1, k)) = k
      /\ \A i \in 1 .. k : SubSeq(s, 1, k)[i] = s[i]
  OBVIOUS
<1>2. k = Len(s) => SubSeq(s, 1, k) = s
  OBVIOUS
<1>3. SubSeq(SubSeq(s, 1, k), 1, k) = SubSeq(s, 1, k)
  OBVIOUS
<1>4. QED
  BY <1>1, <1>2, <1>3 DEF IsPrefix

(* A tracker's own choice, and what it shares with another.                *)
LEMMA ValuedIs ==
  ASSUME NEW c, IsContext(c), NEW t \in Path
  PROVE  /\ Valued(c, t) \in Choice /\ Len(Valued(c, t)) = Len(t) /\ PathOf(Valued(c, t)) = t
         /\ \A i \in 0 .. Len(t) : Upto(Valued(c, t), i) = SubSeq(t, 1, i)
         /\ \A i \in 1 .. Len(t) : Valued(c, t)[i] = <<t[i], Value(c, SubSeq(t, 1, i))>>
         /\ Agrees(c, Valued(c, t), Len(t))
<1> DEFINE v == Valued(c, t)
<1>1. Len(t) \in Nat /\ t \in [1 .. Len(t) -> Nat]
  BY DEF Path
<1>2. \A i \in 1 .. Len(t) : v[i] = <<t[i], Value(c, SubSeq(t, 1, i))>>
  BY DEF Valued, Value
<1>3. \A u : Value(c, u) \in Nat
  BY DEF Value, isGeneratorTracker, IsContext
<1>4. v = [i \in 1 .. Len(t) |-> v[i]]
  BY DEF Valued
<1>5. v \in [1 .. Len(t) -> Nat \X Nat]
  <2>1. \A i \in 1 .. Len(t) : t[i] \in Nat
    BY <1>1
  <2> HIDE DEF v
  <2>2. \A i \in 1 .. Len(t) : v[i] \in Nat \X Nat
    <3>1. ASSUME NEW i \in 1 .. Len(t) PROVE v[i] \in Nat \X Nat
      <4>1. v[i] = <<t[i], Value(c, SubSeq(t, 1, i))>>
        BY <1>2
      <4>2. t[i] \in Nat /\ Value(c, SubSeq(t, 1, i)) \in Nat
        BY <1>3, <2>1
      <4>3. QED
        BY <4>1, <4>2
    <3>2. QED
      BY <3>1
  <2>3. QED
    BY <1>4, <2>2
<1> HIDE DEF v
<1>6. v \in Choice /\ Len(v) = Len(t)
  BY <1>1, <1>5 DEF Choice
<1>7. PathOf(v) = t
  <2>1. \A i \in 1 .. Len(t) : v[i][1] = t[i]
    BY <1>2
  <2>2. PathOf(v) = [i \in 1 .. Len(t) |-> t[i]]
    BY <1>6, <2>1 DEF PathOf
  <2>3. QED
    BY <1>1, <2>2
<1>8. \A i \in 0 .. Len(t) : Upto(v, i) = SubSeq(t, 1, i)
  BY <1>7 DEF Upto
<1>9. Agrees(c, v, Len(t))
  <2>1. \A i \in 1 .. Len(t) : Upto(v, i) = SubSeq(t, 1, i)
    BY <1>1, <1>8
  <2>2. \A i \in 1 .. Len(t) : v[i][2] = Value(c, SubSeq(t, 1, i))
    BY <1>2
  <2>3. QED
    BY <2>1, <2>2 DEF Agrees
<1>10. QED
  BY <1>2, <1>6, <1>7, <1>8, <1>9 DEF v

LEMMA AgreesValued ==
  ASSUME NEW c, IsContext(c), NEW p \in Choice, NEW k \in 0 .. Len(p), Agrees(c, p, k)
  PROVE  /\ Valued(c, Upto(p, k)) = SubSeq(p, 1, k)
         /\ IsPrefix(Valued(c, Upto(p, k)), p)
         /\ k = Len(p) => Valued(c, Upto(p, k)) = p
<1> DEFINE u == Upto(p, k)
           v == Valued(c, u)
           s == SubSeq(p, 1, k)
<1>1. /\ Len(p) \in Nat /\ u \in Path /\ Len(u) = k /\ k \in Nat
      /\ \A j \in 0 .. k : SubSeq(u, 1, j) = Upto(p, j)
      /\ \A j \in 1 .. k : u[j] = p[j][1] /\ p[j] = <<p[j][1], p[j][2]>>
  <2>1. Len(p) \in Nat
    BY ChoiceIs
  <2>2. \A j \in 1 .. k : j \in 1 .. Len(p)
    BY <2>1
  <2>3. QED
    BY <2>1, <2>2, ChoiceIs
<1>2. v \in Seq(Nat \X Nat) /\ Len(v) = k /\ \A i \in 1 .. k : v[i] = <<u[i], Value(c, SubSeq(u, 1, i))>>
  BY <1>1, ValuedIs DEF Choice
<1>3. /\ s \in Seq(Nat \X Nat) /\ Len(s) = k /\ \A i \in 1 .. k : s[i] = p[i]
      /\ k = Len(p) => s = p
      /\ IsPrefix(s, p)
  BY FrontPart DEF Choice
<1>4. \A i \in 1 .. k : v[i] = s[i]
  <2>1. ASSUME NEW i \in 1 .. k
        PROVE  v[i] = s[i]
    <3>1. i \in 0 .. k
      BY <1>1
    <3>2. SubSeq(u, 1, i) = Upto(p, i) /\ u[i] = p[i][1] /\ p[i] = <<p[i][1], p[i][2]>>
      BY <1>1, <3>1
    <3>3. p[i][2] = Value(c, Upto(p, i))
      BY DEF Agrees
    <3>4. v[i] = <<u[i], Value(c, SubSeq(u, 1, i))>> /\ s[i] = p[i]
      BY <1>2, <1>3
    <3> HIDE DEF u, v, s
    <3>5. QED
      BY <3>2, <3>3, <3>4
  <2>2. QED
    BY <2>1
<1> HIDE DEF u, v, s
<1>5. v = s
  BY <1>1, <1>2, <1>3, <1>4
<1>6. QED
  BY <1>3, <1>5 DEF u, v, s

-----------------------------------------------------------------------------
(***************************************************************************)
(* What becomes of the tracker that is closed: it stays open, it waits for *)
(* a child, or it completes, and is past a value if it has any.  All but   *)
(* what is below it stays as it is.                                        *)
(***************************************************************************)
Spares(c, d, t) ==
  /\ DOMAIN d.state \subseteq DOMAIN c.state /\ DOMAIN d.generator \subseteq DOMAIN c.generator
  /\ \A u \in DOMAIN d.state : u # t => d.state[u] = c.state[u]
  /\ \A u \in DOMAIN d.generator : u # t => d.generator[u] = c.generator[u]
  /\ \A u \in DOMAIN c.state : ~ IsStrictPrefix(t, u) => u \in DOMAIN d.state
  /\ \A u \in DOMAIN c.generator : ~ IsStrictPrefix(t, u) => u \in DOMAIN d.generator

Same(c, d) == DOMAIN d.state = DOMAIN c.state /\ DOMAIN d.generator = DOMAIN c.generator

Alone(d, t) == \A u : IsStrictPrefix(t, u) => u \notin DOMAIN d.state /\ u \notin DOMAIN d.generator

Ready(c, t) ==
  \/ c.state[t] = "Executing"
  \/ c.state[t] = "ExecutingChildren" /\ \A u \in Children(c, t) : isComplete(c, u)

Stays(c, d, t) ==
  /\ ~ Ready(c, t) /\ Same(c, d)
  /\ d.state[t] = c.state[t] /\ d.generator = c.generator

Waits(c, d, t) ==
  /\ t \in DOMAIN c.generator /\ should_wait_for_child(c, t)
  /\ Alone(d, t) /\ d.state[t] = "Executing" /\ d.generator[t] = c.generator[t]

PastValue(c, d, t) ==
  /\ d.generator[t].size = c.generator[t].size /\ d.generator[t].at = c.generator[t].at + 1
  /\ \/ /\ c.generator[t].at < c.generator[t].size
        /\ Alone(d, t) /\ d.state[t] = "Executing"
     \/ /\ ~ (c.generator[t].at < c.generator[t].size)
        /\ Same(c, d) /\ d.state[t] = "CompletedSuccessfully"

Completes(c, d, t) ==
  /\ Ready(c, t)
  /\ \/ /\ t \notin DOMAIN c.generator
        /\ Same(c, d) /\ d.state[t] = "CompletedSuccessfully" /\ d.generator = c.generator
     \/ t \in DOMAIN c.generator /\ ~ should_wait_for_child(c, t) /\ PastValue(c, d, t)

LEMMA NextOutcome ==
  ASSUME NEW e, IsContext(e), NEW t \in DOMAIN e.state, t \in DOMAIN e.generator
  PROVE  LET d == NextValue(e, t)
         IN  /\ Spares(e, d, t)
             /\ \/ Waits(e, d, t)
                \/ ~ should_wait_for_child(e, t) /\ isSuccessfullyCompleted(e, t) /\ PastValue(e, d, t)
                \/ ~ should_wait_for_child(e, t) /\ ~ isSuccessfullyCompleted(e, t) /\ d = e
<1> DEFINE moved    == [e EXCEPT !.generator[t].at = @ + 1]
           again(f) == [Cleared(f, t) EXCEPT !.state[t] = "Executing"]
           d        == NextValue(e, t)
<1>1. ~ IsStrictPrefix(t, t)
  BY DEF IsStrictPrefix
<1>2. ASSUME NEW f, IsContext(f), t \in DOMAIN f.state, t \in DOMAIN f.generator
      PROVE  /\ again(f).state = [u \in {v \in DOMAIN f.state : ~ IsStrictPrefix(t, v)} |->
                                    IF u = t THEN "Executing" ELSE f.state[u]]
             /\ again(f).generator = [u \in {v \in DOMAIN f.generator : ~ IsStrictPrefix(t, v)} |-> f.generator[u]]
  <2> DEFINE kept(g) == [u \in {v \in DOMAIN g : ~ IsStrictPrefix(t, v)} |-> g[u]]
             k == Cleared(f, t)
  <2>1. /\ k.state = kept(f.state) /\ k.generator = kept(f.generator)
        /\ k \in [state : {k.state}, generator : {k.generator}, filters : {k.filters},
                  current : {k.current}, completedCycle : {k.completedCycle}]
    BY <1>2 DEF Cleared, IsContext
  <2> HIDE DEF k
  <2>2. /\ [k EXCEPT !.state[t] = "Executing"].state = [k.state EXCEPT ![t] = "Executing"]
        /\ [k EXCEPT !.state[t] = "Executing"].generator = k.generator
    BY <2>1
  <2>3. [kept(f.state) EXCEPT ![t] = "Executing"]
          = [u \in {v \in DOMAIN f.state : ~ IsStrictPrefix(t, v)} |->
                                    IF u = t THEN "Executing" ELSE f.state[u]]
    OBVIOUS
  <2>4. QED
    BY <2>1, <2>2, <2>3 DEF k
<1>3. /\ moved.state = e.state
      /\ moved.generator = [e.generator EXCEPT ![t].at = @ + 1]
      /\ IsContext(moved)
  <2>1. /\ moved.generator = [e.generator EXCEPT ![t].at = @ + 1] /\ moved.state = e.state
        /\ moved.filters = e.filters
        /\ moved.current = e.current /\ moved.completedCycle = e.completedCycle
        /\ moved \in [state : {moved.state}, generator : {moved.generator}, filters : {moved.filters},
                      current : {moved.current}, completedCycle : {moved.completedCycle}]
    BY DEF IsContext
  <2> DEFINE generator == [e.generator EXCEPT ![t].at = @ + 1]
  <2>2. /\ DOMAIN generator = DOMAIN e.generator
        /\ generator \in [DOMAIN e.generator -> [at : Nat, size : Nat]]
    BY DEF IsContext
  <2> HIDE DEF generator, moved
  <2>3. QED
    BY <2>1, <2>2 DEF IsContext, generator
<1>4. /\ DOMAIN moved.generator = DOMAIN e.generator
      /\ moved.generator[t].size = e.generator[t].size /\ moved.generator[t].at = e.generator[t].at + 1
      /\ \A u \in DOMAIN e.generator : u # t => moved.generator[u] = e.generator[u]
  <2>1. e.generator \in [DOMAIN e.generator -> [at : Nat, size : Nat]]
    BY DEF IsContext
  <2>2. e.generator[t] \in [at : Nat, size : Nat]
    BY <2>1
  <2> HIDE DEF moved
  <2>3. QED
    BY <1>3, <2>1, <2>2
<1> HIDE DEF moved, again
<1>5. CASE should_wait_for_child(e, t)
  <2>1. d = again(e)
    BY <1>5 DEF NextValue, again
  <2> HIDE DEF d
  <2>2. /\ d.state = [u \in {v \in DOMAIN e.state : ~ IsStrictPrefix(t, v)} |->
                          IF u = t THEN "Executing" ELSE e.state[u]]
        /\ d.generator = [u \in {v \in DOMAIN e.generator : ~ IsStrictPrefix(t, v)} |-> e.generator[u]]
    BY <1>2, <2>1
  <2>3. /\ DOMAIN d.state = {v \in DOMAIN e.state : ~ IsStrictPrefix(t, v)}
        /\ \A u \in DOMAIN d.state : d.state[u] = IF u = t THEN "Executing" ELSE e.state[u]
        /\ DOMAIN d.generator = {v \in DOMAIN e.generator : ~ IsStrictPrefix(t, v)}
        /\ \A u \in DOMAIN d.generator : d.generator[u] = e.generator[u]
    BY <2>2
  <2>4. Spares(e, d, t)
    BY <2>3 DEF Spares
  <2>5. Waits(e, d, t)
    BY <1>1, <1>5, <2>3 DEF Waits, Alone
  <2>6. QED
    BY <2>4, <2>5 DEF d
<1>6. CASE ~ should_wait_for_child(e, t) /\ isSuccessfullyCompleted(e, t) /\ e.generator[t].at < e.generator[t].size
  <2>1. d = again(moved)
    BY <1>6 DEF NextValue, again, moved
  <2> HIDE DEF d
  <2>2. /\ d.state = [u \in {v \in DOMAIN e.state : ~ IsStrictPrefix(t, v)} |->
                          IF u = t THEN "Executing" ELSE e.state[u]]
        /\ d.generator = [u \in {v \in DOMAIN e.generator : ~ IsStrictPrefix(t, v)} |-> moved.generator[u]]
    BY <1>2, <1>3, <1>4, <2>1
  <2>3. /\ DOMAIN d.state = {v \in DOMAIN e.state : ~ IsStrictPrefix(t, v)}
        /\ \A u \in DOMAIN d.state : d.state[u] = IF u = t THEN "Executing" ELSE e.state[u]
        /\ DOMAIN d.generator = {v \in DOMAIN e.generator : ~ IsStrictPrefix(t, v)}
        /\ \A u \in DOMAIN d.generator : d.generator[u] = moved.generator[u]
    BY <2>2
  <2>4. Spares(e, d, t)
    BY <1>4, <2>3 DEF Spares
  <2>5. PastValue(e, d, t)
    BY <1>1, <1>4, <1>6, <2>3 DEF PastValue, Alone
  <2>6. QED
    BY <1>6, <2>4, <2>5 DEF d
<1>7. CASE ~ should_wait_for_child(e, t) /\ isSuccessfullyCompleted(e, t) /\ ~ (e.generator[t].at < e.generator[t].size)
  <2>1. d = moved
    BY <1>7 DEF NextValue, moved
  <2>2. Spares(e, d, t) /\ PastValue(e, d, t)
    BY <1>1, <1>3, <1>4, <1>7, <2>1 DEF Spares, PastValue, Same, isSuccessfullyCompleted
  <2>3. QED
    BY <1>7, <2>2
<1>8. CASE ~ should_wait_for_child(e, t) /\ ~ isSuccessfullyCompleted(e, t)
  <2>1. d = e
    BY <1>8 DEF NextValue
  <2>2. QED
    BY <1>8, <2>1 DEF Spares
<1>9. QED
  BY <1>5, <1>6, <1>7, <1>8

LEMMA CloseOutcome ==
  ASSUME NEW c, Ordered(c), Len(c.current) > 0
  PROVE  LET t == c.current
             d == closeCurrent(c, t)
         IN  /\ Spares(c, d, t)
             /\ Stays(c, d, t) \/ Waits(c, d, t) \/ Completes(c, d, t)
<1> DEFINE t == c.current
           d == closeCurrent(c, t)
           e == Closed(c, t)
<1>1. IsContext(c) /\ t \in Path /\ Len(t) \in Nat /\ t \in DOMAIN c.state /\ c.state[t] \in Busy
  <2>1. IsContext(c) /\ t \in Path /\ Len(t) \in Nat
    BY DEF Ordered, IsContext, Path
  <2>2. Len(t) \in 0 .. Len(t) /\ Len(t) \in 1 .. Len(t)
    BY <2>1
  <2>3. SubSeq(t, 1, Len(t)) \in DOMAIN c.state /\ c.state[SubSeq(t, 1, Len(t))] \in Busy
    BY <2>2 DEF Ordered
  <2>4. SubSeq(t, 1, Len(t)) = t
    BY <2>1, <2>2, PathParts
  <2>5. QED
    BY <2>1, <2>3, <2>4
<1>2. ClosedState(c, t) \in {"CompletedSuccessfully", "ExecutingChildren", "NeedsAnotherRun"}
  BY <1>1, ClosedStateIs
<1>3. /\ Ready(c, t) => ClosedState(c, t) = "CompletedSuccessfully"
      /\ ~ Ready(c, t) => ClosedState(c, t) = c.state[t] /\ c.state[t] # "CompletedSuccessfully"
  BY <1>1 DEF ClosedState, Ready, Busy
<1>4. ClosedState(c, t) \in CycleState
  BY <1>2 DEF CycleState
<1>5. /\ IsContext(e) /\ DOMAIN e.state = DOMAIN c.state /\ e.state[t] = ClosedState(c, t)
      /\ \A u \in DOMAIN e.state : u # t => e.state[u] = c.state[u]
      /\ e.generator = c.generator
  BY <1>1, <1>4, ClosedIs DEF Drops
<1> HIDE DEF e
<1>6. Spares(c, e, t) /\ Same(c, e)
  BY <1>5 DEF Spares, Same
<1>7. should_wait_for_child(e, t) <=> should_wait_for_child(c, t)
  <2>1. Children(e, t) = Children(c, t)
    BY <1>5 DEF Children
  <2>2. \A u \in Children(c, t) : u \in DOMAIN c.state /\ u # t
    <3>1. ASSUME NEW u \in Children(c, t) PROVE u \in DOMAIN c.state /\ u # t
      <4>1. u \in DOMAIN c.state /\ u # Root /\ Parent(u) = t /\ u \in Path
        BY <1>1 DEF Children, IsContext
      <4>2. Len(t) = Len(u) - 1 /\ Len(u) \in Nat
        BY <4>1, AroundParent DEF Path
      <4>3. QED
        BY <4>1, <4>2
    <3>2. QED
      BY <3>1
  <2>3. QED
    BY <1>5, <2>1, <2>2 DEF should_wait_for_child
<1>8. CASE t \notin DOMAIN c.generator
  <2>1. d = e
    BY <1>8 DEF closeCurrent, isGeneratorTracker, e
  <2>2. QED
    BY <1>3, <1>5, <1>6, <1>8, <2>1 DEF Stays, Completes
<1>9. CASE t \in DOMAIN c.generator
  <2>1. d = NextValue(e, t)
    BY <1>9 DEF closeCurrent, isGeneratorTracker, e
  <2> HIDE DEF d
  <2>2. /\ Spares(e, d, t)
        /\ \/ Waits(e, d, t)
           \/ ~ should_wait_for_child(e, t) /\ isSuccessfullyCompleted(e, t) /\ PastValue(e, d, t)
           \/ ~ should_wait_for_child(e, t) /\ ~ isSuccessfullyCompleted(e, t) /\ d = e
    BY <1>1, <1>5, <1>9, <2>1, NextOutcome
  <2>3. Spares(c, d, t)
    BY <1>5, <2>2 DEF Spares
  <2>4. CASE Waits(e, d, t)
    BY <1>5, <1>7, <2>3, <2>4 DEF Waits, d
  <2>5. CASE ~ should_wait_for_child(e, t) /\ isSuccessfullyCompleted(e, t) /\ PastValue(e, d, t)
    <3>1. Ready(c, t)
      BY <1>3, <1>5, <2>5 DEF isSuccessfullyCompleted
    <3>2. PastValue(c, d, t)
      BY <1>5, <2>5 DEF PastValue, Same
    <3>3. QED
      BY <1>7, <1>9, <2>3, <2>5, <3>1, <3>2 DEF Completes, d
  <2>6. CASE ~ should_wait_for_child(e, t) /\ ~ isSuccessfullyCompleted(e, t) /\ d = e
    <3>1. ~ Ready(c, t)
      BY <1>3, <1>5, <2>6 DEF isSuccessfullyCompleted
    <3>2. QED
      BY <1>3, <1>5, <1>6, <2>3, <2>6, <3>1 DEF Stays, d
  <2>7. QED
    BY <2>2, <2>4, <2>5, <2>6
<1>10. QED
  BY <1>8, <1>9

-----------------------------------------------------------------------------
(***************************************************************************)
(* What is true of the trackers while a test case is run.                  *)
(***************************************************************************)
LeafSection(code, t) == Len(t) >= 2 /\ code[Last(t)] = "section" /\ Leaf(code, Last(t))

(* A generator of p is past its value, or a section of p is complete.      *)
Moved(c, p, i) ==
  LET u == Upto(p, i)
  IN  u \in DOMAIN c.generator /\ Agrees(c, p, i - 1) /\ c.generator[u].at > p[i][2]

Passed(c, p, i) ==
  LET u == Upto(p, i)
  IN  u \in DOMAIN c.state \ DOMAIN c.generator /\ c.state[u] \in Completed /\ Agrees(c, p, i)

Begun(c, p) ==
  \/ \E i \in 1 .. Len(p) : Moved(c, p, i)
  \/ Started(c, PathOf(p)) /\ Agrees(c, p, Len(p))

Behind(c, p) == \E i \in 1 .. Len(p) : Moved(c, p, i) \/ Passed(c, p, i)

(* Nothing is to be run for p any more.                                    *)
Covered(p) == p \in ran \/ (\E t \in left : IsPrefix(t, p)) \/ Idle(p)

Values(c) ==
  \A g \in DOMAIN c.generator :
    /\ g \in DOMAIN c.state /\ c.state[g] \notin {"NotStarted", "Failed"}
    /\ c.generator[g].size = session.values
    /\ c.generator[g].at \in 1 .. session.values + 1
    /\ c.state[g] = "CompletedSuccessfully" <=> c.generator[g].at = session.values + 1

StartsFirst(c) == \A t \in DOMAIN c.state : Len(t) >= 2 => c.state[Parent(t)] # "NotStarted"

LeavesRun(code, c) ==
  \A t \in DOMAIN c.state : LeafSection(code, t) =>
    /\ c.state[t] \in {"NotStarted", "Executing", "CompletedSuccessfully", "Failed"}
    /\ c.state[t] = "Executing" => IsPrefix(t, c.current)

AroundWaits(c) ==
  \A k \in 1 .. Len(c.current) - 1 : c.state[SubSeq(c.current, 1, k)] = "ExecutingChildren"

RanBegun(c) ==
  \A p \in ran : p \in Choice /\ (LeafSection(Code, PathOf(p)) => Begun(c, p))

CurrentRan(c) == \A k \in 2 .. Len(c.current) : Valued(c, SubSeq(c.current, 1, k)) \in ran

NoneLost(c) == \A p \in ToRun(Code) : Behind(c, p) => Covered(p)

Sound(c) ==
  /\ Tree(Code, c) /\ c.filters = session.sections
  /\ Values(c) /\ StartsFirst(c) /\ LeavesRun(Code, c) /\ AroundWaits(c)
  /\ RanBegun(c) /\ CurrentRan(c) /\ NoneLost(c)

(* What the function comes to next in the tracker t, with no generator     *)
(* before it: at place x it has a tracker for each of those before x.      *)
NextIn(code, t, y) ==
  /\ IsIn(code, t, y) /\ Last(t) < y
  /\ \A z \in 1 .. Len(code) : Last(t) < z /\ z < y /\ code[z] = "generate" => ~ IsIn(code, t, z)

ComesBy(code, c, x) ==
  \A k \in 1 .. Len(c.current) : \A y \in 1 .. Len(code) :
    NextIn(code, SubSeq(c.current, 1, k), y) /\ y < x =>
      Append(SubSeq(c.current, 1, k), y) \in DOMAIN c.state

(* A generator that is opened when the cycle has been completed: of what   *)
(* is below it, the sections wait, and the generators are exhausted.       *)
LateOpened(code, c, x, r) ==
  c.state[c.current] = "Executing" =>
    /\ c.current \notin DOMAIN c.generator => ~ c.completedCycle
    /\ c.completedCycle => \A y \in 1 .. Len(code) :
         LET w == Append(c.current, y)
         IN  /\ w \in DOMAIN c.generator /\ y < x => isComplete(c, w) /\ Valued(c, w) \in r
             /\ w \in DOMAIN c.state \ DOMAIN c.generator => c.state[w] = "NotStarted"

SectionsActive(code, c, act) ==
  \A m \in 2 .. Len(c.current) :
    code[c.current[m]] = "section" => \E i \in 1 .. Len(act) : Len(act[i].tracker) = m

(* What an exception has left keeps all that is around it from completing. *)
Held(c) ==
  \E w \in Children(c, c.current) :
    /\ c.state[w] # "NotStarted"
    /\ \/ c.state[c.current] = "NeedsAnotherRun"
       \/ c.state[c.current] = "ExecutingChildren" /\ ~ isComplete(c, w)

Entered == mode = "function" \/ (mode = "unwinding" /\ unfinished = <<>>)

Following ==
  /\ mode \in {"cycle", "function", "unwinding"} => Sound(ctx)
  /\ mode = "cycle" => ctx.current = Root
  /\ Entered => ComesBy(Code, ctx, pc) /\ LateOpened(Code, ctx, pc, ran)
  /\ mode = "unwinding" =>
       /\ SectionsActive(Code, ctx, active)
       /\ unfinished = <<>> =>
            pc \in Nat /\ Last(ctx.current) < pc /\ Valued(ctx, Here) \in left
       /\ unfinished # <<>> => Held(ctx)
  /\ NoneForgotten

-----------------------------------------------------------------------------
(***************************************************************************)
(* One tracker after the other is closed.                                  *)
(***************************************************************************)
Closes(c, d) ==
  LET t == c.current
  IN  /\ Len(t) > 0 /\ Tree(Code, c) /\ Tree(Code, d)
      /\ d.current = Parent(t) /\ d.filters = c.filters
      /\ Spares(c, d, t)
      /\ Stays(c, d, t) \/ Waits(c, d, t) \/ Completes(c, d, t)

LEMMA ClosesCurrent ==
  ASSUME NEW c, Tree(Code, c), Len(c.current) > 0
  PROVE  Closes(c, closeCurrent(c, c.current))
<1> DEFINE t == c.current
           d == closeCurrent(c, t)
<1>1. Ordered(c)
  BY DEF Tree
<1>2. /\ Ordered(d) /\ d.current = Parent(t) /\ Settles(c, d)
  BY <1>1, CurrentCloses
<1>3. Spares(c, d, t) /\ (Stays(c, d, t) \/ Waits(c, d, t) \/ Completes(c, d, t))
  BY <1>1, CloseOutcome
<1>4. Tree(Code, d)
  BY <1>2, SettlesTree
<1> HIDE DEF d
<1>5. d.filters = c.filters
  BY <1>2 DEF Settles, Shrinks
<1>6. QED
  BY <1>2, <1>3, <1>4, <1>5 DEF Closes, d

(* What is current before and after.                                       *)
LEMMA ClosesIs ==
  ASSUME NEW c, NEW d, Closes(c, d)
  PROVE  LET t == c.current
         IN  /\ t \in Path /\ Len(t) \in Nat /\ Len(t) > 0 /\ t # Root
             /\ IsContext(c) /\ IsContext(d)
             /\ t \in DOMAIN c.state /\ c.state[t] \in Busy /\ t \in DOMAIN d.state
             /\ d.current \in Path /\ Len(d.current) = Len(t) - 1
             /\ \A k \in 0 .. Len(t) - 1 : SubSeq(d.current, 1, k) = SubSeq(t, 1, k)
             /\ d.current = SubSeq(t, 1, Len(t) - 1)
             /\ DOMAIN c.state \subseteq Path /\ DOMAIN d.state \subseteq Path
             /\ DOMAIN c.generator \subseteq DOMAIN c.state
             /\ DOMAIN d.generator \subseteq DOMAIN d.state
<1> DEFINE t == c.current
<1>1. /\ Ordered(c) /\ IsContext(c) /\ IsContext(d) /\ t \in Path /\ Len(t) \in Nat /\ Len(t) > 0
      /\ DOMAIN c.generator \subseteq DOMAIN c.state
      /\ DOMAIN d.generator \subseteq DOMAIN d.state
      /\ DOMAIN c.state \subseteq Path /\ DOMAIN d.state \subseteq Path
      /\ d.current = Parent(t)
  BY DEF Closes, Tree, Ordered, IsContext, Path
<1>2. t # Root
  BY <1>1, RootIs
<1>3. /\ Parent(t) \in Path /\ Len(Parent(t)) = Len(t) - 1
      /\ \A k \in 0 .. Len(t) - 1 : SubSeq(Parent(t), 1, k) = SubSeq(t, 1, k)
      /\ Parent(t) = SubSeq(t, 1, Len(t) - 1)
  BY <1>1, <1>2, ParentIs
<1>4. SubSeq(t, 1, Len(t)) = t
  <2>1. Len(t) \in 0 .. Len(t)
    BY <1>1
  <2>2. QED
    BY <1>1, <2>1, PathParts
<1>5. t \in DOMAIN c.state /\ c.state[t] \in Busy
  <2>1. Len(t) \in 0 .. Len(t) /\ Len(t) \in 1 .. Len(t)
    BY <1>1
  <2>2. QED
    BY <1>1, <1>4, <2>1 DEF Ordered
<1>6. t \in DOMAIN d.state
  <2>1. ~ IsStrictPrefix(t, t)
    BY DEF IsStrictPrefix
  <2>2. QED
    BY <1>5, <2>1 DEF Closes, Spares
<1>7. QED
  BY <1>1, <1>2, <1>3, <1>5, <1>6

LEMMA ClosesValues ==
  ASSUME NEW c, NEW d, Closes(c, d), Values(c), session.values \in Nat
  PROVE  Values(d)
<1> DEFINE t == c.current
<1>1. /\ t \in DOMAIN c.state /\ c.state[t] \in Busy /\ DOMAIN d.generator \subseteq DOMAIN d.state
      /\ Spares(c, d, t) /\ (Stays(c, d, t) \/ Waits(c, d, t) \/ Completes(c, d, t))
  BY ClosesIs DEF Closes
<1>2. SUFFICES ASSUME NEW g \in DOMAIN d.generator
      PROVE  /\ g \in DOMAIN d.state /\ d.state[g] \notin {"NotStarted", "Failed"}
             /\ d.generator[g].size = session.values
             /\ d.generator[g].at \in 1 .. session.values + 1
             /\ d.state[g] = "CompletedSuccessfully" <=> d.generator[g].at = session.values + 1
  BY DEF Values
<1>3. /\ g \in DOMAIN c.generator /\ g \in DOMAIN d.state
      /\ c.state[g] \notin {"NotStarted", "Failed"}
      /\ c.generator[g].size = session.values
      /\ c.generator[g].at \in 1 .. session.values + 1
      /\ c.state[g] = "CompletedSuccessfully" <=> c.generator[g].at = session.values + 1
  BY <1>1 DEF Values, Spares
<1>4. CASE g # t
  BY <1>1, <1>3, <1>4 DEF Spares
<1>5. CASE g = t /\ Stays(c, d, t)
  BY <1>3, <1>5 DEF Stays
<1>6. CASE g = t /\ Waits(c, d, t)
  BY <1>1, <1>3, <1>6 DEF Waits, Busy
<1>7. CASE g = t /\ Completes(c, d, t)
  <2>1. PastValue(c, d, t)
    BY <1>3, <1>7 DEF Completes
  <2>2. c.generator[g].at \in 1 .. session.values
    BY <1>1, <1>3, <1>7 DEF Busy
  <2>3. QED
    BY <1>3, <1>7, <2>1, <2>2 DEF PastValue
<1>8. QED
  BY <1>1, <1>4, <1>5, <1>6, <1>7

LEMMA ClosesStartsFirst ==
  ASSUME NEW c, NEW d, Closes(c, d), StartsFirst(c)
  PROVE  StartsFirst(d)
<1> DEFINE t == c.current
<1>1. /\ c.state[t] \in Busy /\ DOMAIN d.state \subseteq Path
      /\ Spares(c, d, t) /\ (Stays(c, d, t) \/ Waits(c, d, t) \/ Completes(c, d, t))
  BY ClosesIs DEF Closes
<1>2. d.state[t] # "NotStarted"
  BY <1>1 DEF Stays, Waits, Completes, PastValue, Busy
<1>3. ASSUME NEW u \in DOMAIN d.state, Len(u) >= 2
      PROVE  d.state[Parent(u)] # "NotStarted"
  <2>1. u \in DOMAIN c.state /\ c.state[Parent(u)] # "NotStarted"
    BY <1>1, <1>3 DEF Spares, StartsFirst
  <2>2. Parent(u) \in DOMAIN d.state
    <3>1. \A k \in 0 .. Len(u) : SubSeq(u, 1, k) \in DOMAIN d.state
      BY DEF Closes, Tree
    <3>2. Len(u) \in Nat /\ u \in Path
      BY <1>1 DEF Path
    <3>3. u # Root
      BY <1>3, <3>2, RootIs
    <3>4. Parent(u) = SubSeq(u, 1, Len(u) - 1) /\ Len(u) - 1 \in 0 .. Len(u)
      BY <1>3, <3>2, <3>3, ParentIs
    <3>5. QED
      BY <3>1, <3>4
  <2>3. QED
    BY <1>1, <1>2, <2>1, <2>2 DEF Spares
<1>4. QED
  BY <1>3 DEF StartsFirst

(* Below an innermost section there is nothing.                            *)
LEMMA LeafIsLast ==
  ASSUME NEW code, IsCode(code), NEW c, Tree(code, c), NEW u \in Path, LeafSection(code, u),
         NEW v \in DOMAIN c.state
  PROVE  ~ IsStrictPrefix(u, v)
<1> DEFINE n == Len(u)
           w == SubSeq(v, 1, n + 1)
<1>1. SUFFICES ASSUME IsStrictPrefix(u, v) PROVE FALSE
  OBVIOUS
<1>2. /\ v \in Path /\ Len(v) \in Nat /\ n \in Nat /\ n >= 2 /\ Len(code) \in Nat
      /\ w \in DOMAIN c.state => Placed(code, c, w)
      /\ \A k \in 0 .. Len(v) : SubSeq(v, 1, k) \in DOMAIN c.state
  BY DEF Tree, Ordered, IsContext, Path, LeafSection, IsCode
<1>3. n <= Len(v) /\ SubSeq(v, 1, n) = u
  BY <1>1, <1>2, PrefixIs DEF IsStrictPrefix
<1>4. n < Len(v)
  <2>1. SubSeq(v, 1, Len(v)) = v
    <3>1. Len(v) \in 0 .. Len(v)
      BY <1>2
    <3>2. QED
      BY <1>2, <3>1, PathParts
  <2>2. u # v
    BY <1>1 DEF IsStrictPrefix
  <2>3. QED
    BY <1>2, <1>3, <2>1, <2>2
<1>5. n + 1 \in 0 .. Len(v) /\ n + 1 > 0 /\ n \in 0 .. n + 1
  BY <1>2, <1>4
<1>6. /\ w \in Path /\ Len(w) = n + 1 /\ Parent(w) = SubSeq(v, 1, (n + 1) - 1)
      /\ SubSeq(w, 1, n) = SubSeq(v, 1, n)
  BY <1>2, <1>5, PathParts
<1>7. Parent(w) = u /\ w \in DOMAIN c.state /\ \A i \in 1 .. n : w[i] = u[i]
  <2>1. (n + 1) - 1 = n /\ n \in 0 .. Len(w)
    BY <1>2, <1>6
  <2>2. \A i \in 1 .. n : SubSeq(w, 1, n)[i] = w[i]
    BY <1>6, <2>1, PathAt
  <2>3. QED
    BY <1>2, <1>3, <1>5, <1>6, <2>1, <2>2
<1> HIDE DEF w, n
<1>8. /\ w[n + 1] \in 1 .. Len(code) /\ IsIn(code, u, w[n + 1]) /\ u[n] < w[n + 1]
  <2>1. Placed(code, c, w)
    BY <1>2, <1>7
  <2>2. Len(w) >= 2 /\ Len(w) = n + 1 /\ n \in 1 .. Len(w) - 1 /\ n \in 1 .. n
    BY <1>2, <1>6
  <2>3. QED
    BY <1>7, <2>1, <2>2 DEF Placed
<1>9. Last(u) = u[n] /\ code[u[n]] = "section" /\ Leaf(code, u[n]) /\ u[n] \in Nat
  <2>1. u # <<>>
    BY <1>2 DEF n
  <2>2. Last(u) = u[n] /\ u[n] \in Nat
    BY <2>1, LastAndFront DEF Path, n
  <2>3. QED
    BY <2>2 DEF LeafSection
<1> DEFINE y == w[n + 1]
           x == u[n]
<1>10. x \in Scopes(code, y)
  <2>1. n \in {i \in 2 .. Len(u) : code[u[i]] = "section"}
    BY <1>2, <1>9 DEF n
  <2>2. u[n] \in SectionsOn(code, u)
    BY <2>1 DEF SectionsOn
  <2>3. QED
    BY <1>8, <2>2 DEF IsIn
<1> HIDE DEF y, x
<1>11. x \in Nat /\ y \in 1 .. Len(code) /\ x < y /\ code[x] = "section" /\ code[y] \in {"section", "generate"}
       /\ Leaf(code, x) /\ x \in 1 .. y /\ x <= y /\ y <= EndOf(code, x)
  <2>1. x \in 1 .. y - 1 /\ y <= EndOf(code, x)
    BY <1>10 DEF Scopes
  <2>2. x \in Nat /\ y \in 1 .. Len(code) /\ x < y /\ code[x] = "section" /\ Leaf(code, x)
    BY <1>8, <1>9 DEF x, y
  <2>3. code[y] \in {"section", "generate"}
    BY <1>8 DEF y, IsIn
  <2>4. QED
    BY <2>1, <2>2, <2>3
<1>12. x \in Around(code, y)
  BY <1>11 DEF Around, Encloses
<1>13. y \in x + 1 .. Len(code)
  BY <1>2, <1>11
<1>14. QED
  BY <1>11, <1>12, <1>13 DEF Leaf

LEMMA ClosesLeaves ==
  ASSUME NEW c, NEW d, Closes(c, d), IsCode(Code), LeavesRun(Code, c)
  PROVE  LeavesRun(Code, d)
<1> DEFINE t == c.current
<1>1. /\ t \in Path /\ t \in DOMAIN c.state /\ c.state[t] \in Busy /\ DOMAIN d.state \subseteq Path
      /\ Spares(c, d, t) /\ (Stays(c, d, t) \/ Waits(c, d, t) \/ Completes(c, d, t))
      /\ t # Root /\ Len(t) \in Nat /\ d.current = Parent(t)
      /\ DOMAIN c.generator \subseteq DOMAIN c.state
  BY ClosesIs DEF Closes
<1>2. ASSUME NEW u \in DOMAIN d.state, LeafSection(Code, u), u # t
      PROVE  /\ d.state[u] \in {"NotStarted", "Executing", "CompletedSuccessfully", "Failed"}
             /\ d.state[u] = "Executing" => IsPrefix(u, d.current)
  <2>1. /\ d.state[u] = c.state[u] /\ u \in Path
        /\ c.state[u] \in {"NotStarted", "Executing", "CompletedSuccessfully", "Failed"}
        /\ c.state[u] = "Executing" => IsPrefix(u, t)
    BY <1>1, <1>2 DEF Spares, LeavesRun
  <2>2. IsPrefix(u, t) => IsPrefix(u, Parent(t))
    BY <1>1, <1>2, <2>1, AroundParent DEF IsStrictPrefix
  <2>3. QED
    BY <1>1, <2>1, <2>2
<1>3. ASSUME LeafSection(Code, t)
      PROVE  d.state[t] = "CompletedSuccessfully"
  <2>1. c.state[t] = "Executing"
    BY <1>1, <1>3 DEF LeavesRun, Busy
  <2>2. t \notin DOMAIN c.generator
    <3>1. Placed(Code, c, t) /\ Len(t) >= 2
      BY <1>1, <1>3 DEF Closes, Tree, LeafSection
    <3>2. Last(t) = t[Len(t)]
      BY <1>1, LastAndFront DEF Path, Root
    <3>3. Code[t[Len(t)]] = "section"
      BY <1>3, <3>2 DEF LeafSection
    <3>4. QED
      BY <3>1, <3>3 DEF Placed
  <2>3. QED
    BY <1>1, <2>1, <2>2 DEF Stays, Waits, Completes, Ready
<1>4. ASSUME NEW u \in DOMAIN d.state, LeafSection(Code, u)
      PROVE  /\ d.state[u] \in {"NotStarted", "Executing", "CompletedSuccessfully", "Failed"}
             /\ d.state[u] = "Executing" => IsPrefix(u, d.current)
  <2>1. CASE u # t
    BY <1>2, <1>4, <2>1
  <2>2. CASE u = t
    BY <1>3, <1>4, <2>2
  <2>3. QED
    BY <2>1, <2>2
<1>5. QED
  BY <1>4 DEF LeavesRun

LEMMA ClosesAround ==
  ASSUME NEW c, NEW d, Closes(c, d), AroundWaits(c)
  PROVE  /\ AroundWaits(d)
         /\ Len(d.current) > 0 => d.state[d.current] = "ExecutingChildren"
<1> DEFINE t == c.current
<1>1. /\ t \in Path /\ Len(t) \in Nat /\ Len(t) > 0 /\ d.current \in Path /\ Len(d.current) = Len(t) - 1
      /\ \A k \in 0 .. Len(t) - 1 : SubSeq(d.current, 1, k) = SubSeq(t, 1, k)
      /\ d.current = SubSeq(t, 1, Len(t) - 1)
      /\ Spares(c, d, t)
  BY ClosesIs DEF Closes
<1>2. ASSUME NEW k \in 1 .. Len(t) - 1
      PROVE  d.state[SubSeq(t, 1, k)] = "ExecutingChildren"
  <2>1. c.state[SubSeq(t, 1, k)] = "ExecutingChildren"
    BY DEF AroundWaits
  <2>2. SubSeq(t, 1, k) \in DOMAIN d.state
    <3>1. k \in 0 .. Len(d.current)
      BY <1>1
    <3>2. SubSeq(d.current, 1, k) \in DOMAIN d.state
      BY <3>1 DEF Closes, Tree, Ordered
    <3>3. k \in 0 .. Len(t) - 1
      BY <1>1
    <3>4. QED
      BY <1>1, <3>2, <3>3
  <2>3. SubSeq(t, 1, k) # t
    <3>1. k \in 0 .. Len(t) /\ k # Len(t)
      BY <1>1
    <3>2. Len(SubSeq(t, 1, k)) = k
      BY <1>1, <3>1, PathParts
    <3>3. QED
      BY <3>1, <3>2
  <2>4. QED
    BY <1>1, <2>1, <2>2, <2>3 DEF Spares
<1>3. \A k \in 1 .. Len(d.current) - 1 : SubSeq(d.current, 1, k) = SubSeq(t, 1, k) /\ k \in 1 .. Len(t) - 1
  BY <1>1
<1>4. Len(d.current) > 0 => Len(t) - 1 \in 1 .. Len(t) - 1
  BY <1>1
<1>5. QED
  BY <1>1, <1>2, <1>3, <1>4 DEF AroundWaits

(* The values of what is not within the tracker that is closed stay.       *)
LEMMA ClosesBeside ==
  ASSUME NEW c, NEW d, Closes(c, d), NEW u \in Path, ~ IsPrefix(c.current, u)
  PROVE  /\ u \in DOMAIN d.state <=> u \in DOMAIN c.state
         /\ u \in DOMAIN c.state => d.state[u] = c.state[u]
         /\ u \in DOMAIN d.generator <=> u \in DOMAIN c.generator
         /\ u \in DOMAIN c.generator => d.generator[u] = c.generator[u]
         /\ Value(d, u) = Value(c, u)
<1>1. ~ IsStrictPrefix(c.current, u) /\ u # c.current
  <2>1. c.current \in Path /\ SubSeq(c.current, 1, Len(c.current)) = c.current
    <3>1. c.current \in Path /\ Len(c.current) \in 0 .. Len(c.current)
      BY ClosesIs
    <3>2. QED
      BY <3>1, PathParts
  <2>2. IsPrefix(c.current, c.current)
    BY <2>1, PrefixIs DEF Path
  <2>3. QED
    BY <2>2 DEF IsStrictPrefix
<1>2. Spares(c, d, c.current)
  BY DEF Closes
<1>3. QED
  BY <1>1, <1>2 DEF Spares, Value, isGeneratorTracker

(* And so do those of a choice, up to the current tracker.                 *)
LEMMA ClosesAgrees ==
  ASSUME NEW c, NEW d, Closes(c, d), NEW p \in Choice, NEW k \in 0 .. Len(p),
         ~ IsPrefix(c.current, Upto(p, k))
  PROVE  Agrees(d, p, k) <=> Agrees(c, p, k)
<1>1. ASSUME NEW j \in 1 .. k
      PROVE  Value(d, Upto(p, j)) = Value(c, Upto(p, j))
  <2>1. Len(p) \in Nat /\ k \in Nat /\ j \in 0 .. k /\ j \in 0 .. Len(p)
    BY ChoiceIs
  <2>2. /\ Upto(p, k) \in Path /\ Upto(p, j) \in Path
        /\ Len(Upto(p, k)) = k /\ SubSeq(Upto(p, k), 1, j) = Upto(p, j)
    BY <2>1, ChoiceIs
  <2>3. IsPrefix(Upto(p, j), Upto(p, k))
    BY <2>1, <2>2, PrefixOf
  <2>4. c.current \in Path
    BY ClosesIs
  <2>5. ~ IsPrefix(c.current, Upto(p, j))
    BY <2>2, <2>3, <2>4, PrefixTransitive
  <2>6. QED
    BY <2>2, <2>5, ClosesBeside
<1>2. QED
  BY <1>1 DEF Agrees

(* What is around a part of a choice, and what it agrees with there.       *)
LEMMA AroundPart ==
  ASSUME NEW p \in Choice, NEW t \in Path, NEW k \in 0 .. Len(p), IsPrefix(t, Upto(p, k))
  PROVE  /\ Len(t) \in 0 .. k /\ Len(t) \in 0 .. Len(p) /\ Upto(p, Len(t)) = t
         /\ \A c : Agrees(c, p, k) => Agrees(c, p, Len(t))
         /\ t # Root => /\ Len(t) \in 1 .. Len(p) /\ ~ IsPrefix(t, Upto(p, Len(t) - 1))
                        /\ \A c : Agrees(c, p, k) => p[Len(t)][2] = Value(c, t)
                        /\ \A c : Agrees(c, p, k) => Agrees(c, p, Len(t) - 1)
         /\ t # Upto(p, k) => Len(t) \in 0 .. k - 1
<1> DEFINE n == Len(t)
<1>1. Len(p) \in Nat /\ k \in Nat /\ n \in Nat /\ Upto(p, k) \in Path /\ Len(Upto(p, k)) = k
      /\ \A j \in 0 .. k : SubSeq(Upto(p, k), 1, j) = Upto(p, j)
  BY ChoiceIs DEF Path
<1>2. n <= k /\ SubSeq(Upto(p, k), 1, n) = t
  BY <1>1, PrefixIs
<1>3. n \in 0 .. k /\ n \in 0 .. Len(p) /\ Upto(p, n) = t
  <2>1. n \in 0 .. k /\ n \in 0 .. Len(p)
    BY <1>1, <1>2
  <2>2. QED
    BY <1>1, <1>2, <2>1
<1>4. \A c : Agrees(c, p, k) => Agrees(c, p, n) /\ Agrees(c, p, n - 1)
  <2>1. \A j \in 1 .. n : j \in 1 .. k
    BY <1>1, <1>3
  <2>2. \A j \in 1 .. n - 1 : j \in 1 .. k
    BY <1>1, <1>3
  <2>3. QED
    BY <2>1, <2>2 DEF Agrees
<1>5. ASSUME t # Root
      PROVE  /\ n \in 1 .. Len(p) /\ ~ IsPrefix(t, Upto(p, n - 1))
             /\ \A c : Agrees(c, p, k) => p[n][2] = Value(c, t)
  <2>1. n # 0
    BY <1>5, RootIs
  <2>2. n \in 1 .. Len(p) /\ n \in 1 .. k /\ n - 1 \in 0 .. Len(p)
    BY <1>1, <1>3, <2>1
  <2>3. Upto(p, n - 1) \in Path /\ Len(Upto(p, n - 1)) = n - 1
    BY <2>2, ChoiceIs
  <2>4. ~ IsPrefix(t, Upto(p, n - 1))
    BY <1>1, <2>3, PrefixIs
  <2>5. \A c : Agrees(c, p, k) => p[n][2] = Value(c, t)
    BY <1>3, <2>2 DEF Agrees
  <2>6. QED
    BY <2>2, <2>4, <2>5
<1>6. ASSUME t # Upto(p, k) PROVE n \in 0 .. k - 1
  BY <1>1, <1>3, <1>6
<1>7. QED
  BY <1>3, <1>4, <1>5, <1>6

(* Where a generator waits for a child, nothing below it has started.      *)
LEMMA NoneStarted ==
  ASSUME NEW c, NEW d, Closes(c, d), StartsFirst(c), should_wait_for_child(c, c.current),
         NEW u \in DOMAIN c.state, IsStrictPrefix(c.current, u)
  PROVE  c.state[u] = "NotStarted"
<1> DEFINE t == c.current
           n == Len(t)
           w == SubSeq(u, 1, n + 1)
<1>1. /\ t \in Path /\ n \in Nat /\ n > 0 /\ u \in Path /\ Len(u) \in Nat
      /\ \A k \in 0 .. Len(u) : SubSeq(u, 1, k) \in DOMAIN c.state
  BY ClosesIs DEF Closes, Tree, Path
<1>2. n <= Len(u) /\ SubSeq(u, 1, n) = t
  BY <1>1, PrefixIs DEF IsStrictPrefix
<1>3. SubSeq(u, 1, Len(u)) = u
  <2>1. Len(u) \in 0 .. Len(u)
    BY <1>1
  <2>2. QED
    BY <1>1, <2>1, PathParts
<1>4. n < Len(u)
  <2>1. u # t
    BY DEF IsStrictPrefix
  <2>2. QED
    BY <1>1, <1>2, <1>3, <2>1
<1>5. n + 1 \in 0 .. Len(u) /\ (n + 1) - 1 = n /\ n + 1 > 0
  BY <1>1, <1>4
<1>6. w \in DOMAIN c.state /\ w \in Path /\ Len(w) = n + 1 /\ Parent(w) = t
  <2>1. w \in DOMAIN c.state
    BY <1>1, <1>5
  <2>2. w \in Path /\ Len(w) = n + 1 /\ Parent(w) = SubSeq(u, 1, (n + 1) - 1)
    BY <1>1, <1>5, PathParts
  <2>3. QED
    BY <1>2, <1>5, <2>1, <2>2
<1>7. w # Root
  <2> HIDE DEF w
  <2>1. QED
    BY <1>1, <1>5, <1>6, RootIs
<1>8. c.state[w] = "NotStarted"
  <2>1. w \in Children(c, t)
    BY <1>6, <1>7 DEF Children
  <2>2. QED
    BY <2>1 DEF should_wait_for_child
<1>9. CASE Len(u) = n + 1
  BY <1>3, <1>8, <1>9
<1>10. CASE Len(u) # n + 1
  <2> DEFINE v == SubSeq(u, 1, n + 2)
  <2>1. n + 2 \in 0 .. Len(u) /\ (n + 2) - 1 = n + 1 /\ n + 2 > 0 /\ n + 2 >= 2
    BY <1>1, <1>4, <1>10
  <2>2. v \in DOMAIN c.state /\ Len(v) = n + 2 /\ Parent(v) = w
    BY <1>1, <2>1, PathParts
  <2> HIDE DEF v, w
  <2>3. c.state[Parent(v)] # "NotStarted"
    BY <2>1, <2>2 DEF StartsFirst
  <2>4. QED
    BY <1>8, <2>2, <2>3
<1>11. QED
  BY <1>9, <1>10

(* The tracker that is closed, and all below it: they stay, or the values  *)
(* of a generator do, or it is past its value.                             *)
Remains(c, d) == DOMAIN d.state = DOMAIN c.state /\ d.generator = c.generator

Restarts(c, d) ==
  LET t == c.current
  IN  /\ t \in DOMAIN c.generator /\ should_wait_for_child(c, t)
      /\ t \in DOMAIN d.generator /\ d.generator[t] = c.generator[t]
      /\ Alone(d, t)

Advances(c, d) ==
  LET t == c.current
  IN  /\ t \in DOMAIN c.generator /\ t \in DOMAIN d.generator
      /\ Ready(c, t) /\ ~ should_wait_for_child(c, t) /\ PastValue(c, d, t)

LEMMA ClosesHow ==
  ASSUME NEW c, NEW d, Closes(c, d)
  PROVE  /\ Remains(c, d) \/ Restarts(c, d) \/ Advances(c, d)
         /\ d.state[c.current] # "NotStarted"
         /\ d.state[c.current] = "CompletedSuccessfully" => Completes(c, d, c.current)
         /\ d.state[c.current] # "Failed"
<1> DEFINE t == c.current
<1>1. /\ t \in DOMAIN c.state /\ c.state[t] \in Busy /\ DOMAIN d.generator \subseteq DOMAIN d.state
      /\ Spares(c, d, t) /\ (Stays(c, d, t) \/ Waits(c, d, t) \/ Completes(c, d, t))
  BY ClosesIs DEF Closes
<1>2. t \in DOMAIN c.generator => t \in DOMAIN d.generator
  <2>1. ~ IsStrictPrefix(t, t)
    BY DEF IsStrictPrefix
  <2>2. QED
    BY <1>1, <2>1 DEF Spares
<1>3. CASE Stays(c, d, t)
  BY <1>1, <1>3 DEF Stays, Remains, Same, Busy
<1>4. CASE Waits(c, d, t)
  BY <1>2, <1>4 DEF Waits, Restarts
<1>5. CASE Completes(c, d, t)
  BY <1>2, <1>5 DEF Completes, PastValue, Remains, Advances, Same
<1>6. QED
  BY <1>1, <1>3, <1>4, <1>5

(* What was begun stays so.                                                *)
LEMMA StaysBegun ==
  ASSUME NEW c, NEW d, Closes(c, d), Values(c), session.values \in Nat, StartsFirst(c),
         NEW p \in Choice, Begun(c, p)
  PROVE  Begun(d, p)
<1> DEFINE t == c.current
           n == Len(t)
<1>1. /\ t \in Path /\ t # Root /\ t \in DOMAIN c.state /\ DOMAIN d.generator \subseteq DOMAIN d.state
      /\ Spares(c, d, t) /\ DOMAIN c.generator \subseteq DOMAIN c.state
      /\ IsContext(c) /\ IsContext(d)
  BY ClosesIs DEF Closes
<1>2. Remains(c, d) \/ Restarts(c, d) \/ Advances(c, d)
  BY ClosesHow
(* A generator that is closed may be past the value of p. *)
<1>3. ASSUME NEW k \in 0 .. Len(p), Agrees(c, p, k), IsPrefix(t, Upto(p, k)), Advances(c, d)
      PROVE  Begun(d, p)
  <2>1. /\ n \in 1 .. Len(p) /\ Upto(p, n) = t /\ Agrees(c, p, n - 1) /\ p[n][2] = Value(c, t)
        /\ ~ IsPrefix(t, Upto(p, n - 1))
    BY <1>1, <1>3, AroundPart
  <2>2. n - 1 \in 0 .. Len(p)
    <3>1. Len(p) \in Nat
      BY ChoiceIs
    <3>2. QED
      BY <2>1, <3>1
  <2>3. Agrees(d, p, n - 1)
    BY <2>1, <2>2, ClosesAgrees
  <2>4. /\ t \in DOMAIN d.generator /\ p[n][2] = c.generator[t].at
        /\ d.generator[t].at = c.generator[t].at + 1
        /\ c.generator[t].at \in Nat
    BY <1>1, <1>3, <2>1 DEF Advances, PastValue, Value, isGeneratorTracker, IsContext
  <2>5. d.generator[t].at > p[n][2]
    BY <2>4
  <2>6. Moved(d, p, n)
    BY <2>1, <2>3, <2>4, <2>5 DEF Moved
  <2>7. QED
    BY <2>1, <2>6 DEF Begun
<1>4. ASSUME NEW u \in DOMAIN c.state, c.state[u] # "NotStarted", IsStrictPrefix(t, u)
      PROVE  Remains(c, d) \/ Advances(c, d)
  <2>1. ~ Restarts(c, d)
    BY <1>4, NoneStarted DEF Restarts
  <2>2. QED
    BY <1>2, <2>1
<1>5. ASSUME NEW i \in 1 .. Len(p), Moved(c, p, i)
      PROVE  Begun(d, p)
  <2> DEFINE u == Upto(p, i)
  <2>1. /\ u \in DOMAIN c.generator /\ Agrees(c, p, i - 1) /\ c.generator[u].at > p[i][2]
        /\ u \in DOMAIN c.state /\ c.state[u] # "NotStarted"
    BY <1>1, <1>5 DEF Moved, Values
  <2>2. /\ Len(p) \in Nat /\ i \in 0 .. Len(p) /\ i - 1 \in 0 .. Len(p) /\ i \in Nat
        /\ Parent(u) = Upto(p, i - 1) /\ u # Root /\ u \in Path /\ p[i][2] \in Nat
    <3>1. Len(p) \in Nat /\ i \in 0 .. Len(p)
      BY ChoiceIs
    <3>2. QED
      BY <3>1, ChoiceIs, ChoiceStep
  <2>3. IsPrefix(Upto(p, i - 1), u) /\ Upto(p, i - 1) \in Path
    BY <2>2, AroundParent
  <2>4. CASE ~ IsPrefix(t, u)
    <3>1. ~ IsPrefix(t, Upto(p, i - 1))
      BY <1>1, <2>2, <2>3, <2>4, PrefixTransitive
    <3>2. Agrees(d, p, i - 1)
      BY <2>1, <2>2, <3>1, ClosesAgrees
    <3>3. u \in DOMAIN d.generator /\ d.generator[u] = c.generator[u]
      BY <2>1, <2>2, <2>4, ClosesBeside
    <3>4. QED
      BY <2>1, <3>2, <3>3 DEF Begun, Moved
  <2>5. CASE t = u
    <3>1. ~ IsPrefix(t, Upto(p, i - 1))
      <4>1. ~ IsStrictPrefix(u, u)
        BY DEF IsStrictPrefix
      <4>2. QED
        BY <2>2, <2>5, <4>1, AroundParent
    <3>2. Agrees(d, p, i - 1)
      BY <2>1, <2>2, <3>1, ClosesAgrees
    <3>3. u \in DOMAIN d.generator /\ d.generator[u].at >= c.generator[u].at
          /\ c.generator[u].at \in Nat /\ d.generator[u].at \in Nat
      BY <1>1, <1>2, <2>1, <2>5 DEF Remains, Restarts, Advances, PastValue, IsContext
    <3>4. d.generator[u].at > p[i][2]
      BY <2>1, <2>2, <3>3
    <3>5. QED
      BY <3>2, <3>3, <3>4 DEF Begun, Moved
  <2>6. CASE IsStrictPrefix(t, u)
    <3>1. Remains(c, d) \/ Advances(c, d)
      BY <1>4, <2>1, <2>6
    <3>2. CASE Remains(c, d)
      <4>1. Moved(d, p, i)
        BY <1>5, <3>2 DEF Remains, Moved, Agrees, Value, isGeneratorTracker
      <4>2. QED
        BY <4>1 DEF Begun
    <3>3. CASE Advances(c, d)
      <4>1. IsPrefix(t, Upto(p, i - 1))
        BY <1>1, <2>2, <2>6, AroundParent
      <4>2. QED
        BY <1>3, <2>1, <2>2, <3>3, <4>1
    <3>4. QED
      BY <3>1, <3>2, <3>3
  <2>7. QED
    BY <2>4, <2>5, <2>6 DEF IsStrictPrefix
<1>6. ASSUME Started(c, PathOf(p)), Agrees(c, p, Len(p))
      PROVE  Begun(d, p)
  <2> DEFINE u == PathOf(p)
  <2>1. Len(p) \in Nat /\ u \in Path /\ u = Upto(p, Len(p)) /\ Len(p) \in 0 .. Len(p)
    BY ChoiceIs
  <2>2. u \in DOMAIN c.state /\ c.state[u] # "NotStarted"
    BY <1>6 DEF Started
  <2>3. CASE ~ IsPrefix(t, u)
    <3>1. Agrees(d, p, Len(p))
      BY <1>6, <2>1, <2>3, ClosesAgrees
    <3>2. u \in DOMAIN d.state /\ d.state[u] = c.state[u]
      BY <2>1, <2>2, <2>3, ClosesBeside
    <3>3. QED
      BY <2>2, <3>1, <3>2 DEF Begun, Started
  <2>4. CASE IsPrefix(t, u) /\ Advances(c, d)
    BY <1>3, <1>6, <2>1, <2>4
  <2>5. CASE Remains(c, d)
    <3>1. Agrees(d, p, Len(p))
      BY <1>6, <2>5 DEF Remains, Agrees, Value, isGeneratorTracker
    <3>2. u \in DOMAIN d.state /\ d.state[u] # "NotStarted"
      <4>1. CASE u = t
        BY <2>2, <2>5, <4>1, ClosesHow DEF Remains
      <4>2. CASE u # t
        BY <1>1, <2>2, <2>5, <4>2 DEF Remains, Spares
      <4>3. QED
        BY <4>1, <4>2
    <3>3. QED
      BY <3>1, <3>2 DEF Begun, Started
  <2>6. CASE u = t /\ Restarts(c, d)
    <3>1. Value(d, t) = Value(c, t)
      BY <2>6 DEF Restarts, Value, isGeneratorTracker
    <3>2. Agrees(d, p, Len(p))
      <4>1. ASSUME NEW j \in 1 .. Len(p) PROVE Value(d, Upto(p, j)) = Value(c, Upto(p, j))
        <5>1. j \in 0 .. Len(p) /\ Upto(p, j) \in Path /\ Len(Upto(p, j)) = j
          <6>1. j \in 0 .. Len(p)
            BY <2>1
          <6>2. QED
            BY <6>1, ChoiceIs
        <5>2. CASE j = Len(p)
          BY <2>1, <2>6, <3>1, <5>2
        <5>3. CASE j # Len(p)
          <6>1. Len(t) = Len(p)
            BY <2>6, ChoiceIs
          <6>2. ~ IsPrefix(t, Upto(p, j))
            BY <1>1, <2>1, <5>1, <5>3, <6>1, PrefixIs
          <6>3. QED
            BY <5>1, <6>2, ClosesBeside
        <5>4. QED
          BY <5>2, <5>3
      <4>2. QED
        BY <1>6, <4>1 DEF Agrees
    <3>3. t \in DOMAIN d.state /\ d.state[t] # "NotStarted"
      BY ClosesIs, ClosesHow
    <3>4. QED
      BY <2>6, <3>2, <3>3 DEF Begun, Started
  <2>7. CASE IsStrictPrefix(t, u)
    BY <1>4, <2>2, <2>4, <2>5, <2>7 DEF IsStrictPrefix
  <2>8. QED
    BY <1>2, <2>3, <2>4, <2>5, <2>6, <2>7 DEF IsStrictPrefix
<1>7. QED
  BY <1>5, <1>6 DEF Begun

LEMMA ValuedSame ==
  ASSUME NEW c, NEW d, NEW t, \A i \in 1 .. Len(t) : Value(d, SubSeq(t, 1, i)) = Value(c, SubSeq(t, 1, i))
  PROVE  Valued(d, t) = Valued(c, t)
<1>1. \A e : Valued(e, t) = [i \in 1 .. Len(t) |-> <<t[i], Value(e, SubSeq(t, 1, i))>>]
  BY DEF Valued, Value
<1>2. [i \in 1 .. Len(t) |-> <<t[i], Value(d, SubSeq(t, 1, i))>>]
        = [i \in 1 .. Len(t) |-> <<t[i], Value(c, SubSeq(t, 1, i))>>]
  OBVIOUS
<1>3. QED
  BY <1>1, <1>2

LEMMA ClosesRan ==
  ASSUME NEW c, NEW d, Closes(c, d), CurrentRan(c)
  PROVE  CurrentRan(d)
<1> DEFINE t == c.current
<1>1. /\ t \in Path /\ Len(t) \in Nat /\ d.current \in Path /\ Len(d.current) = Len(t) - 1
      /\ \A k \in 0 .. Len(t) - 1 : SubSeq(d.current, 1, k) = SubSeq(t, 1, k)
  BY ClosesIs
<1>2. ASSUME NEW k \in 2 .. Len(d.current)
      PROVE  Valued(d, SubSeq(d.current, 1, k)) \in ran
  <2> DEFINE u == SubSeq(t, 1, k)
  <2>1. k \in 0 .. Len(t) - 1 /\ k \in 2 .. Len(t) /\ k \in 0 .. Len(t) /\ k < Len(t)
    BY <1>1
  <2>2. u = SubSeq(d.current, 1, k) /\ Valued(c, u) \in ran
    BY <1>1, <2>1 DEF CurrentRan
  <2>3. u \in Path /\ Len(u) = k
    BY <1>1, <2>1, PathParts
  <2> HIDE DEF u
  <2>4. ASSUME NEW i \in 1 .. Len(u)
        PROVE  Value(d, SubSeq(u, 1, i)) = Value(c, SubSeq(u, 1, i))
    <3>1. i \in 0 .. Len(u)
      BY <2>1, <2>3
    <3>2. SubSeq(u, 1, i) \in Path /\ Len(SubSeq(u, 1, i)) = i
      BY <2>3, <3>1, PathParts
    <3>3. ~ IsPrefix(t, SubSeq(u, 1, i))
      <4>1. i < Len(t)
        BY <1>1, <2>1, <2>3
      <4>2. IsPrefix(t, SubSeq(u, 1, i)) => Len(t) <= Len(SubSeq(u, 1, i))
        BY <1>1, <3>2, PrefixIs
      <4>3. QED
        BY <1>1, <3>2, <4>1, <4>2
    <3>4. QED
      BY <3>2, <3>3, ClosesBeside
  <2>5. Valued(d, u) = Valued(c, u)
    BY <2>4, ValuedSame
  <2>6. QED
    BY <2>2, <2>5
<1>3. QED
  BY <1>2 DEF CurrentRan

(* A choice that is newly behind is one for which the tracker completes.   *)
LEMMA BehindBefore ==
  ASSUME NEW c, NEW d, Closes(c, d), Values(c), session.values \in Nat,
         NEW p \in Choice, \A i \in 1 .. Len(p) : p[i][2] <= session.values,
         Behind(d, p), ~ Behind(c, p)
  PROVE  LET n == Len(c.current)
         IN  /\ Completes(c, d, c.current)
             /\ n \in 1 .. Len(p) /\ Upto(p, n) = c.current /\ Agrees(c, p, n)
<1> DEFINE t == c.current
           n == Len(t)
<1>1. /\ t \in Path /\ t # Root /\ t \in DOMAIN c.state /\ DOMAIN d.generator \subseteq DOMAIN d.state
      /\ Spares(c, d, t) /\ DOMAIN c.generator \subseteq DOMAIN c.state
      /\ IsContext(c) /\ IsContext(d)
  BY ClosesIs DEF Closes
<1>2. Remains(c, d) \/ Restarts(c, d) \/ Advances(c, d)
  BY ClosesHow
<1>3. PICK i \in 1 .. Len(p) : Moved(d, p, i) \/ Passed(d, p, i)
  BY DEF Behind
<1> DEFINE u == Upto(p, i)
<1>4. /\ Len(p) \in Nat /\ i \in 0 .. Len(p) /\ i - 1 \in 0 .. Len(p) /\ i \in Nat
      /\ Parent(u) = Upto(p, i - 1) /\ u # Root /\ u \in Path /\ Len(u) = i /\ p[i][2] \in Nat
  <2>1. Len(p) \in Nat /\ i \in 0 .. Len(p)
    BY ChoiceIs
  <2>2. QED
    BY <2>1, ChoiceIs, ChoiceStep
<1>5. IsPrefix(Upto(p, i - 1), u) /\ Upto(p, i - 1) \in Path
  BY <1>4, AroundParent
<1>6. u \in DOMAIN d.state /\ Agrees(d, p, i - 1)
  <2>1. CASE Moved(d, p, i)
    BY <1>1, <2>1 DEF Moved
  <2>2. CASE Passed(d, p, i)
    <3>1. \A j \in 1 .. i - 1 : j \in 1 .. i
      BY <1>4
    <3>2. QED
      BY <2>2, <3>1 DEF Passed, Agrees
  <2>3. QED
    BY <1>3, <2>1, <2>2
<1>7. IsPrefix(t, u)
  <2>1. SUFFICES ASSUME ~ IsPrefix(t, u) PROVE Behind(c, p)
    OBVIOUS
  <2>2. ~ IsPrefix(t, Upto(p, i - 1))
    BY <1>1, <1>4, <1>5, <2>1, PrefixTransitive
  <2>3. Agrees(d, p, i) => Agrees(c, p, i)
    BY <1>4, <2>1, ClosesAgrees
  <2>4. Agrees(d, p, i - 1) => Agrees(c, p, i - 1)
    BY <1>4, <2>2, ClosesAgrees
  <2>5. /\ u \in DOMAIN d.state <=> u \in DOMAIN c.state
        /\ u \in DOMAIN c.state => d.state[u] = c.state[u]
        /\ u \in DOMAIN d.generator <=> u \in DOMAIN c.generator
        /\ u \in DOMAIN c.generator => d.generator[u] = c.generator[u]
    BY <1>4, <2>1, ClosesBeside
  <2>6. Moved(d, p, i) => Moved(c, p, i)
    BY <2>4, <2>5 DEF Moved
  <2>7. Passed(d, p, i) => Passed(c, p, i)
    BY <2>3, <2>5 DEF Passed
  <2>8. QED
    BY <1>3, <2>6, <2>7 DEF Behind
<1>8. CASE u = t
  <2>1. n = i /\ ~ IsPrefix(t, Upto(p, i - 1))
    <3>1. ~ IsStrictPrefix(u, u)
      BY DEF IsStrictPrefix
    <3>2. QED
      BY <1>4, <1>8, <3>1, AroundParent
  <2>2. Agrees(c, p, i - 1)
    BY <1>4, <1>6, <2>1, ClosesAgrees
  <2>3. CASE Moved(d, p, i)
    <3>1. t \in DOMAIN d.generator /\ t \in DOMAIN c.generator /\ d.generator[t].at > p[i][2]
      BY <1>1, <1>8, <2>3 DEF Moved, Spares
    <3>2. ~ (c.generator[t].at > p[i][2])
      BY <1>8, <2>2, <3>1 DEF Behind, Moved
    <3>3. Advances(c, d)
      BY <1>2, <3>1, <3>2 DEF Remains, Restarts
    <3>4. d.generator[t].at = c.generator[t].at + 1 /\ c.generator[t].at \in Nat
      BY <1>1, <3>1, <3>3 DEF Advances, PastValue, IsContext
    <3>5. p[i][2] = c.generator[t].at
      BY <1>4, <3>1, <3>2, <3>4
    <3>6. p[i][2] = Value(c, Upto(p, i))
      BY <1>8, <3>1, <3>5 DEF Value, isGeneratorTracker
    <3>7. Agrees(c, p, i)
      <4>1. \A j \in 1 .. i : j = i \/ j \in 1 .. i - 1
        BY <1>4
      <4>2. QED
        BY <2>2, <3>6, <4>1 DEF Agrees
    <3>8. Completes(c, d, t)
      BY <3>3 DEF Advances, Completes
    <3>9. QED
      BY <1>8, <2>1, <3>7, <3>8
  <2>4. CASE Passed(d, p, i)
    <3>1. t \notin DOMAIN d.generator /\ d.state[t] \in Completed
      BY <1>8, <2>4 DEF Passed
    <3>2. t \notin DOMAIN c.generator
      <4>1. ~ IsStrictPrefix(t, t)
        BY DEF IsStrictPrefix
      <4>2. QED
        BY <1>1, <3>1, <4>1 DEF Spares
    <3>3. Value(d, u) = 0 /\ Value(c, u) = 0
      BY <1>8, <3>1, <3>2 DEF Value, isGeneratorTracker
    <3>4. p[i][2] = 0
      <4>1. i \in 1 .. i
        BY <1>4
      <4>2. QED
        BY <2>4, <3>3, <4>1 DEF Passed, Agrees
    <3>5. Agrees(c, p, i)
      <4>1. \A j \in 1 .. i : j = i \/ j \in 1 .. i - 1
        BY <1>4
      <4>2. QED
        BY <2>2, <3>3, <3>4, <4>1 DEF Agrees
    <3>6. Completes(c, d, t)
      BY <3>1, ClosesHow DEF Completed
    <3>7. QED
      BY <1>8, <2>1, <3>5, <3>6
  <2>5. QED
    BY <1>3, <2>3, <2>4
<1>9. CASE u # t
  <2>1. IsStrictPrefix(t, u) /\ IsPrefix(t, Upto(p, i - 1))
    <3>1. IsStrictPrefix(t, u)
      BY <1>7, <1>9 DEF IsStrictPrefix
    <3>2. QED
      BY <1>1, <1>4, <3>1, AroundParent
  <2>2. ~ Alone(d, t)
    BY <1>6, <2>1 DEF Alone
  <2>3. CASE Remains(c, d)
    <3>1. \A k : Agrees(d, p, k) => Agrees(c, p, k)
      BY <2>3 DEF Remains, Agrees, Value, isGeneratorTracker
    <3>2. Moved(d, p, i) => Moved(c, p, i)
      BY <2>3, <3>1 DEF Remains, Moved
    <3>3. u \in DOMAIN c.state /\ d.state[u] = c.state[u]
      BY <1>1, <1>6, <1>9 DEF Spares
    <3>4. Passed(d, p, i) => Passed(c, p, i)
      BY <2>3, <3>1, <3>3 DEF Remains, Passed
    <3>5. QED
      BY <1>3, <3>2, <3>4 DEF Behind
  <2>4. CASE Restarts(c, d)
    BY <2>2, <2>4 DEF Restarts
  <2>5. CASE Advances(c, d)
    <3>1. /\ t \in DOMAIN d.generator /\ d.generator[t].at = c.generator[t].at + 1
          /\ ~ (c.generator[t].at < c.generator[t].size)
          /\ c.generator[t].size = session.values /\ c.generator[t].at \in Nat
      BY <1>1, <2>2, <2>5 DEF Advances, PastValue, Values, IsContext
    <3>2. n \in 1 .. Len(p) /\ p[n][2] = Value(d, t)
      BY <1>1, <1>4, <1>6, <2>1, AroundPart
    <3>3. p[n][2] = d.generator[t].at /\ p[n][2] <= session.values
      BY <3>1, <3>2 DEF Value, isGeneratorTracker
    <3>4. QED
      BY <3>1, <3>3
  <2>6. QED
    BY <1>2, <2>3, <2>4, <2>5
<1>10. QED
  BY <1>8, <1>9

-----------------------------------------------------------------------------
(***************************************************************************)
(* What a test case is to run: the paths are those that the function       *)
(* takes.                                                                  *)
(***************************************************************************)
Sortable(B) ==
  /\ IsFiniteSet(B) /\ Cardinality(B) \in Nat
  /\ \E s \in [1 .. Cardinality(B) -> B] : Increasing(s)

LEMMA SortedGrows ==
  ASSUME NEW B \in SUBSET Nat, Sortable(B), NEW x \in Nat, \A b \in B : b < x
  PROVE  Sortable(B \cup {x})
<1> DEFINE n == Cardinality(B)
<1>1. IsFiniteSet(B \cup {x}) /\ Cardinality(B \cup {x}) = n + 1 /\ n \in Nat
  <2>1. x \notin B
    OBVIOUS
  <2>2. QED
    BY <2>1, FS_AddElement DEF Sortable
<1>2. PICK s \in [1 .. n -> B] : Increasing(s)
  BY DEF Sortable
<1>3. \A i \in 1 .. n : s[i] \in Nat /\ s[i] < x
  <2>1. \A i \in 1 .. n : s[i] \in B
    BY <1>2
  <2>2. \A b \in B : b \in Nat
    OBVIOUS
  <2>3. QED
    BY <2>1, <2>2
<1> HIDE DEF n
<1> DEFINE r == [i \in 1 .. n + 1 |-> IF i = n + 1 THEN x ELSE s[i]]
<1>4. r \in [1 .. n + 1 -> B \cup {x}]
  BY <1>1
<1>5. Increasing(r)
  <2>1. \A i \in 1 .. n + 1 : i = n + 1 \/ i \in 1 .. n
    BY <1>1
  <2>2. \A i \in 1 .. n : r[i] = s[i] /\ s[i] < x
    <3>1. \A i \in 1 .. n : i \in 1 .. n + 1 /\ i # n + 1
      BY <1>1
    <3>2. QED
      BY <1>3, <3>1
  <2>3. r[n + 1] = x /\ DOMAIN r = 1 .. n + 1 /\ DOMAIN s = 1 .. n
    BY <1>1
  <2> HIDE DEF r
  <2>4. \A i, j \in 1 .. n : i < j => r[i] < r[j]
    BY <1>2, <2>2, <2>3 DEF Increasing
  <2>5. \A i, j \in 1 .. n + 1 : i < j => i \in 1 .. n
    BY <1>1
  <2>6. QED
    BY <2>1, <2>2, <2>3, <2>4, <2>5 DEF Increasing
<1> DEFINE C == B \cup {x}
<1>6. IsFiniteSet(C) /\ Cardinality(C) = n + 1 /\ n + 1 \in Nat /\ r \in [1 .. n + 1 -> C]
  BY <1>1, <1>4
<1> HIDE DEF C, r
<1>7. Sortable(C)
  BY <1>5, <1>6 DEF Sortable
<1>8. QED
  BY <1>7 DEF C

LEMMA SortedExists ==
  ASSUME NEW n \in Nat, NEW A \in SUBSET (0 .. n)
  PROVE  Sortable(A)
<1> DEFINE part(m) == {a \in A : a < m}
           G == {m \in 0 .. n + 1 : Sortable(part(m))}
<1>1. \A a \in A : a \in Nat /\ a <= n
  OBVIOUS
<1>2. 0 \in G
  <2>1. part(0) = {}
    <3>1. \A a \in A : ~ (a < 0)
      BY <1>1
    <3>2. QED
      BY <3>1
  <2>2. IsFiniteSet({}) /\ Cardinality({}) = 0
    BY FS_EmptySet
  <2>3. [i \in 1 .. 0 |-> i] \in [1 .. 0 -> {}] /\ Increasing([i \in 1 .. 0 |-> i])
    BY DEF Increasing
  <2>4. Sortable({})
    <3> DEFINE E == {}
               s == [i \in 1 .. 0 |-> i]
    <3>1. IsFiniteSet(E) /\ Cardinality(E) = 0 /\ s \in [1 .. 0 -> E] /\ Increasing(s)
      BY <2>2, <2>3
    <3> DEFINE k == Cardinality(E)
    <3>2. k = 0
      BY <3>1
    <3> HIDE DEF E, s, k
    <3>3. k \in Nat /\ s \in [1 .. k -> E]
      BY <3>1, <3>2
    <3>4. Sortable(E)
      BY <3>1, <3>3 DEF Sortable, k
    <3>5. QED
      BY <3>4 DEF E
  <2>5. QED
    BY <2>1, <2>4
<1>3. ASSUME NEW m \in 1 .. n + 1, m - 1 \in G
      PROVE  m \in G
  <2>1. Sortable(part(m - 1)) /\ part(m - 1) \in SUBSET Nat /\ \A b \in part(m - 1) : b < m - 1
    BY <1>1, <1>3
  <2>2. CASE m - 1 \in A
    <3>1. part(m) = part(m - 1) \cup {m - 1}
      <4>1. \A a \in A : a < m <=> a < m - 1 \/ a = m - 1
        BY <1>1
      <4>2. QED
        BY <2>2, <4>1
    <3>2. m - 1 \in Nat
      OBVIOUS
    <3> HIDE DEF part
    <3>3. Sortable(part(m))
      BY <2>1, <3>1, <3>2, SortedGrows
    <3>4. QED
      BY <3>3
  <2>3. CASE m - 1 \notin A
    <3>1. part(m) = part(m - 1)
      <4>1. \A a \in A : a < m <=> a < m - 1 \/ a = m - 1
        BY <1>1
      <4>2. QED
        BY <2>3, <4>1
    <3>2. QED
      BY <2>1, <3>1
  <2>4. QED
    BY <2>2, <2>3
<1>4. n + 1 \in G
  <2>1. n + 1 \in Nat /\ G \in SUBSET (0 .. n + 1)
    OBVIOUS
  <2> HIDE DEF G
  <2>2. G = 0 .. n + 1
    BY <1>2, <1>3, <2>1, UpToInduction
  <2>3. QED
    BY <2>2
<1>5. part(n + 1) = A
  <2>1. \A a \in A : a < n + 1
    BY <1>1
  <2>2. QED
    BY <2>1
<1>6. QED
  BY <1>4, <1>5

(* The places around k, and k, one after the other.                        *)
Leads(code, k, path, n) ==
  /\ n \in Nat /\ n >= 2
  /\ path \in [1 .. n -> Nat]
  /\ \A i \in 1 .. n : path[i] \in {0} \cup Around(code, k)
  /\ \A i, j \in 1 .. n : i < j => path[i] < path[j]
  /\ \A x \in Around(code, k) : \E i \in 1 .. n : path[i] = x
  /\ path[1] = 0

LEMMA PathToLeads ==
  ASSUME NEW code, IsCode(code), NEW k \in 1 .. Len(code), code[k] \in {"section", "generate"}
  PROVE  \E n \in Nat : Leads(code, k, PathTo(code, k), n)
<1> DEFINE path   == PathTo(code, k)
           places == {0} \cup Around(code, k)
<1>1. places \in SUBSET (0 .. k) /\ k \in Nat /\ \A x \in places : x \in Nat
  <2>1. places \in SUBSET (0 .. k) /\ k \in Nat
    BY DEF Around
  <2>2. QED
    BY <2>1
<1>2. \E n \in Nat : n = Cardinality(places) /\ IsFiniteSet(places)
                      /\ path \in [1 .. n -> places] /\ Increasing(path)
  <2>1. Sortable(places)
    BY <1>1, SortedExists
  <2>2. PathTo(code, k) = CHOOSE s \in [1 .. Cardinality(places) -> places] : Increasing(s)
    BY DEF PathTo
  <2> HIDE DEF places, path
  <2>3. QED
    BY <2>1, <2>2 DEF Sortable, path
<1>3. k \in places
  <2>1. code[k] = "section" => k <= EndOf(code, k)
    BY SectionsNest
  <2>2. Encloses(code, k, k)
    BY <1>1, <2>1 DEF Encloses
  <2>3. QED
    BY <1>1, <2>2 DEF Around
<1> HIDE DEF path, places
<1>4. PICK n \in Nat : n = Cardinality(places) /\ IsFiniteSet(places)
                         /\ path \in [1 .. n -> places] /\ Increasing(path)
  BY <1>2
<1>5. \A i, j \in 1 .. n : i < j => path[i] < path[j]
  BY <1>4 DEF Increasing
<1>6. \A i \in 1 .. n : path[i] \in places /\ path[i] \in Nat
  BY <1>1, <1>4
<1>7. \A x \in places : \E i \in 1 .. n : path[i] = x
  <2>1. \A i, j \in 1 .. n : path[i] = path[j] => i = j
    <3>1. ASSUME NEW i \in 1 .. n, NEW j \in 1 .. n, path[i] = path[j] PROVE i = j
      <4>1. ~ (i < j) /\ ~ (j < i)
        BY <1>5, <1>6, <3>1
      <4>2. QED
        BY <4>1
    <3>2. QED
      BY <3>1
  <2>2. path \in Injection(1 .. n, places)
    BY <1>4, <2>1 DEF Injection, IsInjective
  <2>3. Cardinality(1 .. n) = n
    BY FS_Interval
  <2>4. path \in Surjection(1 .. n, places)
    BY <1>4, <2>2, <2>3, FS_Injection
  <2>5. QED
    BY <2>4 DEF Surjection
<1>8. PICK i \in 1 .. n : path[i] = 0
  BY <1>7 DEF places
<1>9. PICK j \in 1 .. n : path[j] = k
  BY <1>3, <1>7
<1>10. n >= 2
  BY <1>8, <1>9
<1>11. path[1] = 0
  <2>1. 1 \in 1 .. n
    BY <1>10
  <2>2. path[1] \in Nat
    BY <1>6, <2>1
  <2>3. ~ (1 < i)
    BY <1>5, <1>8, <2>1, <2>2
  <2>4. i = 1
    BY <2>3
  <2>5. QED
    BY <1>8, <2>4
<1>12. path \in [1 .. n -> Nat]
  BY <1>4, <1>6
<1>13. Leads(code, k, path, n)
  BY <1>5, <1>6, <1>7, <1>10, <1>11, <1>12 DEF Leads, places
<1>14. QED
  BY <1>13 DEF path

(* What is around a place, by what is around its sections.                 *)
LEMMA AroundIs ==
  ASSUME NEW code, IsCode(code), NEW k \in 1 .. Len(code), NEW y
  PROVE  /\ y \in Around(code, k) <=>
              /\ y \in 1 .. k /\ code[y] \in {"section", "generate"}
              /\ code[y] = "section" => k <= EndOf(code, y)
              /\ code[y] = "generate" => \A j \in Scopes(code, y) : k <= EndOf(code, j)
         /\ y \in Around(code, k) => \A j \in Scopes(code, y) : j \in Around(code, k)
         /\ y \in Around(code, k) => \A j \in Around(code, k) :
              code[j] = "section" /\ j < y => j \in Scopes(code, y)
<1>1. Len(code) \in Nat /\ k \in Nat /\ \A j \in 1 .. k : j \in 1 .. Len(code)
  BY SectionsNest
<1>2. \A j : j \in Around(code, k) <=>
         /\ j \in 1 .. k /\ code[j] \in {"section", "generate"}
         /\ code[j] = "section" => k <= EndOf(code, j)
         /\ code[j] = "generate" => \A i \in Scopes(code, j) : k <= EndOf(code, i)
  <2>1. ASSUME NEW j \in 1 .. k, code[j] = "section"
        PROVE  Encloses(code, j, k) <=> k <= EndOf(code, j)
    BY <1>1, <2>1 DEF Encloses
  <2>2. ASSUME NEW j \in 1 .. k, code[j] = "generate"
        PROVE  Encloses(code, j, k) <=> \A i \in Scopes(code, j) : k <= EndOf(code, i)
    BY <1>1, <2>2 DEF Encloses, Scopes
  <2>3. ASSUME NEW j, code[j] \notin {"section", "generate"}
        PROVE  ~ Encloses(code, j, k)
    BY <2>3 DEF Encloses
  <2>4. QED
    BY <2>1, <2>2, <2>3 DEF Around
<1>3. ASSUME y \in Around(code, k), NEW j \in Scopes(code, y)
      PROVE  j \in Around(code, k)
  <2>1. y \in 1 .. k /\ code[y] \in {"section", "generate"} /\ y \in Nat
    BY <1>2, <1>3
  <2>2. j \in 1 .. y - 1 /\ code[j] = "section" /\ y <= EndOf(code, j)
    BY DEF Scopes
  <2>3. j \in 1 .. k /\ j \in 1 .. Len(code) /\ y \in 1 .. Len(code) /\ j < y
    BY <1>1, <2>1, <2>2
  <2>4. EndOf(code, j) \in Nat
    BY <2>2, <2>3, SectionsNest
  <2>5. k <= EndOf(code, j)
    <3>1. CASE code[y] = "section"
      <4>1. EndOf(code, y) < EndOf(code, j) /\ EndOf(code, y) \in Nat
        BY <2>2, <2>3, <3>1, SectionsNest
      <4>2. k <= EndOf(code, y)
        BY <1>2, <1>3, <3>1
      <4>3. QED
        BY <1>1, <2>4, <4>1, <4>2
    <3>2. CASE code[y] = "generate"
      BY <1>2, <1>3, <3>2
    <3>3. QED
      BY <2>1, <3>1, <3>2
  <2>6. QED
    BY <1>2, <2>2, <2>3, <2>5
<1>4. ASSUME y \in Around(code, k), NEW j \in Around(code, k), code[j] = "section", j < y
      PROVE  j \in Scopes(code, y)
  <2>1. y \in 1 .. k /\ j \in 1 .. k /\ k <= EndOf(code, j)
    BY <1>2, <1>4
  <2>2. EndOf(code, j) \in Nat
    BY <1>1, <1>4, <2>1, SectionsNest
  <2>3. j \in 1 .. y - 1 /\ y <= EndOf(code, j)
    BY <1>1, <1>4, <2>1, <2>2
  <2>4. QED
    BY <1>4, <2>3 DEF Scopes
<1>5. QED
  BY <1>2, <1>3, <1>4

LEMMA PathFollows ==
  ASSUME NEW code, IsCode(code), NEW k \in 1 .. Len(code), NEW path, NEW n \in Nat,
         Leads(code, k, path, n), NEW i \in 1 .. n - 1,
         NEW u \in Path, Len(u) = i, \A j \in 1 .. i : u[j] = path[j]
  PROVE  /\ path[i + 1] \in 1 .. Len(code)
         /\ NextIn(code, u, path[i + 1])
<1> DEFINE y == path[i + 1]
<1>1. /\ n \in Nat /\ n >= 2 /\ \A j \in 1 .. n : path[j] \in {0} \cup Around(code, k)
      /\ \A j, l \in 1 .. n : j < l => path[j] < path[l]
      /\ \A x \in Around(code, k) : \E j \in 1 .. n : path[j] = x
      /\ path[1] = 0
  BY DEF Leads
<1>2. \A j \in 1 .. n : path[j] \in Nat /\ (j > 1 => path[j] \in Around(code, k) /\ path[j] > 0)
  <2>1. ASSUME NEW j \in 1 .. n PROVE path[j] \in Nat /\ (j > 1 => path[j] > 0)
    <3>1. path[j] \in Nat
      BY <1>1 DEF Around
    <3>2. 1 \in 1 .. n
      BY <1>1
    <3>3. QED
      BY <1>1, <3>1, <3>2
  <2>2. QED
    BY <1>1, <2>1
<1>3. i \in 1 .. n /\ i + 1 \in 1 .. n /\ i + 1 > 1 /\ i \in Nat /\ \A j \in 1 .. i : j \in 1 .. n /\ j < i + 1
  BY <1>1
<1>4. y \in Around(code, k) /\ y \in Nat /\ path[i] < y
  BY <1>1, <1>2, <1>3
<1>5. y \in 1 .. k /\ y \in 1 .. Len(code) /\ code[y] \in {"section", "generate"} /\ Len(code) \in Nat
  <2>1. y \in 1 .. k /\ code[y] \in {"section", "generate"}
    BY <1>4, AroundIs
  <2>2. QED
    BY <2>1, SectionsNest
<1>6. Last(u) = path[i]
  <2>1. u # <<>>
    BY <1>3
  <2>2. Last(u) = u[i]
    BY <2>1, LastAndFront DEF Path
  <2>3. QED
    BY <1>3, <2>2
<1> HIDE DEF y
<1>7. Scopes(code, y) = SectionsOn(code, u)
  <2>1. ASSUME NEW j \in Scopes(code, y)
        PROVE  j \in SectionsOn(code, u)
    <3>1. j \in Around(code, k) /\ j \in Nat /\ j > 0 /\ j < y /\ code[j] = "section"
      BY <1>4, <1>5, AroundIs DEF Scopes
    <3>2. PICK l \in 1 .. n : path[l] = j
      BY <1>1, <3>1
    <3>3. l < i + 1
      <4>1. ~ (i + 1 < l) /\ l # i + 1
        BY <1>1, <1>2, <1>3, <1>4, <3>1, <3>2 DEF y
      <4>2. QED
        BY <1>3, <4>1
    <3>4. l # 1
      BY <1>1, <3>1, <3>2
    <3>5. l \in 2 .. i /\ l \in 1 .. i
      BY <1>3, <3>3, <3>4
    <3>6. u[l] = j
      BY <3>2, <3>5
    <3>7. QED
      BY <3>1, <3>5, <3>6 DEF SectionsOn
  <2>2. ASSUME NEW j \in SectionsOn(code, u)
        PROVE  j \in Scopes(code, y)
    <3>1. PICK l \in 2 .. i : j = u[l] /\ code[u[l]] = "section"
      BY DEF SectionsOn
    <3>2. l \in 1 .. n /\ l \in 1 .. i /\ l > 1 /\ l < i + 1
      BY <1>3
    <3>3. path[l] = j /\ path[l] \in Around(code, k) /\ path[l] < y
      BY <1>1, <1>2, <1>3, <3>1, <3>2 DEF y
    <3>4. QED
      BY <1>4, <3>1, <3>3, AroundIs
  <2>3. QED
    BY <2>1, <2>2
<1>8. ASSUME NEW z \in 1 .. Len(code), path[i] < z, z < y, code[z] = "generate", IsIn(code, u, z)
      PROVE  FALSE
  <2>1. Scopes(code, z) = Scopes(code, y)
    BY <1>7, <1>8 DEF IsIn
  <2>2. \A j \in Scopes(code, y) : j \in Around(code, k) /\ code[j] = "section"
    BY <1>4, AroundIs DEF Scopes
  <2>3. \A j \in Scopes(code, y) : k <= EndOf(code, j)
    BY <2>2, AroundIs
  <2>4. z \in 1 .. k
    BY <1>5, <1>8
  <2>5. z \in Around(code, k)
    BY <1>8, <2>1, <2>3, <2>4, AroundIs
  <2>6. PICK l \in 1 .. n : path[l] = z
    BY <1>1, <2>5
  <2>7. ~ (l < i) /\ l # i /\ ~ (i + 1 < l) /\ l # i + 1
    BY <1>1, <1>2, <1>3, <1>4, <1>8, <2>6 DEF y
  <2>8. QED
    BY <1>3, <2>7
<1>9. NextIn(code, u, y)
  BY <1>4, <1>5, <1>6, <1>7, <1>8 DEF NextIn, IsIn
<1>10. QED
  BY <1>5, <1>9 DEF y

LEMMA ToRunIs ==
  ASSUME NEW code, IsCode(code), session.values \in Nat, NEW p \in ToRun(code)
  PROVE  /\ p \in Choice /\ Len(p) \in Nat /\ Len(p) >= 2
         /\ p[1][1] = 0 /\ p[1][2] = 0
         /\ \A i \in 1 .. Len(p) : p[i][2] \in Nat /\ p[i][2] <= session.values
         /\ \A i \in 2 .. Len(p) : /\ p[i][1] \in 1 .. Len(code)
                                   /\ code[p[i][1]] = "section" <=> p[i][2] = 0
         /\ \A i \in 1 .. Len(p) - 1 : NextIn(code, Upto(p, i), p[i + 1][1])
         /\ Asked(code, PathOf(p), session.sections)
<1> DEFINE path(k) == PathTo(code, k)
           Valid(k, f) == \A i \in DOMAIN path(k) : f[i] = 0 <=> path(k)[i] = 0 \/ code[path(k)[i]] = "section"
           choices(k) == {f \in [DOMAIN path(k) -> 0 .. session.values] :
                            \A i \in DOMAIN path(k) : f[i] = 0 <=> path(k)[i] = 0 \/ code[path(k)[i]] = "section"}
           all(k) == {[i \in DOMAIN path(k) |-> <<path(k)[i], f[i]>>] : f \in choices(k)}
<1>1. PICK k \in DOMAIN code : /\ Leaf(code, k) /\ Asked(code, path(k), session.sections) /\ p \in all(k)
  <2>1. ToRun(code) = UNION {IF Asked(code, path(k), session.sections) THEN all(k) ELSE {}
                             : k \in {k \in DOMAIN code : Leaf(code, k)}}
    BY DEF ToRun
  <2> HIDE DEF all, path
  <2>2. QED
    BY <2>1
<1>2. PICK f \in [DOMAIN path(k) -> 0 .. session.values] :
        Valid(k, f) /\ p = [i \in DOMAIN path(k) |-> <<path(k)[i], f[i]>>]
  BY <1>1
<1>3. k \in 1 .. Len(code) /\ code[k] \in {"section", "generate"} /\ Len(code) \in Nat
  BY <1>1, SectionsNest DEF Leaf
<1> DEFINE s == path(k)
<1>4. PICK n \in Nat : Leads(code, k, s, n)
  BY <1>3, PathToLeads
<1>5. /\ f \in [DOMAIN s -> 0 .. session.values]
      /\ \A i \in DOMAIN s : f[i] = 0 <=> s[i] = 0 \/ code[s[i]] = "section"
      /\ p = [i \in DOMAIN s |-> <<s[i], f[i]>>]
      /\ Asked(code, s, session.sections)
  BY <1>1, <1>2
<1> HIDE DEF s, path, Valid, choices, all
<1>6. n \in Nat /\ n >= 2 /\ s \in [1 .. n -> Nat] /\ s[1] = 0 /\ \A i, j \in 1 .. n : i < j => s[i] < s[j]
  BY <1>4 DEF Leads
<1>7. DOMAIN s = 1 .. n /\ \A i \in 1 .. n : s[i] \in Nat /\ f[i] \in Nat /\ f[i] <= session.values
  <2>1. DOMAIN s = 1 .. n
    BY <1>6
  <2>2. \A i \in 1 .. n : s[i] \in Nat /\ f[i] \in 0 .. session.values
    BY <1>5, <1>6, <2>1
  <2>3. QED
    BY <2>1, <2>2
<1>8. p \in [1 .. n -> Nat \X Nat]
  BY <1>5, <1>7
<1>9. p \in Choice /\ Len(p) = n
  BY <1>6, <1>8 DEF Choice
<1>10. \A i \in 1 .. n : p[i][1] = s[i] /\ p[i][2] = f[i]
  BY <1>5, <1>7
<1>11. PathOf(p) = s
  <2>1. PathOf(p) = [i \in 1 .. n |-> s[i]]
    BY <1>9, <1>10 DEF PathOf
  <2>2. QED
    BY <1>6, <2>1
<1>12. 1 \in 1 .. n /\ p[1][1] = 0 /\ p[1][2] = 0
  BY <1>5, <1>6, <1>7, <1>10
<1>13. ASSUME NEW i \in 1 .. n - 1
       PROVE  /\ s[i + 1] \in 1 .. Len(code)
              /\ NextIn(code, Upto(p, i), p[i + 1][1])
  <2>1. i \in Nat /\ i \in 0 .. n /\ i + 1 \in 1 .. n /\ \A j \in 1 .. i : j \in 1 .. n
    BY <1>6
  <2>2. Upto(p, i) \in Path /\ Len(Upto(p, i)) = i /\ \A j \in 1 .. i : Upto(p, i)[j] = p[j][1]
    BY <1>9, <2>1, ChoiceIs
  <2>3. \A j \in 1 .. i : Upto(p, i)[j] = s[j]
    BY <1>10, <2>1, <2>2
  <2>4. s[i + 1] \in 1 .. Len(code) /\ NextIn(code, Upto(p, i), s[i + 1])
    BY <1>3, <1>4, <2>2, <2>3, PathFollows
  <2>5. QED
    BY <1>10, <2>1, <2>4
<1>14. ASSUME NEW i \in 2 .. n
       PROVE  /\ p[i][1] \in 1 .. Len(code)
              /\ code[p[i][1]] = "section" <=> p[i][2] = 0
  <2>1. i \in 1 .. n /\ i - 1 \in 1 .. n - 1 /\ (i - 1) + 1 = i /\ 1 < i
    BY <1>6
  <2>2. s[i] \in 1 .. Len(code)
    BY <1>13, <2>1
  <2>3. s[i] # 0
    BY <2>2
  <2>4. QED
    BY <1>5, <1>7, <1>10, <2>1, <2>2, <2>3
<1>15. \A i \in 1 .. n : p[i][2] \in Nat /\ p[i][2] <= session.values
  BY <1>7, <1>10
<1>16. QED
  BY <1>5, <1>6, <1>9, <1>11, <1>12, <1>13, <1>14, <1>15

(* The filters of a tracker are those from the depth of its section on.    *)
LEMMA FiltersFrom ==
  ASSUME NEW f \in Seq(Nat), NEW n \in Nat, n >= 1, n <= Len(f),
         NEW all, all = <<"root", "test_case">> \o f
  PROVE  f[n] \in ToSet(SubSeq(all, (n + 1) + 1, Len(all)))
<1> DEFINE S == {"root", "test_case"} \cup Nat
           a == <<"root", "test_case">>
           r == SubSeq(all, (n + 1) + 1, Len(all))
<1>1. a \in Seq(S) /\ Len(a) = 2 /\ f \in Seq(S) /\ Len(f) \in Nat
  OBVIOUS
<1> HIDE DEF a
<1>2. all = a \o f
  BY DEF a
<1>3. all \in Seq(S) /\ Len(all) = Len(a) + Len(f)
      /\ \A i \in 1 .. Len(a) + Len(f) : all[i] = IF i <= Len(a) THEN a[i] ELSE f[i - Len(a)]
  BY <1>1, <1>2, ConcatProperties
<1> HIDE DEF S
<1>4. n + 2 \in 1 .. Len(all) /\ all[n + 2] = f[n] /\ (n + 1) + 1 = n + 2 /\ Len(all) \in Nat
  <2>1. n + 2 \in 1 .. Len(a) + Len(f) /\ ~ (n + 2 <= Len(a)) /\ (n + 2) - Len(a) = n
    BY <1>1
  <2>2. QED
    BY <1>1, <1>3, <2>1
<1>5. r \in Seq(S) /\ Len(r) = Len(all) - (n + 2) + 1 /\ r[1] = all[n + 2]
  BY <1>3, <1>4
<1> HIDE DEF r
<1>6. 1 \in DOMAIN r
  BY <1>4, <1>5
<1>7. f[n] \in ToSet(r)
  BY <1>4, <1>5, <1>6 DEF ToSet
<1>8. QED
  BY <1>7 DEF r

(* What is asked for is not filtered out.                                  *)
LEMMA AskedKept ==
  ASSUME NEW code, IsCode(code), session \in Sessions, NEW c, Tree(code, c),
         c.filters = session.sections, NEW p \in ToRun(code), NEW k \in 2 .. Len(p),
         Upto(p, k) \in DOMAIN c.state
  PROVE  ~ FilteredOut(c, Upto(p, k))
<1> DEFINE t     == Upto(p, k)
           depth == Depth(code, PathOf(p), k)
           f     == session.sections
           A     == {i \in 1 .. Len(t) : ~ isGeneratorTracker(c, SubSeq(t, 1, i))}
           B     == {j \in 2 .. k : code[PathOf(p)[j]] = "section"}
<1>1. SUFFICES ASSUME FilteredOut(c, t) PROVE FALSE
  OBVIOUS
<1>2. session.values \in Nat /\ f \in Seq(Nat) /\ IsCode(code)
  BY SessionsAssumption DEF Session
<1>3. /\ p \in Choice /\ Len(p) \in Nat /\ Asked(code, PathOf(p), f)
      /\ k \in Nat /\ k \in 0 .. Len(p) /\ k \in 1 .. Len(p)
  BY <1>2, ToRunIs
<1>4. /\ PathOf(p) \in Path /\ Len(PathOf(p)) = Len(p) /\ t \in Path /\ Len(t) = k
      /\ \A j \in 0 .. k : SubSeq(t, 1, j) = Upto(p, j) /\ SubSeq(t, 1, j) \in DOMAIN c.state
      /\ \A i \in 1 .. Len(p) : PathOf(p)[i] = p[i][1]
      /\ Last(t) = PathOf(p)[k]
      /\ \A j \in 1 .. k : Upto(p, j)[j] = PathOf(p)[j] /\ Len(Upto(p, j)) = j
  <2>1. /\ PathOf(p) \in Path /\ Len(PathOf(p)) = Len(p) /\ t \in Path /\ Len(t) = k
        /\ \A j \in 0 .. k : SubSeq(t, 1, j) = Upto(p, j)
        /\ \A i \in 1 .. Len(p) : PathOf(p)[i] = p[i][1]
    BY <1>3, ChoiceIs
  <2>2. \A j \in 0 .. k : SubSeq(t, 1, j) \in DOMAIN c.state
    BY <2>1 DEF Tree
  <2>3. Last(t) = PathOf(p)[k]
    BY <1>3, <2>1, ChoiceStep
  <2>4. ASSUME NEW j \in 1 .. k PROVE Upto(p, j)[j] = PathOf(p)[j] /\ Len(Upto(p, j)) = j
    <3>1. j \in 0 .. Len(p) /\ j \in 1 .. Len(p) /\ j \in 1 .. j
      BY <1>3
    <3>2. QED
      BY <1>3, <2>1, <3>1, ChoiceIs
  <2>5. QED
    BY <2>1, <2>2, <2>3, <2>4
<1>5. \A j \in 2 .. k : isGeneratorTracker(c, SubSeq(t, 1, j)) <=> code[PathOf(p)[j]] = "generate"
  <2>1. ASSUME NEW j \in 2 .. k
        PROVE  isGeneratorTracker(c, SubSeq(t, 1, j)) <=> code[PathOf(p)[j]] = "generate"
    <3>1. j \in 1 .. k /\ j \in 0 .. k /\ j >= 2
      BY <1>3
    <3>2. SubSeq(t, 1, j) = Upto(p, j) /\ Upto(p, j) \in DOMAIN c.state
          /\ Upto(p, j)[j] = PathOf(p)[j] /\ Len(Upto(p, j)) = j
      BY <1>4, <3>1
    <3>3. Placed(code, c, Upto(p, j))
      BY <3>2 DEF Tree
    <3>4. QED
      BY <3>1, <3>2, <3>3 DEF Placed, isGeneratorTracker
  <2>2. QED
    BY <2>1
<1>6. ~ isGeneratorTracker(c, SubSeq(t, 1, 1))
  <2>1. 1 \in 1 .. k /\ 1 \in 0 .. k
    BY <1>3
  <2>2. Len(SubSeq(t, 1, 1)) = 1 /\ SubSeq(t, 1, 1) \in DOMAIN c.state
    BY <1>4, <2>1
  <2>3. Placed(code, c, SubSeq(t, 1, 1))
    BY <2>2 DEF Tree
  <2>4. QED
    BY <2>2, <2>3 DEF Placed, isGeneratorTracker
<1>7. \A j \in 2 .. k : code[PathOf(p)[j]] \in {"section", "generate"}
  <2>1. ASSUME NEW j \in 2 .. k PROVE code[PathOf(p)[j]] \in {"section", "generate"}
    <3>1. j \in 1 .. k /\ j \in 0 .. k /\ j >= 2
      BY <1>3
    <3>2. Upto(p, j) \in DOMAIN c.state /\ Upto(p, j)[j] = PathOf(p)[j] /\ Len(Upto(p, j)) = j
      BY <1>4, <3>1
    <3>3. Placed(code, c, Upto(p, j))
      BY <3>2 DEF Tree
    <3>4. QED
      BY <3>1, <3>2, <3>3 DEF Placed, IsIn
  <2>2. QED
    BY <2>1
<1>8. A = B \cup {1}
  <2>1. \A j \in 1 .. k : j = 1 \/ j \in 2 .. k
    BY <1>3
  <2>2. 1 \in 1 .. k /\ \A j \in 2 .. k : j \in 1 .. k
    BY <1>3
  <2>3. \A j \in 2 .. k : code[PathOf(p)[j]] = "section" <=> ~ isGeneratorTracker(c, SubSeq(t, 1, j))
    BY <1>5, <1>7
  <2> HIDE DEF t
  <2>4. \A j \in 1 .. k : j \in A <=> j \in B \cup {1}
    BY <1>4, <1>6, <2>1, <2>2, <2>3
  <2>5. A \subseteq 1 .. k /\ B \cup {1} \subseteq 1 .. k
    BY <1>4, <2>2
  <2>6. QED
    BY <2>4, <2>5
<1>9. Cardinality(A) = Cardinality(B) + 1 /\ Cardinality(B) \in Nat
  <2>1. IsFiniteSet(2 .. k)
    BY <1>3, FS_Interval
  <2>2. B \subseteq 2 .. k /\ 1 \notin B
    OBVIOUS
  <2> HIDE DEF A, B
  <2>3. IsFiniteSet(B)
    BY <2>1, <2>2, FS_Subset
  <2>4. Cardinality(B \cup {1}) = Cardinality(B) + 1
    BY <2>2, <2>3, FS_AddElement
  <2>5. QED
    BY <1>8, <2>3, <2>4, FS_CardinalityType
<1>10. depth = Cardinality(B) /\ depth >= 1
  <2>1. ~ isGeneratorTracker(c, t)
    BY <1>1 DEF FilteredOut
  <2>2. SubSeq(t, 1, k) = t
    BY <1>3, <1>4, PathParts
  <2>3. k \in 2 .. k
    BY <1>3
  <2>4. code[PathOf(p)[k]] = "section"
    <3> HIDE DEF t
    <3>1. QED
      BY <1>5, <1>7, <2>1, <2>2, <2>3
  <2>5. k \in B
    BY <2>3, <2>4
  <2>6. depth = Cardinality(B)
    BY DEF Depth
  <2>7. B \subseteq 2 .. k /\ IsFiniteSet(2 .. k)
    <3>1. B \subseteq 2 .. k
      OBVIOUS
    <3>2. 2 \in Int /\ k \in Int
      BY <1>3
    <3>3. QED
      BY <3>1, <3>2, FS_Interval
  <2> HIDE DEF B, depth, t
  <2>8. IsFiniteSet(B) /\ B # {}
    BY <2>5, <2>7, FS_Subset
  <2>9. Cardinality(B) # 0
    BY <2>8, FS_EmptySet
  <2>10. QED
    BY <1>9, <2>6, <2>9
<1> DEFINE all == <<"root", "test_case">> \o f
<1>11. f # <<>> /\ Filters(c, t) = SubSeq(all, (depth + 1) + 1, Len(all)) /\ Filters(c, t) # <<>>
       /\ Last(t) \notin ToSet(Filters(c, t))
  <2>1. Filters(c, t) # <<>> /\ Last(t) \notin ToSet(Filters(c, t))
    BY <1>1 DEF FilteredOut
  <2>2. f = <<>> => Filters(c, t) = <<>>
    <3>1. ASSUME f = <<>> PROVE Filters(c, t) = SubSeq(<<>>, Cardinality(A) + 1, Len(<<>>))
      BY <3>1 DEF Filters
    <3>2. \A n \in Nat : SubSeq(<<>>, n + 1, Len(<<>>)) = <<>>
      OBVIOUS
    <3> HIDE DEF A
    <3>3. Cardinality(A) \in Nat
      BY <1>9
    <3>4. QED
      BY <3>1, <3>2, <3>3
  <2>3. f # <<>> => Filters(c, t) = SubSeq(all, Cardinality(A) + 1, Len(all))
    BY DEF Filters
  <2> HIDE DEF A, B, all, f, t, depth
  <2>4. QED
    BY <1>9, <1>10, <2>1, <2>2, <2>3
<1>12. code[PathOf(p)[k]] = "section"
  <2>1. ~ isGeneratorTracker(c, t)
    BY <1>1 DEF FilteredOut
  <2>2. SubSeq(t, 1, k) = t
    BY <1>3, <1>4, PathParts
  <2>3. k \in 2 .. k
    BY <1>3
  <2> HIDE DEF t
  <2>4. QED
    BY <1>5, <1>7, <2>1, <2>2, <2>3
<1>13. depth \in Nat
  BY <1>9, <1>10
<1> HIDE DEF A, B, depth, t, f
<1>14. depth <= Len(f)
  <2>1. Len(all) = Len(f) + 2 /\ Len(f) \in Nat
    <3>1. \A s \in Seq(Nat) : Len(<<"root", "test_case">> \o s) = Len(s) + 2 /\ Len(s) \in Nat
      OBVIOUS
    <3>2. QED
      BY <1>2, <3>1
  <2> HIDE DEF all
  <2>2. ASSUME Len(f) < depth PROVE Len(all) < (depth + 1) + 1
    BY <1>13, <2>1, <2>2
  <2>3. \A s, a, b : a \in Nat /\ b \in Nat /\ b < a => SubSeq(s, a, b) = <<>>
    OBVIOUS
  <2>4. QED
    BY <1>11, <1>13, <2>1, <2>2, <2>3
<1>15. f[depth] \in ToSet(Filters(c, t))
  BY <1>2, <1>10, <1>11, <1>13, <1>14, FiltersFrom
<1>16. depth \in DOMAIN f
  BY <1>2, <1>10, <1>13, <1>14
<1>17. PathOf(p)[k] = f[depth]
  BY <1>3, <1>4, <1>12, <1>16 DEF Asked, depth
<1>18. QED
  BY <1>4, <1>11, <1>15, <1>17

LEMMA SessionAsks ==
  ASSUME session \in Sessions, IsCode(Code), NEW p \in ToRun(Code)
  PROVE  /\ session.values \in Nat /\ session.values > 0
         /\ p \in Choice /\ Len(p) \in Nat /\ Len(p) >= 2
         /\ p[1][1] = 0 /\ p[1][2] = 0
         /\ \A i \in 1 .. Len(p) : p[i][2] \in Nat /\ p[i][2] <= session.values
         /\ \A i \in 2 .. Len(p) : /\ p[i][1] \in 1 .. Len(Code)
                                   /\ Code[p[i][1]] = "section" <=> p[i][2] = 0
         /\ \A i \in 1 .. Len(p) - 1 : NextIn(Code, Upto(p, i), p[i + 1][1])
<1>1. session.values \in Nat /\ session.values > 0
  BY SessionsAssumption DEF Session
<1>2. QED
  BY <1>1, ToRunIs

(* A part of a choice that is complete leaves the choice behind.           *)
LEMMA CompleteBehind ==
  ASSUME session \in Sessions, IsCode(Code), NEW c, Tree(Code, c), c.filters = session.sections,
         Values(c), NEW p \in ToRun(Code), NEW k \in 2 .. Len(p), Agrees(c, p, k - 1),
         Upto(p, k) \in DOMAIN c.state, isComplete(c, Upto(p, k))
  PROVE  Behind(c, p)
<1> DEFINE w == Upto(p, k)
<1>1. /\ session.values \in Nat /\ p \in Choice /\ Len(p) \in Nat
      /\ p[k][2] \in Nat /\ p[k][2] <= session.values
      /\ Code[p[k][1]] = "section" <=> p[k][2] = 0
      /\ k \in 1 .. Len(p) /\ k \in 0 .. Len(p) /\ k \in 1 .. k /\ k >= 2 /\ k \in Nat
  <2>1. Len(p) \in Nat
    BY SessionAsks
  <2>2. k \in 1 .. Len(p) /\ k \in 0 .. Len(p) /\ k \in 1 .. k /\ k >= 2 /\ k \in Nat
    BY <2>1
  <2>3. QED
    BY <2>2, SessionAsks
<1>2. w \in Path /\ Len(w) = k /\ w[k] = p[k][1]
  BY <1>1, ChoiceIs
<1>3. c.state[w] \in Completed
  <2>1. ~ FilteredOut(c, w)
    BY AskedKept
  <2>2. QED
    BY <2>1 DEF isComplete, Completed
<1>4. Placed(Code, c, w)
  BY DEF Tree
<1>5. CASE w \in DOMAIN c.generator
  <2>1. c.state[w] = "CompletedSuccessfully"
    BY <1>3, <1>5 DEF Values, Completed
  <2>2. c.generator[w].at = session.values + 1
    BY <1>5, <2>1 DEF Values
  <2>3. c.generator[w].at > p[k][2]
    BY <1>1, <2>2
  <2>4. Moved(c, p, k)
    BY <1>5, <2>3 DEF Moved
  <2>5. QED
    BY <1>1, <2>4 DEF Behind
<1>6. CASE w \notin DOMAIN c.generator
  <2>1. Code[p[k][1]] = "section"
    BY <1>1, <1>2, <1>4, <1>6 DEF Placed, IsIn
  <2>2. p[k][2] = Value(c, w)
    BY <1>1, <1>6, <2>1 DEF Value, isGeneratorTracker
  <2>3. Agrees(c, p, k)
    <3>1. \A j \in 1 .. k : j = k \/ j \in 1 .. k - 1
      BY <1>1
    <3>2. QED
      BY <2>2, <3>1 DEF Agrees
  <2>4. Passed(c, p, k)
    BY <1>3, <1>6, <2>3 DEF Passed
  <2>5. QED
    BY <1>1, <2>4 DEF Behind
<1>7. QED
  BY <1>5, <1>6

-----------------------------------------------------------------------------
(***************************************************************************)
(* When a tracker may be closed.  For each choice that goes through it and *)
(* is not yet covered, there is a tracker of what comes next (Due); it is  *)
(* complete, or the one that is closed waits for it (AtFirst).             *)
(***************************************************************************)
Through(c, p, k) == k \in 1 .. Len(p) /\ Upto(p, k) = SubSeq(c.current, 1, k) /\ Agrees(c, p, k)

Due(c, m) ==
  \A k \in m .. Len(c.current) : \A p \in ToRun(Code) : Through(c, p, k) =>
    Covered(p) \/ (k + 1 \in 2 .. Len(p) /\ Upto(p, k + 1) \in DOMAIN c.state)

AtFirst(c) ==
  c.state[c.current] = "Executing" =>
    \A p \in ToRun(Code) :
      LET w == Upto(p, Len(c.current) + 1)
      IN  Through(c, p, Len(c.current)) /\ w \in DOMAIN c.state =>
            \/ Covered(p)
            \/ isComplete(c, w)
            \/ c.current \in DOMAIN c.generator /\ should_wait_for_child(c, c.current)

MayClose(c, m) == Held(c) \/ (Due(c, m) /\ AtFirst(c))

LEMMA HeldStays ==
  ASSUME NEW c, NEW d, Closes(c, d), Held(c)
  PROVE  Stays(c, d, c.current)
<1> DEFINE t == c.current
<1>1. PICK w \in Children(c, t) :
        /\ c.state[w] # "NotStarted"
        /\ \/ c.state[t] = "NeedsAnotherRun"
           \/ c.state[t] = "ExecutingChildren" /\ ~ isComplete(c, w)
  BY DEF Held
<1>2. ~ Ready(c, t)
  BY <1>1 DEF Ready
<1>3. ~ should_wait_for_child(c, t)
  BY <1>1 DEF should_wait_for_child
<1>4. QED
  BY <1>2, <1>3 DEF Closes, Waits, Completes

LEMMA ClosesHeld ==
  ASSUME NEW c, NEW d, Closes(c, d), Held(c), AroundWaits(c), Len(d.current) > 0
  PROVE  Held(d)
<1> DEFINE t == c.current
<1>1. /\ t # Root /\ c.state[t] \in Busy /\ t \in DOMAIN d.state /\ d.current = Parent(t)
      /\ Tree(Code, d)
  BY ClosesIs DEF Closes
<1>2. d.state[t] = c.state[t]
  BY HeldStays DEF Stays
<1>3. t \in Children(d, d.current)
  BY <1>1 DEF Children
<1>4. d.state[d.current] = "ExecutingChildren"
  BY ClosesAround
<1>5. ~ isComplete(d, t) /\ d.state[t] # "NotStarted"
  BY <1>1, <1>2 DEF Tree, IsBusy, Busy
<1>6. QED
  BY <1>3, <1>4, <1>5 DEF Held

LEMMA ClosesLost ==
  ASSUME session \in Sessions, IsCode(Code), NEW c, NEW d, Closes(c, d),
         c.filters = session.sections, Values(c), NoneLost(c), NEW m \in Nat, m <= Len(c.current),
         MayClose(c, m)
  PROVE  NoneLost(d)
<1> DEFINE t == c.current
           n == Len(t)
<1>1. SUFFICES ASSUME NEW p \in ToRun(Code), Behind(d, p), ~ Behind(c, p)
      PROVE  Covered(p)
  BY DEF NoneLost
<1>2. /\ session.values \in Nat /\ p \in Choice /\ Len(p) \in Nat
      /\ \A i \in 1 .. Len(p) : p[i][2] <= session.values
  BY SessionAsks
<1>3. Completes(c, d, t) /\ n \in 1 .. Len(p) /\ Upto(p, n) = t /\ Agrees(c, p, n)
  BY <1>1, <1>2, BehindBefore
<1>4. t \in Path /\ n \in Nat /\ n > 0 /\ SubSeq(t, 1, n) = t /\ Tree(Code, c)
  <2>1. t \in Path /\ n \in Nat /\ n > 0
    BY ClosesIs
  <2>2. n \in 0 .. n
    BY <2>1
  <2>3. SubSeq(t, 1, n) = t
    BY <2>1, <2>2, PathParts
  <2>4. QED
    BY <2>1, <2>3 DEF Closes
<1>5. ~ Held(c)
  BY <1>3, HeldStays DEF Stays, Completes
<1>6. Due(c, m) /\ AtFirst(c) /\ Through(c, p, n) /\ n \in m .. Len(c.current)
  BY <1>3, <1>4, <1>5 DEF MayClose, Through
<1> DEFINE w == Upto(p, n + 1)
<1>7. Covered(p) \/ (n + 1 \in 2 .. Len(p) /\ w \in DOMAIN c.state)
  BY <1>6 DEF Due
<1>8. CASE n + 1 \in 2 .. Len(p) /\ w \in DOMAIN c.state
  <2>1. (n + 1) - 1 = n
    BY <1>4
  <2>2. ~ isComplete(c, w)
    BY <1>1, <1>3, <1>4, <1>8, <2>1, CompleteBehind DEF Closes
  <2>3. w \in Children(c, t)
    <3>1. Parent(w) = Upto(p, (n + 1) - 1) /\ w # Root
      BY <1>2, <1>8, ChoiceStep
    <3>2. QED
      BY <1>3, <1>8, <2>1, <3>1 DEF Children
  <2>4. c.state[t] = "Executing"
    BY <1>3, <2>2, <2>3 DEF Completes, Ready
  <2>5. Covered(p) \/ (t \in DOMAIN c.generator /\ should_wait_for_child(c, t))
    BY <1>6, <1>8, <2>2, <2>4 DEF AtFirst
  <2>6. QED
    BY <1>3, <2>5 DEF Completes
<1>9. QED
  BY <1>7, <1>8

LEMMA ClosesDue ==
  ASSUME session \in Sessions, IsCode(Code), NEW c, NEW d, Closes(c, d), AroundWaits(c),
         NEW m \in Nat, m > 0, MayClose(c, m), Len(d.current) >= m
  PROVE  MayClose(d, m)
<1> DEFINE t == c.current
<1>1. /\ t \in Path /\ Len(t) \in Nat /\ Len(t) > 0 /\ d.current \in Path /\ Len(d.current) = Len(t) - 1
      /\ \A k \in 0 .. Len(t) - 1 : SubSeq(d.current, 1, k) = SubSeq(t, 1, k)
      /\ Spares(c, d, t)
  BY ClosesIs DEF Closes
<1>2. CASE Held(c)
  BY <1>1, <1>2, ClosesHeld DEF MayClose
<1>3. CASE Due(c, m)
  <2>1. AtFirst(d)
    <3>1. d.state[d.current] = "ExecutingChildren"
      BY <1>1, ClosesAround
    <3>2. QED
      BY <3>1 DEF AtFirst
  <2>2. ASSUME NEW k \in m .. Len(d.current), NEW p \in ToRun(Code), Through(d, p, k)
        PROVE  Covered(p) \/ (k + 1 \in 2 .. Len(p) /\ Upto(p, k + 1) \in DOMAIN d.state)
    <3>1. k \in m .. Len(t) /\ k \in 0 .. Len(t) - 1 /\ k < Len(t) /\ k \in Nat
      BY <1>1
    <3>2. /\ p \in Choice /\ Len(p) \in Nat /\ k \in 1 .. Len(p) /\ Agrees(d, p, k)
          /\ Upto(p, k) = SubSeq(t, 1, k)
      BY <1>1, <2>2, <3>1, SessionAsks DEF Through
    <3>3. k \in 0 .. Len(p)
      BY <3>2
    <3>4. Upto(p, k) \in Path /\ Len(Upto(p, k)) = k
      BY <3>2, <3>3, ChoiceIs
    <3>5. ~ IsPrefix(t, Upto(p, k))
      BY <1>1, <3>1, <3>4, PrefixIs
    <3>6. Through(c, p, k)
      BY <3>2, <3>3, <3>5, ClosesAgrees DEF Through
    <3>7. CASE k + 1 \in 2 .. Len(p) /\ Upto(p, k + 1) \in DOMAIN c.state
      <4>1. k + 1 \in 0 .. Len(p)
        BY <3>2, <3>7
      <4>2. Upto(p, k + 1) \in Path /\ Len(Upto(p, k + 1)) = k + 1
        BY <3>2, <4>1, ChoiceIs
      <4>3. ~ IsStrictPrefix(t, Upto(p, k + 1))
        <5>1. SUFFICES ASSUME IsPrefix(t, Upto(p, k + 1)) PROVE t = Upto(p, k + 1)
          BY DEF IsStrictPrefix
        <5>2. Len(t) <= k + 1 /\ SubSeq(Upto(p, k + 1), 1, Len(t)) = t
          BY <1>1, <4>2, <5>1, PrefixIs
        <5>3. Len(t) = Len(Upto(p, k + 1))
          BY <1>1, <3>1, <4>2, <5>2
        <5>4. Len(t) \in 0 .. Len(Upto(p, k + 1))
          BY <1>1, <5>3
        <5>5. SubSeq(Upto(p, k + 1), 1, Len(Upto(p, k + 1))) = Upto(p, k + 1)
          BY <4>2, <5>3, <5>4, PathParts
        <5>6. QED
          BY <5>2, <5>3, <5>5
      <4>4. Upto(p, k + 1) \in DOMAIN d.state
        BY <1>1, <3>7, <4>3 DEF Spares
      <4>5. QED
        BY <3>7, <4>4
    <3>8. QED
      BY <1>3, <3>1, <3>6, <3>7 DEF Due
  <2>3. QED
    BY <2>1, <2>2 DEF MayClose, Due
<1>4. QED
  BY <1>2, <1>3 DEF MayClose

LEMMA ClosesSound ==
  ASSUME session \in Sessions, IsCode(Code), NEW c, NEW d, Closes(c, d), Sound(c),
         NEW m \in Nat, m <= Len(c.current), MayClose(c, m)
  PROVE  Sound(d)
<1>1. session.values \in Nat
  BY SessionsAssumption DEF Session
<1>2. Tree(Code, d) /\ d.filters = session.sections
  BY DEF Closes, Sound
<1>3. Values(d) /\ StartsFirst(d)
  BY <1>1, ClosesValues, ClosesStartsFirst DEF Sound
<1>4. LeavesRun(Code, d) /\ AroundWaits(d) /\ CurrentRan(d)
  BY ClosesLeaves, ClosesAround, ClosesRan DEF Sound
<1>5. RanBegun(d)
  <2>1. ASSUME NEW p \in ran
        PROVE  p \in Choice /\ (LeafSection(Code, PathOf(p)) => Begun(d, p))
    <3>1. p \in Choice /\ (LeafSection(Code, PathOf(p)) => Begun(c, p))
      BY DEF Sound, RanBegun
    <3>2. QED
      BY <1>1, <3>1, StaysBegun DEF Sound
  <2>2. QED
    BY <2>1 DEF RanBegun
<1>6. NoneLost(d)
  BY ClosesLost DEF Sound
<1>7. QED
  BY <1>2, <1>3, <1>4, <1>5, <1>6 DEF Sound

(* What close comes to when all but the first j trackers are closed.       *)
ComesDown(c, d, m, j) ==
  /\ Sound(d) /\ d.current = SubSeq(c.current, 1, j)
  /\ m <= j => MayClose(d, m)
  /\ Held(c) /\ j > 0 => Held(d)
  /\ \A u \in DOMAIN c.state : ~ IsStrictPrefix(SubSeq(c.current, 1, m), u) => u \in DOMAIN d.state
  /\ 0 < j /\ j < Len(c.current) => d.state[d.current] = "ExecutingChildren"

LEMMA ComesDownOne ==
  ASSUME session \in Sessions, IsCode(Code), NEW c, Sound(c), NEW m \in 1 .. Len(c.current),
         NEW j \in m .. Len(c.current), NEW d, ComesDown(c, d, m, j)
  PROVE  ComesDown(c, closeCurrent(d, d.current), m, j - 1)
<1> DEFINE s == c.current
           t == SubSeq(s, 1, m)
           e == closeCurrent(d, d.current)
<1>1. s \in Path /\ Len(s) \in Nat /\ m \in Nat /\ j \in Nat /\ m > 0 /\ m <= j /\ j <= Len(s) /\ j > 0
  BY DEF Sound, Tree, Ordered, IsContext, Path
<1>2. /\ d.current = SubSeq(s, 1, j) /\ d.current \in Path /\ Len(d.current) = j
      /\ SubSeq(d.current, 1, j - 1) = SubSeq(s, 1, j - 1)
      /\ t \in Path /\ IsPrefix(t, d.current)
  <2>1. j \in 0 .. Len(s) /\ j - 1 \in 0 .. j /\ m \in 0 .. j /\ m \in 0 .. Len(s)
    BY <1>1
  <2>2. d.current = SubSeq(s, 1, j)
    BY DEF ComesDown
  <2>3. /\ d.current \in Path /\ Len(d.current) = j
        /\ SubSeq(d.current, 1, j - 1) = SubSeq(s, 1, j - 1) /\ SubSeq(d.current, 1, m) = t
        /\ t \in Path
    <3> HIDE DEF s, e
    <3>1. /\ SubSeq(s, 1, j) \in Path /\ Len(SubSeq(s, 1, j)) = j
          /\ \A k \in 0 .. j : SubSeq(SubSeq(s, 1, j), 1, k) = SubSeq(s, 1, k)
      BY <1>1, <2>1, PathParts
    <3>2. t \in Path
      BY <1>1, <2>1, PathParts
    <3>3. QED
      BY <2>1, <2>2, <3>1, <3>2
  <2>4. IsPrefix(t, d.current)
    BY <2>1, <2>3, PrefixOf
  <2>5. QED
    BY <2>2, <2>3, <2>4
<1> HIDE DEF t, e
<1>3. Closes(d, e) /\ Sound(d)
  BY <1>1, <1>2, ClosesCurrent DEF e, ComesDown, Sound
<1>4. e.current = SubSeq(s, 1, j - 1) /\ Len(e.current) = j - 1
  BY <1>2, <1>3, ClosesIs
<1>5. MayClose(d, m)
  BY <1>1 DEF ComesDown
<1>6. Sound(e)
  BY <1>1, <1>2, <1>3, <1>5, ClosesSound
<1>7. m <= j - 1 => MayClose(e, m)
  BY <1>1, <1>3, <1>4, <1>5, ClosesDue DEF Sound
<1>8. j - 1 > 0 => e.state[e.current] = "ExecutingChildren"
  BY <1>3, <1>4, ClosesAround DEF Sound
<1>9. Held(c) /\ j - 1 > 0 => Held(e)
  <2>1. Held(c) => Held(d)
    BY <1>1 DEF ComesDown
  <2>2. QED
    BY <1>3, <1>4, <2>1, ClosesHeld DEF Sound
<1>10. ASSUME NEW u \in DOMAIN c.state, ~ IsStrictPrefix(t, u)
       PROVE  u \in DOMAIN e.state
  <2>1. u \in DOMAIN d.state /\ u \in Path
    BY <1>10 DEF ComesDown, t, Sound, Tree, Ordered, IsContext
  <2>2. ~ IsStrictPrefix(d.current, u)
    <3>1. SUFFICES ASSUME IsStrictPrefix(d.current, u) PROVE FALSE
      OBVIOUS
    <3>2. IsPrefix(d.current, u) /\ d.current # u
      BY <3>1 DEF IsStrictPrefix
    <3>3. IsPrefix(t, u)
      BY <1>2, <2>1, <3>2, PrefixTransitive
    <3>4. t = u
      BY <1>10, <3>3 DEF IsStrictPrefix
    <3>5. Len(t) <= j /\ j <= Len(u)
      BY <1>2, <2>1, <3>2, PrefixIs
    <3>6. Len(t) = j /\ j \in 0 .. Len(d.current)
      BY <1>1, <1>2, <3>4, <3>5
    <3>7. SubSeq(d.current, 1, Len(d.current)) = d.current
      BY <1>2, <3>6, PathParts
    <3>8. SubSeq(d.current, 1, Len(t)) = t
      BY <1>2, PrefixIs
    <3>9. QED
      BY <1>2, <3>2, <3>4, <3>6, <3>7, <3>8
  <2>3. QED
    BY <1>3, <2>1, <2>2 DEF Closes, Spares
<1>11. QED
  BY <1>4, <1>6, <1>7, <1>8, <1>9, <1>10 DEF ComesDown, t, e

LEMMA CloseComesDown ==
  ASSUME session \in Sessions, IsCode(Code), NEW c, Sound(c), NEW m \in 1 .. Len(c.current),
         MayClose(c, m)
  PROVE  ComesDown(c, close(c, SubSeq(c.current, 1, m)), m, m - 1)
<1> DEFINE s == c.current
           t == SubSeq(s, 1, m)
           n == Len(s) - m + 1
<1>1. s \in Path /\ Len(s) \in Nat /\ m \in Nat /\ n \in Nat /\ m >= 1
  BY DEF Sound, Tree, Ordered, IsContext, Path
<1>2. t \in Path /\ Len(t) = m /\ IsPrefix(t, s) /\ SubSeq(s, 1, Len(s)) = s
  <2>1. m \in 0 .. Len(s) /\ Len(s) \in 0 .. Len(s)
    BY <1>1
  <2>2. QED
    BY <1>1, <2>1, PathParts, PrefixOf
<1>3. PICK f : /\ f[0] = c
               /\ \A i \in 1 .. n : f[i] = closeCurrent(f[i - 1], f[i - 1].current)
               /\ close(c, t) = f[n]
  <2> DEFINE k == Len(s) - Len(t) + 1
  <2>1. k = n /\ k \in Nat
    BY <1>1, <1>2
  <2> HIDE DEF t, n
  <2>2. \E f : /\ f[0] = c
               /\ \A i \in 1 .. k : f[i] = closeCurrent(f[i - 1], f[i - 1].current)
               /\ close(c, t) = f[k]
    BY <1>2, <2>1, CloseIs
  <2> HIDE DEF k
  <2>3. QED
    BY <2>1, <2>2
<1> DEFINE G == {i \in 0 .. n : ComesDown(c, f[i], m, Len(s) - i)}
<1>4. 0 \in G
  <2>1. Len(s) - 0 = Len(s)
    BY <1>1
  <2>2. ComesDown(c, c, m, Len(s))
    BY <1>1, <1>2 DEF ComesDown
  <2>3. QED
    BY <1>1, <1>3, <2>1, <2>2
<1>5. ASSUME NEW i \in 1 .. n, i - 1 \in G
      PROVE  i \in G
  <2>1. i \in 0 .. n /\ Len(s) - (i - 1) \in m .. Len(s) /\ (Len(s) - (i - 1)) - 1 = Len(s) - i
    BY <1>1
  <2> DEFINE j == Len(s) - (i - 1)
             d == f[i - 1]
  <2>2. ComesDown(c, d, m, j) /\ f[i] = closeCurrent(d, d.current)
    BY <1>3, <1>5
  <2> HIDE DEF j, d
  <2>3. j \in m .. Len(s) /\ j - 1 = Len(s) - i
    BY <2>1 DEF j
  <2>4. ComesDown(c, closeCurrent(d, d.current), m, j - 1)
    BY <2>2, <2>3, ComesDownOne
  <2>5. QED
    BY <2>1, <2>2, <2>3, <2>4
<1>6. n \in G
  <2>1. G \in SUBSET (0 .. n)
    OBVIOUS
  <2> HIDE DEF G, n
  <2>2. G = 0 .. n
    BY <1>1, <1>4, <1>5, <2>1, UpToInduction
  <2>3. QED
    BY <1>1, <2>2
<1>7. Len(s) - n = m - 1
  BY <1>1
<1>8. QED
  BY <1>3, <1>6, <1>7

-----------------------------------------------------------------------------
(***************************************************************************)
(* An exception leaves the innermost section, whose tracker fails: what is *)
(* around it is not complete then, until the section has been tried again. *)
(***************************************************************************)
LEMMA FailIs ==
  ASSUME NEW c, IsContext(c), NEW t \in DOMAIN c.state, t # Root, Parent(t) \in DOMAIN c.state
  PROVE  LET d == fail(c, t)
         IN  /\ DOMAIN d.state = DOMAIN c.state /\ d.generator = c.generator
             /\ d.filters = c.filters /\ d.current = Parent(t)
             /\ d.state[t] = "Failed" /\ d.state[Parent(t)] = "NeedsAnotherRun"
             /\ \A u \in DOMAIN c.state : u # t /\ u # Parent(t) => d.state[u] = c.state[u]
<1> DEFINE p == Parent(t)
<1>1. p # t
  <2>1. t \in Path
    BY DEF IsContext
  <2>2. Len(p) = Len(t) - 1 /\ Len(t) \in Nat
    BY <2>1, ParentIs
  <2>3. QED
    BY <2>2
<1> HIDE DEF p
<1>2. c \in [state : {c.state}, generator : {c.generator}, filters : {c.filters},
             current : {c.current}, completedCycle : {c.completedCycle}]
  BY DEF IsContext
<1>3. fail(c, t) = [c EXCEPT !.state[t] = "Failed", !.state[p] = "NeedsAnotherRun",
                             !.current = p, !.completedCycle = TRUE]
  BY DEF fail, p
<1>4. /\ fail(c, t).state = [[c.state EXCEPT ![t] = "Failed"] EXCEPT ![p] = "NeedsAnotherRun"]
      /\ fail(c, t).generator = c.generator /\ fail(c, t).filters = c.filters
      /\ fail(c, t).current = p
  BY <1>2, <1>3
<1>5. /\ DOMAIN fail(c, t).state = DOMAIN c.state
      /\ fail(c, t).state[t] = "Failed" /\ fail(c, t).state[p] = "NeedsAnotherRun"
      /\ \A u \in DOMAIN c.state : u # t /\ u # p => fail(c, t).state[u] = c.state[u]
  BY <1>1, <1>4 DEF p
<1>6. QED
  BY <1>4, <1>5 DEF p

LEMMA LeavingActive ==
  ASSUME NEW code, NEW c, Tree(code, c), NEW act \in Seq(Scoped), act # <<>>,
         ActiveAround(code, c, act), SectionsActive(code, c, act),
         NEW d, d.current = Parent(Last(act).tracker)
  PROVE  /\ SectionsActive(code, d, Front(act))
         /\ \A i \in 2 .. Len(c.current) :
              code[c.current[i]] = "section" => i <= Len(Last(act).tracker)
<1> DEFINE m == Len(Last(act).tracker)
           s == c.current
<1>1. /\ m \in 2 .. Len(s) /\ d.current = SubSeq(s, 1, m - 1)
      /\ Len(Front(act)) = Len(act) - 1
      /\ Len(act) \in Nat /\ Len(act) > 0 /\ Last(act) = act[Len(act)]
      /\ \A i \in 1 .. Len(act) - 1 : Front(act)[i] = act[i]
  BY ActiveLeaves
<1>2. \A i \in 1 .. Len(act) : /\ Len(act[i].tracker) \in 2 .. Len(s)
                               /\ i # Len(act) => Len(act[i].tracker) < m
  BY <1>1 DEF ActiveAround
<1>3. s \in Path /\ Len(s) \in Nat
  BY DEF Tree, Ordered, IsContext, Path
<1> HIDE DEF m, s
<1>4. ASSUME NEW i \in 2 .. Len(s), code[s[i]] = "section"
      PROVE  \E j \in 1 .. Len(act) : Len(act[j].tracker) = i /\ i <= m
  <2>1. PICK j \in 1 .. Len(act) : Len(act[j].tracker) = i
    BY <1>4 DEF SectionsActive, s
  <2>2. CASE j = Len(act)
    BY <1>1, <2>1, <2>2 DEF m
  <2>3. CASE j # Len(act)
    BY <1>2, <1>1, <1>3, <2>1, <2>3
  <2>4. QED
    BY <2>2, <2>3
<1>5. m - 1 \in 0 .. Len(s) /\ m \in Nat
  BY <1>1, <1>3
<1>6. Len(d.current) = m - 1 /\ \A i \in 1 .. m - 1 : d.current[i] = s[i]
  BY <1>1, <1>3, <1>5, PathParts, PathAt
<1>7. ASSUME NEW i \in 2 .. Len(d.current), code[d.current[i]] = "section"
      PROVE  \E j \in 1 .. Len(Front(act)) : Len(Front(act)[j].tracker) = i
  <2>1. i \in 2 .. Len(s) /\ i \in 1 .. m - 1 /\ i < m
    BY <1>1, <1>3, <1>5, <1>6
  <2>2. PICK j \in 1 .. Len(act) : Len(act[j].tracker) = i
    BY <1>4, <1>6, <1>7, <2>1
  <2>3. j # Len(act)
    BY <1>1, <2>1, <2>2 DEF m
  <2>4. j \in 1 .. Len(act) - 1
    BY <1>1, <2>3
  <2>5. QED
    BY <1>1, <2>2, <2>4
<1>8. QED
  BY <1>4, <1>7 DEF SectionsActive, m, s

LEMMA FailsSound ==
  ASSUME session \in Sessions, IsCode(Code), NEW c, Sound(c), NEW act \in Seq(Scoped), act # <<>>,
         ActiveAround(Code, c, act), SectionsActive(Code, c, act),
         Valued(c, Last(act).tracker) \in left
  PROVE  LET d == fail(c, Last(act).tracker)
         IN  Sound(d) /\ Held(d)
<1> DEFINE t == Last(act).tracker
           d == fail(c, t)
           s == c.current
           m == Len(t)
           q == Parent(t)
<1>1. /\ Tree(Code, c) /\ IsContext(c) /\ s \in Path /\ Len(s) \in Nat /\ DOMAIN c.state \subseteq Path
      /\ DOMAIN c.generator \subseteq DOMAIN c.state
      /\ \A k \in 0 .. Len(s) : SubSeq(s, 1, k) \in DOMAIN c.state
      /\ \A k \in 1 .. Len(s) : c.state[SubSeq(s, 1, k)] \in Busy
  BY DEF Sound, Tree, Ordered, IsContext, Path
<1>2. m \in 2 .. Len(s) /\ t = SubSeq(s, 1, m) /\ Code[s[m]] = "section" /\ q = SubSeq(s, 1, m - 1)
  <2>1. \E e : e.current = q
    <3>1. [current |-> q].current = q
      OBVIOUS
    <3>2. QED
      BY <3>1
  <2>2. PICK e : e.current = q
    BY <2>1
  <2>3. QED
    BY <1>1, <2>2, ActiveLeaves
<1>3. m \in 0 .. Len(s) /\ m - 1 \in 0 .. Len(s) /\ m - 1 \in 1 .. Len(s) /\ m \in 1 .. Len(s) /\ m \in Nat
  BY <1>1, <1>2
<1>4. /\ t \in Path /\ t \in DOMAIN c.state /\ q \in Path /\ q \in DOMAIN c.state
      /\ Len(q) = m - 1 /\ \A j \in 0 .. m - 1 : SubSeq(q, 1, j) = SubSeq(s, 1, j)
      /\ c.state[t] \in Busy /\ c.state[q] \in Busy
  <2> HIDE DEF t, d, s, m, q
  <2>1. /\ t \in Path /\ t \in DOMAIN c.state /\ q \in DOMAIN c.state
        /\ c.state[t] \in Busy /\ c.state[q] \in Busy
    BY <1>1, <1>2, <1>3
  <2>2. /\ q \in Path /\ Len(q) = m - 1 /\ \A j \in 0 .. m - 1 : SubSeq(q, 1, j) = SubSeq(s, 1, j)
    BY <1>1, <1>2, <1>3, PathParts
  <2>3. QED
    BY <2>1, <2>2
<1>5. t # Root
  <2> HIDE DEF t, m
  <2>1. m = Len(t) /\ m # 0
    BY <1>2, <1>3 DEF m
  <2>2. QED
    BY <1>4, <2>1, RootIs
<1>6. /\ DOMAIN d.state = DOMAIN c.state /\ d.generator = c.generator
      /\ d.filters = c.filters /\ d.current = q
      /\ d.state[t] = "Failed" /\ d.state[q] = "NeedsAnotherRun"
      /\ \A u \in DOMAIN c.state : u # t /\ u # q => d.state[u] = c.state[u]
  BY <1>1, <1>4, <1>5, FailIs
<1>7. Tree(Code, d)
  BY <1>1, LeavesEarly
<1>8. t \notin DOMAIN c.generator
  <2>1. Placed(Code, c, t)
    BY <1>1, <1>4 DEF Tree
  <2>2. t[m] = s[m]
    BY <1>1, <1>2, <1>3, PathAt
  <2>3. QED
    BY <1>2, <2>1, <2>2 DEF Placed
<1>9. \A i \in 2 .. Len(s) : Code[s[i]] = "section" => i <= m
  BY <1>1, <1>6, LeavingActive
<1> HIDE DEF t, d, s, m, q
<1>10. Values(d)
  <2>1. ASSUME NEW g \in DOMAIN c.generator
        PROVE  /\ g \in DOMAIN d.state /\ d.state[g] \notin {"NotStarted", "Failed"}
               /\ d.state[g] = "CompletedSuccessfully" <=> c.state[g] = "CompletedSuccessfully"
    <3>1. g \in DOMAIN c.state /\ g # t /\ c.state[g] \notin {"NotStarted", "Failed"}
      BY <1>8 DEF Values, Sound
    <3>2. QED
      BY <1>4, <1>6, <3>1 DEF Busy
  <2>2. QED
    BY <1>6, <2>1 DEF Values, Sound
<1>11. \A u \in DOMAIN c.state : d.state[u] = "NotStarted" <=> c.state[u] = "NotStarted"
  BY <1>4, <1>6 DEF Busy
<1>12. StartsFirst(d)
  <2>1. ASSUME NEW u \in DOMAIN c.state, Len(u) >= 2
        PROVE  d.state[Parent(u)] # "NotStarted"
    <3>1. c.state[Parent(u)] # "NotStarted"
      BY <2>1 DEF StartsFirst, Sound
    <3>2. Parent(u) \in DOMAIN c.state
      <4>1. u \in Path /\ Len(u) \in Nat /\ \A k \in 0 .. Len(u) : SubSeq(u, 1, k) \in DOMAIN c.state
        BY <1>1 DEF Tree, Path
      <4>2. u # Root
        BY <2>1, <4>1, RootIs
      <4>3. Parent(u) = SubSeq(u, 1, Len(u) - 1) /\ Len(u) - 1 \in 0 .. Len(u)
        BY <2>1, <4>1, <4>2, ParentIs
      <4>4. QED
        BY <4>1, <4>3
    <3>3. QED
      BY <1>11, <3>1, <3>2
  <2>2. QED
    BY <1>6, <2>1 DEF StartsFirst
<1>13. LeavesRun(Code, d)
  <2>1. ASSUME NEW u \in DOMAIN c.state, LeafSection(Code, u)
        PROVE  /\ d.state[u] \in {"NotStarted", "Executing", "CompletedSuccessfully", "Failed"}
               /\ d.state[u] = "Executing" => IsPrefix(u, q)
    <3>1. /\ u \in Path /\ Len(u) \in Nat
          /\ c.state[u] \in {"NotStarted", "Executing", "CompletedSuccessfully", "Failed"}
          /\ c.state[u] = "Executing" => IsPrefix(u, s)
      BY <1>1, <2>1 DEF Sound, LeavesRun, s, Path
    <3>2. u # q
      <4>1. ~ IsStrictPrefix(u, t)
        BY <1>1, <1>4, <2>1, <3>1, LeafIsLast
      <4>2. IsStrictPrefix(q, t)
        <5>1. IsPrefix(q, t)
          BY <1>4, <1>5, AroundParent DEF q
        <5>2. q # t
          BY <1>4, <1>3 DEF m
        <5>3. QED
          BY <5>1, <5>2 DEF IsStrictPrefix
      <4>3. QED
        BY <4>1, <4>2
    <3>3. CASE u = t
      BY <1>6, <3>3
    <3>4. CASE u # t
      <4>1. d.state[u] = c.state[u]
        BY <1>6, <3>2, <3>4
      <4>2. ASSUME IsPrefix(u, s) PROVE IsPrefix(u, q)
        <5>1. Len(u) <= Len(s) /\ SubSeq(s, 1, Len(u)) = u
          BY <1>1, <3>1, <4>2, PrefixIs
        <5>2. Len(u) \in 2 .. Len(s) /\ Len(u) \in 0 .. Len(s) /\ Len(u) >= 2
          BY <1>1, <2>1, <3>1, <5>1 DEF LeafSection
        <5>3. Code[s[Len(u)]] = "section"
          <6>1. u # <<>>
            BY <5>2
          <6>2. Last(u) = u[Len(u)]
            BY <3>1, <6>1, LastAndFront DEF Path
          <6>3. Len(u) \in 1 .. Len(u)
            BY <3>1, <5>2
          <6>4. SubSeq(s, 1, Len(u))[Len(u)] = s[Len(u)]
            BY <1>1, <5>2, <6>3, PathAt
          <6>5. QED
            BY <2>1, <5>1, <6>2, <6>4 DEF LeafSection
        <5>4. Len(u) <= m
          BY <1>9, <5>2, <5>3
        <5>5. Len(u) # m
          BY <1>2, <3>4, <5>1
        <5>6. Len(u) \in 0 .. m - 1 /\ Len(u) <= Len(q)
          BY <1>3, <1>4, <3>1, <5>4, <5>5
        <5>7. SubSeq(q, 1, Len(u)) = u
          BY <1>4, <5>1, <5>6
        <5>8. QED
          BY <1>4, <3>1, <5>6, <5>7, PrefixIs
      <4>3. QED
        BY <3>1, <4>1, <4>2
    <3>5. QED
      BY <3>3, <3>4
  <2>2. QED
    BY <1>6, <2>1 DEF LeavesRun
<1>14. AroundWaits(d)
  <2>1. ASSUME NEW k \in 1 .. Len(q) - 1
        PROVE  d.state[SubSeq(q, 1, k)] = "ExecutingChildren"
    <3>1. k \in 0 .. m - 1 /\ k \in 1 .. Len(s) - 1 /\ k \in 0 .. Len(s) /\ k < m - 1 /\ k \in Nat
      BY <1>1, <1>2, <1>3, <1>4
    <3>2. SubSeq(q, 1, k) = SubSeq(s, 1, k) /\ Len(SubSeq(s, 1, k)) = k /\ SubSeq(s, 1, k) \in DOMAIN c.state
      BY <1>1, <1>4, <3>1, PathParts
    <3>3. c.state[SubSeq(s, 1, k)] = "ExecutingChildren"
      BY <3>1 DEF Sound, AroundWaits, s
    <3>4. SubSeq(s, 1, k) # t /\ SubSeq(s, 1, k) # q
      BY <1>3, <1>4, <3>1, <3>2 DEF m
    <3>5. QED
      BY <1>6, <3>2, <3>3, <3>4
  <2>2. QED
    BY <1>6, <2>1 DEF AroundWaits
<1>15. \A p, k : (Agrees(d, p, k) <=> Agrees(c, p, k)) /\ (Moved(d, p, k) <=> Moved(c, p, k))
  BY <1>6 DEF Agrees, Value, isGeneratorTracker, Moved
<1>16. RanBegun(d)
  <2>1. ASSUME NEW p, Begun(c, p) PROVE Begun(d, p)
    <3>1. Started(c, PathOf(p)) => Started(d, PathOf(p))
      BY <1>6, <1>11 DEF Started
    <3>2. QED
      BY <1>15, <2>1, <3>1 DEF Begun
  <2>2. QED
    BY <2>1 DEF Sound, RanBegun
<1>17. CurrentRan(d)
  <2>1. ASSUME NEW k \in 2 .. Len(q)
        PROVE  Valued(d, SubSeq(q, 1, k)) \in ran
    <3>1. k \in 0 .. m - 1 /\ k \in 2 .. Len(s)
      BY <1>1, <1>2, <1>3, <1>4
    <3>2. SubSeq(q, 1, k) = SubSeq(s, 1, k)
      BY <1>4, <3>1
    <3>3. Valued(c, SubSeq(s, 1, k)) \in ran
      BY <3>1 DEF Sound, CurrentRan, s
    <3>4. \A u : Valued(d, u) = Valued(c, u)
      BY <1>6 DEF Valued, isGeneratorTracker
    <3>5. QED
      BY <3>2, <3>3, <3>4
  <2>2. QED
    BY <1>6, <2>1 DEF CurrentRan
<1>18. NoneLost(d)
  <2>1. SUFFICES ASSUME NEW p \in ToRun(Code), Behind(d, p) PROVE Covered(p)
    BY DEF NoneLost
  <2>2. CASE Behind(c, p)
    BY <2>2 DEF Sound, NoneLost
  <2>3. CASE ~ Behind(c, p)
    <3>1. PICK i \in 1 .. Len(p) : Passed(d, p, i) /\ ~ Passed(c, p, i)
      BY <1>15, <2>1, <2>3 DEF Behind
    <3>2. Upto(p, i) = t /\ Agrees(c, p, i)
      <4>1. Upto(p, i) \in DOMAIN c.state \ DOMAIN c.generator /\ d.state[Upto(p, i)] \in Completed
            /\ Agrees(c, p, i)
        BY <1>6, <1>15, <3>1 DEF Passed
      <4>2. c.state[Upto(p, i)] \notin Completed
        BY <3>1, <4>1 DEF Passed
      <4>3. Upto(p, i) # q
        BY <1>6, <4>1 DEF Completed
      <4>4. QED
        BY <1>6, <4>1, <4>2, <4>3
    <3>3. p \in Choice /\ i \in 0 .. Len(p)
      BY <3>1, SessionAsks
    <3>4. IsPrefix(Valued(c, t), p)
      BY <1>1, <3>2, <3>3, AgreesValued
    <3>5. QED
      BY <3>4 DEF Covered, t
  <2>4. QED
    BY <2>2, <2>3
<1>19. Sound(d)
  BY <1>6, <1>7, <1>10, <1>12, <1>13, <1>14, <1>16, <1>17, <1>18 DEF Sound
<1>20. Held(d)
  <2>1. t \in Children(d, q)
    BY <1>4, <1>5, <1>6 DEF Children, q
  <2>2. QED
    BY <1>6, <2>1 DEF Held
<1>21. QED
  BY <1>19, <1>20 DEF d, t

-----------------------------------------------------------------------------
(***************************************************************************)
(* The function asks for a tracker below the current one, which is opened, *)
(* or left as it is.                                                       *)
(***************************************************************************)
Opens(c, d, t) ==
  /\ d.current = t /\ d.state[t] = "Executing"
  /\ t \in DOMAIN c.state => c.state[t] \notin Completed
  /\ \A u \in DOMAIN c.state : u # t =>
       d.state[u] = c.state[u] \/ (IsStrictPrefix(u, t) /\ d.state[u] = "ExecutingChildren")
  /\ \A k \in 1 .. Len(t) - 1 : d.state[SubSeq(t, 1, k)] = "ExecutingChildren"

Leaves(c, d, t) ==
  /\ d.current = c.current /\ c.current # Root
  /\ \A u \in DOMAIN c.state : d.state[u] = c.state[u]
  /\ t \notin DOMAIN c.state => d.state[t] = "NotStarted" /\ t \notin DOMAIN d.generator

Gets(c, d, t) ==
  /\ Tree(Code, c) /\ Tree(Code, d)
  /\ d.filters = c.filters /\ d.completedCycle = c.completedCycle
  /\ t \in Path /\ t # Root /\ Parent(t) = c.current
  /\ DOMAIN d.state = DOMAIN c.state \cup {t}
  /\ DOMAIN d.generator \subseteq DOMAIN c.generator \cup {t}
  /\ \A u \in DOMAIN c.generator : u \in DOMAIN d.generator /\ d.generator[u] = c.generator[u]
  /\ \A u \in DOMAIN c.state : u \in DOMAIN d.generator => u \in DOMAIN c.generator
  /\ t \in DOMAIN d.generator /\ t \notin DOMAIN c.generator =>
       d.generator[t] = [at |-> 1, size |-> session.values]
  /\ Opens(c, d, t) \/ Leaves(c, d, t)

LEMMA GetsIs ==
  ASSUME NEW c, NEW d, NEW t, Gets(c, d, t)
  PROVE  /\ IsContext(c) /\ IsContext(d) /\ DOMAIN c.state \subseteq Path /\ DOMAIN d.state \subseteq Path
         /\ DOMAIN c.generator \subseteq DOMAIN c.state /\ DOMAIN d.generator \subseteq DOMAIN d.state
         /\ c.current \in Path /\ Len(c.current) \in Nat /\ Len(t) = Len(c.current) + 1
         /\ \A k \in 0 .. Len(c.current) : /\ SubSeq(t, 1, k) = SubSeq(c.current, 1, k)
                                           /\ SubSeq(t, 1, k) \in DOMAIN c.state
         /\ \A k \in 1 .. Len(c.current) : c.state[SubSeq(c.current, 1, k)] \in Busy
         /\ SubSeq(c.current, 1, Len(c.current)) = c.current
         /\ \A u \in DOMAIN c.state : Value(d, u) = Value(c, u)
         /\ \A u \in Path : IsPrefix(u, c.current) <=> IsStrictPrefix(u, t)
<1>1. /\ IsContext(c) /\ IsContext(d) /\ DOMAIN c.state \subseteq Path /\ DOMAIN d.state \subseteq Path
      /\ DOMAIN c.generator \subseteq DOMAIN c.state /\ DOMAIN d.generator \subseteq DOMAIN d.state
      /\ c.current \in Path /\ Len(c.current) \in Nat
      /\ \A k \in 0 .. Len(c.current) : SubSeq(c.current, 1, k) \in DOMAIN c.state
      /\ \A k \in 1 .. Len(c.current) : c.state[SubSeq(c.current, 1, k)] \in Busy
  BY DEF Gets, Tree, Ordered, IsContext, Path
<1>2. /\ t \in Path /\ Len(t) \in Nat /\ Len(c.current) = Len(t) - 1
      /\ \A k \in 0 .. Len(t) - 1 : SubSeq(c.current, 1, k) = SubSeq(t, 1, k)
  BY ParentIs DEF Gets
<1>3. SubSeq(c.current, 1, Len(c.current)) = c.current
  <2>1. Len(c.current) \in 0 .. Len(c.current)
    BY <1>1
  <2>2. QED
    BY <1>1, <2>1, PathParts
<1>4. \A u \in DOMAIN c.state : Value(d, u) = Value(c, u)
  BY DEF Gets, Value, isGeneratorTracker
<1>5. \A u \in Path : IsPrefix(u, c.current) <=> IsStrictPrefix(u, t)
  BY AroundParent DEF Gets
<1>6. Len(t) = Len(c.current) + 1 /\ \A k \in 0 .. Len(c.current) : SubSeq(t, 1, k) = SubSeq(c.current, 1, k)
  BY <1>1, <1>2
<1>7. \A k \in 0 .. Len(c.current) : SubSeq(t, 1, k) = SubSeq(c.current, 1, k) /\ SubSeq(t, 1, k) \in DOMAIN c.state
  BY <1>1, <1>6
<1>8. QED
  BY <1>1, <1>3, <1>4, <1>5, <1>6, <1>7

LEMMA GetsAgrees ==
  ASSUME NEW c, NEW d, NEW t, Gets(c, d, t), NEW p \in Choice, NEW k \in 0 .. Len(p),
         Upto(p, k) \in DOMAIN c.state
  PROVE  Agrees(d, p, k) <=> Agrees(c, p, k)
<1>1. ASSUME NEW j \in 1 .. k
      PROVE  Value(d, Upto(p, j)) = Value(c, Upto(p, j))
  <2>1. Len(p) \in Nat /\ k \in Nat /\ j \in 0 .. k
    BY ChoiceIs
  <2>2. Len(Upto(p, k)) = k /\ SubSeq(Upto(p, k), 1, j) = Upto(p, j)
    BY <2>1, ChoiceIs
  <2>3. Upto(p, j) \in DOMAIN c.state
    BY <2>1, <2>2 DEF Gets, Tree
  <2>4. QED
    BY <2>3, GetsIs
<1>2. QED
  BY <1>1 DEF Agrees

LEMMA GetsValues ==
  ASSUME NEW c, NEW d, NEW t, Gets(c, d, t), Values(c), session.values \in Nat, session.values > 0
  PROVE  Values(d)
<1>1. /\ DOMAIN c.generator \subseteq DOMAIN c.state /\ DOMAIN d.generator \subseteq DOMAIN d.state
      /\ DOMAIN c.state \subseteq Path
  BY GetsIs
<1>2. SUFFICES ASSUME NEW g \in DOMAIN d.generator
      PROVE  /\ g \in DOMAIN d.state /\ d.state[g] \notin {"NotStarted", "Failed"}
             /\ d.generator[g].size = session.values
             /\ d.generator[g].at \in 1 .. session.values + 1
             /\ d.state[g] = "CompletedSuccessfully" <=> d.generator[g].at = session.values + 1
  BY DEF Values
<1>3. CASE g \notin DOMAIN c.generator
  <2>1. g = t /\ d.generator[t] = [at |-> 1, size |-> session.values] /\ t \notin DOMAIN c.state
    BY <1>1, <1>3 DEF Gets
  <2>2. d.state[t] = "Executing"
    BY <2>1 DEF Gets, Opens, Leaves
  <2>3. QED
    BY <1>1, <2>1, <2>2
<1>4. CASE g \in DOMAIN c.generator
  <2>1. /\ g \in DOMAIN c.state /\ c.state[g] \notin {"NotStarted", "Failed"}
        /\ d.generator[g] = c.generator[g]
        /\ c.generator[g].size = session.values
        /\ c.generator[g].at \in 1 .. session.values + 1
        /\ c.state[g] = "CompletedSuccessfully" <=> c.generator[g].at = session.values + 1
    BY <1>4 DEF Gets, Values
  <2>2. d.state[g] = c.state[g] \/ (c.state[g] \notin Completed /\ d.state[g] \in {"Executing", "ExecutingChildren"})
    <3>1. CASE Leaves(c, d, t)
      BY <2>1, <3>1 DEF Leaves
    <3>2. CASE Opens(c, d, t) /\ g = t
      BY <2>1, <3>2 DEF Opens
    <3>3. CASE Opens(c, d, t) /\ g # t /\ d.state[g] # c.state[g]
      <4>1. IsStrictPrefix(g, t) /\ d.state[g] = "ExecutingChildren" /\ g \in Path
        BY <1>1, <2>1, <3>3 DEF Opens
      <4>2. IsPrefix(g, c.current)
        BY <4>1, GetsIs
      <4>3. /\ c.current \in Path /\ Len(c.current) \in Nat
            /\ \A k \in 1 .. Len(c.current) : c.state[SubSeq(c.current, 1, k)] \in Busy
        BY GetsIs
      <4>4. Len(g) <= Len(c.current) /\ SubSeq(c.current, 1, Len(g)) = g
        BY <4>1, <4>2, <4>3, PrefixIs
      <4>5. Len(g) >= 2
        <5>1. Placed(Code, c, g)
          BY <2>1 DEF Gets, Tree
        <5>2. Len(g) \in Nat
          BY <4>1 DEF Path
        <5>3. QED
          BY <1>4, <5>1, <5>2 DEF Placed
      <4>6. Len(g) \in 1 .. Len(c.current)
        <5>1. Len(g) \in Nat
          BY <4>1 DEF Path
        <5>2. QED
          BY <4>3, <4>4, <4>5, <5>1
      <4>7. c.state[g] \in Busy
        BY <4>3, <4>4, <4>6
      <4>8. QED
        BY <4>1, <4>7 DEF Busy, Completed
    <3>4. QED
      BY <3>1, <3>2, <3>3 DEF Gets
  <2>3. QED
    BY <1>1, <2>1, <2>2 DEF Completed
<1>5. QED
  BY <1>3, <1>4

LEMMA GetsStartsFirst ==
  ASSUME NEW c, NEW d, NEW t, Gets(c, d, t), StartsFirst(c)
  PROVE  StartsFirst(d)
<1>1. \A u \in DOMAIN c.state : c.state[u] # "NotStarted" => d.state[u] # "NotStarted"
  BY DEF Gets, Opens, Leaves
<1>2. ASSUME NEW u \in DOMAIN d.state, Len(u) >= 2
      PROVE  d.state[Parent(u)] # "NotStarted"
  <2>1. CASE u \in DOMAIN c.state
    <3>1. c.state[Parent(u)] # "NotStarted"
      BY <1>2, <2>1 DEF StartsFirst
    <3>2. Parent(u) \in DOMAIN c.state
      <4>1. u \in Path
        BY <2>1, GetsIs
      <4>2. Len(u) \in Nat /\ \A k \in 0 .. Len(u) : SubSeq(u, 1, k) \in DOMAIN c.state
        BY <2>1, <4>1 DEF Gets, Tree, Path
      <4>3. u # Root
        BY <1>2, <4>1, <4>2, RootIs
      <4>4. Parent(u) = SubSeq(u, 1, Len(u) - 1) /\ Len(u) - 1 \in 0 .. Len(u)
        BY <1>2, <4>1, <4>2, <4>3, ParentIs
      <4>5. QED
        BY <4>2, <4>4
    <3>3. QED
      BY <1>1, <3>1, <3>2
  <2>2. CASE u \notin DOMAIN c.state
    <3>1. u = t /\ Parent(u) = c.current
      BY <2>2 DEF Gets
    <3>2. /\ Len(c.current) \in Nat /\ Len(t) = Len(c.current) + 1
          /\ \A k \in 0 .. Len(c.current) : SubSeq(t, 1, k) \in DOMAIN c.state
          /\ \A k \in 1 .. Len(c.current) : c.state[SubSeq(c.current, 1, k)] \in Busy
          /\ SubSeq(c.current, 1, Len(c.current)) = c.current
          /\ \A k \in 0 .. Len(c.current) : SubSeq(t, 1, k) = SubSeq(c.current, 1, k)
      BY GetsIs
    <3>3. Len(c.current) \in 1 .. Len(c.current) /\ Len(c.current) \in 0 .. Len(c.current)
      BY <1>2, <3>1, <3>2
    <3>4. c.current \in DOMAIN c.state /\ c.state[c.current] # "NotStarted"
      BY <3>2, <3>3 DEF Busy
    <3>5. QED
      BY <1>1, <3>1, <3>4
  <2>3. QED
    BY <2>1, <2>2
<1>3. QED
  BY <1>2 DEF StartsFirst

LEMMA GetsLeaves ==
  ASSUME NEW c, NEW d, NEW t, Gets(c, d, t), IsCode(Code), LeavesRun(Code, c)
  PROVE  LeavesRun(Code, d)
<1>1. SUFFICES ASSUME NEW u \in DOMAIN d.state, LeafSection(Code, u)
      PROVE  /\ d.state[u] \in {"NotStarted", "Executing", "CompletedSuccessfully", "Failed"}
             /\ d.state[u] = "Executing" => IsPrefix(u, d.current)
  BY DEF LeavesRun
<1>2. u \in Path /\ t \in Path /\ t \in DOMAIN d.state /\ Tree(Code, d)
  BY GetsIs DEF Gets
<1>3. u \in DOMAIN c.state =>
        /\ c.state[u] \in {"NotStarted", "Executing", "CompletedSuccessfully", "Failed"}
        /\ c.state[u] = "Executing" => IsPrefix(u, c.current)
  BY <1>1 DEF LeavesRun
<1>4. ~ IsStrictPrefix(u, t)
  BY <1>1, <1>2, LeafIsLast
<1>5. IsPrefix(t, t)
  <2>1. Len(t) \in 0 .. Len(t)
    BY <1>2 DEF Path
  <2>2. QED
    BY <1>2, <2>1, PathParts, PrefixIs
<1>6. ~ IsPrefix(u, c.current)
  BY <1>2, <1>4, GetsIs
<1>7. CASE Opens(c, d, t)
  BY <1>3, <1>4, <1>5, <1>6, <1>7 DEF Opens, Gets
<1>8. CASE Leaves(c, d, t)
  BY <1>3, <1>6, <1>8 DEF Leaves, Gets
<1>9. QED
  BY <1>7, <1>8 DEF Gets

LEMMA GetsAround ==
  ASSUME NEW c, NEW d, NEW t, Gets(c, d, t), AroundWaits(c)
  PROVE  AroundWaits(d)
<1>1. CASE Opens(c, d, t)
  BY <1>1 DEF Opens, AroundWaits
<1>2. CASE Leaves(c, d, t)
  <2>1. ASSUME NEW k \in 1 .. Len(c.current) - 1
        PROVE  d.state[SubSeq(c.current, 1, k)] = "ExecutingChildren"
    <3>1. k \in 0 .. Len(c.current)
      BY GetsIs
    <3>2. SubSeq(c.current, 1, k) \in DOMAIN c.state
      BY <3>1, GetsIs
    <3>3. QED
      BY <1>2, <3>2 DEF Leaves, AroundWaits
  <2>2. QED
    BY <1>2, <2>1 DEF Leaves, AroundWaits
<1>3. QED
  BY <1>1, <1>2 DEF Gets

LEMMA GetsRan ==
  ASSUME NEW c, NEW d, NEW t, Gets(c, d, t)
  PROVE  \A k \in 0 .. Len(c.current) :
           Valued(d, SubSeq(c.current, 1, k)) = Valued(c, SubSeq(c.current, 1, k))
<1>1. ASSUME NEW k \in 0 .. Len(c.current)
      PROVE  Valued(d, SubSeq(c.current, 1, k)) = Valued(c, SubSeq(c.current, 1, k))
  <2> DEFINE u == SubSeq(c.current, 1, k)
  <2>1. u \in DOMAIN c.state
    BY GetsIs
  <2> HIDE DEF u
  <2>2. \A i \in 1 .. Len(u) : Value(d, SubSeq(u, 1, i)) = Value(c, SubSeq(u, 1, i))
    <3>1. u \in Path /\ Len(u) \in Nat
      BY <2>1, GetsIs DEF Path
    <3>2. \A i \in 1 .. Len(u) : i \in 0 .. Len(u)
      BY <3>1
    <3>3. \A i \in 1 .. Len(u) : SubSeq(u, 1, i) \in DOMAIN c.state
      BY <2>1, <3>2 DEF Gets, Tree
    <3>4. QED
      BY <3>3, GetsIs
  <2>3. QED
    BY <2>2, ValuedSame DEF u
<1>2. QED
  BY <1>1

LEMMA GetsBegun ==
  ASSUME NEW c, NEW d, NEW t, Gets(c, d, t), NEW p \in Choice, Begun(c, p)
  PROVE  Begun(d, p)
<1>1. Len(p) \in Nat /\ PathOf(p) = Upto(p, Len(p)) /\ Len(p) \in 0 .. Len(p)
  BY ChoiceIs
<1>2. ASSUME NEW i \in 1 .. Len(p), Moved(c, p, i)
      PROVE  Moved(d, p, i)
  <2>1. Upto(p, i) \in DOMAIN c.generator /\ Upto(p, i) \in DOMAIN c.state
    BY <1>2, GetsIs DEF Moved
  <2>2. i \in 0 .. Len(p) /\ i - 1 \in 0 .. Len(p) /\ i - 1 \in 0 .. i
    BY <1>1
  <2>3. Upto(p, i - 1) \in DOMAIN c.state
    <3>1. Len(Upto(p, i)) = i /\ SubSeq(Upto(p, i), 1, i - 1) = Upto(p, i - 1)
      BY <2>2, ChoiceIs
    <3>2. QED
      BY <2>1, <2>2, <3>1 DEF Gets, Tree
  <2>4. Agrees(d, p, i - 1)
    BY <1>2, <2>2, <2>3, GetsAgrees DEF Moved
  <2>5. QED
    BY <1>2, <2>1, <2>4 DEF Moved, Gets
<1>3. ASSUME Started(c, PathOf(p)), Agrees(c, p, Len(p))
      PROVE  Started(d, PathOf(p)) /\ Agrees(d, p, Len(p))
  <2>1. PathOf(p) \in DOMAIN c.state /\ c.state[PathOf(p)] # "NotStarted"
    BY <1>3 DEF Started
  <2>2. Agrees(d, p, Len(p))
    BY <1>1, <1>3, <2>1, GetsAgrees
  <2>3. Started(d, PathOf(p))
    BY <2>1 DEF Started, Gets, Opens, Leaves
  <2>4. QED
    BY <2>2, <2>3
<1>4. QED
  BY <1>2, <1>3 DEF Begun

LEMMA GetsBehind ==
  ASSUME session \in Sessions, IsCode(Code), NEW c, NEW d, NEW t, Gets(c, d, t),
         NEW p \in ToRun(Code), Behind(d, p)
  PROVE  Behind(c, p)
<1>1. p \in Choice /\ Len(p) \in Nat
  BY SessionAsks
<1>2. PICK i \in 1 .. Len(p) : Moved(d, p, i) \/ Passed(d, p, i)
  BY DEF Behind
<1> DEFINE u == Upto(p, i)
<1>3. i \in 0 .. Len(p) /\ i - 1 \in 0 .. Len(p) /\ i - 1 \in 0 .. i /\ i \in 1 .. i /\ i \in Nat
  BY <1>1
<1>4. u \in Path /\ Len(u) = i /\ SubSeq(u, 1, i - 1) = Upto(p, i - 1) /\ u[i] = p[i][1]
  BY <1>1, <1>3, ChoiceIs
<1>5. u \in DOMAIN c.state => Upto(p, i - 1) \in DOMAIN c.state
  <2>1. \A v \in DOMAIN c.state : \A k \in 0 .. Len(v) : SubSeq(v, 1, k) \in DOMAIN c.state
    BY DEF Gets, Tree
  <2> HIDE DEF u
  <2>2. QED
    BY <1>3, <1>4, <2>1
<1>6. CASE Moved(d, p, i)
  <2>1. u \in DOMAIN d.generator /\ d.generator[u].at > p[i][2] /\ Agrees(d, p, i - 1)
    BY <1>6 DEF Moved
  <2>2. CASE u \in DOMAIN c.generator
    <3>1. u \in DOMAIN c.state /\ d.generator[u] = c.generator[u]
      BY <2>2, GetsIs DEF Gets
    <3>2. Agrees(c, p, i - 1)
      BY <1>1, <1>3, <1>5, <2>1, <3>1, GetsAgrees
    <3>3. Moved(c, p, i)
      BY <2>1, <2>2, <3>1, <3>2 DEF Moved
    <3>4. QED
      BY <3>3 DEF Behind
  <2>3. CASE u \notin DOMAIN c.generator
    <3>1. u = t /\ d.generator[u].at = 1 /\ u \in DOMAIN d.state
      BY <2>1, <2>3, GetsIs DEF Gets
    <3>2. Placed(Code, d, u)
      BY <3>1 DEF Gets, Tree
    <3>3. i >= 2 /\ Code[p[i][1]] = "generate"
      <4>1. ~ (Len(u) < 2)
        BY <2>1, <3>2 DEF Placed
      <4>2. i >= 2
        BY <1>3, <1>4, <4>1
      <4> HIDE DEF u
      <4>3. QED
        BY <1>4, <2>1, <3>2, <4>2 DEF Placed
    <3>4. i \in 2 .. Len(p)
      BY <1>3, <3>3
    <3>5. p[i][2] \in Nat /\ p[i][2] # 0
      BY <3>3, <3>4, SessionAsks
    <3>6. QED
      BY <2>1, <3>1, <3>5
  <2>4. QED
    BY <2>2, <2>3
<1>7. CASE Passed(d, p, i)
  <2>1. u \in DOMAIN d.state \ DOMAIN d.generator /\ d.state[u] \in Completed /\ Agrees(d, p, i)
    BY <1>7 DEF Passed
  <2>2. u \in DOMAIN c.state /\ c.state[u] = d.state[u] /\ u \notin DOMAIN c.generator
    <3>1. CASE Opens(c, d, t)
      BY <2>1, <3>1 DEF Opens, Gets, Completed
    <3>2. CASE Leaves(c, d, t)
      BY <2>1, <3>2 DEF Leaves, Gets, Completed
    <3>3. QED
      BY <3>1, <3>2 DEF Gets
  <2>3. Agrees(c, p, i)
    BY <1>1, <1>3, <2>1, <2>2, GetsAgrees
  <2>4. Passed(c, p, i)
    BY <2>1, <2>2, <2>3 DEF Passed
  <2>5. QED
    BY <2>4 DEF Behind
<1>8. QED
  BY <1>2, <1>6, <1>7

(* What an added tracker has for a generator.                              *)
GainsGenerator(c, a, t) ==
  /\ Gains(c, a, t)
  /\ \A u \in DOMAIN c.generator : a.generator[u] = c.generator[u]
  /\ t \in DOMAIN a.generator /\ t \notin DOMAIN c.generator =>
       a.generator[t] = [at |-> 1, size |-> session.values]

LEMMA AddsGenerator ==
  ASSUME NEW c, IsContext(c), DOMAIN c.generator \subseteq DOMAIN c.state, NEW t \in Path, session.values \in Nat
  PROVE  /\ GainsGenerator(c, Added(c, t), t)
         /\ GainsGenerator(c, AddedGenerator(c, t, session.values), t)
<1>1. GainsGenerator(c, Added(c, t), t)
  BY AddedIs DEF GainsGenerator
<1> DEFINE d == AddedGenerator(c, t, session.values)
<1>2. Gains(c, d, t)
  BY AddedGeneratorIs
<1>3. CASE t \in DOMAIN c.state
  BY <1>1, <1>2, <1>3 DEF AddedGenerator, GainsGenerator
<1>4. CASE t \notin DOMAIN c.state
  <2>1. Added(c, t).generator = c.generator /\ IsContext(Added(c, t))
    BY AddedIs DEF Gains
  <2>2. d.generator = With(c.generator, t, [at |-> 1, size |-> session.values])
    BY <1>4, <2>1 DEF AddedGenerator, IsContext
  <2> HIDE DEF d
  <2>3. t \notin DOMAIN c.generator
    BY <1>4
  <2>4. /\ d.generator[t] = [at |-> 1, size |-> session.values]
        /\ \A u \in DOMAIN c.generator : d.generator[u] = c.generator[u]
    BY <2>2, <2>3 DEF With
  <2>5. QED
    BY <1>1, <1>2, <2>4 DEF GainsGenerator, d
<1>5. QED
  BY <1>1, <1>3, <1>4

(* All around a tracker that is opened executes its children.              *)
LEMMA OpenAround ==
  ASSUME NEW c, Tree(Code, c), AroundWaits(c), NEW t \in Path, t # Root, Parent(t) = c.current,
         NEW a, Gains(c, a, t), NEW k \in 1 .. Len(t) - 1
  PROVE  open(a, t).state[SubSeq(t, 1, k)] = "ExecutingChildren"
<1> DEFINE d == open(a, t)
           v == SubSeq(t, 1, k)
           n == Len(t) - 1
<1>1. /\ Len(t) \in Nat /\ Len(t) > 0 /\ c.current \in Path /\ Len(c.current) = n
      /\ \A i \in 0 .. Len(t) - 1 : SubSeq(c.current, 1, i) = SubSeq(t, 1, i)
  BY ParentIs
<1>2. k \in 0 .. n /\ k \in 1 .. n /\ k \in 0 .. Len(t) /\ k < Len(t) /\ n \in Nat /\ k \in Nat
  BY <1>1
<1>3. v \in Path /\ Len(v) = k /\ v = SubSeq(c.current, 1, k) /\ v # t /\ IsPrefix(v, t)
  <2>1. v \in Path /\ Len(v) = k
    BY <1>2, PathParts
  <2>2. v = SubSeq(c.current, 1, k)
    BY <1>1, <1>2
  <2>3. IsPrefix(v, t)
    BY <1>2, PrefixOf
  <2> HIDE DEF v
  <2>4. QED
    BY <1>2, <2>1, <2>2, <2>3
<1>4. v \in DOMAIN c.state /\ c.state[v] = a.state[v] /\ v \in DOMAIN a.state
  <2>1. v \in DOMAIN c.state
    BY <1>1, <1>2, <1>3 DEF Tree, Ordered
  <2>2. QED
    BY <2>1 DEF Gains
<1>5. /\ IsContext(a) /\ t \in DOMAIN a.state /\ DOMAIN a.state \subseteq Path
  BY DEF Gains, IsContext
<1>6. CASE a.state[v] = "ExecutingChildren"
  <2>1. v \in DOMAIN a.state /\ v # t
    BY <1>3, <1>4
  <2>2. \A u \in DOMAIN a.state : u # t /\ d.state[u] # a.state[u] => d.state[u] = "ExecutingChildren"
    BY <1>5, OpenIs
  <2> HIDE DEF d, v
  <2>3. d.state[v] = "ExecutingChildren"
    BY <1>6, <2>1, <2>2
  <2>4. QED
    BY <2>3 DEF d, v
<1>7. CASE a.state[v] # "ExecutingChildren"
  <2>1. k = n
    <3>1. k # n => k \in 1 .. Len(c.current) - 1
      BY <1>1, <1>2
    <3>2. QED
      BY <1>3, <1>4, <1>7, <3>1 DEF AroundWaits
  <2>2. ASSUME NEW w \in DOMAIN a.state, IsStrictPrefix(w, t), IsPrefix(v, w) PROVE w = v
    <3>1. w \in Path /\ IsPrefix(w, t) /\ w # t
      BY <1>5, <2>2 DEF IsStrictPrefix
    <3>2. Len(w) \in Nat
      BY <3>1 DEF Path
    <3>3. Len(w) <= Len(t) /\ SubSeq(t, 1, Len(w)) = w
      BY <3>1, PrefixIs
    <3>4. Len(v) <= Len(w)
      BY <1>3, <2>2, <3>1, PrefixIs
    <3>5. Len(w) # Len(t)
      BY <3>1, <3>3, PathParts, <1>1
    <3> HIDE DEF v, n
    <3>6. Len(w) = k
      <4>1. n = Len(t) - 1
        BY DEF n
      <4>2. Len(v) = k /\ Len(t) \in Nat /\ k \in Nat
        BY <1>1, <1>2, <1>3
      <4>3. Len(w) <= Len(t) /\ k <= Len(w) /\ Len(w) # Len(t) /\ k = Len(t) - 1
        BY <2>1, <3>3, <3>4, <3>5, <4>1, <4>2
      <4>4. QED
        BY <3>2, <4>2, <4>3
    <3>7. QED
      BY <3>3, <3>6 DEF v
  <2>3. IsStrictPrefix(v, t)
    BY <1>3 DEF IsStrictPrefix
  <2> HIDE DEF v
  <2>4. d.state = [u \in DOMAIN a.state |->
                  CASE u = t -> "Executing"
                    [] IsStrictPrefix(u, t) /\ (\A w \in DOMAIN a.state :
                           IsStrictPrefix(w, t) /\ IsPrefix(u, w) => a.state[w] # "ExecutingChildren") -> "ExecutingChildren"
                    [] OTHER -> a.state[u]]
    BY <1>5 DEF open, IsContext
  <2> HIDE DEF d
  <2>5. \A w \in DOMAIN a.state :
          IsStrictPrefix(w, t) /\ IsPrefix(v, w) => a.state[w] # "ExecutingChildren"
    BY <1>7, <2>2
  <2>6. d.state[v] = CASE v = t -> "Executing"
                    [] IsStrictPrefix(v, t) /\ (\A w \in DOMAIN a.state :
                           IsStrictPrefix(w, t) /\ IsPrefix(v, w) => a.state[w] # "ExecutingChildren") -> "ExecutingChildren"
                    [] OTHER -> a.state[v]
    BY <1>4, <2>4
  <2>7. QED
    BY <1>3, <2>3, <2>5, <2>6 DEF d, v
<1>8. QED
  BY <1>6, <1>7

LEMMA OpenGets ==
  ASSUME NEW c, Tree(Code, c), AroundWaits(c), NEW t \in Path, t # Root, Parent(t) = c.current,
         NEW a, GainsGenerator(c, a, t), ~ isComplete(a, t),
         NEW d, d = open(a, t), Tree(Code, d)
  PROVE  Gets(c, d, t) /\ Opens(c, d, t)
<1>1. Gains(c, a, t)
  BY DEF GainsGenerator
<1>2. IsContext(a) /\ t \in DOMAIN a.state
  BY <1>1 DEF Gains
<1>3. /\ DOMAIN d.state = DOMAIN a.state /\ d.state[t] = "Executing" /\ d.generator = a.generator
      /\ d.filters = a.filters /\ d.current = t /\ d.completedCycle = a.completedCycle
      /\ \A u \in DOMAIN a.state : u # t /\ d.state[u] # a.state[u] =>
           IsStrictPrefix(u, t) /\ d.state[u] = "ExecutingChildren"
  BY <1>2, OpenIs
<1>4. Opens(c, d, t)
  <2>1. t \in DOMAIN c.state => c.state[t] \notin Completed
    BY <1>1 DEF Gains, isComplete, Completed
  <2>2. \A u \in DOMAIN c.state : u # t =>
          d.state[u] = c.state[u] \/ (IsStrictPrefix(u, t) /\ d.state[u] = "ExecutingChildren")
    BY <1>1, <1>3 DEF Gains
  <2>3. \A k \in 1 .. Len(t) - 1 : d.state[SubSeq(t, 1, k)] = "ExecutingChildren"
    BY <1>1, OpenAround
  <2>4. QED
    BY <1>3, <2>1, <2>2, <2>3 DEF Opens
<1>5. DOMAIN c.generator \subseteq DOMAIN c.state
  BY DEF Tree
<1>6. QED
  BY <1>1, <1>3, <1>4, <1>5 DEF Gets, Gains, GainsGenerator

LEMMA LeaveGets ==
  ASSUME NEW c, Tree(Code, c), c.current # Root, NEW t \in Path, t # Root, Parent(t) = c.current,
         NEW d, GainsGenerator(c, d, t), Tree(Code, d), t \notin DOMAIN c.state => t \notin DOMAIN d.generator
  PROVE  Gets(c, d, t) /\ Leaves(c, d, t)
<1>1. Gains(c, d, t)
  BY DEF GainsGenerator
<1>2. DOMAIN c.generator \subseteq DOMAIN c.state
  BY DEF Tree
<1>3. Leaves(c, d, t)
  BY <1>1 DEF Gains, Leaves
<1>4. QED
  BY <1>1, <1>2, <1>3 DEF Gets, Gains, GainsGenerator

(* What a section asks for: it is entered when it has been opened, unless  *)
(* the cycle is complete, or its tracker.                                  *)
LEMMA SectionGets ==
  ASSUME IsCode(Code), session.values \in Nat, NEW c, NEW act \in Seq(Scoped), NEW x \in 1 .. Len(Code),
         InFunction(Code, c, act, x), Code[x] = "section", AroundWaits(c),
         NEW d, d = acquireSection(c, x), NEW t, t = Append(c.current, x)
  PROVE  /\ Gets(c, d, t) /\ t \notin DOMAIN d.generator
         /\ isOpen(d, t) => Opens(c, d, t) /\ ~ c.completedCycle
         /\ ~ isOpen(d, t) => Leaves(c, d, t) /\ (~ c.completedCycle => isComplete(d, t))
<1>1. PICK a :
        /\ a = Added(c, t)
        /\ Gains(c, a, t) /\ Tree(Code, a) /\ t \in DOMAIN a.state /\ t \notin DOMAIN a.generator
        /\ d = IF ~ c.completedCycle /\ ~ isComplete(a, t) THEN open(a, t) ELSE a
  <2>1. \E v, a :
           /\ v = Append(c.current, x) /\ a = Added(c, v)
           /\ Gains(c, a, v) /\ Tree(Code, a) /\ v \in DOMAIN a.state /\ v \notin DOMAIN a.generator
           /\ acquireSection(c, x) =
                IF ~ c.completedCycle /\ ~ isComplete(a, v) THEN open(a, v) ELSE a
    BY SectionAdded
  <2>2. QED
    BY <2>1
<1>2. /\ Tree(Code, c) /\ c.current # Root /\ IsContext(c) /\ DOMAIN c.generator \subseteq DOMAIN c.state
      /\ c.current \in Path /\ x \in Nat
  BY AsksFor DEF InFunction
<1>3. t \in Path /\ t # Root /\ Parent(t) = c.current
  BY <1>2, PathGrows
<1>4. GainsGenerator(c, a, t)
  BY <1>1, <1>2, <1>3, AddsGenerator
<1>5. Tree(Code, d)
  <2>1. CASE isOpen(d, t)
    <3>1. PICK s \in Scoped : s.tracker = t
      <4>1. [tracker |-> t, prevAssertions |-> Zero] \in Scoped
        BY <1>3 DEF Scoped, Zero, Counts
      <4>2. QED
        BY <4>1
    <3>2. InFunction(Code, d, Append(act, s), x + 1)
      BY <2>1, <3>1, EntersSection
    <3>3. QED
      BY <3>2 DEF InFunction
  <2>2. CASE ~ isOpen(d, t)
    <3>1. InFunction(Code, d, act, EndOf(Code, x) + 1)
      BY <2>2, PassesSection
    <3>2. QED
      BY <3>1 DEF InFunction
  <2>3. QED
    BY <2>1, <2>2
<1>6. CASE ~ c.completedCycle /\ ~ isComplete(a, t)
  <2>1. d = open(a, t)
    BY <1>1, <1>6
  <2>2. Gets(c, d, t) /\ Opens(c, d, t)
    BY <1>2, <1>3, <1>4, <1>5, <1>6, <2>1, OpenGets
  <2>3. d.generator = a.generator
    <3>1. IsContext(a) /\ t \in DOMAIN a.state
      BY <1>1 DEF Gains
    <3>2. QED
      BY <2>1, <3>1, OpenIs
  <2>4. isOpen(d, t)
    <3>1. t \in DOMAIN d.state /\ d.state[t] = "Executing"
      BY <2>2 DEF Gets, Opens
    <3>2. ~ isComplete(d, t)
      BY <1>5, <3>1 DEF Tree, IsBusy, Busy
    <3>3. QED
      BY <3>1, <3>2 DEF isOpen
  <2>5. QED
    BY <1>1, <1>6, <2>2, <2>3, <2>4
<1>7. CASE c.completedCycle \/ isComplete(a, t)
  <2>1. d = a
    BY <1>1, <1>7
  <2>2. Gets(c, d, t) /\ Leaves(c, d, t)
    BY <1>1, <1>2, <1>3, <1>4, <1>5, <2>1, LeaveGets
  <2>3. ~ isOpen(d, t)
    BY <1>1, <1>7, EntersOpened
  <2>4. QED
    BY <1>1, <1>7, <2>1, <2>2, <2>3
<1>8. QED
  BY <1>6, <1>7

(* What a GENERATE asks for: it is opened, or it is complete and stays so. *)
LEMMA GeneratorGets ==
  ASSUME IsCode(Code), session.values \in Nat, NEW c, NEW act, NEW x \in 1 .. Len(Code),
         InFunction(Code, c, act, x), Code[x] = "generate", AroundWaits(c),
         NEW d, d = acquireGenerator(c, x, session.values), NEW t, t = Append(c.current, x)
  PROVE  /\ Gets(c, d, t) /\ t \in DOMAIN d.generator /\ GeneratorAt(c, x) = t
         /\ \/ Opens(c, d, t)
            \/ Leaves(c, d, t) /\ t \in DOMAIN c.state /\ isComplete(c, t) /\ d = c
<1>1. PICK a : a = AddedGenerator(c, t, session.values)
  OBVIOUS
<1>2. /\ Tree(Code, c) /\ c.current # Root /\ IsContext(c) /\ DOMAIN c.generator \subseteq DOMAIN c.state
      /\ c.current \in Path /\ x \in Nat
      /\ t \in DOMAIN c.state => t \in DOMAIN c.generator
  BY AsksFor DEF InFunction
<1>3. t \in Path /\ t # Root /\ Parent(t) = c.current
  BY <1>2, PathGrows
<1>4. GainsGenerator(c, a, t)
  BY <1>1, <1>2, <1>3, AddsGenerator
<1>5. Tree(Code, d) /\ GeneratorAt(c, x) = t
  <2>1. InFunction(Code, d, act, x + 1) /\ GeneratorAt(c, x) = t
    BY Generates
  <2>2. QED
    BY <2>1 DEF InFunction
<1>6. t \in DOMAIN a.generator /\ t \in DOMAIN a.state /\ IsContext(a)
  <2>1. t \notin DOMAIN c.state => t \in DOMAIN a.generator
    BY <1>1, <1>2, <1>3, AddedGeneratorIs
  <2>2. t \in DOMAIN c.state => t \in DOMAIN a.generator
    BY <1>1, <1>2 DEF AddedGenerator
  <2>3. QED
    BY <1>4, <2>1, <2>2 DEF GainsGenerator, Gains
<1>7. d = IF isComplete(a, t) THEN a ELSE open(a, t)
  BY <1>1, <1>5, AcquireIs
<1>8. CASE ~ isComplete(a, t)
  <2>1. d = open(a, t)
    BY <1>7, <1>8
  <2>2. Gets(c, d, t) /\ Opens(c, d, t)
    BY <1>2, <1>3, <1>4, <1>5, <1>8, <2>1, OpenGets
  <2>3. d.generator = a.generator
    BY <1>6, <2>1, OpenIs
  <2>4. QED
    BY <1>5, <1>6, <2>2, <2>3
<1>9. CASE isComplete(a, t)
  <2>1. d = a
    BY <1>7, <1>9
  <2>2. t \in DOMAIN c.state
    <3>1. SUFFICES ASSUME t \notin DOMAIN c.state PROVE FALSE
      OBVIOUS
    <3>2. a.state[t] = "NotStarted"
      BY <1>4, <3>1 DEF GainsGenerator, Gains
    <3>3. ~ FilteredOut(a, t)
      BY <1>6 DEF FilteredOut, isGeneratorTracker
    <3>4. QED
      BY <1>9, <3>2, <3>3 DEF isComplete
  <2>3. a = c
    BY <1>1, <2>2 DEF AddedGenerator
  <2>4. Gets(c, d, t) /\ Leaves(c, d, t)
    BY <1>2, <1>3, <1>4, <1>5, <2>1, <2>2, LeaveGets
  <2>5. QED
    BY <1>5, <1>6, <1>9, <2>1, <2>2, <2>3, <2>4
<1>10. QED
  BY <1>8, <1>9

(* What the beginning of a cycle asks for, with no tracker current: the    *)
(* test case's own.                                                        *)
LEMMA CycleGets ==
  ASSUME IsCode(Code), session.values \in Nat, NEW c, Tree(Code, c),
         TestCase \in DOMAIN c.state => IsBusy(c, TestCase),
         NEW d, d = acquireSection(startCycle(c), Last(TestCase))
  PROVE  /\ Gets(startCycle(c), d, TestCase) /\ TestCase \notin DOMAIN d.generator
         /\ Opens(startCycle(c), d, TestCase)
<1>1. PICK b : b = startCycle(c)
  OBVIOUS
<1>2. PICK a : a = Added(b, TestCase)
  OBVIOUS
<1>3. /\ Tree(Code, b) /\ IsContext(b) /\ b.current = Root
      /\ DOMAIN b.generator \subseteq DOMAIN b.state
  <2>1. Tree(Code, b) /\ IsContext(b) /\ b.current = Root
    BY <1>1, StartsTree
  <2>2. QED
    BY <2>1 DEF Tree
<1>4. /\ TestCase \in Path /\ TestCase # Root /\ Parent(TestCase) = Root /\ Len(TestCase) = 1
  <2>1. PICK r : r = Root
    OBVIOUS
  <2>2. TestCase = Append(r, 0) /\ r \in Path /\ Len(r) = 0 /\ 0 \in Nat
    BY <2>1 DEF TestCase, Root, Path
  <2>3. /\ Append(r, 0) \in Path /\ Len(Append(r, 0)) = Len(r) + 1
        /\ Parent(Append(r, 0)) = r /\ Append(r, 0) # Root
    BY <2>2, PathGrows
  <2>4. QED
    BY <2>1, <2>2, <2>3
<1>5. ~ isComplete(a, TestCase) /\ d = open(a, TestCase) /\ Tree(Code, d)
  <2>1. /\ InFunction(Code, d, <<>>, 1)
        /\ LET e == Added(startCycle(c), TestCase)
            IN  ~ isComplete(e, TestCase) /\ d = open(e, TestCase)
    BY CycleStarts
  <2>2. QED
    BY <1>1, <1>2, <2>1 DEF InFunction
<1>6. GainsGenerator(b, a, TestCase)
  BY <1>2, <1>3, <1>4, AddsGenerator
<1>7. AroundWaits(b)
  <2>1. Len(b.current) = 0
    BY <1>3 DEF Root
  <2>2. QED
    BY <2>1 DEF AroundWaits
<1>8. Gets(b, d, TestCase) /\ Opens(b, d, TestCase)
  BY <1>3, <1>4, <1>5, <1>6, <1>7, OpenGets
<1>9. TestCase \notin DOMAIN d.generator
  <2>1. TestCase \in DOMAIN d.state
    BY <1>8 DEF Gets
  <2>2. Placed(Code, d, TestCase)
    BY <1>5, <2>1 DEF Tree
  <2>3. QED
    BY <1>4, <2>2 DEF Placed
<1>10. QED
  BY <1>1, <1>8, <1>9

-----------------------------------------------------------------------------
(***************************************************************************)
(* What the function comes by, one instruction after the other.            *)
(***************************************************************************)
(* It only asks for a tracker of its own in what is current.               *)
LEMMA NextHere ==
  ASSUME NEW code, IsCode(code), NEW c, NEW act, NEW x \in 1 .. Len(code), InFunction(code, c, act, x),
         NEW k \in 1 .. Len(c.current), NextIn(code, SubSeq(c.current, 1, k), x)
  PROVE  k = Len(c.current)
<1> DEFINE n == Len(c.current)
           p == SubSeq(c.current, 1, k)
<1>1. SUFFICES ASSUME k # n PROVE FALSE
  OBVIOUS
<1>2. Tree(code, c) /\ c.current # Root
  BY DEF InFunction, ActiveAround
<1>3. /\ c.current \in Path /\ n \in Nat /\ n > 0
      /\ \A i \in 1 .. n : c.current[i] \in Nat
      /\ \A i, j \in 1 .. n : i < j => c.current[i] < c.current[j]
      /\ \A i \in 1 .. n - 1 : IsIn(code, SubSeq(c.current, 1, i), c.current[i + 1])
  BY <1>2, CurrentIs
<1>4. c.current[n] < x /\ Scopes(code, x) = SectionsOn(code, c.current)
  BY DEF InFunction, FunctionAt
<1>5. /\ k \in 1 .. n - 1 /\ k + 1 \in 1 .. n /\ k \in 0 .. n /\ k \in 1 .. k /\ k + 1 \in 2 .. n /\ k < k + 1
      /\ n \in 1 .. n /\ (k + 1 # n => k + 1 < n) /\ k + 1 \in Nat
  BY <1>1, <1>3
<1>6. /\ p \in Path /\ Len(p) = k /\ \A i \in 1 .. k : p[i] = c.current[i]
  BY <1>3, <1>5, PathParts, PathAt
<1>7. PICK z : z = c.current[k + 1]
  OBVIOUS
<1>8. /\ IsIn(code, p, z) /\ z \in Nat /\ z < x /\ c.current[k] < z /\ Last(p) = c.current[k]
  <2>1. IsIn(code, p, z)
    BY <1>3, <1>5, <1>7
  <2>2. z <= c.current[n] /\ z \in Nat /\ c.current[n] \in Nat
    BY <1>3, <1>5, <1>7
  <2>3. c.current[k] < z
    BY <1>3, <1>5, <1>7
  <2>4. Last(p) = c.current[k]
    <3> HIDE DEF p
    <3>1. QED
      BY <1>5, <1>6 DEF Last
  <2>5. x \in Nat
    OBVIOUS
  <2> HIDE DEF n, p
  <2>6. QED
    BY <1>4, <2>1, <2>2, <2>3, <2>4, <2>5 DEF n
<1> HIDE DEF p, n
<1>9. SectionsOn(code, p) = SectionsOn(code, c.current)
  BY <1>4 DEF NextIn, IsIn, p
<1>10. code[z] # "section"
  <2>1. SUFFICES ASSUME code[z] = "section" PROVE FALSE
    OBVIOUS
  <2>2. z \in SectionsOn(code, c.current)
    BY <1>5, <1>7, <2>1 DEF SectionsOn, n
  <2>3. PICK i \in 2 .. k : z = p[i]
    BY <1>6, <1>9, <2>2 DEF SectionsOn
  <2>4. i \in 1 .. k /\ i \in 1 .. n /\ i < k + 1
    BY <1>3, <1>5
  <2>5. c.current[i] < c.current[k + 1] /\ c.current[i] \in Nat
    BY <1>3, <1>5, <2>4
  <2>6. QED
    BY <1>6, <1>7, <1>8, <2>3, <2>4, <2>5
<1>11. code[z] = "generate"
  BY <1>8, <1>10 DEF IsIn
<1>12. z \in 1 .. Len(code)
  <2>1. Len(code) \in Nat
    BY SectionsNest
  <2>2. z > 0
    BY <1>3, <1>5, <1>8
  <2>3. QED
    BY <1>8, <2>1, <2>2
<1>13. QED
  BY <1>8, <1>11, <1>12 DEF NextIn, p

(* Into a section or a generator.                                          *)
LEMMA ComesDeeper ==
  ASSUME IsCode(Code), NEW c, NEW act, NEW x \in 1 .. Len(Code), InFunction(Code, c, act, x),
         NEW t, t = Append(c.current, x), NEW d, Gets(c, d, t), Opens(c, d, t), ComesBy(Code, c, x)
  PROVE  ComesBy(Code, d, x + 1)
<1> DEFINE n == Len(c.current)
<1>1. /\ d.current = t /\ t \in Path /\ c.current \in Path /\ n \in Nat /\ Len(t) = n + 1
      /\ \A k \in 0 .. n : SubSeq(t, 1, k) = SubSeq(c.current, 1, k)
  <2>1. /\ c.current \in Path /\ n \in Nat /\ Len(t) = n + 1
        /\ \A k \in 0 .. n : SubSeq(t, 1, k) = SubSeq(c.current, 1, k)
    BY GetsIs
  <2>2. d.current = t /\ t \in Path
    BY DEF Gets, Opens
  <2>3. QED
    BY <2>1, <2>2
<1>2. /\ t[n + 1] = x /\ SubSeq(t, 1, n + 1) = t /\ SubSeq(c.current, 1, n) = c.current
  <2>1. x \in Nat
    OBVIOUS
  <2>2. QED
    BY <1>1, <2>1, GrownPath, GetsIs
<1>3. SUFFICES ASSUME NEW k \in 1 .. n + 1, NEW y \in 1 .. Len(Code), NextIn(Code, SubSeq(t, 1, k), y), y < x + 1
               PROVE  Append(SubSeq(t, 1, k), y) \in DOMAIN d.state
  BY <1>1 DEF ComesBy
<1> HIDE DEF n
<1>4. CASE k = n + 1
  <2>1. Last(t) < y /\ Last(t) = x
    BY <1>1, <1>2, <1>3, <1>4 DEF NextIn, Last
  <2>2. QED
    BY <1>3, <2>1
<1>5. CASE k # n + 1
  <2>1. k \in 1 .. n /\ k \in 0 .. n
    BY <1>1, <1>5
  <2>2. SubSeq(t, 1, k) = SubSeq(c.current, 1, k)
    BY <1>1, <2>1
  <2>3. CASE y < x
    <3>1. Append(SubSeq(c.current, 1, k), y) \in DOMAIN c.state
      BY <1>3, <2>1, <2>2, <2>3 DEF ComesBy, n
    <3>2. QED
      BY <2>2, <3>1 DEF Gets
  <2>4. CASE ~ (y < x)
    <3>1. y = x
      BY <1>3, <2>4
    <3>2. k = n
      BY <1>3, <2>1, <2>2, <3>1, NextHere DEF n
    <3>3. QED
      BY <1>2, <2>2, <3>1, <3>2 DEF Gets
  <2>5. QED
    BY <2>3, <2>4
<1>6. QED
  BY <1>4, <1>5

(***************************************************************************)
(* What stays where nothing is opened.                                     *)
(***************************************************************************)
Keeps(c, d, t) ==
  /\ d.current = c.current /\ d.completedCycle = c.completedCycle /\ d.filters = c.filters
  /\ DOMAIN c.state \subseteq DOMAIN d.state /\ DOMAIN d.state \subseteq DOMAIN c.state \cup {t}
  /\ \A u \in DOMAIN c.state : /\ d.state[u] = c.state[u] /\ Value(d, u) = Value(c, u)
                               /\ u \in DOMAIN d.generator <=> u \in DOMAIN c.generator
  /\ t \in DOMAIN d.state /\ t \notin DOMAIN c.state =>
       d.state[t] = "NotStarted" /\ t \notin DOMAIN d.generator

LEMMA LeavesKeeps ==
  ASSUME NEW c, NEW d, NEW t, Gets(c, d, t), Leaves(c, d, t)
  PROVE  Keeps(c, d, t)
<1>1. \A u \in DOMAIN c.state : Value(d, u) = Value(c, u)
  BY GetsIs
<1>2. DOMAIN c.generator \subseteq DOMAIN c.state
  BY GetsIs
<1>3. QED
  BY <1>1, <1>2 DEF Keeps, Gets, Leaves

LEMMA SameKeeps ==
  ASSUME NEW c, NEW t
  PROVE  Keeps(c, c, t)
BY DEF Keeps

(* What is between two places of the same sections is in none of those     *)
(* that the function is in.                                                *)
LEMMA NoneBetween ==
  ASSUME NEW code, IsCode(code), NEW c, NEW act, NEW x \in 1 .. Len(code), InFunction(code, c, act, x),
         code[x] = "section", NEW y \in 1 .. Len(code), x < y, y < EndOf(code, x) + 1,
         NEW k \in 1 .. Len(c.current)
  PROVE  ~ IsIn(code, SubSeq(c.current, 1, k), y)
<1>1. SUFFICES ASSUME IsIn(code, SubSeq(c.current, 1, k), y) PROVE FALSE
  OBVIOUS
<1> DEFINE n == Len(c.current)
           p == SubSeq(c.current, 1, k)
<1>2. /\ c.current \in Path /\ n \in Nat /\ n > 0
      /\ \A i \in 1 .. n : c.current[i] \in Nat
      /\ \A i, j \in 1 .. n : i < j => c.current[i] < c.current[j]
  BY CurrentIs DEF InFunction, ActiveAround
<1>3. c.current[n] < x /\ n \in 1 .. n
  BY <1>2 DEF InFunction, FunctionAt
<1>4. k \in 0 .. n /\ Len(p) = k /\ \A i \in 1 .. k : p[i] = c.current[i]
  BY <1>2, PathParts, PathAt
<1> HIDE DEF p, n
<1>5. x \in Scopes(code, y)
  <2>1. Len(code) \in Nat /\ EndOf(code, x) \in 1 .. Len(code)
    BY SectionsNest
  <2>2. y \in x + 1 .. EndOf(code, x)
    BY <2>1
  <2>3. QED
    BY <2>2, ScopesSkip
<1>6. PICK i \in 2 .. k : x = p[i]
  BY <1>1, <1>4, <1>5 DEF IsIn, SectionsOn, p
<1>7. i \in 1 .. k /\ i \in 1 .. n /\ (i # n => i < n) /\ x \in Nat
  BY <1>2, <1>4
<1>8. x = c.current[i]
  BY <1>4, <1>6, <1>7
<1>9. QED
  BY <1>2, <1>3, <1>7, <1>8

(* The function goes on in what is current, to y.                          *)
GoesPast(code, x, y) ==
  y = IF code[x] = "section" THEN EndOf(code, x) + 1 ELSE x + 1

LEMMA ComesAlong ==
  ASSUME IsCode(Code), NEW c, NEW act, NEW x \in 1 .. Len(Code), InFunction(Code, c, act, x),
         NEW t, t = Append(c.current, x), NEW d, Keeps(c, d, t),
         Code[x] \in {"section", "generate"} => t \in DOMAIN d.state,
         NEW e, GoesPast(Code, x, e), ComesBy(Code, c, x)
  PROVE  ComesBy(Code, d, e)
<1> DEFINE n == Len(c.current)
<1>1. c.current \in Path /\ n \in Nat /\ d.current = c.current /\ DOMAIN c.state \subseteq DOMAIN d.state
  BY AsksFor DEF Keeps
<1>2. SUFFICES ASSUME NEW k \in 1 .. n, NEW y \in 1 .. Len(Code), NextIn(Code, SubSeq(c.current, 1, k), y), y < e
               PROVE  Append(SubSeq(c.current, 1, k), y) \in DOMAIN d.state
  BY <1>1 DEF ComesBy
<1>3. CASE y < x
  BY <1>1, <1>2, <1>3 DEF ComesBy
<1>4. CASE y = x
  <2>1. k = n
    BY <1>2, <1>4, NextHere
  <2>2. SubSeq(c.current, 1, k) = c.current
    BY <1>1, <2>1, PathParts
  <2>3. Code[x] \in {"section", "generate"}
    BY <1>2, <1>4 DEF NextIn, IsIn
  <2>4. QED
    BY <1>4, <2>2, <2>3
<1>5. CASE y > x
  <2>1. Code[x] = "section" /\ y < EndOf(Code, x) + 1
    BY <1>2, <1>5 DEF GoesPast
  <2>2. ~ IsIn(Code, SubSeq(c.current, 1, k), y)
    BY <1>5, <2>1, NoneBetween
  <2>3. QED
    BY <1>2, <2>2 DEF NextIn
<1>6. x \in Nat /\ y \in Nat
  OBVIOUS
<1>7. QED
  BY <1>3, <1>4, <1>5, <1>6

LEMMA LateAlong ==
  ASSUME IsCode(Code), NEW c, NEW act, NEW x \in 1 .. Len(Code), InFunction(Code, c, act, x),
         NEW t, t = Append(c.current, x), NEW d, Keeps(c, d, t), Tree(Code, d),
         NEW e, GoesPast(Code, x, e), NEW r, NEW s, r \subseteq s, LateOpened(Code, c, x, r),
         Code[x] = "generate" => t \in DOMAIN d.state /\ isComplete(d, t) /\ Valued(d, t) \in s
  PROVE  LateOpened(Code, d, e, s)
<1> DEFINE n == Len(c.current)
           p == c.current
<1>1. /\ IsContext(c) /\ p \in Path /\ n \in Nat /\ n > 0 /\ Tree(Code, c) /\ p # Root
      /\ DOMAIN c.generator \subseteq DOMAIN c.state
      /\ DOMAIN d.generator \subseteq DOMAIN d.state
  BY AsksFor DEF InFunction, Tree
<1>2. /\ d.current = p /\ d.completedCycle = c.completedCycle
      /\ p \in DOMAIN c.state /\ d.state[p] = c.state[p]
      /\ p \in DOMAIN d.generator <=> p \in DOMAIN c.generator
  <2>1. p \in DOMAIN c.state
    <3>1. n \in 0 .. n /\ SubSeq(p, 1, n) = p
      BY <1>1, PathParts
    <3>2. QED
      BY <1>1, <3>1 DEF Tree, Ordered
  <2>2. QED
    BY <2>1 DEF Keeps
<1>3. SUFFICES ASSUME c.state[p] = "Executing", c.completedCycle, NEW y \in 1 .. Len(Code)
               PROVE  LET w == Append(p, y)
                      IN  /\ w \in DOMAIN d.generator /\ y < e => isComplete(d, w) /\ Valued(d, w) \in s
                          /\ w \in DOMAIN d.state \ DOMAIN d.generator => d.state[w] = "NotStarted"
  BY <1>2 DEF LateOpened
<1>4. PICK w : w = Append(p, y)
  OBVIOUS
<1>5. /\ w \in DOMAIN c.generator /\ y < x => isComplete(c, w) /\ Valued(c, w) \in r
      /\ w \in DOMAIN c.state \ DOMAIN c.generator => c.state[w] = "NotStarted"
  BY <1>3, <1>4 DEF LateOpened
<1>6. w \in Path /\ Len(w) = n + 1 /\ w[n + 1] = y /\ y \in Nat /\ x \in Nat /\ Parent(w) = p
  <2>1. y \in Nat /\ x \in Nat
    OBVIOUS
  <2>2. Parent(w) = p
    BY <1>1, <1>4, <2>1, PathGrows
  <2>3. n = Len(p)
    OBVIOUS
  <2> HIDE DEF p, n
  <2>4. w \in Path /\ Len(w) = Len(p) + 1 /\ w[Len(p) + 1] = y
    BY <1>1, <1>4, <2>1, GrownPath
  <2>5. QED
    BY <2>1, <2>2, <2>3, <2>4
<1> HIDE DEF n, p
<1>7. ASSUME w \in DOMAIN d.state \ DOMAIN d.generator PROVE d.state[w] = "NotStarted"
  <2>1. CASE w \in DOMAIN c.state
    BY <1>5, <1>7, <2>1 DEF Keeps
  <2>2. CASE w \notin DOMAIN c.state
    BY <1>7, <2>2 DEF Keeps
  <2>3. QED
    BY <2>1, <2>2
<1>8. ASSUME w \in DOMAIN d.generator, y < e PROVE isComplete(d, w) /\ Valued(d, w) \in s
  <2>1. w \in DOMAIN d.state /\ Placed(Code, d, w)
    BY <1>1, <1>8 DEF Tree
  <2>2. IsIn(Code, p, y) /\ Code[y] = "generate"
    <3>1. Len(w) >= 2 /\ w[Len(w)] = y
      BY <1>1, <1>6 DEF n
    <3>2. QED
      BY <1>6, <1>8, <2>1, <3>1 DEF Placed
  <2>3. CASE y < x
    <3>1. w # t
      <4>1. t[n + 1] = x
        BY <1>1, <1>6, GrownPath DEF p, n
      <4>2. QED
        BY <1>6, <2>3, <4>1
    <3>2. w \in DOMAIN c.state /\ w \in DOMAIN c.generator /\ d.state[w] = c.state[w]
      BY <1>8, <2>1, <3>1 DEF Keeps
    <3>3. isComplete(d, w)
      <4>1. c.state[w] \in {"CompletedSuccessfully", "Failed"}
        BY <1>5, <2>3, <3>2 DEF isComplete, FilteredOut, isGeneratorTracker
      <4>2. QED
        BY <3>2, <4>1 DEF isComplete
    <3>4. Valued(d, w) = Valued(c, w)
      <4>1. \A i \in 1 .. Len(w) : Value(d, SubSeq(w, 1, i)) = Value(c, SubSeq(w, 1, i))
        <5>1. \A i \in 0 .. Len(w) : SubSeq(w, 1, i) \in DOMAIN c.state
          BY <1>1, <3>2 DEF Tree
        <5>2. \A i \in 1 .. Len(w) : i \in 0 .. Len(w)
          BY <1>1, <1>6
        <5>3. QED
          BY <5>1, <5>2 DEF Keeps
      <4>2. QED
        BY <4>1, ValuedSame
    <3>5. QED
      BY <1>5, <2>3, <3>2, <3>3, <3>4
  <2>4. CASE y = x
    <3>1. w = t
      BY <1>4, <2>4 DEF p
    <3>2. QED
      BY <2>2, <2>4, <3>1
  <2>5. CASE y > x
    <3>1. Code[x] = "section" /\ y < EndOf(Code, x) + 1
      BY <1>6, <1>8, <2>5 DEF GoesPast
    <3>2. n \in 1 .. n /\ SubSeq(p, 1, n) = p
      <4>1. n \in 1 .. n /\ n \in 0 .. n /\ n = Len(p)
        BY <1>1 DEF n, p
      <4>2. QED
        BY <1>1, <4>1, PathParts
    <3>3. ~ IsIn(Code, SubSeq(p, 1, n), y)
      BY <2>5, <3>1, <3>2, NoneBetween DEF p, n
    <3>4. QED
      BY <2>2, <3>2, <3>3
  <2>6. QED
    BY <1>6, <2>3, <2>4, <2>5
<1>9. QED
  BY <1>4, <1>7, <1>8

LEMMA LateDeeper ==
  ASSUME IsCode(Code), NEW c, NEW act, NEW x \in 1 .. Len(Code), InFunction(Code, c, act, x),
         NEW t, t = Append(c.current, x), NEW d, Gets(c, d, t), Opens(c, d, t),
         t \notin DOMAIN d.generator => ~ c.completedCycle, NEW r
  PROVE  LateOpened(Code, d, x + 1, r)
<1>1. d.current = t /\ d.completedCycle = c.completedCycle /\ Tree(Code, d)
  BY DEF Gets, Opens
<1>2. SUFFICES ASSUME c.completedCycle, NEW y \in 1 .. Len(Code), NEW w, w = Append(t, y)
               PROVE  /\ w \in DOMAIN d.generator => ~ (y < x + 1)
                      /\ w \in DOMAIN d.state \ DOMAIN d.generator => d.state[w] = "NotStarted"
  BY <1>1 DEF LateOpened
<1>3. PICK n \in Nat : n = Len(c.current)
  BY GetsIs
<1>4. /\ n > 0 /\ t \in Path /\ Len(t) = n + 1 /\ t[n + 1] = x /\ SubSeq(t, 1, n) = c.current
      /\ c.current \in Path /\ x \in Nat /\ y \in Nat
  BY <1>3, AsksFor
<1>5. /\ w \in Path /\ Len(w) = n + 2 /\ w[n + 2] = y /\ w[n + 1] = x /\ SubSeq(w, 1, n) = SubSeq(t, 1, n)
      /\ w # t
  <2>1. w \in Path /\ Len(w) = Len(t) + 1 /\ w[Len(t) + 1] = y
    <3>1. w = Append(t, y) /\ t \in Path /\ y \in Nat
      BY <1>2, <1>4
    <3>2. w \in Path
      BY <3>1, PathGrows
    <3>3. Len(w) = Len(t) + 1
      BY <3>1, PathGrows
    <3>4. w[Len(t) + 1] = y
      BY <3>1, PathGrows
    <3>5. QED
      BY <3>2, <3>3, <3>4
  <2>2. n + 1 \in 1 .. Len(t) /\ n \in 0 .. Len(t)
    BY <1>4
  <2>3. Len(w) # Len(t) /\ Len(w) = n + 2 /\ w[n + 2] = y
    BY <1>4, <2>1
  <2>4. w[n + 1] = t[n + 1]
    BY <1>2, <1>4, <2>2, PathAt
  <2>5. SubSeq(w, 1, n) = SubSeq(t, 1, n)
    BY <1>2, <1>4, <2>2, PathGrows
  <2>6. QED
    BY <1>4, <2>1, <2>2, <2>3, <2>4, <2>5
<1>6. ASSUME w \in DOMAIN d.generator, y < x + 1 PROVE FALSE
  <2>1. w \in DOMAIN d.state /\ Placed(Code, d, w)
    BY <1>1, <1>6 DEF Tree
  <2>2. n + 1 \in 1 .. Len(w) - 1 /\ Len(w) = n + 2
    BY <1>5
  <2>3. w[n + 1] < w[n + 2]
    BY <2>1, <2>2 DEF Placed
  <2>4. QED
    BY <1>4, <1>5, <1>6, <2>3
<1>7. ASSUME w \in DOMAIN d.state \ DOMAIN d.generator PROVE d.state[w] = "NotStarted"
  <2>1. w \in DOMAIN c.state /\ w \notin DOMAIN c.generator
    BY <1>5, <1>7 DEF Gets
  <2>2. c.state[w] = "NotStarted"
    <3>1. SUFFICES ASSUME StartedSection(c, w) PROVE FALSE
      BY <2>1 DEF StartedSection, Started
    <3>2. NoneAhead(c, x)
      BY <1>2 DEF InFunction, FunctionAt
    <3>3. n \in 1 .. Len(c.current) /\ Len(w) > n /\ w[n + 1] >= x
      BY <1>3, <1>4, <1>5
    <3>4. SubSeq(c.current, 1, n) = c.current
      BY <1>3, GetsIs
    <3>5. QED
      BY <1>4, <1>5, <2>1, <3>1, <3>2, <3>3, <3>4 DEF NoneAhead
  <2>3. ~ IsStrictPrefix(w, t)
    <3>1. ~ (Len(w) <= Len(t))
      BY <1>4, <1>5
    <3>2. QED
      BY <1>4, <1>5, <3>1, PrefixIs DEF IsStrictPrefix
  <2>4. QED
    BY <1>5, <2>1, <2>2, <2>3 DEF Opens
<1>8. QED
  BY <1>6, <1>7

-----------------------------------------------------------------------------
(***************************************************************************)
(* The steps of a session.                                                 *)
(***************************************************************************)
(* What is covered stays so.                                               *)
LEMMA CoversMore ==
  ASSUME UNCHANGED <<session, test>>, ran \subseteq ran', left \subseteq left', NEW p, Covered(p)
  PROVE  Covered(p)'
<1>1. CASE p \in ran
  BY <1>1 DEF Covered
<1>2. CASE \E t \in left : IsPrefix(t, p)
  BY <1>2 DEF Covered
<1>3. CASE Idle(p)
  <2>1. PICK q \in ran : Exhausted(q) /\ Last(Front(q))[2] > 0 /\ IsPrefix(Front(q), p)
    BY <1>3 DEF Idle
  <2>2. q \in ran' /\ Exhausted(q)'
    BY <2>1 DEF Exhausted
  <2>3. Idle(p)'
    BY <2>1, <2>2 DEF Idle
  <2>4. QED
    BY <2>3 DEF Covered
<1>4. QED
  BY <1>1, <1>2, <1>3 DEF Covered

LEMMA ToRunStays ==
  ASSUME UNCHANGED <<session, test>>
  PROVE  ToRun(Code)' = ToRun(Code) /\ Code' = Code
BY DEF ToRun, Code

LEMMA SoundNext ==
  ASSUME UNCHANGED <<session, test>>, ran \subseteq ran', left \subseteq left',
         NEW c, c = ctx', Tree(Code, c), c.filters = session.sections,
         Values(c), StartsFirst(c), LeavesRun(Code, c), AroundWaits(c),
         \A p \in ran' : p \in Choice /\ (LeafSection(Code, PathOf(p)) => Begun(c, p)),
         \A k \in 2 .. Len(c.current) : Valued(c, SubSeq(c.current, 1, k)) \in ran',
         \A p \in ToRun(Code) : Behind(c, p) => Covered(p)
  PROVE  Sound(ctx)'
<1>1. Code' = Code /\ ToRun(Code)' = ToRun(Code)
  BY ToRunStays
<1>2. Tree(Code, ctx)' /\ (ctx.filters = session.sections)'
  BY <1>1
<1>3. Values(ctx)'
  BY DEF Values
<1>4. StartsFirst(ctx)' /\ LeavesRun(Code, ctx)' /\ AroundWaits(ctx)'
  BY <1>1
<1>5. RanBegun(ctx)'
  BY <1>1 DEF RanBegun
<1>6. CurrentRan(ctx)'
  BY DEF CurrentRan
<1>7. NoneLost(ctx)'
  <2>1. \A p \in ToRun(Code) : Behind(c, p) => Covered(p)'
    BY CoversMore
  <2>2. QED
    BY <1>1, <2>1 DEF NoneLost
<1>8. QED
  BY <1>2, <1>3, <1>4, <1>5, <1>6, <1>7 DEF Sound

(* What does not change the trackers.                                      *)
LEMMA SoundStays ==
  ASSUME UNCHANGED <<session, test, ran>>, left \subseteq left', NEW c, c = ctx', Sound(c)
  PROVE  Sound(ctx)'
<1>1. /\ Tree(Code, c) /\ c.filters = session.sections
      /\ Values(c) /\ StartsFirst(c) /\ LeavesRun(Code, c) /\ AroundWaits(c)
      /\ \A p \in ran' : p \in Choice /\ (LeafSection(Code, PathOf(p)) => Begun(c, p))
      /\ \A k \in 2 .. Len(c.current) : Valued(c, SubSeq(c.current, 1, k)) \in ran'
      /\ \A p \in ToRun(Code) : Behind(c, p) => Covered(p)
  BY DEF Sound, RanBegun, CurrentRan, NoneLost
<1>2. QED
  BY <1>1, SoundNext

(* What is opened, or left, below the current tracker.                     *)
LEMMA GetsSound ==
  ASSUME session \in Sessions, IsCode(Code), UNCHANGED <<session, test, left>>,
         NEW c, NEW d, NEW t, Gets(c, d, t), Sound(c), d = ctx',
         ran \subseteq ran', ran' \subseteq ran \cup {Valued(d, t)},
         Opens(c, d, t) /\ Len(t) >= 2 => Valued(d, t) \in ran',
         LeafSection(Code, t) /\ ran' # ran => Opens(c, d, t)
  PROVE  Sound(ctx)'
<1>1. session.values \in Nat /\ session.values > 0
  BY SessionIs
<1>2. /\ Tree(Code, c) /\ c.filters = session.sections
      /\ Values(c) /\ StartsFirst(c) /\ LeavesRun(Code, c) /\ AroundWaits(c)
      /\ RanBegun(c) /\ CurrentRan(c) /\ NoneLost(c)
  BY DEF Sound
<1>3. /\ Tree(Code, d) /\ d.filters = session.sections /\ t \in Path /\ t # Root /\ IsContext(d)
  BY <1>2, GetsIs DEF Gets
<1>4. Values(d) /\ StartsFirst(d) /\ LeavesRun(Code, d) /\ AroundWaits(d)
  BY <1>1, <1>2, GetsValues, GetsStartsFirst, GetsLeaves, GetsAround
<1>5. ASSUME NEW p \in ran' PROVE p \in Choice /\ (LeafSection(Code, PathOf(p)) => Begun(d, p))
  <2>1. CASE p \in ran
    BY <1>2, <2>1, GetsBegun DEF RanBegun
  <2>2. CASE p \notin ran
    <3>1. p = Valued(d, t) /\ ran' # ran
      BY <1>5, <2>2
    <3>2. p \in Choice /\ PathOf(p) = t /\ Len(p) = Len(t) /\ Agrees(d, p, Len(t))
      BY <1>3, <3>1, ValuedIs
    <3>3. ASSUME LeafSection(Code, t) PROVE Begun(d, p)
      <4>1. d.state[t] = "Executing" /\ t \in DOMAIN d.state
        BY <3>1, <3>3 DEF Opens, Gets
      <4>2. Started(d, PathOf(p))
        BY <3>2, <4>1 DEF Started
      <4>3. QED
        BY <3>2, <4>2 DEF Begun
    <3>4. QED
      BY <3>2, <3>3
  <2>3. QED
    BY <2>1, <2>2
<1>6. ASSUME NEW k \in 2 .. Len(d.current)
      PROVE  Valued(d, SubSeq(d.current, 1, k)) \in ran'
  <2>1. PICK n \in Nat : /\ n = Len(c.current) /\ Len(t) = n + 1
                         /\ \A j \in 0 .. n : SubSeq(t, 1, j) = SubSeq(c.current, 1, j)
    BY GetsIs
  <2>2. ASSUME k \in 2 .. n PROVE Valued(d, SubSeq(c.current, 1, k)) \in ran'
    <3>1. k \in 0 .. Len(c.current) /\ k \in 2 .. Len(c.current)
      BY <2>1, <2>2
    <3>2. Valued(d, SubSeq(c.current, 1, k)) = Valued(c, SubSeq(c.current, 1, k))
      BY <3>1, GetsRan
    <3>3. QED
      BY <1>2, <3>1, <3>2 DEF CurrentRan
  <2>3. CASE Opens(c, d, t)
    <3>1. d.current = t
      BY <2>3 DEF Opens
    <3>2. CASE k = n + 1
      <4>1. SubSeq(t, 1, k) = t
        BY <1>3, <2>1, <3>2, PathParts
      <4>2. Len(t) >= 2
        BY <1>6, <2>1, <3>1
      <4>3. QED
        BY <2>3, <3>1, <4>1, <4>2
    <3>3. CASE k # n + 1
      <4>1. k \in 2 .. n /\ k \in 0 .. n
        BY <1>6, <2>1, <3>1, <3>3
      <4>2. QED
        BY <2>1, <2>2, <3>1, <4>1
    <3>4. QED
      BY <3>2, <3>3
  <2>4. CASE Leaves(c, d, t)
    <3>1. d.current = c.current
      BY <2>4 DEF Leaves
    <3>2. QED
      BY <1>6, <2>1, <2>2, <3>1
  <2>5. QED
    BY <2>3, <2>4 DEF Gets
<1>7. ASSUME NEW p \in ToRun(Code), Behind(d, p) PROVE Covered(p)
  BY <1>2, <1>7, GetsBehind DEF NoneLost
<1>8. left \subseteq left'
  OBVIOUS
<1>9. QED
  BY <1>3, <1>4, <1>5, <1>6, <1>7, <1>8, SoundNext

LEMMA FollowsInFunction ==
  ASSUME UNCHANGED <<session, test>>, mode' = "function", Sound(ctx)', NEW c, c = ctx', NEW x, x = pc',
         ComesBy(Code, c, x), LateOpened(Code, c, x, ran')
  PROVE  Following'
<1>1. Code' = Code
  BY ToRunStays
<1>2. ComesBy(Code, ctx, pc)' /\ LateOpened(Code, ctx, pc, ran)'
  BY <1>1
<1>3. NoneForgotten'
  BY DEF NoneForgotten
<1>4. QED
  BY <1>2, <1>3 DEF Following

(* What Following says where the function is.                              *)
LEMMA FollowsAt ==
  ASSUME Following, mode = "function"
  PROVE  /\ Sound(ctx) /\ AroundWaits(ctx) /\ Tree(Code, ctx)
         /\ ComesBy(Code, ctx, pc) /\ LateOpened(Code, ctx, pc, ran)
BY DEF Following, Entered, Sound

LEMMA SectionStartedFollows ==
  ASSUME TypeOK, Tracking, Following, SectionStarted
  PROVE  Following'
<1>1. At("section") /\ mode' = mode /\ UNCHANGED left
  BY DEF SectionStarted
<1>2. /\ mode = "function" /\ pc \in 1 .. Len(Code) /\ Code[pc] = "section"
      /\ IsCode(Code) /\ InFunction(Code, ctx, active, pc)
      /\ active \in Seq(Scoped) /\ UNCHANGED <<session, test>>
  BY <1>1, AtIs
<1>3. /\ Sound(ctx) /\ AroundWaits(ctx) /\ Tree(Code, ctx)
      /\ ComesBy(Code, ctx, pc) /\ LateOpened(Code, ctx, pc, ran)
  BY <1>2, FollowsAt
<1>4. session \in Sessions /\ session.values \in Nat
  BY SessionIs DEF TypeOK
<1> DEFINE e == EndOf(Code, pc) + 1
<1>5. PICK t, d : t = Append(ctx.current, pc) /\ d = ctx' /\ d = acquireSection(ctx, pc)
  BY DEF SectionStarted
<1>6. \/ isOpen(d, t) /\ pc' = pc + 1 /\ ran' = ran \cup {Valued(d, t)}
      \/ ~ isOpen(d, t) /\ pc' = e /\ ran' = ran
  BY <1>5 DEF SectionStarted
<1> HIDE DEF e
<1>7. /\ Gets(ctx, d, t) /\ t \notin DOMAIN d.generator
      /\ isOpen(d, t) => Opens(ctx, d, t) /\ ~ ctx.completedCycle
      /\ ~ isOpen(d, t) => Leaves(ctx, d, t)
  BY <1>2, <1>3, <1>4, <1>5, SectionGets
<1>8. CASE isOpen(d, t)
  <2>1. Opens(ctx, d, t) /\ ~ ctx.completedCycle /\ pc' = pc + 1 /\ ran' = ran \cup {Valued(d, t)}
    BY <1>6, <1>7, <1>8
  <2>2. Sound(ctx)'
    BY <1>1, <1>2, <1>3, <1>4, <1>5, <1>7, <2>1, GetsSound
  <2>3. ComesBy(Code, d, pc + 1)
    BY <1>2, <1>3, <1>5, <1>7, <2>1, ComesDeeper
  <2>4. LateOpened(Code, d, pc + 1, ran')
    BY <1>2, <1>5, <1>7, <2>1, LateDeeper
  <2>5. QED
    BY <1>1, <1>2, <1>5, <2>1, <2>2, <2>3, <2>4, FollowsInFunction
<1>9. CASE ~ isOpen(d, t)
  <2>1. Leaves(ctx, d, t) /\ pc' = e /\ ran' = ran
    BY <1>6, <1>7, <1>9
  <2>2. Sound(ctx)'
    <3>1. ~ Opens(ctx, d, t) \/ Valued(d, t) \in ran'
      <4>1. SUFFICES ASSUME Opens(ctx, d, t) PROVE FALSE
        OBVIOUS
      <4>2. d.current = t /\ d.current = ctx.current /\ Len(t) = Len(ctx.current) + 1 /\ Len(ctx.current) \in Nat
        BY <1>7, <2>1, <4>1, GetsIs DEF Opens, Leaves
      <4>3. QED
        BY <4>2
    <3>2. QED
      BY <1>1, <1>2, <1>3, <1>4, <1>5, <1>7, <2>1, <3>1, GetsSound
  <2>3. Keeps(ctx, d, t) /\ t \in DOMAIN d.state /\ Tree(Code, d) /\ GoesPast(Code, pc, e)
    BY <1>2, <1>7, <2>1, LeavesKeeps DEF Gets, GoesPast, e
  <2>4. ComesBy(Code, d, e)
    BY <1>2, <1>3, <1>5, <2>3, ComesAlong
  <2>5. LateOpened(Code, d, e, ran')
    BY <1>2, <1>3, <1>5, <2>1, <2>3, LateAlong
  <2>6. QED
    BY <1>1, <1>2, <1>5, <2>1, <2>2, <2>4, <2>5, FollowsInFunction
<1>10. QED
  BY <1>8, <1>9

LEMMA GenerateFollows ==
  ASSUME TypeOK, Tracking, Following, Generate
  PROVE  Following'
<1>1. At("generate") /\ mode' = mode /\ UNCHANGED left /\ pc' = pc + 1
  BY DEF Generate
<1>2. /\ mode = "function" /\ pc \in 1 .. Len(Code) /\ Code[pc] = "generate"
      /\ IsCode(Code) /\ InFunction(Code, ctx, active, pc)
      /\ active \in Seq(Scoped) /\ UNCHANGED <<session, test>>
  BY <1>1, AtIs
<1>3. /\ Sound(ctx) /\ AroundWaits(ctx) /\ Tree(Code, ctx)
      /\ ComesBy(Code, ctx, pc) /\ LateOpened(Code, ctx, pc, ran)
  BY <1>2, FollowsAt
<1>4. session \in Sessions /\ session.values \in Nat
  BY SessionIs DEF TypeOK
<1>5. PICK t, d : t = Append(ctx.current, pc) /\ d = ctx' /\ d = acquireGenerator(ctx, pc, session.values)
  BY DEF Generate
<1>6. /\ Gets(ctx, d, t) /\ t \in DOMAIN d.generator /\ GeneratorAt(ctx, pc) = t
      /\ \/ Opens(ctx, d, t)
         \/ Leaves(ctx, d, t) /\ t \in DOMAIN ctx.state /\ isComplete(ctx, t) /\ d = ctx
  <2>1. /\ IsCode(Code) /\ session.values \in Nat /\ pc \in 1 .. Len(Code)
        /\ InFunction(Code, ctx, active, pc) /\ Code[pc] = "generate" /\ AroundWaits(ctx)
        /\ d = acquireGenerator(ctx, pc, session.values) /\ t = Append(ctx.current, pc)
    BY <1>2, <1>3, <1>4, <1>5
  <2>2. PICK c, act, x : c = ctx /\ act = active /\ x = pc
    OBVIOUS
  <2>3. /\ x \in 1 .. Len(Code) /\ InFunction(Code, c, act, x) /\ Code[x] = "generate" /\ AroundWaits(c)
        /\ d = acquireGenerator(c, x, session.values) /\ t = Append(c.current, x)
    BY <2>1, <2>2
  <2>4. /\ Gets(c, d, t) /\ t \in DOMAIN d.generator /\ GeneratorAt(c, x) = t
        /\ \/ Opens(c, d, t)
           \/ Leaves(c, d, t) /\ t \in DOMAIN c.state /\ isComplete(c, t) /\ d = c
    BY <2>1, <2>3, GeneratorGets
  <2>5. QED
    BY <2>2, <2>4
<1>7. ran' = ran \cup {Valued(d, t)}
  BY <1>5, <1>6 DEF Generate
<1>8. Sound(ctx)'
  <2>1. ~ LeafSection(Code, t)
    <3>1. /\ Len(t) \in Nat /\ Len(t) > 0 /\ t[Len(t)] = pc
      BY <1>2, <1>5, AsksFor
    <3>2. QED
      BY <1>2, <3>1 DEF LeafSection, Last
  <2>2. QED
    BY <1>1, <1>2, <1>3, <1>4, <1>5, <1>6, <1>7, <2>1, GetsSound
<1>9. CASE Opens(ctx, d, t)
  <2>1. ComesBy(Code, d, pc + 1)
    BY <1>2, <1>3, <1>5, <1>6, <1>9, ComesDeeper
  <2>2. LateOpened(Code, d, pc + 1, ran')
    BY <1>2, <1>5, <1>6, <1>9, LateDeeper
  <2>3. QED
    BY <1>1, <1>2, <1>5, <1>8, <2>1, <2>2, FollowsInFunction
<1>10. CASE Leaves(ctx, d, t) /\ t \in DOMAIN ctx.state /\ isComplete(ctx, t) /\ d = ctx
  <2>1. Keeps(ctx, d, t) /\ t \in DOMAIN d.state /\ Tree(Code, d) /\ GoesPast(Code, pc, pc + 1)
    BY <1>2, <1>6, <1>10, LeavesKeeps DEF Gets, GoesPast
  <2>2. ComesBy(Code, d, pc + 1)
    BY <1>2, <1>3, <1>5, <2>1, ComesAlong
  <2>3. LateOpened(Code, d, pc + 1, ran')
    <3>1. isComplete(d, t) /\ Valued(d, t) \in ran' /\ ran \subseteq ran'
      BY <1>7, <1>10
    <3>2. QED
      <4>1. PICK s : s = ran'
        OBVIOUS
      <4>2. t = Append(ctx.current, pc)
        BY <1>5
      <4>3. LateOpened(Code, d, pc + 1, s)
        BY <1>2, <1>3, <2>1, <3>1, <4>1, <4>2, LateAlong
      <4>4. QED
        BY <4>1, <4>3
  <2>4. QED
    BY <1>1, <1>2, <1>5, <1>8, <2>2, <2>3, FollowsInFunction
<1>11. QED
  BY <1>6, <1>9, <1>10

(* Past an assertion.                                                      *)
LEMMA CheckFollows ==
  ASSUME TypeOK, Tracking, Following, At("check"), mode' = "function", UNCHANGED <<ctx, ran, left>>, pc' = pc + 1
  PROVE  Following'
<1>1. /\ mode = "function" /\ pc \in 1 .. Len(Code) /\ Code[pc] = "check"
      /\ IsCode(Code) /\ InFunction(Code, ctx, active, pc) /\ UNCHANGED <<session, test>>
  BY AtIs
<1>2. /\ Sound(ctx) /\ Tree(Code, ctx)
      /\ ComesBy(Code, ctx, pc) /\ LateOpened(Code, ctx, pc, ran)
  BY <1>1, FollowsAt
<1>3. PICK t, d : t = Append(ctx.current, pc) /\ d = ctx
  OBVIOUS
<1>4. Keeps(ctx, d, t) /\ GoesPast(Code, pc, pc + 1)
  BY <1>1, <1>3, SameKeeps DEF GoesPast
<1>5. ComesBy(Code, d, pc + 1)
  BY <1>1, <1>2, <1>3, <1>4, ComesAlong
<1>6. LateOpened(Code, d, pc + 1, ran')
  BY <1>1, <1>2, <1>3, <1>4, LateAlong
<1>7. Sound(ctx)'
  BY <1>1, <1>2, SoundStays
<1>8. QED
  BY <1>1, <1>3, <1>5, <1>6, <1>7, FollowsInFunction

(* An exception is thrown, and leaves one section after the other.         *)
LEMMA ThrowsFollows ==
  ASSUME TypeOK, Tracking, Following, At("check"), NEW what, Throws(what),
         UNCHANGED <<ctx, active, unfinished, ran>>
  PROVE  Following'
<1>1. /\ mode = "function" /\ pc \in 1 .. Len(Code) /\ unfinished = <<>>
      /\ InFunction(Code, ctx, active, pc) /\ UNCHANGED <<session, test>>
  BY AtIs
<1>2. /\ Sound(ctx) /\ ComesBy(Code, ctx, pc) /\ LateOpened(Code, ctx, pc, ran)
  BY <1>1, FollowsAt
<1>3. mode' = "unwinding" /\ pc' = pc /\ left' = left \cup {Valued(ctx, Here)}
  BY DEF Throws
<1>4. Code' = Code
  BY <1>1, ToRunStays
<1>5. Sound(ctx)'
  BY <1>1, <1>2, <1>3, SoundStays
<1>6. ComesBy(Code, ctx, pc)' /\ LateOpened(Code, ctx, pc, ran)'
  BY <1>2, <1>3, <1>4
<1>7. SectionsActive(Code, ctx, active)'
  <2>1. SectionsActive(Code, ctx, active)
    BY <1>1 DEF InFunction, FunctionAt, SectionsActive
  <2>2. QED
    BY <1>4, <2>1
<1>8. pc' \in Nat /\ Last(ctx.current)' < pc' /\ Valued(ctx, Here)' \in left' /\ unfinished' = <<>>
  <2>1. Last(ctx.current) < pc /\ pc \in Nat
    BY <1>1 DEF InFunction, FunctionAt, Last
  <2>2. Here' = Here
    BY DEF Here
  <2>3. QED
    BY <1>1, <1>3, <2>1, <2>2
<1>9. NoneForgotten'
  BY <1>3 DEF NoneForgotten
<1>10. QED
  BY <1>3, <1>5, <1>6, <1>7, <1>8, <1>9 DEF Following

LEMMA SectionEndedEarlyFollows ==
  ASSUME TypeOK, Tracking, Following, SectionEndedEarly
  PROVE  Following'
<1>1. /\ mode = "unwinding" /\ active # <<>> /\ mode' = mode
      /\ ctx' = LeftEarly(ctx, Last(active).tracker)
      /\ unfinished' = Append(unfinished, Last(active)) /\ active' = Front(active)
      /\ UNCHANGED <<session, test, ran, left>>
  BY DEF SectionEndedEarly
<1>2. /\ Tree(Code, ctx) /\ ActiveAround(Code, ctx, active)
      /\ active \in Seq(Scoped) /\ unfinished \in Seq(Scoped)
  BY <1>1 DEF Tracking
<1>3. /\ Sound(ctx) /\ SectionsActive(Code, ctx, active)
      /\ unfinished = <<>> => Valued(ctx, Here) \in left
      /\ unfinished # <<>> => Held(ctx)
  BY <1>1 DEF Following
<1>4. session \in Sessions /\ IsCode(Code) /\ Code' = Code
  BY <1>1, CodeIs, ToRunStays DEF TypeOK
<1>5. PICK d : d = ctx'
  OBVIOUS
<1>6. Sound(d) /\ Held(d) /\ d.current = Parent(Last(active).tracker)
  <2>1. CASE unfinished = <<>>
    <3>1. d = fail(ctx, Last(active).tracker)
      BY <1>1, <1>5, <2>1 DEF LeftEarly
    <3>2. Valued(ctx, Last(active).tracker) \in left
      BY <1>1, <1>3, <2>1 DEF Here
    <3>3. Sound(d) /\ Held(d)
      BY <1>2, <1>1, <1>3, <1>4, <3>1, <3>2, FailsSound
    <3>4. d.current = Parent(Last(active).tracker)
      <4>1. IsContext(ctx)
        BY <1>2, TreeIsContext
      <4>2. QED
        BY <3>1, <4>1 DEF fail, IsContext
    <3>5. QED
      BY <3>3, <3>4
  <2>2. CASE unfinished # <<>>
    <3>1. d = close(ctx, Last(active).tracker)
      BY <1>1, <1>5, <2>2 DEF LeftEarly
    <3>2. PICK m : m = Len(Last(active).tracker)
      OBVIOUS
    <3>3. m \in 2 .. Len(ctx.current) /\ Last(active).tracker = SubSeq(ctx.current, 1, m)
      <4>1. PICK e : e.current = Parent(Last(active).tracker)
        <5>1. [current |-> Parent(Last(active).tracker)].current = Parent(Last(active).tracker)
          OBVIOUS
        <5>2. QED
          BY <5>1
      <4>2. QED
        BY <1>1, <1>2, <3>2, <4>1, ActiveLeaves
    <3>4. ctx.current \in Path /\ Len(ctx.current) \in Nat
      BY <1>2 DEF Tree, Ordered, IsContext, Path
    <3>5. m \in 1 .. Len(ctx.current) /\ m \in 0 .. Len(ctx.current) /\ m > 0 /\ m - 1 > 0
      BY <3>3, <3>4
    <3>6. Held(ctx) /\ MayClose(ctx, m)
      BY <1>3, <2>2 DEF MayClose
    <3>7. ComesDown(ctx, d, m, m - 1)
      BY <1>3, <1>4, <3>1, <3>3, <3>5, <3>6, CloseComesDown
    <3>8. Sound(d) /\ Held(d) /\ d.current = SubSeq(ctx.current, 1, m - 1)
      BY <3>5, <3>6, <3>7 DEF ComesDown
    <3>9. Parent(SubSeq(ctx.current, 1, m)) = SubSeq(ctx.current, 1, m - 1)
      BY <3>4, <3>5, PathParts
    <3>10. QED
      BY <3>3, <3>8, <3>9
  <2>3. QED
    BY <2>1, <2>2
<1>7. SectionsActive(Code, d, Front(active))
  BY <1>1, <1>2, <1>3, <1>6, LeavingActive
<1>8. Sound(ctx)' /\ Held(ctx)' /\ SectionsActive(Code, ctx, active)'
  <2>1. Sound(ctx)'
    BY <1>1, <1>5, <1>6, SoundStays
  <2>2. Held(ctx)' /\ SectionsActive(Code, ctx, active)'
    BY <1>1, <1>4, <1>5, <1>6, <1>7
  <2>3. QED
    BY <2>1, <2>2
<1>9. unfinished' # <<>>
  <2>1. Last(active) \in Scoped
    BY <1>1, <1>2, LastAndFront
  <2>2. Len(unfinished') = Len(unfinished) + 1 /\ Len(unfinished) \in Nat
    BY <1>1, <1>2, <2>1, AppendProperties
  <2>3. Len(unfinished') # 0
    BY <2>2
  <2>4. QED
    BY <2>3
<1>10. NoneForgotten' /\ ~ Entered' /\ mode' = "unwinding"
  BY <1>1, <1>9 DEF NoneForgotten, Entered
<1>11. QED
  BY <1>8, <1>9, <1>10 DEF Following

(* A cycle begins.                                                         *)
LEMMA StartsSound ==
  ASSUME NEW c, Sound(c), c.current = Root
  PROVE  Sound(startCycle(c))
<1>1. PICK b : b = startCycle(c)
  OBVIOUS
<1>2. /\ Tree(Code, b) /\ b.state = c.state /\ b.generator = c.generator /\ b.filters = c.filters
      /\ b.current = Root
  <2>1. Tree(Code, c)
    BY DEF Sound
  <2>2. QED
    BY <1>1, <2>1, StartsTree
<1>3. \A u : Value(b, u) = Value(c, u)
  BY <1>2 DEF Value, isGeneratorTracker
<1>4. \A p, k : Agrees(b, p, k) <=> Agrees(c, p, k)
  BY <1>3 DEF Agrees
<1>5. \A p, k : (Moved(b, p, k) <=> Moved(c, p, k)) /\ (Passed(b, p, k) <=> Passed(c, p, k))
  BY <1>2, <1>4 DEF Moved, Passed
<1>6. \A p : (Begun(c, p) => Begun(b, p)) /\ (Behind(b, p) => Behind(c, p))
  <2>1. \A u : Started(b, u) <=> Started(c, u)
    BY <1>2 DEF Started
  <2>2. QED
    BY <1>4, <1>5, <2>1 DEF Begun, Behind
<1>7. Values(b) /\ StartsFirst(b)
  BY <1>2 DEF Sound, Values, StartsFirst
<1>8. LeavesRun(Code, b)
  BY <1>2 DEF Sound, LeavesRun
<1>9. AroundWaits(b) /\ CurrentRan(b)
  <2>1. Len(b.current) = 0
    BY <1>2 DEF Root
  <2>2. QED
    BY <2>1 DEF AroundWaits, CurrentRan
<1>10. RanBegun(b) /\ NoneLost(b)
  BY <1>6 DEF Sound, RanBegun, NoneLost
<1>11. b.filters = session.sections
  BY <1>2 DEF Sound
<1>12. QED
  BY <1>1, <1>2, <1>7, <1>8, <1>9, <1>10, <1>11 DEF Sound

LEMMA StartCycleFollows ==
  ASSUME TypeOK, Tracking, Following, StartCycle
  PROVE  Following'
<1>1. /\ mode = "cycle" /\ mode' = "function" /\ pc' = 1
      /\ ctx' = acquireSection(startCycle(ctx), Last(TestCase))
      /\ UNCHANGED <<session, test, ran, left>>
  BY DEF StartCycle
<1>2. /\ session \in Sessions /\ session.values \in Nat /\ IsCode(Code)
  BY <1>1, CodeIs, SessionIs DEF TypeOK
<1>3. Tree(Code, ctx) /\ (TestCase \in DOMAIN ctx.state => IsBusy(ctx, TestCase))
  BY <1>1 DEF Tracking
<1>4. Sound(ctx) /\ ctx.current = Root
  BY <1>1 DEF Following
<1>5. PICK c, d : c = startCycle(ctx) /\ d = ctx' /\ d = acquireSection(startCycle(ctx), Last(TestCase))
  BY <1>1
<1>6. Gets(c, d, TestCase) /\ Opens(c, d, TestCase)
  BY <1>2, <1>3, <1>5, CycleGets
<1>7. ~ d.completedCycle /\ InFunction(Code, d, <<>>, 1)
  BY <1>2, <1>3, <1>5, CycleStarts
<1>8. Sound(c)
  BY <1>4, <1>5, StartsSound
<1>9. Sound(ctx)'
  <2>1. ~ (Len(TestCase) >= 2)
    BY DEF TestCase
  <2>2. QED
    BY <1>1, <1>2, <1>5, <1>6, <1>8, <2>1, GetsSound
<1>10. ComesBy(Code, d, 1)
  BY DEF ComesBy
<1>11. LateOpened(Code, d, 1, ran')
  BY <1>7 DEF LateOpened
<1>12. QED
  BY <1>1, <1>5, <1>9, <1>10, <1>11, FollowsInFunction

-----------------------------------------------------------------------------
(***************************************************************************)
(* At the end of what is current, and of the sections around it that are   *)
(* closed, the function has come by all that is in them.                   *)
(***************************************************************************)
LEMMA DueAtEnd ==
  ASSUME session \in Sessions, IsCode(Code), NEW c, Sound(c), c.current # Root,
         NEW m \in 1 .. Len(c.current), NEW x, ComesBy(Code, c, x),
         \A k \in m .. Len(c.current) : \A p \in ToRun(Code) :
           Through(c, p, k) /\ k < Len(p) => Covered(p) \/ p[k + 1][1] < x
  PROVE  Due(c, m)
<1> DEFINE n == Len(c.current)
<1>1. SUFFICES ASSUME NEW k \in m .. n, NEW p \in ToRun(Code), Through(c, p, k)
               PROVE  Covered(p) \/ (k + 1 \in 2 .. Len(p) /\ Upto(p, k + 1) \in DOMAIN c.state)
  BY DEF Due
<1>2. /\ p \in Choice /\ Len(p) \in Nat /\ Len(p) >= 2
      /\ \A i \in 2 .. Len(p) : p[i][1] \in 1 .. Len(Code)
      /\ \A i \in 1 .. Len(p) - 1 : NextIn(Code, Upto(p, i), p[i + 1][1])
  BY SessionAsks
<1>3. Tree(Code, c) /\ CurrentRan(c)
  BY DEF Sound
<1>4. n \in Nat /\ n > 0 /\ IsContext(c) /\ c.current \in Path
  BY <1>3, CurrentIs
<1>5. k \in 1 .. Len(p) /\ k \in 1 .. n /\ Upto(p, k) = SubSeq(c.current, 1, k) /\ Agrees(c, p, k)
  BY <1>1, <1>4 DEF Through
<1> HIDE DEF n
<1>6. CASE k = Len(p)
  <2>1. Valued(c, Upto(p, k)) = p
    <3>1. k \in 0 .. Len(p)
      BY <1>5
    <3>2. QED
      BY <1>2, <1>4, <1>5, <1>6, <3>1, AgreesValued
  <2>2. k \in 2 .. Len(c.current)
    BY <1>2, <1>5, <1>6 DEF n
  <2>3. Valued(c, SubSeq(c.current, 1, k)) \in ran
    BY <1>3, <2>2 DEF CurrentRan
  <2>4. QED
    BY <1>5, <2>1, <2>3 DEF Covered
<1>7. CASE k # Len(p)
  <2>1. k < Len(p) /\ k + 1 \in 2 .. Len(p) /\ k \in 1 .. Len(p) - 1 /\ k + 1 \in 1 .. Len(p) /\ (k + 1) - 1 = k
    BY <1>2, <1>5, <1>7
  <2>2. PICK y : y = p[k + 1][1]
    OBVIOUS
  <2>3. y \in 1 .. Len(Code) /\ NextIn(Code, SubSeq(c.current, 1, k), y)
    BY <1>2, <1>5, <2>1, <2>2
  <2>4. Append(Upto(p, k), y) = Upto(p, k + 1)
    BY <1>2, <2>1, <2>2, ChoiceStep
  <2>5. Covered(p) \/ y < x
    BY <1>1, <2>1, <2>2 DEF n
  <2>6. y < x => Append(SubSeq(c.current, 1, k), y) \in DOMAIN c.state
    BY <1>5, <2>3 DEF ComesBy, n
  <2>7. QED
    BY <1>5, <2>1, <2>4, <2>5, <2>6
<1>8. QED
  BY <1>6, <1>7

LEMMA FirstAtEnd ==
  ASSUME session \in Sessions, IsCode(Code), NEW c, Sound(c), c.current # Root,
         NEW x \in Nat, LateOpened(Code, c, x, ran),
         ~ c.completedCycle => DoneBefore(Code, c, Append(c.current, x)),
         \A p \in ToRun(Code) : Through(c, p, Len(c.current)) =>
           \/ Covered(p)
           \/ \A z \in 1 .. Len(Code) : IsIn(Code, c.current, z) /\ Last(c.current) < z => z < x
  PROVE  AtFirst(c)
<1> DEFINE n == Len(c.current)
           t == c.current
<1>1. SUFFICES ASSUME c.state[t] = "Executing", NEW p \in ToRun(Code), Through(c, p, n),
                      NEW w, w = Upto(p, n + 1), w \in DOMAIN c.state, ~ Covered(p)
               PROVE  \/ isComplete(c, w)
                      \/ t \in DOMAIN c.generator /\ should_wait_for_child(c, t)
  BY DEF AtFirst
<1>2. /\ session.values \in Nat /\ p \in Choice /\ Len(p) \in Nat /\ Len(p) >= 2
      /\ \A i \in 2 .. Len(p) : p[i][1] \in 1 .. Len(Code)
      /\ \A i \in 1 .. Len(p) - 1 : NextIn(Code, Upto(p, i), p[i + 1][1])
  BY SessionAsks
<1>3. Tree(Code, c) /\ CurrentRan(c) /\ Values(c)
  BY DEF Sound
<1>4. n \in Nat /\ n > 0 /\ IsContext(c) /\ t \in Path /\ SubSeq(t, 1, n) = t
  <2>1. n \in Nat /\ n > 0 /\ IsContext(c) /\ t \in Path
    BY <1>3, CurrentIs
  <2>2. SubSeq(t, 1, n) = t
    BY <2>1, PathParts
  <2>3. QED
    BY <2>1, <2>2
<1>5. n \in 1 .. Len(p) /\ Upto(p, n) = t /\ Agrees(c, p, n)
  BY <1>1, <1>4 DEF Through
<1>6. Valued(c, t) = SubSeq(p, 1, n) /\ IsPrefix(Valued(c, t), p) /\ (n = Len(p) => Valued(c, t) = p)
  BY <1>2, <1>4, <1>5, AgreesValued
<1>7. n # Len(p)
  <2>1. SUFFICES ASSUME n = Len(p) PROVE FALSE
    OBVIOUS
  <2>2. Valued(c, SubSeq(t, 1, n)) \in ran
    BY <1>2, <1>3, <1>4, <2>1 DEF CurrentRan
  <2>3. QED
    BY <1>1, <1>4, <1>6, <2>1, <2>2 DEF Covered
<1> HIDE DEF n
<1>8. n + 1 \in 2 .. Len(p) /\ n \in 1 .. Len(p) - 1 /\ n + 1 \in 1 .. Len(p) /\ (n + 1) - 1 = n
  BY <1>2, <1>4, <1>5, <1>7
<1>9. PICK y : y = p[n + 1][1]
  OBVIOUS
<1>10. y \in 1 .. Len(Code) /\ IsIn(Code, t, y) /\ Last(t) < y /\ w = Append(t, y)
  <2>1. y \in 1 .. Len(Code) /\ NextIn(Code, t, y)
    BY <1>2, <1>5, <1>8, <1>9
  <2>2. Append(t, y) = w
    BY <1>1, <1>2, <1>5, <1>8, <1>9, ChoiceStep
  <2>3. QED
    BY <2>1, <2>2 DEF NextIn
<1>11. \A z \in 1 .. Len(Code) : IsIn(Code, t, z) /\ Last(t) < z => z < x
  BY <1>1 DEF n
<1>12. y < x
  BY <1>10, <1>11
<1>13. Last(t) = t[n]
  BY DEF Last, n
<1>14. CASE ~ c.completedCycle
  <2>1. DoneBefore(Code, c, Append(t, x))
    BY <1>14
  <2>2. \A z \in 1 .. Len(Code) : t[n] < z /\ z < x /\ IsIn(Code, t, z) => Finished(c, Append(t, z))
    BY <1>4, <2>1, DoneGrows DEF n
  <2>3. QED
    BY <1>10, <1>12, <1>13, <2>2 DEF Finished
<1>15. CASE c.completedCycle
  <2>1. t \in DOMAIN c.generator
    BY <1>1, <1>15 DEF LateOpened
  <2>2. \A z \in 1 .. Len(Code) :
          LET v == Append(t, z)
          IN  /\ v \in DOMAIN c.generator /\ z < x => isComplete(c, v) /\ Valued(c, v) \in ran
              /\ v \in DOMAIN c.state \ DOMAIN c.generator => c.state[v] = "NotStarted"
    BY <1>1, <1>15 DEF LateOpened
  <2>3. CASE w \in DOMAIN c.generator
    BY <1>10, <1>12, <2>2, <2>3
  <2>4. CASE should_wait_for_child(c, t)
    BY <2>1, <2>4
  <2>5. CASE ~ should_wait_for_child(c, t)
    <3>1. w \in Children(c, t)
      <4>1. Front(Append(t, y)) = t /\ Append(t, y) # <<>>
        <5>1. y \in Nat
          BY <1>10, SectionsNest
        <5>2. Parent(Append(t, y)) = t /\ Append(t, y) # Root
          BY <1>4, <5>1, PathGrows
        <5>3. QED
          BY <5>2 DEF Parent, Root
      <4>2. QED
        BY <1>1, <1>10, <4>1 DEF Children, Parent, Root
    <3>2. PICK u \in Children(c, t) : c.state[u] # "NotStarted"
      BY <2>5, <3>1 DEF should_wait_for_child
    <3>3. /\ u \in DOMAIN c.state /\ u \in Path /\ u # Root /\ Parent(u) = t
      BY <1>3, <1>4, <3>2 DEF Children, IsContext
    <3>4. PICK z : z = Last(u)
      OBVIOUS
    <3>5. z \in 1 .. Len(Code) /\ IsIn(Code, t, z) /\ Last(t) < z /\ u = Append(t, z) /\ Len(u) = n + 1
      <4>1. Len(u) = n + 1 /\ u[Len(u)] = z /\ Append(Parent(u), Last(u)) = u /\ u[n] = t[n]
        <5>1. /\ Len(u) \in Nat /\ Len(u) > 0 /\ Len(Parent(u)) = Len(u) - 1
              /\ Parent(u) = SubSeq(u, 1, Len(u) - 1)
          BY <3>3, ParentIs
        <5>2. Len(u) = n + 1 /\ t = SubSeq(u, 1, n) /\ n < Len(u)
          BY <1>4, <3>3, <5>1 DEF n
        <5>3. Append(SubSeq(u, 1, n), u[n + 1]) = SubSeq(u, 1, n + 1)
          BY <1>4, <3>3, <5>2, PathStep
        <5>4. SubSeq(u, 1, Len(u)) = u /\ \A i \in 1 .. n : SubSeq(u, 1, n)[i] = u[i]
          BY <1>4, <3>3, <5>2, PathParts, PathAt
        <5>5. QED
          BY <1>4, <3>3, <3>4, <5>2, <5>3, <5>4 DEF Last
      <4>2. Placed(Code, c, u)
        BY <1>3, <3>3 DEF Tree
      <4>3. Len(u) >= 2 /\ n \in 1 .. Len(u) - 1
        BY <1>4, <4>1
      <4>4. u[n] < u[Len(u)] /\ u[Len(u)] \in 1 .. Len(Code) /\ IsIn(Code, Parent(u), u[Len(u)])
        BY <4>2, <4>3 DEF Placed
      <4>5. QED
        BY <1>13, <3>3, <3>4, <4>1, <4>4
    <3>6. z < x
      BY <1>11, <3>5
    <3>7. u \in DOMAIN c.generator /\ isComplete(c, u) /\ Valued(c, u) \in ran
      BY <2>2, <3>2, <3>3, <3>5, <3>6
    <3>8. c.generator[u].at = session.values + 1
      <4>1. c.state[u] = "CompletedSuccessfully"
        BY <1>3, <3>7 DEF isComplete, FilteredOut, isGeneratorTracker, Values
      <4>2. QED
        BY <1>3, <3>7, <4>1 DEF Values
    <3>9. PICK q : q = Valued(c, u)
      OBVIOUS
    <3>10. /\ q \in Choice /\ Len(q) = n + 1
           /\ \A i \in 1 .. n + 1 : q[i] = <<u[i], Value(c, SubSeq(u, 1, i))>>
      <4>1. /\ Valued(c, u) \in Choice /\ Len(Valued(c, u)) = Len(u)
            /\ \A i \in 1 .. Len(u) : Valued(c, u)[i] = <<u[i], Value(c, SubSeq(u, 1, i))>>
        BY <1>4, <3>3, ValuedIs
      <4>2. QED
        BY <3>5, <3>9, <4>1
    <3>11. /\ SubSeq(u, 1, n + 1) = u /\ SubSeq(u, 1, n) = t
           /\ \A i \in 0 .. n : SubSeq(u, 1, i) = SubSeq(t, 1, i)
           /\ \A i \in 1 .. n : u[i] = t[i]
      BY <1>4, <3>5, GrownPath, SectionsNest DEF n
    <3>12. Exhausted(q)
      <4>1. q[n + 1] = <<u[n + 1], Value(c, u)>> /\ Last(q) = q[n + 1]
        <5>1. n + 1 \in 1 .. n + 1
          BY <1>4
        <5>2. QED
          BY <3>10, <3>11, <5>1 DEF Last
      <4>2. Value(c, u) = session.values + 1
        BY <3>7, <3>8 DEF Value, isGeneratorTracker
      <4>3. QED
        BY <1>2, <4>1, <4>2 DEF Exhausted
    <3>13. Front(q) = Valued(c, t)
      <4>1. Len(q) \in Nat /\ Len(q) > 0 /\ q # <<>>
        BY <1>4, <3>10
      <4>2. Front(q) \in Seq(Nat \X Nat) /\ Len(Front(q)) = n /\ \A i \in 1 .. n : Front(q)[i] = q[i]
        <5>1. q \in Seq(Nat \X Nat)
          BY <3>10 DEF Choice
        <5>2. /\ Front(q) \in Seq(Nat \X Nat) /\ Len(Front(q)) = Len(q) - 1
              /\ \A i \in 1 .. Len(q) - 1 : Front(q)[i] = q[i]
          BY <4>1, <5>1, LastAndFront
        <5>3. QED
          BY <1>4, <3>10, <5>2
      <4>3. Valued(c, t) \in Seq(Nat \X Nat) /\ Len(Valued(c, t)) = n
            /\ \A i \in 1 .. n : Valued(c, t)[i] = <<t[i], Value(c, SubSeq(t, 1, i))>>
        BY <1>4, ValuedIs DEF Choice, n
      <4>4. \A i \in 1 .. n : Front(q)[i] = Valued(c, t)[i]
        <5>1. SUFFICES ASSUME NEW i \in 1 .. n PROVE Front(q)[i] = Valued(c, t)[i]
          OBVIOUS
        <5>2. i \in 1 .. n + 1 /\ i \in 0 .. n
          BY <1>4
        <5>3. q[i] = <<u[i], Value(c, SubSeq(u, 1, i))>> /\ SubSeq(u, 1, i) = SubSeq(t, 1, i) /\ u[i] = t[i]
          BY <3>10, <3>11, <5>2
        <5>4. QED
          BY <4>2, <4>3, <5>3
      <4>5. QED
        BY <4>2, <4>3, <4>4, SeqEqual
    <3>14. Last(Front(q))[2] > 0
      <4>1. Len(Valued(c, t)) = n /\ Valued(c, t)[n] = <<t[n], Value(c, SubSeq(t, 1, n))>>
        BY <1>4, ValuedIs DEF n
      <4>2. Value(c, t) \in 1 .. session.values + 1
        BY <1>3, <2>1 DEF Value, isGeneratorTracker, Values
      <4>3. QED
        <5>1. Last(Front(q)) = <<t[n], Value(c, t)>>
          BY <1>4, <3>13, <4>1 DEF Last
        <5>2. Last(Front(q))[2] = Value(c, t)
          BY <5>1
        <5>3. QED
          BY <1>2, <4>2, <5>2
    <3>15. Idle(p)
      BY <1>6, <3>7, <3>9, <3>12, <3>13, <3>14 DEF Idle
    <3>16. QED
      BY <1>1, <3>15 DEF Covered
  <2>6. QED
    BY <2>4, <2>5
<1>16. QED
  BY <1>14, <1>15

(* What is in the section that ends is before its end.                     *)
LEMMA WithinSection ==
  ASSUME NEW code, IsCode(code), NEW c, NEW act \in Seq(Scoped), NEW x \in 1 .. Len(code),
         InFunction(code, c, act, x), code[x] = "end", NEW m, m = Len(Last(act).tracker),
         NEW k \in m .. Len(c.current), NEW y \in 1 .. Len(code), IsIn(code, SubSeq(c.current, 1, k), y)
  PROVE  y < x
<1> DEFINE t == c.current
           s == t[m]
<1>1. /\ m \in 2 .. Len(t) /\ code[s] = "section" /\ Scopes(code, x + 1) = Scopes(code, x) \ {s}
  BY LastIsInnermost
<1>2. Tree(code, c) /\ t # Root /\ Scopes(code, x) = SectionsOn(code, t)
  BY DEF InFunction, ActiveAround, FunctionAt
<1>3. Len(t) \in Nat /\ Len(t) > 0 /\ t \in Path
  BY <1>2, CurrentIs
<1>4. s \in SectionsOn(code, t)
  BY <1>1 DEF SectionsOn
<1>5. k \in 0 .. Len(t) /\ k \in Nat /\ m \in 2 .. k
  BY <1>1, <1>3
<1>6. s \in SectionsOn(code, SubSeq(t, 1, k))
  <2>1. Len(SubSeq(t, 1, k)) = k
    BY <1>3, <1>5, PathParts
  <2>2. SubSeq(t, 1, k)[m] = s
    <3>1. t \in Seq(Nat) /\ m \in 1 .. k
      BY <1>3, <1>5 DEF Path
    <3>2. QED
      BY <1>5, <3>1, FrontPart
  <2>3. QED
    BY <1>1, <1>5, <2>1, <2>2 DEF SectionsOn
<1>7. s \in Scopes(code, y)
  BY <1>6 DEF IsIn
<1> HIDE DEF s, t
<1>8. Len(code) \in Nat /\ x \in 1 .. Len(code) + 1 /\ x + 1 \in 1 .. Len(code) + 1 /\ y \in 1 .. Len(code) + 1
  BY SectionsNest
<1>9. s \in 1 .. Len(code) /\ s < x /\ x <= EndOf(code, s)
  BY <1>2, <1>4, <1>8, ScopesAre
<1>10. EndOf(code, s) \in Nat
  BY <1>1, <1>9, SectionsNest
<1>11. ~ (x + 1 <= EndOf(code, s))
  <2>1. s \notin Scopes(code, x + 1)
    BY <1>1
  <2>2. s < x + 1
    BY <1>8, <1>9
  <2>3. QED
    BY <1>1, <1>8, <1>9, <2>1, <2>2, ScopesAre
<1>12. y <= EndOf(code, s)
  BY <1>7, <1>8, ScopesAre
<1>13. y # x
  BY DEF IsIn
<1>14. QED
  BY <1>8, <1>9, <1>10, <1>11, <1>12, <1>13

LEMMA SectionEndedFollows ==
  ASSUME TypeOK, Tracking, Following, SectionEnded
  PROVE  Following'
<1>1. /\ At("end") /\ mode' = mode /\ UNCHANGED <<ran, left>> /\ pc' = pc + 1
      /\ ctx' = close(ctx, Last(active).tracker)
  BY DEF SectionEnded
<1>2. /\ mode = "function" /\ pc \in 1 .. Len(Code) /\ Code[pc] = "end"
      /\ IsCode(Code) /\ InFunction(Code, ctx, active, pc)
      /\ active \in Seq(Scoped) /\ UNCHANGED <<session, test>>
  BY <1>1, AtIs
<1>3. /\ Sound(ctx) /\ Tree(Code, ctx)
      /\ ComesBy(Code, ctx, pc) /\ LateOpened(Code, ctx, pc, ran)
  BY <1>2, FollowsAt
<1>4. session \in Sessions
  BY DEF TypeOK
<1>5. PICK c, act, x : c = ctx /\ act = active /\ x = pc
  OBVIOUS
<1>6. PICK m, d : m = Len(Last(act).tracker) /\ d = ctx'
  OBVIOUS
<1>7. /\ IsCode(Code) /\ InFunction(Code, c, act, x) /\ act \in Seq(Scoped) /\ x \in 1 .. Len(Code)
      /\ Code[x] = "end" /\ Sound(c) /\ Tree(Code, c) /\ ComesBy(Code, c, x) /\ LateOpened(Code, c, x, ran)
      /\ d = close(c, Last(act).tracker)
  BY <1>1, <1>2, <1>3, <1>5, <1>6
<1>8. /\ c.current # Root /\ c.current[Len(c.current)] < x
      /\ ~ c.completedCycle => DoneBefore(Code, c, Append(c.current, x))
  BY <1>7 DEF InFunction, ActiveAround, FunctionAt
<1>9. /\ Len(c.current) \in Nat /\ Len(c.current) > 0 /\ IsContext(c) /\ c.current \in Path
      /\ x \in Nat /\ Len(Code) \in Nat
  BY <1>7, <1>8, CurrentIs, SectionsNest
<1>10. /\ act # <<>> /\ m \in 2 .. Len(c.current)
  BY <1>6, <1>7, LastIsInnermost
<1>11. Last(act).tracker = SubSeq(c.current, 1, m)
  <2>1. PICK e : e.current = Parent(Last(act).tracker)
    <3>1. [current |-> Parent(Last(act).tracker)].current = Parent(Last(act).tracker)
      OBVIOUS
    <3>2. QED
      BY <3>1
  <2>2. ActiveAround(Code, c, act)
    BY <1>7 DEF InFunction
  <2>3. QED
    BY <1>6, <1>7, <1>10, <2>1, <2>2, ActiveLeaves
<1>12. \A k \in m .. Len(c.current) : \A y \in 1 .. Len(Code) :
         IsIn(Code, SubSeq(c.current, 1, k), y) => y < x
  BY <1>6, <1>7, WithinSection
<1>13. m \in 1 .. Len(c.current) /\ Len(c.current) \in m .. Len(c.current)
  BY <1>9, <1>10
<1>14. MayClose(c, m)
  <2>1. ASSUME NEW k \in m .. Len(c.current), NEW p \in ToRun(Code), Through(c, p, k), k < Len(p)
        PROVE  p[k + 1][1] < x
    <3>1. /\ \A i \in 2 .. Len(p) : p[i][1] \in 1 .. Len(Code)
          /\ \A i \in 1 .. Len(p) - 1 : NextIn(Code, Upto(p, i), p[i + 1][1])
          /\ Len(p) \in Nat
      BY <1>4, <1>7, SessionAsks
    <3>2. k \in 1 .. Len(p) - 1 /\ k + 1 \in 2 .. Len(p)
      BY <1>9, <1>10, <2>1, <3>1
    <3>3. p[k + 1][1] \in 1 .. Len(Code) /\ IsIn(Code, SubSeq(c.current, 1, k), p[k + 1][1])
      BY <2>1, <3>1, <3>2 DEF Through, NextIn
    <3>4. QED
      BY <1>12, <3>3
  <2>2. Due(c, m)
    BY <1>4, <1>7, <1>8, <1>13, <2>1, DueAtEnd
  <2>3. \A z \in 1 .. Len(Code) : IsIn(Code, c.current, z) => z < x
    <3>1. SubSeq(c.current, 1, Len(c.current)) = c.current
      BY <1>9, PathParts
    <3>2. QED
      BY <1>12, <1>13, <3>1
  <2>4. AtFirst(c)
    BY <1>4, <1>7, <1>8, <1>9, <2>3, FirstAtEnd
  <2>5. QED
    BY <2>2, <2>4 DEF MayClose
<1>15. ComesDown(c, d, m, m - 1)
  BY <1>4, <1>7, <1>11, <1>13, <1>14, CloseComesDown
<1>16. /\ Sound(d) /\ d.current = SubSeq(c.current, 1, m - 1)
       /\ \A u \in DOMAIN c.state : ~ IsStrictPrefix(SubSeq(c.current, 1, m), u) => u \in DOMAIN d.state
       /\ d.state[d.current] = "ExecutingChildren"
  <2>1. 0 < m - 1 /\ m - 1 < Len(c.current)
    BY <1>9, <1>10
  <2>2. QED
    BY <1>15, <2>1 DEF ComesDown
<1>17. Sound(ctx)'
  BY <1>1, <1>2, <1>6, <1>16, SoundStays
<1>18. LateOpened(Code, d, pc', ran')
  BY <1>16 DEF LateOpened
<1>19. ComesBy(Code, d, x + 1)
  <2>1. SUFFICES ASSUME NEW k \in 1 .. Len(d.current), NEW y \in 1 .. Len(Code),
                        NextIn(Code, SubSeq(d.current, 1, k), y), y < x + 1
                 PROVE  Append(SubSeq(d.current, 1, k), y) \in DOMAIN d.state
    BY DEF ComesBy
  <2>2. m - 1 \in 0 .. Len(c.current) /\ m \in 0 .. Len(c.current)
    BY <1>9, <1>10
  <2>3. Len(d.current) = m - 1 /\ \A j \in 0 .. m - 1 : SubSeq(d.current, 1, j) = SubSeq(c.current, 1, j)
    BY <1>9, <1>16, <2>2, PathParts
  <2>4. k \in 1 .. m - 1 /\ k \in 0 .. m - 1 /\ k \in 1 .. Len(c.current) /\ k \in 0 .. Len(c.current)
    BY <1>9, <1>10, <2>3
  <2>5. SubSeq(d.current, 1, k) = SubSeq(c.current, 1, k)
    BY <2>3, <2>4
  <2>6. y # x
    BY <1>7, <2>1 DEF NextIn, IsIn
  <2>7. y < x /\ y \in Nat
    BY <1>9, <2>1, <2>6
  <2>8. Append(SubSeq(c.current, 1, k), y) \in DOMAIN c.state
    BY <1>7, <2>1, <2>4, <2>5, <2>7 DEF ComesBy
  <2>9. PICK s, u : s = SubSeq(c.current, 1, m) /\ u = Append(SubSeq(c.current, 1, k), y)
    OBVIOUS
  <2>10. s \in Path /\ Len(s) = m /\ SubSeq(c.current, 1, k) \in Path /\ Len(SubSeq(c.current, 1, k)) = k
    BY <1>9, <2>2, <2>4, <2>9, PathParts
  <2>11. u \in Path /\ Len(u) = k + 1
    BY <2>7, <2>9, <2>10, PathGrows
  <2>12. ~ IsStrictPrefix(s, u)
    <3>1. SUFFICES ASSUME IsPrefix(s, u), s # u PROVE FALSE
      BY DEF IsStrictPrefix
    <3>2. m <= k + 1 /\ SubSeq(u, 1, m) = s
      BY <2>10, <2>11, <3>1, PrefixIs
    <3>3. m = k + 1
      BY <1>10, <2>4, <3>2
    <3>4. SubSeq(u, 1, m) = u
      BY <2>11, <3>3, PathParts
    <3>5. QED
      BY <3>1, <3>2, <3>4
  <2>13. QED
    BY <1>16, <2>5, <2>8, <2>9, <2>12
<1>20. QED
  BY <1>1, <1>2, <1>5, <1>6, <1>17, <1>18, <1>19, FollowsInFunction

(* What an exception leaves when it is thrown in no section: generators,   *)
(* each of them what comes next in the one around it.                      *)
LEMMA ThrownInNone ==
  ASSUME session \in Sessions, IsCode(Code), NEW c, Sound(c), c.current # Root,
         SectionsActive(Code, c, <<>>), Valued(c, c.current) \in left,
         NEW x \in Nat, Last(c.current) < x, ComesBy(Code, c, x)
  PROVE  MayClose(c, 1)
<1> DEFINE t == c.current
           n == Len(t)
<1>1. Tree(Code, c)
  BY DEF Sound
<1>2. /\ n \in Nat /\ n > 0 /\ t \in Path /\ IsContext(c)
      /\ \A i \in 1 .. n : t[i] \in Nat
      /\ \A i, j \in 1 .. n : i < j => t[i] < t[j]
      /\ \A k \in 1 .. n - 1 : IsIn(Code, SubSeq(t, 1, k), t[k + 1])
  BY <1>1, CurrentIs
<1>3. \A i \in 2 .. n : Code[t[i]] # "section"
  BY DEF SectionsActive
<1>4. ASSUME NEW p \in ToRun(Code), Through(c, p, n)
      PROVE  Covered(p)
  <2>1. p \in Choice /\ Len(p) \in Nat
    BY SessionAsks
  <2>2. n \in 0 .. Len(p) /\ Upto(p, n) = t /\ Agrees(c, p, n)
    <3>1. n \in 1 .. Len(p) /\ Upto(p, n) = SubSeq(t, 1, n) /\ Agrees(c, p, n)
      BY <1>4 DEF Through
    <3>2. SubSeq(t, 1, n) = t
      BY <1>2, PathParts
    <3>3. QED
      BY <3>1, <3>2
  <2>3. IsPrefix(Valued(c, t), p)
    BY <1>2, <2>1, <2>2, AgreesValued
  <2>4. QED
    BY <2>3 DEF Covered
<1>5. AtFirst(c)
  BY <1>4 DEF AtFirst
<1>6. ASSUME NEW k \in 1 .. n, NEW p \in ToRun(Code), Through(c, p, k), k < Len(p)
      PROVE  Covered(p) \/ p[k + 1][1] < x
  <2>1. CASE k = n
    BY <1>4, <1>6, <2>1
  <2>2. CASE k # n
    <3>1. /\ \A i \in 2 .. Len(p) : p[i][1] \in 1 .. Len(Code)
          /\ \A i \in 1 .. Len(p) - 1 : NextIn(Code, Upto(p, i), p[i + 1][1])
          /\ Len(p) \in Nat /\ Len(Code) \in Nat
      BY SessionAsks, SectionsNest
    <3>2. /\ k \in 1 .. Len(p) - 1 /\ k + 1 \in 2 .. Len(p) /\ k \in 1 .. n - 1
          /\ k + 1 \in 2 .. n /\ k + 1 \in 1 .. n /\ k \in 1 .. n /\ k < k + 1 /\ k \in 0 .. n /\ k > 0
      BY <1>2, <1>6, <2>2, <3>1
    <3>3. PICK y, z : y = p[k + 1][1] /\ z = t[k + 1]
      OBVIOUS
    <3>4. y \in 1 .. Len(Code) /\ NextIn(Code, SubSeq(t, 1, k), y)
      BY <1>6, <3>1, <3>2, <3>3 DEF Through
    <3>5. IsIn(Code, SubSeq(t, 1, k), z) /\ Code[z] = "generate"
      <4>1. IsIn(Code, SubSeq(t, 1, k), z) /\ Code[z] # "section"
        BY <1>2, <1>3, <3>2, <3>3
      <4>2. QED
        BY <4>1 DEF IsIn
    <3>6. Last(SubSeq(t, 1, k)) = t[k]
      <4>1. Len(SubSeq(t, 1, k)) = k
        BY <1>2, <3>2, PathParts
      <4>2. SubSeq(t, 1, k)[k] = t[k]
        <5>1. k \in 1 .. k
          BY <3>2
        <5>2. QED
          BY <1>2, <3>2, <5>1, PathAt
      <4>3. QED
        BY <4>1, <4>2 DEF Last
    <3>7. Last(SubSeq(t, 1, k)) < z /\ z \in Nat
      BY <1>2, <3>2, <3>3, <3>6
    <3>8. z \in 1 .. Len(Code)
      <4>1. SubSeq(t, 1, k + 1) \in DOMAIN c.state
        <5>1. k + 1 \in 0 .. n
          BY <3>2
        <5>2. QED
          BY <1>1, <5>1 DEF Tree, Ordered
      <4>2. Placed(Code, c, SubSeq(t, 1, k + 1))
        BY <1>1, <4>1 DEF Tree
      <4>3. Len(SubSeq(t, 1, k + 1)) = k + 1 /\ SubSeq(t, 1, k + 1)[k + 1] = z
        <5>1. k + 1 \in 0 .. n /\ k + 1 \in 1 .. k + 1
          BY <3>2
        <5>2. Len(SubSeq(t, 1, k + 1)) = k + 1 /\ SubSeq(t, 1, k + 1)[k + 1] = t[k + 1]
          BY <1>2, <5>1, PathParts, PathAt
        <5>3. QED
          BY <3>3, <5>2
      <4>4. QED
        BY <3>2, <4>2, <4>3 DEF Placed
    <3>9. ~ (z < y)
      BY <3>4, <3>5, <3>7, <3>8 DEF NextIn
    <3>10. Last(t) = t[n] /\ z <= t[n] /\ t[n] \in Nat
      <4>1. n \in 1 .. n
        BY <1>2
      <4>2. CASE k + 1 = n
        BY <1>2, <3>3, <4>1, <4>2 DEF Last
      <4>3. CASE k + 1 # n
        <5>1. k + 1 < n
          BY <1>2, <3>2, <4>3
        <5>2. t[k + 1] < t[n] /\ t[n] \in Nat
          BY <1>2, <3>2, <4>1, <5>1
        <5>3. QED
          BY <3>3, <3>7, <5>2 DEF Last
      <4>4. QED
        BY <4>2, <4>3
    <3>11. y < x
      BY <3>1, <3>4, <3>7, <3>9, <3>10
    <3>12. QED
      BY <3>3, <3>11
  <2>3. QED
    BY <2>1, <2>2
<1>7. 1 \in 1 .. n
  BY <1>2
<1>8. Due(c, 1)
  BY <1>6, <1>7, DueAtEnd
<1>9. QED
  BY <1>5, <1>8 DEF MayClose

(* The function is over, or an exception has left it.                      *)
LEMMA RunMayClose ==
  ASSUME TypeOK, Tracking, Following, RunEnded
  PROVE  Sound(ctx) /\ ctx.current # Root /\ MayClose(ctx, 1)
<1>1. session \in Sessions
  BY DEF TypeOK
<1>2. CASE mode = "function" /\ pc > Len(Code)
  <2>1. IsCode(Code) /\ Len(Code) \in Nat
    BY <1>2, CodeIs
  <2>2. InFunction(Code, ctx, active, pc)
    BY <1>2 DEF Tracking
  <2>3. Sound(ctx) /\ ComesBy(Code, ctx, pc) /\ LateOpened(Code, ctx, pc, ran)
    BY <1>2, FollowsAt
  <2>4. /\ ctx.current # Root /\ pc \in 1 .. Len(Code) + 1 /\ Tree(Code, ctx)
        /\ ~ ctx.completedCycle => DoneBefore(Code, ctx, Append(ctx.current, pc))
    BY <2>2 DEF InFunction, ActiveAround, FunctionAt
  <2>5. PICK c, x : c = ctx /\ x = pc
    OBVIOUS
  <2>6. /\ Sound(c) /\ ComesBy(Code, c, x) /\ LateOpened(Code, c, x, ran) /\ c.current # Root
        /\ ~ c.completedCycle => DoneBefore(Code, c, Append(c.current, x))
        /\ Tree(Code, c)
    BY <2>3, <2>4, <2>5
  <2>7. x \in Nat /\ \A y \in 1 .. Len(Code) : y < x
    BY <1>2, <2>1, <2>4, <2>5
  <2>8. 1 \in 1 .. Len(c.current) /\ Len(c.current) \in Nat
    <3>1. Len(c.current) \in Nat /\ Len(c.current) > 0
      BY <2>6, CurrentIs
    <3>2. QED
      BY <3>1
  <2>9. ASSUME NEW k \in 1 .. Len(c.current), NEW p \in ToRun(Code), Through(c, p, k), k < Len(p)
        PROVE  p[k + 1][1] < x
    <3>1. (\A i \in 2 .. Len(p) : p[i][1] \in 1 .. Len(Code)) /\ Len(p) \in Nat
      BY <1>1, <2>1, SessionAsks
    <3>2. k + 1 \in 2 .. Len(p)
      BY <2>8, <2>9, <3>1
    <3>3. QED
      BY <2>7, <3>1, <3>2
  <2>10. Due(c, 1)
    BY <1>1, <2>1, <2>6, <2>8, <2>9, DueAtEnd
  <2>11. AtFirst(c)
    BY <1>1, <2>1, <2>6, <2>7, FirstAtEnd
  <2>12. QED
    BY <2>5, <2>6, <2>10, <2>11 DEF MayClose
<1>3. CASE mode = "unwinding" /\ active = <<>>
  <2>1. IsCode(Code)
    BY <1>3, CodeIs
  <2>2. Tree(Code, ctx) /\ ctx.current # Root
    BY <1>3 DEF Tracking, ActiveAround
  <2>3. Sound(ctx) /\ SectionsActive(Code, ctx, <<>>)
    BY <1>3 DEF Following
  <2>4. CASE unfinished # <<>>
    BY <1>3, <2>2, <2>3, <2>4 DEF Following, MayClose
  <2>5. CASE unfinished = <<>>
    <3>1. ComesBy(Code, ctx, pc) /\ Last(ctx.current) < pc /\ Valued(ctx, ctx.current) \in left
      BY <1>3, <2>5 DEF Following, Entered, Here
    <3>2. pc \in Nat
      BY <1>3, <2>5 DEF Following
    <3>3. QED
      BY <1>1, <2>1, <2>2, <2>3, <3>1, <3>2, ThrownInNone
  <2>6. QED
    BY <2>4, <2>5
<1>4. QED
  BY <1>2, <1>3 DEF RunEnded

LEMMA RunEndedFollows ==
  ASSUME TypeOK, Tracking, Following, RunEnded
  PROVE  Following'
<1>1. /\ UNCHANGED <<session, test, ran, left>> /\ ctx' = close(ctx, TestCase)
      /\ mode' = IF isSuccessfullyCompleted(ctx', TestCase) \/ aborting' THEN "test_over" ELSE "cycle"
      /\ mode \notin {"group", "over"}
  BY DEF RunEnded
<1>2. session \in Sessions /\ IsCode(Code)
  BY <1>1, CodeIs DEF TypeOK
<1>3. Sound(ctx) /\ ctx.current # Root /\ MayClose(ctx, 1)
  BY RunMayClose
<1>4. PICK c, d : c = ctx /\ d = ctx'
  OBVIOUS
<1>5. Sound(c) /\ Tree(Code, c) /\ c.current # Root /\ MayClose(c, 1) /\ d = close(c, TestCase)
  BY <1>1, <1>3, <1>4 DEF Sound
<1>6. /\ Len(c.current) \in Nat /\ Len(c.current) > 0 /\ IsContext(c) /\ c.current \in Path
      /\ SubSeq(c.current, 1, 1) = TestCase
  BY <1>5, CurrentIs
<1>7. 1 \in 1 .. Len(c.current) /\ 1 \in 0 .. Len(c.current) /\ 0 \in 0 .. Len(c.current)
  BY <1>6
<1>8. ComesDown(c, d, 1, 0)
  <2>1. ComesDown(c, close(c, SubSeq(c.current, 1, 1)), 1, 1 - 1)
    BY <1>2, <1>5, <1>7, CloseComesDown
  <2>2. 1 - 1 = 0
    OBVIOUS
  <2>3. QED
    BY <1>5, <1>6, <2>1, <2>2
<1>9. Sound(d) /\ d.current = Root /\ TestCase \in DOMAIN d.state
  <2>1. SubSeq(c.current, 1, 0) = Root
    BY <1>6, <1>7, PathParts, RootIs
  <2>2. TestCase \in DOMAIN c.state
    BY <1>5, <1>6, <1>7 DEF Tree, Ordered
  <2>3. ~ IsStrictPrefix(TestCase, TestCase)
    BY DEF IsStrictPrefix
  <2>4. QED
    BY <1>6, <1>8, <2>1, <2>2, <2>3 DEF ComesDown
<1>10. Sound(ctx)'
  BY <1>1, <1>4, <1>9, SoundStays
<1>11. NoneForgotten'
  <2>1. SUFFICES ASSUME mode' = "test_over", ~ aborting', NEW p \in ToRun(Code)'
                 PROVE  (p \in ran \/ (\E t \in left : IsPrefix(t, p)) \/ Idle(p))'
    BY DEF NoneForgotten
  <2>2. p \in ToRun(Code)
    BY <1>1, <2>1, ToRunStays
  <2>3. d.state[TestCase] = "CompletedSuccessfully"
    BY <1>1, <1>4, <2>1 DEF isSuccessfullyCompleted
  <2>4. p \in Choice /\ Len(p) \in Nat /\ Len(p) >= 2 /\ p[1][1] = 0 /\ p[1][2] = 0
    BY <1>2, <2>2, SessionAsks
  <2>5. 1 \in 1 .. Len(p) /\ 1 \in 0 .. Len(p)
    BY <2>4
  <2>6. Upto(p, 1) = TestCase
    <3>1. Upto(p, 1) \in Path /\ Len(Upto(p, 1)) = 1 /\ \A j \in 1 .. 1 : Upto(p, 1)[j] = p[j][1]
      BY <2>4, <2>5, ChoiceIs
    <3>2. Upto(p, 1)[1] = 0
      BY <2>4, <3>1
    <3>3. QED
      BY <3>1, <3>2 DEF Path, TestCase
  <2>7. TestCase \notin DOMAIN d.generator
    <3>1. Placed(Code, d, TestCase)
      BY <1>9 DEF Sound, Tree
    <3>2. Len(TestCase) < 2
      BY DEF TestCase
    <3>3. QED
      BY <3>1, <3>2 DEF Placed
  <2>8. Agrees(d, p, 1)
    BY <2>4, <2>6, <2>7 DEF Agrees, Value, isGeneratorTracker
  <2>9. Passed(d, p, 1)
    BY <1>9, <2>3, <2>6, <2>7, <2>8 DEF Passed, Completed
  <2>10. Covered(p)
    BY <1>9, <2>2, <2>5, <2>9 DEF Sound, NoneLost, Behind
  <2>11. Covered(p)'
    BY <1>1, <2>10, CoversMore
  <2>12. QED
    BY <2>11 DEF Covered
<1>12. mode' \in {"cycle", "test_over"} /\ ctx'.current = Root
  BY <1>1, <1>4, <1>9
<1>13. QED
  BY <1>10, <1>11, <1>12 DEF Following, Entered

(* A test case begins.                                                     *)
LEMMA RunTestFollows ==
  ASSUME TypeOK, Tracking, Following, RunTest
  PROVE  Following'
<1>1. /\ mode' = "cycle" /\ ctx' = startRun(session.sections) /\ UNCHANGED session
      /\ ran' = {} /\ left' = {}
  BY DEF RunTest
<1>2. PICK c, code : c = ctx' /\ code = Code'
  OBVIOUS
<1>3. Tree(code, c) /\ c.current = Root
  BY <1>1, <1>2, RunStarts
<1>4. /\ DOMAIN c.state = {Root} /\ c.state[Root] = "NotStarted" /\ DOMAIN c.generator = {}
      /\ c.filters = session.sections
  BY <1>1, <1>2 DEF startRun
<1>5. Len(Root) = 0
  BY DEF Root
<1>6. Values(c) /\ StartsFirst(c) /\ AroundWaits(c) /\ LeavesRun(code, c)
  BY <1>3, <1>4, <1>5 DEF Values, StartsFirst, AroundWaits, LeavesRun
<1>7. CurrentRan(c)' /\ RanBegun(c)'
  BY <1>1, <1>3, <1>5 DEF CurrentRan, RanBegun
<1>8. ASSUME NEW p PROVE ~ Behind(c, p)
  BY <1>4 DEF Behind, Moved, Passed, Completed
<1>9. Values(c)'
  BY <1>1, <1>4 DEF Values
<1>10. NoneLost(c)'
  BY <1>8 DEF NoneLost
<1>11. Sound(ctx)'
  <2>1. Tree(Code, ctx)' /\ ctx'.filters = session'.sections
    BY <1>1, <1>2, <1>3, <1>4
  <2>2. Values(ctx)' /\ StartsFirst(ctx)' /\ LeavesRun(Code, ctx)' /\ AroundWaits(ctx)'
    BY <1>2, <1>6, <1>9
  <2>3. RanBegun(ctx)' /\ CurrentRan(ctx)' /\ NoneLost(ctx)'
    BY <1>2, <1>7, <1>10
  <2>4. QED
    BY <2>1, <2>2, <2>3 DEF Sound
<1>12. QED
  BY <1>1, <1>2, <1>3, <1>11 DEF Following, Entered, NoneForgotten

LEMMA FollowingStep ==
  ASSUME TypeOK, Tracking, Following, [Next]_vars
  PROVE  Following'
<1>1. CASE RunTest
  BY <1>1, RunTestFollows
<1>2. CASE SkipTests
  BY <1>2 DEF SkipTests, Following, Entered, NoneForgotten
<1>3. CASE StartCycle
  BY <1>3, StartCycleFollows
<1>4. CASE SectionStarted
  BY <1>4, SectionStartedFollows
<1>5. CASE SectionEnded
  BY <1>5, SectionEndedFollows
<1>6. CASE Generate
  BY <1>6, GenerateFollows
<1>7. ASSUME NEW counted \in BOOLEAN, AssertionPasses(counted)
      PROVE  Following'
  <2>1. At("check") /\ pc' = pc + 1 /\ mode' = mode /\ UNCHANGED <<ctx, ran, left>>
    BY <1>7 DEF AssertionPasses
  <2>2. mode' = "function"
    BY <2>1 DEF At
  <2>3. QED
    BY <2>1, <2>2, CheckFollows
<1>8. ASSUME NEW required \in BOOLEAN, AssertionFails(required)
      PROVE  Following'
  <2>1. /\ At("check") /\ UNCHANGED <<ctx, active, unfinished, ran>>
        /\ \/ Throws("TestFailureException")
           \/ pc' = pc + 1 /\ UNCHANGED <<mode, exception, left>>
    BY <1>8 DEF AssertionFails
  <2>2. CASE Throws("TestFailureException")
    BY <2>1, <2>2, ThrowsFollows
  <2>3. CASE pc' = pc + 1 /\ UNCHANGED <<mode, exception, left>>
    <3>1. mode' = "function"
      BY <2>1, <2>3 DEF At
    <3>2. QED
      BY <2>1, <2>3, <3>1, CheckFollows
  <2>4. QED
    BY <2>1, <2>2, <2>3
<1>9. CASE CodeThrows
  <2>1. At("check") /\ Throws("unexpected") /\ UNCHANGED <<ctx, active, unfinished, ran>>
    BY <1>9 DEF CodeThrows
  <2>2. QED
    BY <2>1, ThrowsFollows
<1>10. CASE SectionEndedEarly
  BY <1>10, SectionEndedEarlyFollows
<1>11. CASE RunEnded
  BY <1>11, RunEndedFollows
<1>12. CASE TestCaseEnded \/ SessionEnds \/ FatalErrorCondition
  BY <1>12 DEF TestCaseEnded, SessionEnds, FatalErrorCondition, Following, Entered, NoneForgotten
<1>13. CASE UNCHANGED vars
  <2>1. /\ UNCHANGED <<session, test, ran, left>>
        /\ UNCHANGED <<mode, ctx, pc, active, unfinished, totals>>
    BY <1>13 DEF vars
  <2>2. Code' = Code
    BY <2>1, ToRunStays
  <2>3. Sound(ctx)' <=> Sound(ctx)
    BY <2>1, <2>2 DEF Sound, Values, RanBegun, CurrentRan, NoneLost, Covered, Idle, Exhausted, ToRun
  <2>4. ComesBy(Code, ctx, pc)' = ComesBy(Code, ctx, pc)
        /\ LateOpened(Code, ctx, pc, ran)' = LateOpened(Code, ctx, pc, ran)
        /\ SectionsActive(Code, ctx, active)' = SectionsActive(Code, ctx, active)
    BY <2>1, <2>2
  <2>5. Held(ctx)' = Held(ctx) /\ Valued(ctx, Here)' = Valued(ctx, Here)
    BY <2>1 DEF Here
  <2>6. NoneForgotten' = NoneForgotten
    BY <2>1, <2>2 DEF NoneForgotten, aborting, ToRun, Idle, Exhausted
  <2>7. QED
    BY <2>1, <2>3, <2>4, <2>5, <2>6 DEF Following, Entered
<1>14. QED
  BY <1>1, <1>2, <1>3, <1>4, <1>5, <1>6, <1>7, <1>8, <1>9, <1>10, <1>11, <1>12, <1>13 DEF Next, Goes

LEMMA InitFollows ==
  ASSUME Init
  PROVE  Following
BY DEF Init, Following, Entered, NoneForgotten

(***************************************************************************)
(* When a test case is over, each of its innermost sections and generators *)
(* has been run with each choice of the values around it, unless the code  *)
(* around it threw, the session is aborting, or the choice is one of a     *)
(* generator that was read when it had no value left: the trackers that    *)
(* are complete are those of what was run, for any nesting of sections and *)
(* generators, any failures and any --section.                             *)
(***************************************************************************)
THEOREM NothingForgotten == Spec => []NoneForgotten
<1>1. Init => Following
  BY InitFollows
<1>2. IInv /\ Following /\ [Next]_vars => Following'
  BY FollowingStep DEF IInv
<1>3. Following => NoneForgotten
  BY DEF Following
<1>4. QED
  BY <1>1, <1>2, <1>3, Invariance, PTL DEF Spec

(* An innermost section that is entered has not been run with the values   *)
(* of the generators around it.                                            *)
LEMMA EntersNew ==
  ASSUME TypeOK, Tracking, Following, SectionStarted, Leaf(Code, pc),
         isOpen(ctx', Append(ctx.current, pc))
  PROVE  Valued(ctx', Append(ctx.current, pc)) \notin ran
<1>1. At("section")
  BY DEF SectionStarted
<1>2. /\ mode = "function" /\ pc \in 1 .. Len(Code) /\ Code[pc] = "section"
      /\ IsCode(Code) /\ InFunction(Code, ctx, active, pc) /\ active \in Seq(Scoped)
  BY <1>1, AtIs
<1>3. Sound(ctx) /\ AroundWaits(ctx) /\ Tree(Code, ctx)
  BY <1>2, FollowsAt
<1>4. session.values \in Nat
  BY SessionIs DEF TypeOK
<1>5. PICK c, x, t, d : /\ c = ctx /\ x = pc /\ t = Append(ctx.current, pc)
                        /\ d = ctx' /\ d = acquireSection(ctx, pc)
  BY DEF SectionStarted
<1>6. Gets(c, d, t) /\ Opens(c, d, t)
  BY <1>2, <1>3, <1>4, <1>5, SectionGets
<1>7. LeavesRun(Code, c) /\ RanBegun(c) /\ Tree(Code, c) /\ c.current # Root
  BY <1>2, <1>3, <1>5 DEF Sound, InFunction, ActiveAround
<1>8. /\ c.current \in Path /\ Len(c.current) \in Nat /\ Len(c.current) > 0 /\ x \in Nat /\ t = Append(c.current, x)
  BY <1>2, <1>5, <1>7, CurrentIs, SectionsNest
<1>9. t \in Path /\ Len(t) = Len(c.current) + 1 /\ Last(t) = x
  <2>1. t \in Path /\ Len(t) = Len(c.current) + 1 /\ t[Len(c.current) + 1] = x
    BY <1>8, GrownPath
  <2>2. QED
    BY <2>1 DEF Last
<1>10. LeafSection(Code, t)
  BY <1>2, <1>5, <1>8, <1>9 DEF LeafSection
<1>11. SUFFICES ASSUME NEW q, q = Valued(d, t), q \in ran PROVE FALSE
  BY <1>5
<1>12. /\ IsContext(d) /\ IsContext(c) /\ DOMAIN c.generator \subseteq DOMAIN c.state
       /\ \A u \in DOMAIN c.state : Value(d, u) = Value(c, u)
  BY <1>6, GetsIs
<1>13. /\ Len(q) = Len(t) /\ PathOf(q) = t
       /\ \A i \in 0 .. Len(t) : Upto(q, i) = SubSeq(t, 1, i)
       /\ \A i \in 1 .. Len(t) : q[i] = <<t[i], Value(d, SubSeq(t, 1, i))>>
  BY <1>9, <1>11, <1>12, ValuedIs
<1>14. Begun(c, q)
  BY <1>7, <1>10, <1>11, <1>13 DEF RanBegun
<1>15. ASSUME NEW i \in 1 .. Len(q), Moved(c, q, i) PROVE FALSE
  <2>1. PICK u : u = SubSeq(t, 1, i)
    OBVIOUS
  <2>2. i \in 1 .. Len(t) /\ i \in 0 .. Len(t)
    BY <1>8, <1>9, <1>13
  <2>3. Upto(q, i) = u /\ q[i][2] = Value(d, u)
    BY <1>13, <2>1, <2>2
  <2>4. u \in DOMAIN c.generator /\ c.generator[u].at > q[i][2]
    BY <1>15, <2>3 DEF Moved
  <2>5. Value(d, u) = c.generator[u].at /\ c.generator[u].at \in Nat
    BY <1>12, <2>4 DEF Value, isGeneratorTracker, IsContext
  <2>6. QED
    BY <2>3, <2>4, <2>5
<1>16. ASSUME Started(c, t) PROVE FALSE
  <2>1. t \in DOMAIN c.state /\ c.state[t] # "NotStarted" /\ c.state[t] \notin Completed
    BY <1>6, <1>16 DEF Started, Opens
  <2>2. IsPrefix(t, c.current)
    BY <1>7, <1>10, <2>1 DEF LeavesRun, Completed
  <2>3. Len(t) <= Len(c.current)
    BY <1>8, <1>9, <2>2, PrefixIs
  <2>4. QED
    BY <1>8, <1>9, <2>3
<1>17. QED
  BY <1>13, <1>14, <1>15, <1>16 DEF Begun

(***************************************************************************)
(* An innermost section is not entered a second time with the same values, *)
(* however the cycles before have ended: what was run remains begun, since *)
(* its tracker is only forgotten when a generator around it goes on.       *)
(***************************************************************************)
THEOREM NothingRunsTwice == Spec => NoneTwice
<1>1. ASSUME IInv, Following, [Next]_vars, Len(active') > Len(active), Leaf(Code, pc)
      PROVE  ran' # ran
  <2>1. TypeOK /\ Tracking
    BY <1>1 DEF IInv
  <2>2. active \in Seq(Scoped) /\ Len(active) \in Nat
    BY <2>1 DEF Tracking
  <2>3. active' # active
    BY <1>1, <2>2
  <2>4. ASSUME active # <<>>, active' = Front(active) PROVE FALSE
    BY <1>1, <2>2, <2>4, LastAndFront
  <2>5. ~ SectionEnded
    BY <2>1, <2>4, SectionEndedTracks DEF SectionEnded
  <2>6. ~ SectionEndedEarly
    BY <2>4 DEF SectionEndedEarly
  <2>7. SectionStarted
    BY <1>1, <2>3, <2>5, <2>6
       DEF Next, Goes, RunTest, SkipTests, StartCycle, Generate, AssertionPasses, AssertionFails,
           CodeThrows, RunEnded, TestCaseEnded, SessionEnds, FatalErrorCondition, vars
  <2>8. PICK t, d : t = Append(ctx.current, pc) /\ d = ctx'
    OBVIOUS
  <2>9. isOpen(d, t) /\ ran' = ran \cup {Valued(d, t)}
    BY <2>3, <2>7, <2>8 DEF SectionStarted
  <2>10. Valued(d, t) \notin ran
    BY <1>1, <2>1, <2>7, <2>8, <2>9, EntersNew
  <2>11. QED
    BY <2>9, <2>10
<1>2. Init => Following
  BY InitFollows
<1>3. IInv /\ Following /\ [Next]_vars => Following'
  BY FollowingStep DEF IInv
<1>4. IInv /\ Following /\ [Next]_vars
        => [Len(active') > Len(active) /\ Leaf(Code, pc) => ran' # ran]_vars
  BY <1>1
<1>5. QED
  BY <1>2, <1>3, <1>4, Invariance, PTL DEF Spec, NoneTwice
=============================================================================
