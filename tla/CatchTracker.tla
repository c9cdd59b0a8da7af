---------------------------- MODULE CatchTracker ----------------------------
(***************************************************************************)
(* The trackers by which Catch decides which sections of a test case, and  *)
(* which values of its generators, the next run of the test function takes *)
(* (lib/catch, namespaces TestCaseTracking and Generators).                *)
(*                                                                         *)
(* A tracker is named by its path from the root: the places of the test    *)
(* function, a SECTION or a GENERATE each, that were current when it was   *)
(* made.  A context c is the record of a TrackerContext and its trackers.  *)
(***************************************************************************)
EXTENDS Naturals, FiniteSets, Sequences, SequencesExt

CycleState == {"NotStarted", "Executing", "ExecutingChildren", "NeedsAnotherRun",
               "CompletedSuccessfully", "Failed"}

Root == <<>>

Parent(t) == Front(t)

isGeneratorTracker(c, t) == t \in DOMAIN c.generator

Children(c, t) == {u \in DOMAIN c.state : u # Root /\ Parent(u) = t}

(* The filters of a section: those of the section around it but the first. *)
Filters(c, t) ==
  LET all   == IF c.filters = <<>> THEN <<>> ELSE <<"root", "test_case">> \o c.filters
      depth == Cardinality({i \in 1 .. Len(t) : ~ isGeneratorTracker(c, SubSeq(t, 1, i))})
  IN  SubSeq(all, depth + 1, Len(all))

FilteredOut(c, t) ==
  /\ ~ isGeneratorTracker(c, t)
  /\ Len(t) > 1
  /\ Filters(c, t) # <<>>
  /\ Last(t) \notin ToSet(Filters(c, t))

isSuccessfullyCompleted(c, t) == c.state[t] = "CompletedSuccessfully"

(* Faulty variant of the next definition: what failed may be tried again.  *)
IsSuccess(c, t) == FilteredOut(c, t) \/ isSuccessfullyCompleted(c, t)

isComplete(c, t) ==
  FilteredOut(c, t) \/ c.state[t] \in {"CompletedSuccessfully", "Failed"}

isOpen(c, t) == c.state[t] # "NotStarted" /\ ~ isComplete(c, t)

-----------------------------------------------------------------------------
startRun(filters) ==
  [state |-> [t \in {Root} |-> "NotStarted"], generator |-> <<>>, filters |-> filters,
   current |-> Root, completedCycle |-> FALSE]

startCycle(c) == [c EXCEPT !.current = Root, !.completedCycle = FALSE]

(* findChild, or else addChild.                                            *)
With(f, t, value) == [u \in DOMAIN f \cup {t} |-> IF u = t THEN value ELSE f[u]]

Added(c, t) ==
  IF t \in DOMAIN c.state THEN c ELSE [c EXCEPT !.state = With(@, t, "NotStarted")]

(* open(): t executes, and so do the children of every ancestor, up to the *)
(* first that knows.                                                       *)
open(c, t) ==
  LET tellsOf(u) == \A v \in DOMAIN c.state :
        IsStrictPrefix(v, t) /\ IsPrefix(u, v) => c.state[v] # "ExecutingChildren"
  IN  [c EXCEPT !.current = t,
                !.state = [u \in DOMAIN @ |->
                  CASE u = t -> "Executing"
                    [] IsStrictPrefix(u, t) /\ tellsOf(u) -> "ExecutingChildren"
                    [] OTHER -> @[u]]]

(* SectionTracker::acquire: a section is opened once in a cycle at most,   *)
(* counting the sections around it as one.                                 *)
acquireSection(c, place) ==
  LET t == Append(c.current, place)
      d == Added(c, t)
  IN  IF ~ d.completedCycle /\ ~ isComplete(d, t) THEN open(d, t) ELSE d

(* GeneratorTracker::acquire, and generate()'s setGenerator: a new tracker *)
(* starts with the first of size values.                                   *)
GeneratorAt(c, place) ==
  IF c.current # Root /\ Last(c.current) = place THEN c.current ELSE Append(c.current, place)

acquireGenerator(c, place, size) ==
  LET t == GeneratorAt(c, place)
      d == IF t \in DOMAIN c.state THEN c
           ELSE [Added(c, t) EXCEPT !.generator = With(@, t, [at |-> 1, size |-> size])]
  IN  IF isComplete(d, t) THEN d ELSE open(d, t)

-----------------------------------------------------------------------------
(* Faulty variant of the next definition: a generator goes on at once.     *)
NeverWaits(c, t) == FALSE

(* A generator followed by a section waits until one has been started.     *)
should_wait_for_child(c, t) ==
  /\ Children(c, t) # {}
  /\ \A u \in Children(c, t) : c.state[u] = "NotStarted"

(* m_children.clear(): what is below t is forgotten.                       *)
Cleared(c, t) ==
  LET kept(f) == [u \in {v \in DOMAIN f : ~ IsStrictPrefix(t, v)} |-> f[u]]
  IN  [c EXCEPT !.state = kept(@), !.generator = kept(@)]

(* TrackerBase::close where t is current, then moveToParent.               *)
ClosedState(c, t) ==
  CASE c.state[t] = "Executing" -> "CompletedSuccessfully"
    [] c.state[t] = "ExecutingChildren" ->
         IF \A u \in Children(c, t) : isComplete(c, u)
         THEN "CompletedSuccessfully" ELSE "ExecutingChildren"
    [] c.state[t] = "NeedsAnotherRun" -> "NeedsAnotherRun"
    [] OTHER -> "Illogical"

Closed(c, t) ==
  [c EXCEPT !.state[t] = ClosedState(c, t), !.current = Parent(t), !.completedCycle = TRUE]

(* GeneratorTracker::close goes on to the next value, if there is one.     *)
(* Like any generator, it has no value any more once next() is false.      *)
NextValue(c, t) ==
  LET moved == [c EXCEPT !.generator[t].at = @ + 1]
  IN  CASE should_wait_for_child(c, t) -> [Cleared(c, t) EXCEPT !.state[t] = "Executing"]
        [] ~ should_wait_for_child(c, t) /\ isSuccessfullyCompleted(c, t) ->
             IF c.generator[t].at < c.generator[t].size
             THEN [Cleared(moved, t) EXCEPT !.state[t] = "Executing"] ELSE moved
        [] OTHER -> c

closeCurrent(c, t) ==
  IF isGeneratorTracker(c, t) THEN NextValue(Closed(c, t), t) ELSE Closed(c, t)

(* Faulty variant of the next definition: only t is closed.                *)
ClosesOne(c, t) == closeCurrent(c, t)

(* close(): what is current, a generator opened below t, is closed until t *)
(* has been.  (A set of one context makes TLC evaluate it once.)           *)
closeNext(c) == CHOOSE e \in {closeCurrent(d, d.current) : d \in {c}} : TRUE

close(c, t) ==
  IF IsPrefix(t, c.current)
  THEN LET n == Len(c.current) - Len(t) + 1
           closed[i \in 0 .. n] == IF i = 0 THEN c ELSE closeNext(closed[i - 1])
       IN  closed[n]
  ELSE [c EXCEPT !.state[t] = "Illogical"]

(* Faulty variant of the next definition: t stays current.                 *)
FailsInPlace(c, t) ==
  [c EXCEPT !.state[t] = "Failed", !.state[Parent(t)] = "NeedsAnotherRun",
            !.completedCycle = TRUE]

(* fail(): t is not tried again, and what is around it is.                 *)
fail(c, t) ==
  [c EXCEPT !.state[t] = "Failed", !.state[Parent(t)] = "NeedsAnotherRun",
            !.current = Parent(t), !.completedCycle = TRUE]
=============================================================================
